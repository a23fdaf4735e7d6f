------------------------- MODULE NodeRuntime_proofs -------------------------
(***************************************************************************)
(* Proofs about NodeRuntime and the child processes on top of it, for any  *)
(* calls, children, streams, timeouts, limits and any number of timer ids  *)
(* that suffices.                                                          *)
(***************************************************************************)
EXTENDS ChildProcess, Scheduler_proofs

-----------------------------------------------------------------------------
(* NodeRuntime: the inductive invariant                                      *)

Completion(n, c, o) == [seq |-> n, kind |-> "hostcall", call |-> c, outcome |-> o]

Errors   == {Failed("io"), Failed("timeout"), Failed("overloaded")}
ChunkOutcomes   == {Chunk(n, final) : n \in 0..MaxChunks, final \in BOOLEAN}
              \union {Sentinel(n) : n \in 0..(MaxChunks + 1)}
AllOutcomes == {Ok} \union Errors \union ChunkOutcomes
Partial(o)  == o.type = "chunk" /\ ~o.final

(* The last chunk of a call with a promise is empty.                             *)
Fits(c, o) == c \in Chunked /\ o.type = "chunk" /\ o.final => o.null = TRUE

CallTasks ==
  {t \in {Completion(n, c, o) : n \in Nat, c \in Calls, o \in AllOutcomes} : Fits(t.call, t.outcome)}
RtTasks == TimerTasks \union CallTasks

Items == [item : {"chunk", "end", "error"}, seq : Int]
StreamRec == [buffer : Seq(Items), waiting : BOOLEAN, done : BOOLEAN, closed : BOOLEAN,
              stall : TimerIds \union {0}]
NoOwner == {"none", "user"}

Runtimes ==
  [scheduler : Schedulers(RtTasks), pending : SUBSET Calls, cancelled : SUBSET Calls,
   callTimer : [Calls -> TimerIds \union {0}], timerCall : [TimerIds -> Calls \union {NoCall}],
   streamSeq : [Calls -> -1..MaxChunks], queue : Seq(Calls), listening : SUBSET Calls,
   lastSeq : [Calls -> -1..(MaxChunks + 1)], streams : [Calls -> StreamRec],
   callbacks : [TimerIds -> Calls \union NoOwner]]

(* Ids are given out in ascending order, and a timer that has fired is not set.     *)
Fresh(s) ==
  /\ \A id \in s.ids \union FiredIn(s) : id < s.nextId
  /\ s.ids \cap FiredIn(s) = {}

(* TrackerAgrees, TimersHaveOwners of any runtime; of `lost` timers it is not       *)
(* asked that they are set.                                                    *)
Timed(r) ==
  /\ \A c \in Calls : r.callTimer[c] # 0 => r.timerCall[r.callTimer[c]] = c
  /\ \A t \in TimerIds : r.timerCall[t] # NoCall =>
       /\ r.callTimer[r.timerCall[t]] = t
       /\ IsActive(r, r.timerCall[t])
  /\ r.cancelled \subseteq r.pending

Has(r, id) == r.timerCall[id] # NoCall \/ r.callbacks[id] # "none"

Owners(r, lost) ==
  /\ \A id \in TimerIds \ lost : Has(r, id) => id \in LiveIn(r.scheduler) \union FiredIn(r.scheduler)
  /\ \A id \in LiveIn(r.scheduler) : Has(r, id)
  /\ \A id \in TimerIds : r.timerCall[id] = NoCall \/ r.callbacks[id] = "none"

(* A stream's stall timer is the one whose callback is the stream's.               *)
Stalls(r) ==
  /\ \A c \in Calls : r.streams[c].stall # 0 => r.callbacks[r.streams[c].stall] = c
  /\ \A t \in TimerIds : r.callbacks[t] \in Calls => r.streams[r.callbacks[t]].stall = t

(* A cancelled call, but those in `ended`, has its end before it.                  *)
EndComes(s, c) ==
  \E i \in 1..Len(s.tasks) : \E o \in AllOutcomes :
     s.tasks[i] = Completion(s.tasks[i].seq, c, o) /\ ~Partial(o)

Ends(r, ended) == \A c \in r.cancelled \ ended : EndComes(r.scheduler, c)

(* Whatever waits and may time out has its timer.                                *)
Deadlines(r) ==
  HostcallTimeout > 0 => \A c \in (r.pending \ r.cancelled) \ Exits : r.callTimer[c] # 0

RtInv(r, lost, ended) ==
  /\ r \in Runtimes /\ Len(r.queue) <= QueueLimit
  /\ Sched(r.scheduler, RtTasks) /\ Fresh(r.scheduler)
  /\ Timed(r) /\ Owners(r, lost) /\ Stalls(r) /\ Ends(r, ended) /\ Deadlines(r)

(* What the host has of a call: a call that is queued was sent, one that is         *)
(* tracked or listened for was made, and chunks are counted.                     *)
HostRec == [state : {"new", "sent", "dispatched", "answered"}, chunks : Nat]

HostInv ==
  /\ host \in [Calls -> HostRec]
  /\ \A c \in Streams : host[c].state # "answered" => host[c].chunks <= MaxChunks
  /\ \A i \in 1..Len(rt.queue) : host[rt.queue[i]].state = "sent"
  /\ \A c \in rt.pending \union rt.listening : Made(c)
  /\ rt.listening \cap Exits = {}
  /\ ListenersAreTracked

NodeInv ==
  /\ RtInv(rt, {}, {})
  /\ HostInv
  /\ now \in 0..MaxTime
  /\ result \in [Calls -> {"open", "resolved", "rejected"}]

(* Ids are not used up: there are 2^64 of them.  When they start over, a timer    *)
(* may get the id of one that has fired and whose task still waits.            *)
IdsSuffice == rt.scheduler.nextId < MaxTimerId

-----------------------------------------------------------------------------
(* NodeRuntime: its scheduler                                                *)

(* The two kinds of task, and what they carry.                                 *)
LEMMA TaskFacts ==
  /\ \A n, id : TimerTask(n, id).kind = "timer" /\ TimerTask(n, id).id = id /\ TimerTask(n, id).seq = n
  /\ \A n, c, o : Completion(n, c, o).kind = "hostcall" /\ Completion(n, c, o).seq = n
                  /\ Completion(n, c, o).call = c /\ Completion(n, c, o).outcome = o
  BY DEF TimerTask, Completion

(* Every fired timer is a task of the runtime.                                 *)
LEMMA RtTasksHaveTimers == HasTimers(RtTasks)
  BY TaskFacts DEF HasTimers, RtTasks, TimerTasks, CallTasks

(* What has fired is a task of a timer.                                        *)
HasFired(s, id) == \E i \in 1..Len(s.tasks) : s.tasks[i] = TimerTask(s.tasks[i].seq, id)

(* A timer has fired when a task for it waits.                                 *)
LEMMA FiredTasks ==
  ASSUME NEW s, Sched(s, RtTasks), NEW id
  PROVE  id \in FiredIn(s) <=> HasFired(s, id)
<1>1. s.tasks \in Seq(RtTasks)
  BY DEF Sched, Schedulers
<1>2. DOMAIN s.tasks = 1..Len(s.tasks) /\ \A i \in 1..Len(s.tasks) : s.tasks[i] \in RtTasks
  BY <1>1
<1>3. ASSUME NEW i \in 1..Len(s.tasks), s.tasks[i].kind = "timer"
      PROVE  s.tasks[i] = TimerTask(s.tasks[i].seq, s.tasks[i].id)
  BY <1>2, <1>3, TaskFacts DEF RtTasks, TimerTasks, CallTasks
<1>4. ASSUME id \in FiredIn(s) PROVE HasFired(s, id)
  <2>1. PICK i \in 1..Len(s.tasks) : s.tasks[i].kind = "timer" /\ s.tasks[i].id = id
    BY <1>2, <1>4 DEF FiredIn, Range
  <2> QED
    BY <1>3, <2>1 DEF HasFired
<1>5. ASSUME HasFired(s, id) PROVE id \in FiredIn(s)
  <2>1. PICK i \in 1..Len(s.tasks) : s.tasks[i] = TimerTask(s.tasks[i].seq, id)
    BY <1>5 DEF HasFired
  <2>2. s.tasks[i].kind = "timer" /\ s.tasks[i].id = id
    BY <2>1, TaskFacts
  <2> QED
    BY <1>2, <2>2 DEF FiredIn, Range
<1> QED
  BY <1>4, <1>5

(* Before the ids are used up a timer gets one that nothing alive or waiting has. *)
LEMMA RtSet ==
  ASSUME NEW s, Sched(s, RtTasks), Fresh(s), s.nextId < MaxTimerId,
         NEW clock \in Int, NEW delay \in Int,
         NEW t, t = SetTimeout(s, clock, delay), NEW id, id = NewTimerId(s)
  PROVE  /\ Sched(t, RtTasks) /\ Fresh(t)
         /\ id \in TimerIds /\ id \notin LiveIn(s) /\ id \notin FiredIn(s)
         /\ LiveIn(t) = LiveIn(s) \union {id} /\ FiredIn(t) = FiredIn(s)
         /\ t.tasks = s.tasks
<1>1. \A x \in s.ids : x < s.nextId
  BY DEF Fresh
<1>2. id = s.nextId /\ FreeIds(s) # {} /\ id \in Nat
  <2>1. s.nextId \in Nat
    BY MaxTimerIdAssumption DEF Sched, Schedulers, TimerIds
  <2> QED
    BY <1>1, <2>1, NextIsNew
<1>3. /\ Sched(t, RtTasks) /\ id \in TimerIds \ s.ids /\ LiveIn(t) = LiveIn(s) \union {id}
      /\ t.tasks = s.tasks /\ t.ids = s.ids \union {id} /\ t.nextId = After(id)
  <2>1. t = SetTimeout(s, clock, delay) /\ id = NewTimerId(s)
    OBVIOUS
  <2>2. HasTimers(RtTasks) /\ Sched(s, RtTasks) /\ FreeIds(s) # {}
    BY <1>2, RtTasksHaveTimers
  <2> HIDE DEF Fresh
  <2> QED
    BY ONLY <2>1, <2>2, clock \in Int, delay \in Int, SetTimeoutKeeps
<1>4. t.nextId = id + 1
  BY <1>2, <1>3 DEF After
<1>5. FiredIn(t) = FiredIn(s)
  BY <1>3 DEF FiredIn
<1>6. id \notin FiredIn(s)
  BY <1>2 DEF Fresh
<1>7. id \notin LiveIn(s)
  BY <1>3, LiveIsNotCancelled
<1>8. Fresh(t)
  <2>1. \A x \in s.ids \union FiredIn(s) : x < id
    BY <1>2 DEF Fresh
  <2>2. s.ids \cap FiredIn(s) = {}
    BY DEF Fresh
  <2>3. \A x \in s.ids \union FiredIn(s) : x \in Nat
    <3>1. s.ids \in SUBSET Nat
      BY MaxTimerIdAssumption DEF Sched, Schedulers, TimerIds
    <3>2. s.tasks \in Seq(RtTasks)
      BY DEF Sched, Schedulers
    <3>3. ASSUME NEW x \in FiredIn(s) PROVE x \in Nat
      <4>1. PICK i \in 1..Len(s.tasks) : s.tasks[i] = TimerTask(s.tasks[i].seq, x)
        BY FiredTasks DEF HasFired
      <4>2. s.tasks[i] \in RtTasks
        BY <3>2
      <4>3. x \in TimerIds
        BY <4>1, <4>2, TaskFacts DEF RtTasks, TimerTasks, CallTasks
      <4> QED
        BY <4>3, MaxTimerIdAssumption DEF TimerIds
    <3> QED
      BY <3>1, <3>3
  <2>4. \A x \in t.ids \union FiredIn(t) : x < t.nextId
    BY <1>2, <1>3, <1>4, <1>5, <2>1, <2>3
  <2> QED
    BY <1>3, <1>5, <1>6, <2>2, <2>4 DEF Fresh
<1> QED
  BY <1>3, <1>5, <1>6, <1>7, <1>8

(* Clearing a timer stops it and leaves the tasks.                             *)
LEMMA RtClear ==
  ASSUME NEW s, Sched(s, RtTasks), Fresh(s), NEW id \in TimerIds,
         NEW t, t = ClearTimeout(s, id)
  PROVE  /\ Sched(t, RtTasks) /\ Fresh(t)
         /\ LiveIn(t) = LiveIn(s) \ {id} /\ FiredIn(t) = FiredIn(s)
         /\ t.tasks = s.tasks /\ t.nextId = s.nextId
<1>1. /\ Sched(t, RtTasks) /\ LiveIn(t) = LiveIn(s) \ {id}
      /\ t.tasks = s.tasks /\ t.ids = s.ids /\ t.nextId = s.nextId
  BY ClearTimeoutKeeps
<1>2. FiredIn(t) = FiredIn(s)
  BY <1>1 DEF FiredIn
<1> QED
  BY <1>1, <1>2 DEF Fresh

(* Tasks that join the queue or leave it leave the others where they were.       *)
LEMMA RtEnqueue ==
  ASSUME NEW s, Sched(s, RtTasks), Fresh(s), NEW c \in Calls, NEW o \in AllOutcomes, Fits(c, o),
         NEW t, t = EnqueueHostcallComplete(s, c, o)
  PROVE  /\ Sched(t, RtTasks) /\ Fresh(t)
         /\ LiveIn(t) = LiveIn(s) /\ FiredIn(t) = FiredIn(s) /\ t.nextId = s.nextId
         /\ \A d : EndComes(s, d) => EndComes(t, d)
         /\ ~Partial(o) => EndComes(t, c)
<1>1. s.seq \in Nat /\ s.tasks \in Seq(RtTasks)
  BY DEF Sched, Schedulers
<1>2. PICK task : task = Completion(s.seq, c, o)
  OBVIOUS
<1>3. task \in RtTasks /\ task.seq = s.seq
  BY <1>1, <1>2, TaskFacts DEF RtTasks, CallTasks
<1>4. t = Enqueued(s, task)
  BY <1>2 DEF EnqueueHostcallComplete, Completion, Enqueued
<1>5. /\ Sched(t, RtTasks) /\ LiveIn(t) = LiveIn(s)
      /\ t.tasks = Append(s.tasks, task) /\ t.ids = s.ids /\ t.nextId = s.nextId
  BY <1>3, <1>4, RtTasksHaveTimers, EnqueueKeeps
<1>6. PICK q : q = Append(s.tasks, task)
  OBVIOUS
<1>7. /\ Len(s.tasks) \in Nat /\ Len(q) = Len(s.tasks) + 1 /\ q[Len(s.tasks) + 1] = task
      /\ \A i \in 1..Len(s.tasks) : i \in 1..Len(q) /\ q[i] = s.tasks[i]
      /\ \A i \in 1..Len(q) : i \in 1..Len(s.tasks) \/ i = Len(s.tasks) + 1
      /\ Len(s.tasks) + 1 \in 1..Len(q)
  BY <1>1, <1>6
<1>8. ASSUME NEW id PROVE HasFired(t, id) <=> HasFired(s, id)
  <2>1. ASSUME HasFired(s, id) PROVE HasFired(t, id)
    BY <1>5, <1>6, <1>7, <2>1 DEF HasFired
  <2>2. ASSUME HasFired(t, id) PROVE HasFired(s, id)
    <3>1. PICK i \in 1..Len(q) : q[i] = TimerTask(q[i].seq, id)
      BY <1>5, <1>6, <2>2 DEF HasFired
    <3>2. i # Len(s.tasks) + 1
      BY <1>2, <1>7, <3>1, TaskFacts
    <3> QED
      BY <1>7, <3>1, <3>2 DEF HasFired
  <2> QED
    BY <2>1, <2>2
<1>9. FiredIn(t) = FiredIn(s)
  BY <1>5, <1>8, FiredTasks
<1>10. \A d : EndComes(s, d) => EndComes(t, d)
  BY <1>5, <1>6, <1>7 DEF EndComes
<1>11. ~Partial(o) => EndComes(t, c)
  BY <1>2, <1>3, <1>5, <1>6, <1>7 DEF EndComes
<1> QED
  BY <1>5, <1>9, <1>10, <1>11 DEF Fresh
(* A chunk of c on its way.                                                    *)
ChunkOf(t, c) == t.kind = "hostcall" /\ t.call = c /\ t.outcome.type = "chunk"

(* The chunks of c on their way: those after the last that was heard and up to those sent,     *)
(* in order and with none left out.                                            *)
InLine(tasks, c, last, sent) ==
  /\ last < sent
  /\ \A i \in 1..Len(tasks) : ChunkOf(tasks[i], c) => tasks[i].outcome.seq \in (last + 1)..(sent - 1)
  /\ \A i, j \in 1..Len(tasks) :
       i < j /\ ChunkOf(tasks[i], c) /\ ChunkOf(tasks[j], c) =>
         tasks[i].outcome.seq < tasks[j].outcome.seq
  /\ \A n \in (last + 1)..(sent - 1) :
       \E i \in 1..Len(tasks) : ChunkOf(tasks[i], c) /\ tasks[i].outcome.seq = n

(* The line stays,                                                             *)
LineStays(tasks, other, c) ==
  \A last, sent \in Int : InLine(tasks, c, last, sent) => InLine(other, c, last, sent)

(* or its first chunk leaves it.                                               *)
LineMoves(tasks, other, c, n) ==
  \A last, sent \in Int : InLine(tasks, c, last, sent) =>
    n = last + 1 /\ n < sent /\ InLine(other, c, n, sent)

(* Tasks that are no chunks of c may follow,                                   *)
LEMMA LineBeforeOthers ==
  ASSUME NEW T, NEW U, Len(T) \in Nat, Len(U) \in Nat, Len(T) <= Len(U), NEW c,
         \A i \in 1..Len(T) : U[i] = T[i],
         \A i \in 1..Len(U) : i > Len(T) => ~ChunkOf(U[i], c)
  PROVE  LineStays(T, U, c)
<1> SUFFICES ASSUME NEW last \in Int, NEW sent \in Int, InLine(T, c, last, sent)
             PROVE  InLine(U, c, last, sent)
  BY DEF LineStays
<1>1. \A i \in 1..Len(T) : i \in 1..Len(U)
  OBVIOUS
<1>2. \A i \in 1..Len(U) : ChunkOf(U[i], c) => i \in 1..Len(T) /\ T[i] = U[i]
  OBVIOUS
<1>3. \A i \in 1..Len(U) : ChunkOf(U[i], c) => U[i].outcome.seq \in (last + 1)..(sent - 1)
  BY <1>2 DEF InLine
<1>4. \A i, j \in 1..Len(U) : i < j /\ ChunkOf(U[i], c) /\ ChunkOf(U[j], c) =>
        U[i].outcome.seq < U[j].outcome.seq
  BY <1>2 DEF InLine
<1>5. \A n \in (last + 1)..(sent - 1) : \E i \in 1..Len(U) : ChunkOf(U[i], c) /\ U[i].outcome.seq = n
  BY <1>1 DEF InLine
<1> QED
  BY <1>3, <1>4, <1>5 DEF InLine

(* and the next chunk of c.                                                    *)
LEMMA LineGoesOn ==
  ASSUME NEW S, NEW T \in Seq(S), NEW x \in S, NEW c, NEW last \in Int, NEW sent \in Int,
         InLine(T, c, last, sent), ChunkOf(x, c), x.outcome.seq = sent
  PROVE  InLine(Append(T, x), c, last, sent + 1)
<1>1. PICK U : U = Append(T, x)
  OBVIOUS
<1>2. /\ Len(T) \in Nat /\ Len(U) = Len(T) + 1 /\ U[Len(T) + 1] = x
      /\ \A i \in 1..Len(T) : U[i] = T[i] /\ i \in 1..Len(U)
      /\ \A i \in 1..Len(U) : i \in 1..Len(T) \/ i = Len(T) + 1
  BY <1>1
<1>3. \A i \in 1..Len(T) : ChunkOf(T[i], c) => T[i].outcome.seq \in (last + 1)..(sent - 1)
  BY DEF InLine
<1>4. \A i \in 1..Len(U) : ChunkOf(U[i], c) => U[i].outcome.seq \in (last + 1)..((sent + 1) - 1)
  <2> SUFFICES ASSUME NEW i \in 1..Len(U), ChunkOf(U[i], c)
               PROVE  U[i].outcome.seq \in (last + 1)..((sent + 1) - 1)
    OBVIOUS
  <2>1. CASE i \in 1..Len(T)
    <3>1. U[i].outcome.seq \in (last + 1)..(sent - 1)
      BY <1>2, <1>3, <2>1
    <3> QED
      BY <3>1
  <2>2. CASE i = Len(T) + 1
    BY <1>2, <2>2 DEF InLine
  <2> QED
    BY <1>2, <2>1, <2>2
<1>5. \A i, j \in 1..Len(U) : i < j /\ ChunkOf(U[i], c) /\ ChunkOf(U[j], c) =>
        U[i].outcome.seq < U[j].outcome.seq
  <2> SUFFICES ASSUME NEW i \in 1..Len(U), NEW j \in 1..Len(U), i < j,
                      ChunkOf(U[i], c), ChunkOf(U[j], c)
               PROVE  U[i].outcome.seq < U[j].outcome.seq
    OBVIOUS
  <2>1. i \in 1..Len(T)
    BY <1>2
  <2>2. CASE j \in 1..Len(T)
    BY <1>2, <2>1, <2>2 DEF InLine
  <2>3. CASE j = Len(T) + 1
    <3>1. T[i].outcome.seq \in (last + 1)..(sent - 1) /\ U[i] = T[i]
      BY <1>2, <1>3, <2>1
    <3> QED
      BY <1>2, <2>3, <3>1
  <2> QED
    BY <1>2, <2>2, <2>3
<1>6. \A n \in (last + 1)..((sent + 1) - 1) :
        \E i \in 1..Len(U) : ChunkOf(U[i], c) /\ U[i].outcome.seq = n
  <2> SUFFICES ASSUME NEW n \in (last + 1)..((sent + 1) - 1)
               PROVE  \E i \in 1..Len(U) : ChunkOf(U[i], c) /\ U[i].outcome.seq = n
    OBVIOUS
  <2>1. CASE n = sent
    <3>1. Len(T) + 1 \in 1..Len(U)
      BY <1>2
    <3> QED
      BY <1>2, <2>1, <3>1
  <2>2. CASE n # sent
    <3>1. n \in (last + 1)..(sent - 1)
      BY <2>2
    <3>2. PICK i \in 1..Len(T) : ChunkOf(T[i], c) /\ T[i].outcome.seq = n
      BY <3>1 DEF InLine
    <3> QED
      BY <1>2, <3>2
  <2> QED
    BY <2>1, <2>2
<1>7. last < sent + 1
  BY DEF InLine
<1> QED
  BY <1>1, <1>4, <1>5, <1>6, <1>7 DEF InLine

(* The head leaves the queue: it is no chunk of c                              *)
LEMMA LineWithoutHead ==
  ASSUME NEW S, NEW T \in Seq(S), T # <<>>, NEW c, NEW U, U = Tail(T)
  PROVE  /\ ~ChunkOf(Head(T), c) => LineStays(T, U, c)
         /\ ChunkOf(Head(T), c) => LineMoves(T, U, c, Head(T).outcome.seq)
<1>1. /\ Len(T) \in Nat \ {0} /\ Len(U) = Len(T) - 1 /\ Head(T) = T[1]
      /\ \A i \in 1..Len(U) : U[i] = T[i + 1] /\ i + 1 \in 1..Len(T)
  OBVIOUS
<1>2. \A i \in 1..Len(T) : i = 1 \/ (i - 1 \in 1..Len(U) /\ U[i - 1] = T[i])
  <2> TAKE i \in 1..Len(T)
  <2>1. i # 1 => i - 1 \in 1..Len(U) /\ (i - 1) + 1 = i
    BY <1>1
  <2> QED
    BY <1>1, <2>1
<1>3. ASSUME NEW last \in Int, NEW sent \in Int, InLine(T, c, last, sent)
      PROVE  \A i, j \in 1..Len(U) : i < j /\ ChunkOf(U[i], c) /\ ChunkOf(U[j], c) =>
               U[i].outcome.seq < U[j].outcome.seq
  <2> SUFFICES ASSUME NEW i \in 1..Len(U), NEW j \in 1..Len(U), i < j,
                      ChunkOf(U[i], c), ChunkOf(U[j], c)
               PROVE  U[i].outcome.seq < U[j].outcome.seq
    OBVIOUS
  <2>1. i + 1 \in 1..Len(T) /\ j + 1 \in 1..Len(T) /\ i + 1 < j + 1 /\ U[i] = T[i + 1] /\ U[j] = T[j + 1]
    BY <1>1
  <2> QED
    BY <1>3, <2>1 DEF InLine
<1>4. ASSUME NEW last \in Int, NEW sent \in Int, InLine(T, c, last, sent), ~ChunkOf(Head(T), c)
      PROVE  InLine(U, c, last, sent)
  <2>1. \A i \in 1..Len(U) : ChunkOf(U[i], c) => U[i].outcome.seq \in (last + 1)..(sent - 1)
    BY <1>1, <1>4 DEF InLine
  <2>2. ASSUME NEW n \in (last + 1)..(sent - 1)
        PROVE  \E i \in 1..Len(U) : ChunkOf(U[i], c) /\ U[i].outcome.seq = n
    <3>1. PICK i \in 1..Len(T) : ChunkOf(T[i], c) /\ T[i].outcome.seq = n
      BY <1>4, <2>2 DEF InLine
    <3>2. i # 1
      BY <1>1, <1>4, <3>1
    <3> QED
      BY <1>2, <3>1, <3>2
  <2> QED
    BY <1>3, <1>4, <2>1, <2>2 DEF InLine
<1>5. ASSUME NEW last \in Int, NEW sent \in Int, InLine(T, c, last, sent), ChunkOf(Head(T), c),
             NEW n, n = Head(T).outcome.seq
      PROVE  n = last + 1 /\ n < sent /\ InLine(U, c, n, sent)
  <2>1. 1 \in 1..Len(T) /\ ChunkOf(T[1], c) /\ T[1].outcome.seq = n
    BY <1>1, <1>5
  <2>2. n \in (last + 1)..(sent - 1)
    BY <1>5, <2>1 DEF InLine
  <2>3. n = last + 1
    <3>1. last + 1 \in (last + 1)..(sent - 1)
      BY <2>2
    <3>2. PICK i \in 1..Len(T) : ChunkOf(T[i], c) /\ T[i].outcome.seq = last + 1
      BY <1>5, <3>1 DEF InLine
    <3>3. CASE i = 1
      BY <2>1, <3>2, <3>3
    <3>4. CASE i # 1
      <4>1. T[1].outcome.seq < T[i].outcome.seq
        BY <1>1, <1>5, <2>1, <3>2, <3>4 DEF InLine
      <4> QED
        BY <2>1, <2>2, <3>2, <4>1
    <3> QED
      BY <3>3, <3>4
  <2>4. \A i \in 1..Len(U) : ChunkOf(U[i], c) => U[i].outcome.seq \in (n + 1)..(sent - 1)
    <3> SUFFICES ASSUME NEW i \in 1..Len(U), ChunkOf(U[i], c)
                 PROVE  U[i].outcome.seq \in (n + 1)..(sent - 1)
      OBVIOUS
    <3>1. i + 1 \in 1..Len(T) /\ 1 < i + 1 /\ U[i] = T[i + 1]
      BY <1>1
    <3>2. T[i + 1].outcome.seq \in (last + 1)..(sent - 1) /\ T[1].outcome.seq < T[i + 1].outcome.seq
      BY <1>5, <2>1, <3>1 DEF InLine
    <3> QED
      BY <2>1, <2>2, <3>1, <3>2
  <2>5. ASSUME NEW k \in (n + 1)..(sent - 1)
        PROVE  \E i \in 1..Len(U) : ChunkOf(U[i], c) /\ U[i].outcome.seq = k
    <3>1. k \in (last + 1)..(sent - 1) /\ k # n
      BY <2>2, <2>5
    <3>2. PICK i \in 1..Len(T) : ChunkOf(T[i], c) /\ T[i].outcome.seq = k
      BY <1>5, <3>1 DEF InLine
    <3>3. i # 1
      BY <2>1, <3>1, <3>2
    <3> QED
      BY <1>2, <3>2, <3>3
  <2>6. n < sent
    BY <2>2
  <2> QED
    BY <1>3, <1>5, <2>3, <2>4, <2>5, <2>6 DEF InLine
<1> QED
  BY <1>4, <1>5 DEF LineStays, LineMoves

(* The due timers become tasks: no timer is lost on the way.                     *)
LEMMA RtMove ==
  ASSUME NEW s, Sched(s, RtTasks), Fresh(s), NEW clock \in Int,
         NEW m, m = MoveDueTimers(s, clock)
  PROVE  /\ Sched(m, RtTasks) /\ Fresh(m) /\ m.nextId = s.nextId
         /\ LiveIn(m) \subseteq LiveIn(s)
         /\ LiveIn(s) \union FiredIn(s) \subseteq LiveIn(m) \union FiredIn(m)
         /\ \A d : EndComes(s, d) => EndComes(m, d)
         /\ \A d : LineStays(s.tasks, m.tasks, d)
<1>1. HasTimers(RtTasks)
  BY RtTasksHaveTimers
<1>2. /\ Sched(m, RtTasks) /\ m.ids \subseteq s.ids /\ m.nextId = s.nextId
      /\ m.heap = s.heap \ Due(s, clock) /\ m.cancelled = s.cancelled \cap m.ids
      /\ Moves(s, clock, m)
  BY ONLY <1>1, Sched(s, RtTasks), clock \in Int, m = MoveDueTimers(s, clock), MoveDueKeeps
<1>3. PICK n \in Nat : \E fired \in [1..n -> Due(s, clock) \cap LiveTimers(s)] : Moved(s, clock, m, n, fired)
  BY <1>2 DEF Moves
<1>4. PICK fired \in [1..n -> Due(s, clock) \cap LiveTimers(s)] : Moved(s, clock, m, n, fired)
  BY <1>3
<1>5. s.tasks \in Seq(RtTasks) /\ Len(s.tasks) \in Nat /\ m.tasks \in Seq(RtTasks)
  BY <1>2 DEF Sched, Schedulers
<1>6. /\ Len(m.tasks) = Len(s.tasks) + n
      /\ \A i \in 1..Len(s.tasks) : m.tasks[i] = s.tasks[i]
      /\ \A i \in 1..n : m.tasks[Len(s.tasks) + i] = TimerTask(s.seq + i - 1, fired[i].id)
      /\ \A e \in Due(s, clock) \cap LiveTimers(s) : \E i \in 1..n : fired[i] = e
  BY <1>4 DEF Moved
<1>7. \A i \in 1..Len(s.tasks) : i \in 1..Len(m.tasks)
  BY <1>3, <1>5, <1>6
<1>8. \A i \in 1..n : Len(s.tasks) + i \in 1..Len(m.tasks)
  BY <1>3, <1>5, <1>6
<1>9. \A i \in 1..Len(m.tasks) : i \in 1..Len(s.tasks) \/ \E k \in 1..n : i = Len(s.tasks) + k
  <2> TAKE i \in 1..Len(m.tasks)
  <2>1. Len(m.tasks) = Len(s.tasks) + n /\ Len(s.tasks) \in Nat /\ n \in Nat
    BY <1>5, <1>6
  <2>2. CASE i > Len(s.tasks)
    <3>1. i - Len(s.tasks) \in 1..n /\ i = Len(s.tasks) + (i - Len(s.tasks))
      BY <2>1, <2>2
    <3> QED
      BY <3>1
  <2> QED
    BY <2>1, <2>2
<1>10. \A d : EndComes(s, d) => EndComes(m, d)
  BY <1>6, <1>7 DEF EndComes
<1>11. \A id : HasFired(s, id) => HasFired(m, id)
  BY <1>6, <1>7 DEF HasFired
<1>12. \A k \in 1..n : HasFired(m, fired[k].id)
  <2> TAKE k \in 1..n
  <2>1. m.tasks[Len(s.tasks) + k] = TimerTask(m.tasks[Len(s.tasks) + k].seq, fired[k].id)
    BY <1>6, TaskFacts
  <2> QED
    BY <1>8, <2>1 DEF HasFired
<1>13. \A id : HasFired(m, id) => HasFired(s, id) \/ \E k \in 1..n : id = fired[k].id
  <2> SUFFICES ASSUME NEW id, HasFired(m, id)
               PROVE  HasFired(s, id) \/ \E k \in 1..n : id = fired[k].id
    OBVIOUS
  <2>1. PICK i \in 1..Len(m.tasks) : m.tasks[i] = TimerTask(m.tasks[i].seq, id)
    BY DEF HasFired
  <2>2. CASE i \in 1..Len(s.tasks)
    <3>1. s.tasks[i] = TimerTask(s.tasks[i].seq, id)
      BY <1>6, <2>1, <2>2
    <3> QED
      BY <2>2, <3>1 DEF HasFired
  <2>3. CASE \E k \in 1..n : i = Len(s.tasks) + k
    <3>1. PICK k \in 1..n : i = Len(s.tasks) + k
      BY <2>3
    <3>2. m.tasks[i] = TimerTask(s.seq + k - 1, fired[k].id)
      BY <1>6, <3>1
    <3>3. m.tasks[i].id = id /\ m.tasks[i].id = fired[k].id
      BY <2>1, <3>2, TaskFacts
    <3> QED
      BY <3>3
  <2> QED
    BY <1>9, <2>2, <2>3
<1>14. LiveIn(m) \subseteq LiveIn(s)
  <2>1. LiveIn(m) = m.ids \ m.cancelled /\ LiveIn(s) = s.ids \ s.cancelled
    BY <1>2, LiveIsNotCancelled
  <2> QED
    BY <1>2, <2>1
<1>15. ASSUME NEW id \in LiveIn(s), id \notin LiveIn(m) PROVE HasFired(m, id)
  <2>1. PICK e \in LiveTimers(s) : e.id = id
    BY DEF LiveIn
  <2>2. e \in s.heap /\ id \notin s.cancelled
    BY <2>1 DEF LiveTimers
  <2>3. e \notin m.heap
    <3> SUFFICES ASSUME e \in m.heap PROVE FALSE
      OBVIOUS
    <3>1. e \in LiveTimers(m)
      BY <1>2, <2>1, <2>2 DEF LiveTimers
    <3> QED
      BY <1>15, <2>1, <3>1 DEF LiveIn
  <2>4. e \in Due(s, clock) \cap LiveTimers(s)
    BY <1>2, <2>1, <2>2, <2>3
  <2> QED
    BY <1>6, <1>12, <2>1, <2>4
<1>16. LiveIn(s) \union FiredIn(s) \subseteq LiveIn(m) \union FiredIn(m)
  BY <1>2, <1>11, <1>15, FiredTasks
<1>17. Fresh(m)
  <2>1. \A k \in 1..n : fired[k].id \in s.ids /\ fired[k].id \notin m.ids
    <3> TAKE k \in 1..n
    <3>1. fired[k] \in s.heap /\ fired[k] \notin m.heap
      BY <1>2 DEF LiveTimers
    <3>2. /\ s.ids = {e.id : e \in s.heap} /\ m.ids = {e.id : e \in m.heap}
          /\ \A e, f \in s.heap : e.id = f.id => e = f
      BY <1>2 DEF Sched, IdsAgree
    <3> QED
      BY <1>2, <3>1, <3>2
  <2>2. ASSUME NEW id \in FiredIn(m) PROVE id < m.nextId /\ id \notin m.ids
    <3>1. HasFired(s, id) \/ \E k \in 1..n : id = fired[k].id
      BY <1>2, <1>13, <2>2, FiredTasks
    <3>2. CASE HasFired(s, id)
      BY <1>2, <3>2, FiredTasks DEF Fresh
    <3>3. CASE \E k \in 1..n : id = fired[k].id
      BY <1>2, <2>1, <3>3 DEF Fresh
    <3> QED
      BY <3>1, <3>2, <3>3
  <2> QED
    BY <1>2, <2>2 DEF Fresh
<1>18. ASSUME NEW d PROVE LineStays(s.tasks, m.tasks, d)
  <2>1. ASSUME NEW i \in 1..Len(m.tasks), i > Len(s.tasks) PROVE ~ChunkOf(m.tasks[i], d)
    <3>1. i \notin 1..Len(s.tasks)
      BY ONLY <1>5, i > Len(s.tasks)
    <3>2. PICK k \in 1..n : i = Len(s.tasks) + k
      BY ONLY <1>9, <2>1, <3>1
    <3>3. m.tasks[i] = TimerTask(s.seq + k - 1, fired[k].id)
      BY <1>6, <3>2
    <3>4. m.tasks[i].kind = "timer"
      BY <3>3, TaskFacts
    <3> QED
      BY <3>4 DEF ChunkOf
  <2>2. Len(m.tasks) \in Nat /\ Len(s.tasks) <= Len(m.tasks)
    BY <1>5, <1>6
  <2> QED
    BY <1>5, <1>6, <2>1, <2>2, LineBeforeOthers
<1> QED
  BY <1>2, <1>10, <1>14, <1>16, <1>17, <1>18

(* The head of what is ready leaves the queue.                                  *)
Tick(s, t, m, head) ==
  /\ m.tasks # <<>> => head = Head(m.tasks)
  /\ Sched(t, RtTasks) /\ Fresh(t) /\ t.nextId = s.nextId
  /\ LiveIn(t) \subseteq LiveIn(s)
  /\ m.tasks = <<>> =>
       /\ LiveIn(s) \union FiredIn(s) \subseteq LiveIn(t) \union FiredIn(t)
       /\ \A d : EndComes(s, d) => EndComes(t, d)
       /\ \A d : LineStays(s.tasks, t.tasks, d)
  /\ m.tasks # <<>> => head \in RtTasks
  /\ \A d : m.tasks # <<>> =>
       /\ ~ChunkOf(head, d) => LineStays(s.tasks, t.tasks, d)
       /\ ChunkOf(head, d) => LineMoves(s.tasks, t.tasks, d, head.outcome.seq)
  /\ \A n, id : m.tasks # <<>> /\ head = TimerTask(n, id) =>
       /\ id \in TimerIds /\ id \notin LiveIn(t)
       /\ LiveIn(s) \union FiredIn(s) \subseteq LiveIn(t) \union FiredIn(t) \union {id}
       /\ \A d : EndComes(s, d) => EndComes(t, d)
  /\ \A n, c, o : m.tasks # <<>> /\ head = Completion(n, c, o) =>
       /\ c \in Calls /\ o \in AllOutcomes
       /\ LiveIn(s) \union FiredIn(s) \subseteq LiveIn(t) \union FiredIn(t)
       /\ \A d : EndComes(s, d) /\ (d # c \/ Partial(o)) => EndComes(t, d)

(* A tick moves the due timers and takes the first task.                       *)
LEMMA RtTick ==
  ASSUME NEW s, Sched(s, RtTasks), Fresh(s), NEW clock \in Int,
         NEW t, t = AfterTick(s, clock), NEW m, m = MoveDueTimers(s, clock),
         NEW head, m.tasks # <<>> => head = Head(m.tasks)
  PROVE  Ready(s, clock) = m.tasks /\ Tick(s, t, m, head)
<1>1. HasTimers(RtTasks)
  BY RtTasksHaveTimers
<1>2. /\ Sched(t, RtTasks) /\ Ready(s, clock) = m.tasks /\ m.tasks \in Seq(RtTasks)
      /\ m.tasks = <<>> => t.tasks = <<>>
      /\ m.tasks # <<>> => t.tasks = Tail(m.tasks)
      /\ t.ids = m.ids /\ t.nextId = s.nextId /\ LiveIn(t) = LiveIn(m)
  <2>1. Ready(s, clock) = m.tasks /\ m.tasks \in Seq(RtTasks)
    BY <1>1, TickKeeps
  <2>2. Sched(t, RtTasks) /\ t.ids = m.ids /\ t.nextId = s.nextId /\ LiveIn(t) = LiveIn(m)
    BY SMTT(30), <1>1, TickKeeps
  <2>3. /\ m.tasks = <<>> => t.tasks = <<>>
        /\ m.tasks # <<>> => t.tasks = Tail(m.tasks)
    BY <1>1, TickKeeps
  <2> QED
    BY <2>1, <2>2, <2>3
<1>3. /\ Sched(m, RtTasks) /\ Fresh(m) /\ m.nextId = s.nextId
      /\ LiveIn(m) \subseteq LiveIn(s)
      /\ LiveIn(s) \union FiredIn(s) \subseteq LiveIn(m) \union FiredIn(m)
      /\ \A d : EndComes(s, d) => EndComes(m, d)
      /\ \A d : LineStays(s.tasks, m.tasks, d)
  BY ONLY Sched(s, RtTasks), Fresh(s), clock \in Int, m = MoveDueTimers(s, clock), RtMove
<1>4. CASE m.tasks = <<>>
  <2>1. FiredIn(t) = FiredIn(m)
    BY <1>2, <1>4 DEF FiredIn
  <2>2. \A d : EndComes(m, d) => EndComes(t, d)
    BY <1>2, <1>4 DEF EndComes
  <2>3. Fresh(t)
    BY <1>2, <1>3, <2>1 DEF Fresh
  <2>4. \A d : LineStays(s.tasks, t.tasks, d)
    BY <1>2, <1>3, <1>4
  <2> QED
    BY <1>2, <1>3, <1>4, <2>1, <2>2, <2>3, <2>4 DEF Tick
<1>5. CASE m.tasks # <<>>
  <2>1. PICK q : q = Tail(m.tasks)
    OBVIOUS
  <2>2. /\ Len(m.tasks) \in Nat \ {0} /\ Len(q) = Len(m.tasks) - 1
        /\ head = m.tasks[1] /\ head \in RtTasks
        /\ \A i \in 1..Len(q) : q[i] = m.tasks[i + 1] /\ i + 1 \in 1..Len(m.tasks)
    BY <1>2, <1>5, <2>1
  <2>3. \A i \in 1..Len(m.tasks) : i = 1 \/ (i - 1 \in 1..Len(q) /\ q[i - 1] = m.tasks[i])
    <3> TAKE i \in 1..Len(m.tasks)
    <3>1. i # 1 => i - 1 \in 1..Len(q) /\ (i - 1) + 1 = i
      BY <2>2
    <3> QED
      BY <2>2, <3>1
  <2>4. t.tasks = q
    BY <1>2, <1>5, <2>1
  <2>5. \A id : HasFired(t, id) => HasFired(m, id)
    BY <2>2, <2>4 DEF HasFired
  <2>6. \A id : HasFired(m, id) => HasFired(t, id) \/ head = TimerTask(head.seq, id)
    <3> SUFFICES ASSUME NEW id, HasFired(m, id), head # TimerTask(head.seq, id)
                 PROVE  HasFired(t, id)
      OBVIOUS
    <3>1. PICK i \in 1..Len(m.tasks) : m.tasks[i] = TimerTask(m.tasks[i].seq, id)
      BY DEF HasFired
    <3>2. i # 1
      BY <2>2, <3>1
    <3> QED
      BY <2>3, <2>4, <3>1, <3>2 DEF HasFired
  <2>7. Fresh(t)
    <3>1. FiredIn(t) \subseteq FiredIn(m)
      BY <1>2, <1>3, <2>5, FiredTasks
    <3> QED
      BY <1>2, <1>3, <3>1 DEF Fresh
  <2>8. \A d : EndComes(m, d) =>
          EndComes(t, d) \/ \E o \in AllOutcomes : head = Completion(head.seq, d, o) /\ ~Partial(o)
    <3> SUFFICES ASSUME NEW d, EndComes(m, d),
                        ~\E o \in AllOutcomes : head = Completion(head.seq, d, o) /\ ~Partial(o)
                 PROVE  EndComes(t, d)
      OBVIOUS
    <3>1. PICK i \in 1..Len(m.tasks), o \in AllOutcomes :
            m.tasks[i] = Completion(m.tasks[i].seq, d, o) /\ ~Partial(o)
      BY DEF EndComes
    <3>2. i # 1
      BY <2>2, <3>1
    <3>3. PICK j \in 1..Len(t.tasks) : t.tasks[j] = m.tasks[i]
      BY <2>3, <2>4, <3>2
    <3>4. t.tasks[j] = Completion(t.tasks[j].seq, d, o)
      BY <3>1, <3>3
    <3> QED
      BY <3>1, <3>4 DEF EndComes
  <2>9. ASSUME NEW n, NEW id, head = TimerTask(n, id)
        PROVE  /\ id \in TimerIds /\ id \notin LiveIn(t)
               /\ LiveIn(s) \union FiredIn(s) \subseteq LiveIn(t) \union FiredIn(t) \union {id}
               /\ \A d : EndComes(s, d) => EndComes(t, d)
    <3>1. head.kind = "timer" /\ head.id = id
      BY <2>9, TaskFacts
    <3>2. id \in TimerIds
      BY <2>2, <3>1, TaskFacts DEF RtTasks, TimerTasks, CallTasks
    <3>3. HasFired(m, id)
      <4>1. m.tasks[1] = TimerTask(m.tasks[1].seq, id) /\ 1 \in 1..Len(m.tasks)
        BY <2>2, <2>9, TaskFacts
      <4> QED
        BY <4>1 DEF HasFired
    <3>4. id \notin LiveIn(t)
      <4>1. id \in FiredIn(m)
        BY <1>3, <3>3, FiredTasks
      <4>2. id \notin m.ids
        BY <1>3, <4>1 DEF Fresh
      <4> QED
        BY <1>2, <4>2, LiveIsNotCancelled
    <3>5. LiveIn(s) \union FiredIn(s) \subseteq LiveIn(t) \union FiredIn(t) \union {id}
      <4>1. ASSUME NEW x \in FiredIn(m), x # id PROVE x \in FiredIn(t)
        <5>1. HasFired(m, x)
          BY <1>3, <4>1, FiredTasks
        <5>2. head # TimerTask(head.seq, x)
          BY <3>1, <4>1, TaskFacts
        <5> QED
          BY <1>2, <2>6, <5>1, <5>2, FiredTasks
      <4> QED
        BY <1>2, <1>3, <4>1
    <3>6. \A d : EndComes(s, d) => EndComes(t, d)
      BY <1>3, <2>8, <3>1, TaskFacts
    <3> QED
      BY <3>2, <3>4, <3>5, <3>6
  <2>10. ASSUME NEW n, NEW c, NEW o, head = Completion(n, c, o)
         PROVE  /\ c \in Calls /\ o \in AllOutcomes
                /\ LiveIn(s) \union FiredIn(s) \subseteq LiveIn(t) \union FiredIn(t)
                /\ \A d : EndComes(s, d) /\ (d # c \/ Partial(o)) => EndComes(t, d)
    <3>1. head.kind # "timer" /\ head.call = c /\ head.outcome = o
      BY <2>10, TaskFacts
    <3>2. c \in Calls /\ o \in AllOutcomes
      BY <2>2, <3>1, TaskFacts DEF RtTasks, TimerTasks, CallTasks
    <3>3. LiveIn(s) \union FiredIn(s) \subseteq LiveIn(t) \union FiredIn(t)
      <4>1. ASSUME NEW x \in FiredIn(m) PROVE x \in FiredIn(t)
        <5>1. HasFired(m, x)
          BY <1>3, <4>1, FiredTasks
        <5>2. head # TimerTask(head.seq, x)
          BY <3>1, TaskFacts
        <5> QED
          BY <1>2, <2>6, <5>1, <5>2, FiredTasks
      <4> QED
        BY <1>2, <1>3, <4>1
    <3>4. ASSUME NEW d, EndComes(s, d), d # c \/ Partial(o) PROVE EndComes(t, d)
      <4>1. EndComes(m, d)
        BY <1>3, <3>4
      <4>2. ASSUME NEW p \in AllOutcomes, head = Completion(head.seq, d, p) PROVE Partial(p)
        <5>1. d = c /\ p = o
          BY <3>1, <4>2, TaskFacts
        <5> QED
          BY <3>4, <5>1
      <4> QED
        BY <2>8, <4>1, <4>2
    <3> QED
      BY <3>2, <3>3, <3>4
  <2>11. ASSUME NEW d
         PROVE  /\ ~ChunkOf(head, d) => LineStays(s.tasks, t.tasks, d)
                /\ ChunkOf(head, d) => LineMoves(s.tasks, t.tasks, d, head.outcome.seq)
    <3>1. PICK a, b, e : a = s.tasks /\ b = m.tasks /\ e = t.tasks
      OBVIOUS
    <3>2. LineStays(a, b, d) /\ b \in Seq(RtTasks) /\ b # <<>> /\ e = Tail(b) /\ head = Head(b)
      BY <1>2, <1>3, <1>5, <2>1, <2>4, <3>1
    <3>3. /\ ~ChunkOf(head, d) => LineStays(b, e, d)
          /\ ChunkOf(head, d) => LineMoves(b, e, d, head.outcome.seq)
      BY ONLY <3>2, LineWithoutHead
    <3> QED
      BY ONLY <3>1, <3>2, <3>3 DEF LineStays, LineMoves
  <2> QED
    BY <1>2, <1>3, <1>5, <2>2, <2>7, <2>9, <2>10, <2>11 DEF Tick
<1> QED
  BY <1>2, <1>4, <1>5
-----------------------------------------------------------------------------
(* NodeRuntime: the record of a runtime                                      *)

Rt(s, p, x, ct, tc, ss, qu, li, ls, st, cb) ==
  [scheduler |-> s, pending |-> p, cancelled |-> x, callTimer |-> ct, timerCall |-> tc,
   streamSeq |-> ss, queue |-> qu, listening |-> li, lastSeq |-> ls, streams |-> st,
   callbacks |-> cb]

(* The fields of a runtime put together from its parts.                        *)
LEMMA RtFields ==
  ASSUME NEW s, NEW p, NEW x, NEW ct, NEW tc, NEW ss, NEW qu, NEW li, NEW ls, NEW st, NEW cb,
         NEW r, r = Rt(s, p, x, ct, tc, ss, qu, li, ls, st, cb)
  PROVE  /\ r.scheduler = s /\ r.pending = p /\ r.cancelled = x /\ r.callTimer = ct
         /\ r.timerCall = tc /\ r.streamSeq = ss /\ r.queue = qu /\ r.listening = li
         /\ r.lastSeq = ls /\ r.streams = st /\ r.callbacks = cb
  BY DEF Rt

RtTypes(r) ==
  /\ r.scheduler \in Schedulers(RtTasks) /\ r.pending \in SUBSET Calls
  /\ r.cancelled \in SUBSET Calls /\ r.callTimer \in [Calls -> TimerIds \union {0}]
  /\ r.timerCall \in [TimerIds -> Calls \union {NoCall}]
  /\ r.streamSeq \in [Calls -> -1..MaxChunks] /\ r.queue \in Seq(Calls)
  /\ r.listening \in SUBSET Calls /\ r.lastSeq \in [Calls -> -1..(MaxChunks + 1)]
  /\ r.streams \in [Calls -> StreamRec] /\ r.callbacks \in [TimerIds -> Calls \union NoOwner]

(* A runtime is its parts                                                      *)
LEMMA RtForm ==
  ASSUME NEW r \in Runtimes
  PROVE  /\ RtTypes(r)
         /\ r = Rt(r.scheduler, r.pending, r.cancelled, r.callTimer, r.timerCall, r.streamSeq,
                   r.queue, r.listening, r.lastSeq, r.streams, r.callbacks)
  BY DEF Runtimes, RtTypes, Rt

(* and parts of the right types are a runtime.                                 *)
LEMMA RtFormed ==
  ASSUME NEW r, RtTypes(r),
         r = Rt(r.scheduler, r.pending, r.cancelled, r.callTimer, r.timerCall, r.streamSeq,
                r.queue, r.listening, r.lastSeq, r.streams, r.callbacks)
  PROVE  r \in Runtimes
  BY DEF Runtimes, RtTypes, Rt

(* What clearTimeout, setTimeout and the tracker make of the parts.            *)
LEMMA ClearTimerForm ==
  ASSUME NEW r \in Runtimes, NEW id, NEW q, q = ClearTimer(r, id)
  PROVE  q = Rt(ClearTimeout(r.scheduler, id), r.pending, r.cancelled, r.callTimer, r.timerCall,
                r.streamSeq, r.queue, r.listening, r.lastSeq, r.streams,
                [r.callbacks EXCEPT ![id] = "none"])
  BY DEF Runtimes, Rt, ClearTimer

LEMMA SetTimerForm ==
  ASSUME NEW r \in Runtimes, NEW delay, NEW owner, NEW q, q = SetTimer(r, delay, owner)
  PROVE  q = Rt(SetTimeout(r.scheduler, now, delay), r.pending, r.cancelled, r.callTimer,
                r.timerCall, r.streamSeq, r.queue, r.listening, r.lastSeq, r.streams,
                [r.callbacks EXCEPT ![NewTimerId(r.scheduler)] = owner])
  BY DEF Runtimes, Rt, SetTimer

LEMMA WithoutTimerForm ==
  ASSUME NEW r \in Runtimes, NEW c, NEW q, q = WithoutTimer(r, c), r.callTimer[c] # 0
  PROVE  q = Rt(r.scheduler, r.pending, r.cancelled, [r.callTimer EXCEPT ![c] = 0],
                [r.timerCall EXCEPT ![r.callTimer[c]] = NoCall],
                r.streamSeq, r.queue, r.listening, r.lastSeq, r.streams, r.callbacks)
  BY DEF Runtimes, Rt, WithoutTimer

(* What clearing a stream's stall timer makes of the parts.                    *)
LEMMA ClearStallForm ==
  ASSUME NEW r \in Runtimes, NEW c \in Calls, NEW id, id = r.streams[c].stall, id # 0,
         NEW q, q = ClearStall(r, c)
  PROVE  q = Rt(ClearTimeout(r.scheduler, id), r.pending, r.cancelled, r.callTimer, r.timerCall,
                r.streamSeq, r.queue, r.listening, r.lastSeq, [r.streams EXCEPT ![c].stall = 0],
                [r.callbacks EXCEPT ![id] = "none"])
<1>1. PICK u : u = ClearTimer(r, id)
  OBVIOUS
<1>2. u = Rt(ClearTimeout(r.scheduler, id), r.pending, r.cancelled, r.callTimer, r.timerCall,
             r.streamSeq, r.queue, r.listening, r.lastSeq, r.streams,
             [r.callbacks EXCEPT ![id] = "none"])
  BY <1>1, ClearTimerForm
<1>3. q = [u EXCEPT !.streams[c].stall = 0]
  BY <1>1 DEF ClearStall
<1> QED
  BY <1>2, <1>3 DEF Rt
-----------------------------------------------------------------------------
(* NodeRuntime: operations on timers keep the invariant                      *)

Sound(r) == RtInv(r, {}, {})

(* The parts of the invariant.                                                 *)
LEMMA RtInvParts ==
  ASSUME NEW r, NEW lost, NEW ended, RtInv(r, lost, ended)
  PROVE  /\ r \in Runtimes /\ RtTypes(r) /\ Len(r.queue) <= QueueLimit
         /\ Sched(r.scheduler, RtTasks) /\ Fresh(r.scheduler)
         /\ Timed(r) /\ Owners(r, lost) /\ Stalls(r) /\ Ends(r, ended) /\ Deadlines(r)
  BY RtForm DEF RtInv

(* What the operations on a stream leave alone.                                 *)
Kept(r, q) ==
  /\ q.pending = r.pending /\ q.cancelled = r.cancelled
  /\ q.listening = r.listening /\ q.queue = r.queue
  /\ q.scheduler.tasks = r.scheduler.tasks

(* Nothing that JavaScript hears of.                                           *)
Unheard(r, q) == q.listening = r.listening /\ q.streams = r.streams /\ q.lastSeq = r.lastSeq

(* A stream's timer is cleared, or set anew.                                     *)
StreamStep(r, q) ==
  /\ Sound(q) /\ Kept(r, q) /\ q.lastSeq = r.lastSeq
  /\ q.scheduler.nextId = r.scheduler.nextId
Unset(r, q, c) == StreamStep(r, q) /\ q.streams = [r.streams EXCEPT ![c].stall = 0]
SetsStall(a, b, c, id) == b = [a EXCEPT ![c].stall = id]
Armed(r, q, c) ==
  /\ Sound(q) /\ Kept(r, q) /\ q.lastSeq = r.lastSeq
  /\ \E id \in TimerIds \union {0} :
       SetsStall(r.streams, q.streams, c, id) /\ (StallTimeout > 0 => id # 0)

(* No call is mistaken for an owner of timers.                                 *)
LEMMA NotOwners == "none" \notin Calls /\ "user" \notin Calls /\ NoCall \notin Calls
  BY NodeRuntimeConstants

(* No timer has the id that stands for none.                                   *)
LEMMA IdsArePositive == TimerIds \in SUBSET Nat /\ 0 \notin TimerIds
  BY MaxTimerIdAssumption DEF TimerIds

(* Clearing a stream's stall timer keeps the invariant.                        *)
LEMMA StallCleared ==
  ASSUME NEW r, Sound(r), NEW c \in Calls, NEW q, q = ClearStall(r, c)
  PROVE  Unset(r, q, c)
<1>1. /\ r \in Runtimes /\ RtTypes(r) /\ Len(r.queue) <= QueueLimit
      /\ Sched(r.scheduler, RtTasks) /\ Fresh(r.scheduler)
      /\ Timed(r) /\ Owners(r, {}) /\ Stalls(r) /\ Ends(r, {}) /\ Deadlines(r)
  BY RtInvParts DEF Sound
<1>2. r.streams \in [Calls -> StreamRec] /\ r.streams[c] \in StreamRec
  BY <1>1 DEF RtTypes
<1>3. CASE r.streams[c].stall = 0
  <2>1. q = r
    BY <1>3 DEF ClearStall
  <2>2. r.streams = [r.streams EXCEPT ![c].stall = 0]
    BY <1>2, <1>3 DEF StreamRec
  <2> QED
    BY <2>1, <2>2 DEF Kept, Unset, StreamStep
<1>4. CASE r.streams[c].stall # 0
  <2>1. PICK id : id = r.streams[c].stall
    OBVIOUS
  <2>2. id \in TimerIds /\ r.callbacks[id] = c /\ r.timerCall[id] = NoCall
    <3>1. id \in TimerIds
      BY <1>2, <1>4, <2>1 DEF StreamRec
    <3>2. r.callbacks[id] = c
      BY <1>1, <1>4, <2>1 DEF Stalls
    <3> QED
      BY <1>1, <3>1, <3>2, NotOwners DEF Owners
  <2>3. PICK s, t : s = r.scheduler /\ t = ClearTimeout(s, id)
    OBVIOUS
  <2>4. /\ Sched(t, RtTasks) /\ Fresh(t)
        /\ LiveIn(t) = LiveIn(s) \ {id} /\ FiredIn(t) = FiredIn(s)
        /\ t.tasks = s.tasks /\ t.nextId = s.nextId
    BY <1>1, <2>2, <2>3, RtClear
  <2>5. q = Rt(t, r.pending, r.cancelled, r.callTimer, r.timerCall,
               r.streamSeq, r.queue, r.listening, r.lastSeq, [r.streams EXCEPT ![c].stall = 0],
               [r.callbacks EXCEPT ![id] = "none"])
    BY <1>1, <1>4, <2>1, <2>3, ClearStallForm
  <2>6. /\ q.scheduler = t /\ q.pending = r.pending /\ q.cancelled = r.cancelled
        /\ q.callTimer = r.callTimer /\ q.timerCall = r.timerCall /\ q.streamSeq = r.streamSeq
        /\ q.queue = r.queue /\ q.listening = r.listening /\ q.lastSeq = r.lastSeq
        /\ q.streams = [r.streams EXCEPT ![c].stall = 0]
        /\ q.callbacks = [r.callbacks EXCEPT ![id] = "none"]
    BY <2>5, RtFields
  <2>7. q \in Runtimes
    <3>1. q.streams \in [Calls -> StreamRec]
      BY ZenonT(40), <1>2, <2>6 DEF StreamRec
    <3>2. q.callbacks \in [TimerIds -> Calls \union NoOwner]
      BY <1>1, <2>6 DEF RtTypes, NoOwner
    <3>3. t \in Schedulers(RtTasks)
      BY <2>4 DEF Sched
    <3> QED
      BY <1>1, <2>5, <2>6, <3>1, <3>2, <3>3, RtFormed DEF RtTypes
  <2>8. Timed(q)
    BY <1>1, <2>6 DEF Timed, IsActive
  <2>9. Owners(q, {})
    BY <1>1, <2>2, <2>3, <2>4, <2>6 DEF Owners, Has, RtTypes
  <2>10. Stalls(q)
    BY <1>1, <1>2, <2>1, <2>2, <2>6, NotOwners DEF Stalls, RtTypes
  <2>11. Ends(q, {})
    BY <1>1, <2>3, <2>4, <2>6 DEF Ends, EndComes
  <2>12. Deadlines(q)
    BY <1>1, <2>6 DEF Deadlines
  <2>13. Sound(q)
    BY <1>1, <2>4, <2>6, <2>7, <2>8, <2>9, <2>10, <2>11, <2>12 DEF Sound, RtInv
  <2> QED
    BY <2>3, <2>4, <2>6, <2>13 DEF Kept, Unset, StreamStep
<1> QED
  BY <1>3, <1>4

(* A timer that is set gets an id that nothing has.                              *)
NewTimer(r, s, t, id) ==
  /\ Sched(t, RtTasks) /\ Fresh(t)
  /\ LiveIn(t) = LiveIn(s) \union {id} /\ FiredIn(t) = FiredIn(s)
  /\ t.tasks = s.tasks
  /\ id \in TimerIds /\ ~Has(r, id)

(* A new timer belongs to nobody yet, so no two owners share one.              *)
LEMMA NewHasNone ==
  ASSUME NEW r, Sound(r), r.scheduler.nextId < MaxTimerId, now \in Int, NEW delay \in Int,
         NEW s, s = r.scheduler,
         NEW id, id = NewTimerId(s), NEW t, t = SetTimeout(s, now, delay)
  PROVE  NewTimer(r, s, t, id)
<1>1. Sched(s, RtTasks) /\ Fresh(s) /\ Owners(r, {}) /\ s.nextId < MaxTimerId
  BY RtInvParts DEF Sound
<1>2. /\ Sched(t, RtTasks) /\ Fresh(t)
      /\ LiveIn(t) = LiveIn(s) \union {id} /\ FiredIn(t) = FiredIn(s)
      /\ t.tasks = s.tasks
      /\ id \in TimerIds /\ id \notin LiveIn(s) /\ id \notin FiredIn(s)
  BY <1>1, RtSet
<1>3. ~Has(r, id)
  BY <1>1, <1>2 DEF Owners
<1> QED
  BY <1>2, <1>3 DEF NewTimer

(* Setting the stall timer anew replaces the old one.                          *)
LEMMA StallArmed ==
  ASSUME NEW r, Sound(r), r.scheduler.nextId < MaxTimerId, now \in Int, NEW c \in Calls,
         NEW q, q = ArmStall(r, c)
  PROVE  Armed(r, q, c)
<1>1. r \in Runtimes /\ r.streams \in [Calls -> StreamRec] /\ r.streams[c] \in StreamRec
  BY RtInvParts DEF Sound, RtTypes
<1>2. CASE StallTimeout = 0
  <2>1. q = r
    BY <1>2 DEF ArmStall
  <2>2. r.streams[c].stall \in TimerIds \union {0}
    BY <1>1 DEF StreamRec
  <2>3. r.streams = [r.streams EXCEPT ![c].stall = r.streams[c].stall]
    BY <1>1 DEF StreamRec
  <2>4. SetsStall(r.streams, q.streams, c, r.streams[c].stall)
    BY <2>1, <2>3 DEF SetsStall
  <2> QED
    BY <1>2, <2>1, <2>2, <2>4 DEF Kept, Armed
<1>3. CASE StallTimeout # 0
  <2>1. PICK u : u = ClearStall(r, c)
    OBVIOUS
  <2>2. /\ Sound(u) /\ Kept(r, u) /\ u.scheduler.nextId = r.scheduler.nextId /\ u.lastSeq = r.lastSeq
        /\ u.streams = [r.streams EXCEPT ![c].stall = 0]
    BY <2>1, StallCleared DEF Unset, StreamStep
  <2>3. /\ u \in Runtimes /\ RtTypes(u) /\ Len(u.queue) <= QueueLimit
        /\ Timed(u) /\ Owners(u, {}) /\ Stalls(u) /\ Ends(u, {}) /\ Deadlines(u)
    BY <2>2, RtInvParts DEF Sound
  <2>5. PICK delay \in Int : delay = StallTimeout
    BY NodeRuntimeConstants
  <2>4. PICK s, t, id : s = u.scheduler /\ t = SetTimeout(s, now, delay) /\ id = NewTimerId(s)
    OBVIOUS
  <2>6. /\ Sched(t, RtTasks) /\ Fresh(t)
        /\ LiveIn(t) = LiveIn(s) \union {id} /\ FiredIn(t) = FiredIn(s)
        /\ t.tasks = s.tasks
        /\ id \in TimerIds /\ ~Has(u, id)
    <3>1. Sound(u)
      BY <2>2
    <3>2. u.scheduler.nextId < MaxTimerId
      BY <2>2
    <3>3. NewTimer(u, s, t, id)
      BY ONLY <2>4, delay \in Int, <3>1, <3>2, now \in Int, NewHasNone
    <3> QED
      BY <3>3 DEF NewTimer
  <2>7. PICK v : v = SetTimer(u, delay, c)
    OBVIOUS
  <2>8. v = Rt(t, u.pending, u.cancelled, u.callTimer, u.timerCall, u.streamSeq, u.queue,
               u.listening, u.lastSeq, u.streams, [u.callbacks EXCEPT ![id] = c])
    BY <2>3, <2>4, <2>7, SetTimerForm
  <2>9. q = [v EXCEPT !.streams[c].stall = id]
    BY <1>3, <2>1, <2>4, <2>5, <2>7 DEF ArmStall
  <2>10. q = Rt(t, u.pending, u.cancelled, u.callTimer, u.timerCall, u.streamSeq, u.queue,
                u.listening, u.lastSeq, [u.streams EXCEPT ![c].stall = id],
                [u.callbacks EXCEPT ![id] = c])
    BY <2>8, <2>9 DEF Rt
  <2>11. /\ q.scheduler = t /\ q.pending = u.pending /\ q.cancelled = u.cancelled
         /\ q.callTimer = u.callTimer /\ q.timerCall = u.timerCall /\ q.streamSeq = u.streamSeq
         /\ q.queue = u.queue /\ q.listening = u.listening /\ q.lastSeq = u.lastSeq
         /\ q.streams = [u.streams EXCEPT ![c].stall = id]
         /\ q.callbacks = [u.callbacks EXCEPT ![id] = c]
    BY <2>10, RtFields
  <2>12. q.streams = [r.streams EXCEPT ![c].stall = id]
    BY <1>1, <2>2, <2>11 DEF StreamRec
  <2>13. q \in Runtimes
    <3>1. q.streams \in [Calls -> StreamRec]
      BY <1>1, <2>6, <2>12 DEF StreamRec
    <3>2. q.callbacks \in [TimerIds -> Calls \union NoOwner]
      BY <2>3, <2>11 DEF RtTypes, NoOwner
    <3>3. t \in Schedulers(RtTasks)
      BY <2>6 DEF Sched
    <3> QED
      BY <2>3, <2>10, <2>11, <3>1, <3>2, <3>3, RtFormed DEF RtTypes
  <2>14. Timed(q)
    BY <2>3, <2>11 DEF Timed, IsActive
  <2>15. Owners(q, {})
    BY <2>3, <2>4, <2>6, <2>11, NotOwners DEF Owners, Has, RtTypes
  <2>16. Stalls(q)
    <3>1. \A d \in Calls : d # c => q.streams[d] = u.streams[d]
      BY <2>11, <2>3 DEF RtTypes
    <3>2. q.streams[c].stall = id
      BY <1>1, <2>12 DEF StreamRec
    <3>3. \A d \in Calls : u.streams[d].stall # id
      BY <2>3, <2>6, NotOwners, IdsArePositive DEF Stalls, Has
    <3>4. u.streams[c].stall = 0
      BY <1>1, <2>2 DEF StreamRec
    <3>5. \A x \in TimerIds : u.callbacks[x] # c
      BY <2>3, <3>4, IdsArePositive DEF Stalls
    <3> QED
      BY <2>3, <2>6, <2>11, <3>1, <3>2, <3>3, <3>4, <3>5, NotOwners, IdsArePositive DEF Stalls, RtTypes, Has
  <2>17. Ends(q, {})
    BY <2>3, <2>4, <2>6, <2>11 DEF Ends, EndComes
  <2>18. Deadlines(q)
    BY <2>3, <2>11 DEF Deadlines
  <2>19. Sound(q)
    BY <2>3, <2>6, <2>11, <2>13, <2>14, <2>15, <2>16, <2>17, <2>18 DEF Sound, RtInv
  <2>20. SetsStall(r.streams, q.streams, c, id)
    BY ONLY <2>12 DEF SetsStall
  <2> QED
    BY <2>2, <2>4, <2>6, <2>11, <2>19, <2>20, IdsArePositive DEF Kept, Armed
<1> QED
  BY <1>2, <1>3

(* What is neither of a timer nor of a call's life is free to change.             *)
LEMMA Elsewhere ==
  ASSUME NEW r, NEW lost, NEW ended, RtInv(r, lost, ended), NEW q \in Runtimes,
         Len(q.queue) <= QueueLimit, q.scheduler = r.scheduler, q.pending = r.pending,
         q.cancelled = r.cancelled, q.callTimer = r.callTimer, q.timerCall = r.timerCall,
         q.callbacks = r.callbacks, \A c \in Calls : q.streams[c].stall = r.streams[c].stall
  PROVE  RtInv(q, lost, ended)
  BY RtInvParts DEF RtInv, Timed, IsActive, Owners, Has, Stalls, Ends, Deadlines

(* A timer of the program's own disturbs no call.                              *)
LEMMA UserTimerSet ==
  ASSUME NEW r, Sound(r), r.scheduler.nextId < MaxTimerId, now \in Int, NEW delay \in Int,
         NEW q, q = SetTimer(r, delay, "user")
  PROVE  Sound(q) /\ Kept(r, q) /\ Unheard(r, q)
<1>1. /\ r \in Runtimes /\ RtTypes(r) /\ Len(r.queue) <= QueueLimit
      /\ Timed(r) /\ Owners(r, {}) /\ Stalls(r) /\ Ends(r, {}) /\ Deadlines(r)
  BY RtInvParts DEF Sound
<1>2. PICK s, t, id : s = r.scheduler /\ t = SetTimeout(s, now, delay) /\ id = NewTimerId(s)
  OBVIOUS
<1>3. /\ Sched(t, RtTasks) /\ Fresh(t)
      /\ LiveIn(t) = LiveIn(s) \union {id} /\ FiredIn(t) = FiredIn(s)
      /\ t.tasks = s.tasks
      /\ id \in TimerIds /\ ~Has(r, id)
  <2>1. NewTimer(r, s, t, id)
    BY <1>2, NewHasNone
  <2> QED
    BY <2>1 DEF NewTimer
<1>4. q = Rt(t, r.pending, r.cancelled, r.callTimer, r.timerCall, r.streamSeq, r.queue,
             r.listening, r.lastSeq, r.streams, [r.callbacks EXCEPT ![id] = "user"])
  BY <1>1, <1>2, SetTimerForm
<1>5. /\ q.scheduler = t /\ q.pending = r.pending /\ q.cancelled = r.cancelled
      /\ q.callTimer = r.callTimer /\ q.timerCall = r.timerCall /\ q.streamSeq = r.streamSeq
      /\ q.queue = r.queue /\ q.listening = r.listening /\ q.lastSeq = r.lastSeq
      /\ q.streams = r.streams /\ q.callbacks = [r.callbacks EXCEPT ![id] = "user"]
  BY <1>4, RtFields
<1>6. q \in Runtimes
  <2>1. q.callbacks \in [TimerIds -> Calls \union NoOwner]
    BY <1>1, <1>5 DEF RtTypes, NoOwner
  <2>2. t \in Schedulers(RtTasks)
    BY <1>3 DEF Sched
  <2> QED
    BY <1>1, <1>4, <1>5, <2>1, <2>2, RtFormed DEF RtTypes
<1>7. Timed(q)
  BY <1>1, <1>5 DEF Timed, IsActive
<1>8. Owners(q, {})
  <2>1. r.timerCall[id] = NoCall
    BY <1>3 DEF Has
  <2>2. q.callbacks[id] = "user" /\ \A x \in TimerIds \ {id} : q.callbacks[x] = r.callbacks[x]
    BY <1>1, <1>3, <1>5 DEF RtTypes
  <2>3. Has(q, id) /\ \A x \in TimerIds \ {id} : Has(q, x) <=> Has(r, x)
    BY <1>5, <2>2 DEF Has
  <2>4. \A x \in TimerIds : Has(q, x) => x \in LiveIn(t) \union FiredIn(t)
    BY <1>1, <1>2, <1>3, <2>3 DEF Owners
  <2>5. \A x \in LiveIn(t) : Has(q, x)
    <3>1. LiveIn(s) \subseteq TimerIds
      <4>1. Sched(s, RtTasks)
        BY <1>2, RtInvParts DEF Sound
      <4> QED
        BY <4>1, LiveIsNotCancelled DEF Sched, Schedulers
    <3> QED
      BY <1>1, <1>2, <1>3, <2>3, <3>1 DEF Owners
  <2>6. \A x \in TimerIds : q.timerCall[x] = NoCall \/ q.callbacks[x] = "none"
    BY <1>1, <1>5, <2>1, <2>2 DEF Owners
  <2> QED
    BY <1>5, <2>4, <2>5, <2>6 DEF Owners
<1>9. Stalls(q)
  <2>1. r.callbacks[id] \notin Calls
    BY <1>3, NotOwners DEF Has
  <2>2. q.callbacks[id] \notin Calls /\ \A x \in TimerIds \ {id} : q.callbacks[x] = r.callbacks[x]
    BY <1>1, <1>3, <1>5, NotOwners DEF RtTypes
  <2>3. \A d \in Calls : r.streams[d].stall # 0 => r.streams[d].stall \in TimerIds
    BY <1>1 DEF RtTypes, StreamRec
  <2> QED
    BY <1>1, <1>5, <2>1, <2>2, <2>3 DEF Stalls
<1>10. Ends(q, {})
  BY <1>1, <1>2, <1>3, <1>5 DEF Ends, EndComes
<1>11. Deadlines(q)
  BY <1>1, <1>5 DEF Deadlines
<1> QED
  BY <1>1, <1>2, <1>3, <1>5, <1>6, <1>7, <1>8, <1>9, <1>10, <1>11 DEF Sound, RtInv, Kept, Unheard

(* ... nor does clearing one.                                                  *)
LEMMA UserTimerCleared ==
  ASSUME NEW r, Sound(r), NEW id \in TimerIds, r.callbacks[id] = "user",
         NEW q, q = ClearTimer(r, id)
  PROVE  Sound(q) /\ Kept(r, q) /\ Unheard(r, q)
<1>1. /\ r \in Runtimes /\ RtTypes(r) /\ Len(r.queue) <= QueueLimit
      /\ Sched(r.scheduler, RtTasks) /\ Fresh(r.scheduler)
      /\ Timed(r) /\ Owners(r, {}) /\ Stalls(r) /\ Ends(r, {}) /\ Deadlines(r)
  BY RtInvParts DEF Sound
<1>2. PICK s, t : s = r.scheduler /\ t = ClearTimeout(s, id)
  OBVIOUS
<1>3. /\ Sched(t, RtTasks) /\ Fresh(t)
      /\ LiveIn(t) = LiveIn(s) \ {id} /\ FiredIn(t) = FiredIn(s)
      /\ t.tasks = s.tasks
  BY <1>1, <1>2, RtClear
<1>4. q = Rt(t, r.pending, r.cancelled, r.callTimer, r.timerCall, r.streamSeq, r.queue,
             r.listening, r.lastSeq, r.streams, [r.callbacks EXCEPT ![id] = "none"])
  BY <1>1, <1>2, ClearTimerForm
<1>5. /\ q.scheduler = t /\ q.pending = r.pending /\ q.cancelled = r.cancelled
      /\ q.callTimer = r.callTimer /\ q.timerCall = r.timerCall /\ q.streamSeq = r.streamSeq
      /\ q.queue = r.queue /\ q.listening = r.listening /\ q.lastSeq = r.lastSeq
      /\ q.streams = r.streams /\ q.callbacks = [r.callbacks EXCEPT ![id] = "none"]
  BY <1>4, RtFields
<1>6. q \in Runtimes
  <2>1. q.callbacks \in [TimerIds -> Calls \union NoOwner]
    BY <1>1, <1>5 DEF RtTypes, NoOwner
  <2>2. t \in Schedulers(RtTasks)
    BY <1>3 DEF Sched
  <2> QED
    BY <1>1, <1>4, <1>5, <2>1, <2>2, RtFormed DEF RtTypes
<1>7. Timed(q)
  BY <1>1, <1>5 DEF Timed, IsActive
<1>8. r.timerCall[id] = NoCall
  BY <1>1 DEF Owners
<1>9. Owners(q, {})
  BY <1>1, <1>2, <1>3, <1>5, <1>8 DEF Owners, Has, RtTypes
<1>10. Stalls(q)
  BY <1>1, <1>5, NotOwners DEF Stalls, RtTypes
<1>11. Ends(q, {})
  BY <1>1, <1>2, <1>3, <1>5 DEF Ends, EndComes
<1>12. Deadlines(q)
  BY <1>1, <1>5 DEF Deadlines
<1> QED
  BY <1>1, <1>2, <1>3, <1>5, <1>6, <1>7, <1>9, <1>10, <1>11, <1>12 DEF Sound, RtInv, Kept, Unheard

-----------------------------------------------------------------------------
(* NodeRuntime: the operations of the tracker keep the invariant             *)

TimerOff(s, id) == IF id = 0 THEN s ELSE ClearTimeout(s, id)
TakenFrom(r, c) == [t \in TimerIds |-> IF r.timerCall[t] = c THEN NoCall ELSE r.timerCall[t]]

(* Clearing a call's timer, if it has one.                                     *)
LEMMA TimerOffKeeps ==
  ASSUME NEW s, Sched(s, RtTasks), Fresh(s), NEW id \in TimerIds \union {0},
         NEW t, t = TimerOff(s, id)
  PROVE  /\ Sched(t, RtTasks) /\ Fresh(t)
         /\ LiveIn(t) = LiveIn(s) \ {id} /\ FiredIn(t) = FiredIn(s)
         /\ t.tasks = s.tasks /\ t.nextId = s.nextId
<1>1. CASE id = 0
  <2>1. LiveIn(s) \subseteq TimerIds
    BY LiveIsNotCancelled DEF Sched, Schedulers
  <2> QED
    BY <1>1, <2>1, IdsArePositive DEF TimerOff
<1>2. CASE id # 0
  <2>1. t = ClearTimeout(s, id) /\ id \in TimerIds
    BY <1>2 DEF TimerOff
  <2> QED
    BY <2>1, RtClear
<1> QED
  BY <1>1, <1>2

(* The tracker forgets which timer a call had, in both tables.                 *)
LEMMA TimerTaken ==
  ASSUME NEW r \in Runtimes, Timed(r), NEW c \in Calls, NEW q, q = WithoutTimer(r, c)
  PROVE  q = Rt(r.scheduler, r.pending, r.cancelled, [r.callTimer EXCEPT ![c] = 0],
                TakenFrom(r, c), r.streamSeq, r.queue, r.listening, r.lastSeq, r.streams,
                r.callbacks)
<1>1. RtTypes(r)
  BY RtForm
<1>2. CASE r.callTimer[c] = 0
  <2>1. [r.callTimer EXCEPT ![c] = 0] = r.callTimer
    BY <1>1, <1>2 DEF RtTypes
  <2>2. \A t \in TimerIds : r.timerCall[t] # c
    BY <1>2, IdsArePositive, NotOwners DEF Timed
  <2>3. TakenFrom(r, c) = r.timerCall
    BY <1>1, <2>2 DEF RtTypes, TakenFrom
  <2>4. q = r
    BY <1>2 DEF WithoutTimer
  <2> QED
    BY <2>1, <2>3, <2>4, RtForm
<1>3. CASE r.callTimer[c] # 0
  <2>1. r.callTimer[c] \in TimerIds /\ r.timerCall[r.callTimer[c]] = c
    BY <1>1, <1>3 DEF RtTypes, Timed
  <2>2. \A t \in TimerIds : r.timerCall[t] = c => t = r.callTimer[c]
    BY NotOwners DEF Timed
  <2>3. [r.timerCall EXCEPT ![r.callTimer[c]] = NoCall] = TakenFrom(r, c)
    BY <1>1, <2>1, <2>2 DEF RtTypes, TakenFrom
  <2> QED
    BY <1>3, <2>3, WithoutTimerForm
<1> QED
  BY <1>2, <1>3

(* A call that ends, or is cancelled, no longer has its timer.                    *)
Quieted(r, q, c) ==
  /\ q \in Runtimes /\ Len(q.queue) <= QueueLimit
  /\ Sched(q.scheduler, RtTasks) /\ Fresh(q.scheduler)
  /\ LiveIn(q.scheduler) = LiveIn(r.scheduler) \ {r.callTimer[c]}
  /\ FiredIn(q.scheduler) = FiredIn(r.scheduler)
  /\ q.scheduler.tasks = r.scheduler.tasks
  /\ q.callTimer = [r.callTimer EXCEPT ![c] = 0] /\ q.timerCall = TakenFrom(r, c)
  /\ q.callbacks = r.callbacks /\ q.streams = r.streams
  /\ \/ q.pending = r.pending \ {c} /\ q.cancelled = r.cancelled \ {c}
     \/ q.pending = r.pending /\ q.cancelled = r.cancelled \union {c} /\ c \in r.pending

(* Taking the timer of a call that has ended keeps the invariant.              *)
LEMMA QuietKeeps ==
  ASSUME NEW r, NEW lost, NEW ended, RtInv(r, lost, ended), NEW c \in Calls,
         NEW q, Quieted(r, q, c)
  PROVE  /\ RtInv(q, lost \ {r.callTimer[c]}, ended \union {c})
         /\ c \notin q.cancelled /\ ended \subseteq {c} => RtInv(q, lost \ {r.callTimer[c]}, {})
<1>1. /\ r \in Runtimes /\ RtTypes(r)
      /\ Timed(r) /\ Owners(r, lost) /\ Stalls(r) /\ Ends(r, ended) /\ Deadlines(r)
  BY RtInvParts
<1>2. /\ q.callTimer = [r.callTimer EXCEPT ![c] = 0] /\ q.timerCall = TakenFrom(r, c)
      /\ q.callbacks = r.callbacks /\ q.streams = r.streams
      /\ \/ q.pending = r.pending \ {c} /\ q.cancelled = r.cancelled \ {c}
         \/ q.pending = r.pending /\ q.cancelled = r.cancelled \union {c} /\ c \in r.pending
  BY DEF Quieted
<1>3. q.callTimer[c] = 0 /\ \A d \in Calls \ {c} : q.callTimer[d] = r.callTimer[d]
  BY <1>1, <1>2 DEF RtTypes
<1>4. \A t \in TimerIds : q.timerCall[t] = IF r.timerCall[t] = c THEN NoCall ELSE r.timerCall[t]
  BY <1>2 DEF TakenFrom
<1>5. \A t \in TimerIds : r.timerCall[t] = c <=> t = r.callTimer[c]
  BY <1>1, NotOwners, IdsArePositive DEF Timed
<1>6. Timed(q)
  <2>1. ASSUME NEW d \in Calls, q.callTimer[d] # 0 PROVE q.timerCall[q.callTimer[d]] = d
    <3>1. d # c /\ q.callTimer[d] = r.callTimer[d] /\ r.callTimer[d] \in TimerIds
      BY <1>1, <1>3, <2>1 DEF RtTypes
    <3>2. r.timerCall[r.callTimer[d]] = d
      BY <1>1, <2>1, <3>1 DEF Timed
    <3> QED
      BY <1>4, <3>1, <3>2
  <2>2. ASSUME NEW t \in TimerIds, q.timerCall[t] # NoCall
        PROVE  /\ q.callTimer[q.timerCall[t]] = t /\ IsActive(q, q.timerCall[t])
    <3>1. r.timerCall[t] # c /\ q.timerCall[t] = r.timerCall[t]
      BY <1>4, <2>2
    <3>2. r.timerCall[t] \in Calls
      BY <1>1, <2>2, <3>1 DEF RtTypes
    <3>3. r.callTimer[r.timerCall[t]] = t /\ IsActive(r, r.timerCall[t])
      BY <1>1, <2>2, <3>1 DEF Timed
    <3> QED
      BY <1>2, <1>3, <3>1, <3>2, <3>3 DEF IsActive
  <2>3. q.cancelled \subseteq q.pending
    BY <1>1, <1>2 DEF Timed
  <2> QED
    BY <2>1, <2>2, <2>3 DEF Timed
<1>7. Owners(q, lost \ {r.callTimer[c]})
  <2>1. \A t \in TimerIds : t # r.callTimer[c] => (Has(q, t) <=> Has(r, t))
    BY <1>2, <1>4, <1>5 DEF Has
  <2>2. \A t \in TimerIds : t = r.callTimer[c] => ~Has(q, t)
    BY <1>1, <1>2, <1>4, <1>5, NotOwners DEF Has, Owners
  <2>3. /\ LiveIn(q.scheduler) = LiveIn(r.scheduler) \ {r.callTimer[c]}
        /\ FiredIn(q.scheduler) = FiredIn(r.scheduler)
    BY DEF Quieted
  <2>4. LiveIn(r.scheduler) \subseteq TimerIds
    <3>1. Sched(r.scheduler, RtTasks)
      BY RtInvParts
    <3> QED
      BY <3>1, LiveIsNotCancelled DEF Sched, Schedulers
  <2>5. \A t \in TimerIds : q.timerCall[t] = NoCall \/ q.callbacks[t] = "none"
    BY <1>1, <1>2, <1>4 DEF Owners
  <2>6. \A t \in TimerIds \ (lost \ {r.callTimer[c]}) :
          Has(q, t) => t \in LiveIn(q.scheduler) \union FiredIn(q.scheduler)
    BY <1>1, <2>1, <2>2, <2>3 DEF Owners
  <2>7. \A t \in LiveIn(q.scheduler) : Has(q, t)
    BY <1>1, <2>1, <2>3, <2>4 DEF Owners
  <2> QED
    BY <2>5, <2>6, <2>7 DEF Owners
<1>8. Stalls(q)
  BY <1>1, <1>2 DEF Stalls
<1>9. Ends(q, ended \union {c})
  <2>1. q.scheduler.tasks = r.scheduler.tasks
    BY DEF Quieted
  <2>2. \A d : EndComes(r.scheduler, d) => EndComes(q.scheduler, d)
    BY <2>1 DEF EndComes
  <2> QED
    BY <1>1, <1>2, <2>2 DEF Ends
<1>10. Deadlines(q)
  BY <1>1, <1>2, <1>3 DEF Deadlines, RtTypes
<1>11. RtInv(q, lost \ {r.callTimer[c]}, ended \union {c})
  BY <1>6, <1>7, <1>8, <1>9, <1>10 DEF RtInv, Quieted
<1>12. ASSUME c \notin q.cancelled, ended \subseteq {c} PROVE Ends(q, {})
  BY <1>9, <1>12 DEF Ends
<1> QED
  BY <1>11, <1>12 DEF RtInv

(* A call that the tracker forgets.                                            *)
Forgotten(r, q, c) ==
  /\ Sound(q) /\ q.scheduler.nextId = r.scheduler.nextId
  /\ q.pending = r.pending \ {c} /\ q.cancelled = r.cancelled \ {c}
  /\ q.queue = r.queue /\ Unheard(r, q) /\ q.scheduler.tasks = r.scheduler.tasks

(* on_complete forgets the call and its timer.                                 *)
LEMMA CompletedKeeps ==
  ASSUME NEW r, NEW c \in Calls, RtInv(r, {}, {}) \/ RtInv(r, {}, {c}),
         NEW q, q = Completed(r, c)
  PROVE  Forgotten(r, q, c)
<1>1. PICK ended : RtInv(r, {}, ended) /\ ended \subseteq {c}
  OBVIOUS
<1>2. /\ r \in Runtimes /\ RtTypes(r) /\ Timed(r) /\ Len(r.queue) <= QueueLimit
      /\ Sched(r.scheduler, RtTasks) /\ Fresh(r.scheduler)
  BY <1>1, RtInvParts
<1>3. PICK w : w = WithoutTimer(r, c)
  OBVIOUS
<1>4. w = Rt(r.scheduler, r.pending, r.cancelled, [r.callTimer EXCEPT ![c] = 0],
             TakenFrom(r, c), r.streamSeq, r.queue, r.listening, r.lastSeq, r.streams, r.callbacks)
  BY <1>2, <1>3, TimerTaken
<1>5. PICK s, t, id : s = r.scheduler /\ id = r.callTimer[c] /\ t = TimerOff(s, id)
  OBVIOUS
<1>6. q = Rt(t, r.pending \ {c}, r.cancelled \ {c}, [r.callTimer EXCEPT ![c] = 0],
             TakenFrom(r, c), [r.streamSeq EXCEPT ![c] = -1], r.queue, r.listening, r.lastSeq,
             r.streams, r.callbacks)
  <2>1. PICK f : f = [w EXCEPT !.pending = @ \ {c}, !.cancelled = @ \ {c}, !.streamSeq[c] = -1]
    OBVIOUS
  <2>2. f = Rt(s, r.pending \ {c}, r.cancelled \ {c}, [r.callTimer EXCEPT ![c] = 0],
               TakenFrom(r, c), [r.streamSeq EXCEPT ![c] = -1], r.queue, r.listening, r.lastSeq,
               r.streams, r.callbacks)
    BY <1>4, <1>5, <2>1 DEF Rt
  <2>3. q = IF id = 0 THEN f ELSE [f EXCEPT !.scheduler = ClearTimeout(@, id)]
    BY <1>3, <1>5, <2>1 DEF Completed
  <2>4. CASE id = 0
    BY <1>5, <2>2, <2>3, <2>4 DEF TimerOff
  <2>5. CASE id # 0
    <3>1. t = ClearTimeout(s, id)
      BY <1>5, <2>5 DEF TimerOff
    <3>2. f.scheduler = s
      BY <2>2 DEF Rt
    <3>3. q = [f EXCEPT !.scheduler = ClearTimeout(@, id)]
      BY <2>3, <2>5
    <3>4. q = [f EXCEPT !.scheduler = ClearTimeout(f.scheduler, id)]
      BY <3>3
    <3> QED
      BY <2>2, <3>1, <3>2, <3>4 DEF Rt
  <2> QED
    BY <2>4, <2>5
<1>7. /\ q.scheduler = t /\ q.pending = r.pending \ {c} /\ q.cancelled = r.cancelled \ {c}
      /\ q.callTimer = [r.callTimer EXCEPT ![c] = 0] /\ q.timerCall = TakenFrom(r, c)
      /\ q.streamSeq = [r.streamSeq EXCEPT ![c] = -1] /\ q.queue = r.queue
      /\ q.listening = r.listening /\ q.lastSeq = r.lastSeq /\ q.streams = r.streams
      /\ q.callbacks = r.callbacks
  BY <1>6, RtFields
<1>8. id \in TimerIds \union {0}
  BY <1>2, <1>5 DEF RtTypes
<1>9. /\ Sched(t, RtTasks) /\ Fresh(t)
      /\ LiveIn(t) = LiveIn(s) \ {id} /\ FiredIn(t) = FiredIn(s)
      /\ t.tasks = s.tasks /\ t.nextId = s.nextId
  BY <1>2, <1>5, <1>8, TimerOffKeeps
<1>10. q \in Runtimes
  <2>1. q.callTimer \in [Calls -> TimerIds \union {0}]
    BY <1>2, <1>7 DEF RtTypes
  <2>2. q.timerCall \in [TimerIds -> Calls \union {NoCall}]
    BY <1>2, <1>7 DEF RtTypes, TakenFrom
  <2>3. q.streamSeq \in [Calls -> -1..MaxChunks]
    <3>1. -1 \in -1..MaxChunks
      BY NodeRuntimeConstants
    <3> QED
      BY <1>2, <1>7, <3>1 DEF RtTypes
  <2>4. t \in Schedulers(RtTasks)
    BY <1>9 DEF Sched
  <2> QED
    BY <1>2, <1>6, <1>7, <2>1, <2>2, <2>3, <2>4, RtFormed DEF RtTypes
<1>11. Quieted(r, q, c)
  BY <1>2, <1>5, <1>7, <1>9, <1>10 DEF Quieted
<1>12. Sound(q)
  <2>1. RtInv(q, {} \ {r.callTimer[c]}, {})
    BY <1>1, <1>7, <1>11, QuietKeeps
  <2> QED
    BY <2>1 DEF Sound
<1> QED
  BY <1>5, <1>7, <1>9, <1>12 DEF Forgotten, Unheard

(* The outcome o of c is put behind the tasks, and nothing else.                 *)
Arrived(r, q, c, o) ==
  /\ q.scheduler.nextId = r.scheduler.nextId
  /\ q.scheduler.tasks = Append(r.scheduler.tasks, Completion(r.scheduler.seq, c, o))
  /\ q.pending = r.pending /\ q.cancelled = r.cancelled
  /\ q.queue = r.queue /\ q.streamSeq = r.streamSeq /\ Unheard(r, q)

(* An outcome joins the tasks; one that ends the call is its end.              *)
LEMMA EnqueueKeepsSound ==
  ASSUME NEW r, NEW lost, NEW ended, RtInv(r, lost, ended), NEW c \in Calls, NEW o \in AllOutcomes,
         Fits(c, o), NEW q, q = Enqueue(r, c, o)
  PROVE  /\ RtInv(q, lost, ended)
         /\ ~Partial(o) => RtInv(q, lost, ended \ {c}) /\ EndComes(q.scheduler, c)
         /\ Arrived(r, q, c, o)
<1>1. /\ r \in Runtimes /\ RtTypes(r) /\ Len(r.queue) <= QueueLimit
      /\ Sched(r.scheduler, RtTasks) /\ Fresh(r.scheduler)
      /\ Timed(r) /\ Owners(r, lost) /\ Stalls(r) /\ Ends(r, ended) /\ Deadlines(r)
  BY RtInvParts
<1>2. PICK s, t : s = r.scheduler /\ t = EnqueueHostcallComplete(s, c, o)
  OBVIOUS
<1>3. /\ Sched(t, RtTasks) /\ Fresh(t)
      /\ LiveIn(t) = LiveIn(s) /\ FiredIn(t) = FiredIn(s) /\ t.nextId = s.nextId
      /\ \A d : EndComes(s, d) => EndComes(t, d)
      /\ ~Partial(o) => EndComes(t, c)
  BY <1>1, <1>2, RtEnqueue
<1>4. q = Rt(t, r.pending, r.cancelled, r.callTimer, r.timerCall, r.streamSeq, r.queue,
             r.listening, r.lastSeq, r.streams, r.callbacks)
  BY <1>1, <1>2 DEF Enqueue, Runtimes, Rt
<1>5. /\ q.scheduler = t /\ q.pending = r.pending /\ q.cancelled = r.cancelled
      /\ q.callTimer = r.callTimer /\ q.timerCall = r.timerCall /\ q.streamSeq = r.streamSeq
      /\ q.queue = r.queue /\ q.listening = r.listening /\ q.lastSeq = r.lastSeq
      /\ q.streams = r.streams /\ q.callbacks = r.callbacks
  BY <1>4, RtFields
<1>6. q \in Runtimes
  <2>1. t \in Schedulers(RtTasks)
    BY <1>3 DEF Sched
  <2> QED
    BY <1>1, <1>4, <1>5, <2>1, RtFormed DEF RtTypes
<1>7. Timed(q) /\ Stalls(q) /\ Deadlines(q)
  BY <1>1, <1>5 DEF Timed, IsActive, Stalls, Deadlines
<1>8. Owners(q, lost)
  BY <1>1, <1>2, <1>3, <1>5 DEF Owners, Has
<1>9. Ends(q, ended) /\ (~Partial(o) => Ends(q, ended \ {c}))
  BY <1>1, <1>2, <1>3, <1>5 DEF Ends
<1>10. t.tasks = Append(s.tasks, Completion(s.seq, c, o))
  BY <1>1, <1>2 DEF EnqueueHostcallComplete, Completion, Sched, Schedulers
<1> QED
  BY <1>1, <1>2, <1>3, <1>5, <1>6, <1>7, <1>8, <1>9, <1>10 DEF RtInv, Arrived, Unheard

(* Which outcomes there are, and which of them end a call.                     *)
LEMMA OutcomeFacts ==
  /\ Ok \in AllOutcomes /\ ~Partial(Ok)
  /\ Failed("io") \in AllOutcomes /\ ~Partial(Failed("io"))
  /\ Failed("timeout") \in AllOutcomes /\ ~Partial(Failed("timeout"))
  /\ Failed("overloaded") \in AllOutcomes /\ ~Partial(Failed("overloaded"))
  /\ \A n \in 0..MaxChunks : \A final \in BOOLEAN : Chunk(n, final) \in AllOutcomes
  /\ \A n : ~Partial(Chunk(n, TRUE)) /\ Partial(Chunk(n, FALSE)) /\ ~Partial(Sentinel(n))
  /\ \A n \in 0..(MaxChunks + 1) : Sentinel(n) \in AllOutcomes
  /\ \A c, n : Fits(c, Sentinel(n))
  /\ \A c, code : Fits(c, Failed(code))
<1>1. Ok \in AllOutcomes
  BY DEF AllOutcomes
<1>2. Ok.type # "chunk"
  BY DEF Ok
<1>3. \A code : Failed(code).type # "chunk"
  BY DEF Failed
<1>4. Failed("io") \in AllOutcomes /\ Failed("timeout") \in AllOutcomes
      /\ Failed("overloaded") \in AllOutcomes
  BY DEF AllOutcomes, Errors
<1>5. \A n \in 0..MaxChunks : \A final \in BOOLEAN : Chunk(n, final) \in AllOutcomes
  BY DEF AllOutcomes, ChunkOutcomes
<1>6. \A n : Chunk(n, TRUE).final = TRUE /\ Sentinel(n).final = TRUE
  BY DEF Chunk, Sentinel
<1>7. \A n : Chunk(n, FALSE).final = FALSE /\ Chunk(n, FALSE).type = "chunk"
  BY DEF Chunk
<1>8. \A n \in 0..(MaxChunks + 1) : Sentinel(n) \in AllOutcomes
  BY DEF AllOutcomes, ChunkOutcomes
<1>9. /\ \A c, n : Fits(c, Sentinel(n))
      /\ \A c, code : Fits(c, Failed(code))
  BY DEF Fits, Sentinel, Failed
<1> QED
  BY <1>1, <1>2, <1>3, <1>4, <1>5, <1>6, <1>7, <1>8, <1>9 DEF Partial

(* What a cancellation leaves alone.                                           *)
Remains(r, q) ==
  /\ q.pending = r.pending /\ q.queue = r.queue /\ Unheard(r, q)
  /\ q.scheduler.nextId = r.scheduler.nextId

(* A task of c joins the others.                                               *)
TaskJoins(r, q, c) ==
  \E n : \E o \in AllOutcomes : q.scheduler.tasks = Append(r.scheduler.tasks, Completion(n, c, o))

(* A call that waits is called off, and its end is on its way.                    *)
CalledOff(r, q, c) ==
  \/ q.cancelled = r.cancelled /\ q.scheduler.tasks = r.scheduler.tasks
  \/ q.cancelled = r.cancelled \union {c} /\ c \in r.pending /\ TaskJoins(r, q, c)

(* A cancelled call that the tracker still has gets a timeout as its end, and    *)
(* waits no longer.                                                            *)
LEMMA CancelKeeps ==
  ASSUME NEW r, Sound(r), NEW c \in Calls, NEW q, q = CancelHostcall(r, c)
  PROVE  Sound(q) /\ Remains(r, q) /\ CalledOff(r, q, c) /\ ~IsActive(q, c)
<1>1. /\ RtInv(r, {}, {}) /\ r \in Runtimes /\ RtTypes(r) /\ Timed(r) /\ Len(r.queue) <= QueueLimit
      /\ Sched(r.scheduler, RtTasks) /\ Fresh(r.scheduler)
  BY RtInvParts DEF Sound
<1>2. CASE ~IsActive(r, c)
  BY <1>2 DEF CancelHostcall, Remains, Unheard, CalledOff
<1>3. CASE IsActive(r, c)
  <2>1. PICK w : w = WithoutTimer(r, c)
    OBVIOUS
  <2>2. w = Rt(r.scheduler, r.pending, r.cancelled, [r.callTimer EXCEPT ![c] = 0],
               TakenFrom(r, c), r.streamSeq, r.queue, r.listening, r.lastSeq, r.streams, r.callbacks)
    BY <1>1, <2>1, TimerTaken
  <2>3. PICK s, t, id : s = r.scheduler /\ id = r.callTimer[c] /\ t = TimerOff(s, id)
    OBVIOUS
  <2>4. PICK k : k = [w EXCEPT !.cancelled = @ \union {c}]
    OBVIOUS
  <2>5. k = Rt(s, r.pending, r.cancelled \union {c}, [r.callTimer EXCEPT ![c] = 0],
               TakenFrom(r, c), r.streamSeq, r.queue, r.listening, r.lastSeq, r.streams, r.callbacks)
    BY <2>2, <2>3, <2>4 DEF Rt
  <2>6. PICK h : h = IF id = 0 THEN k ELSE [k EXCEPT !.scheduler = ClearTimeout(@, id)]
    OBVIOUS
  <2>7. h = Rt(t, r.pending, r.cancelled \union {c}, [r.callTimer EXCEPT ![c] = 0],
               TakenFrom(r, c), r.streamSeq, r.queue, r.listening, r.lastSeq, r.streams, r.callbacks)
    <3>1. CASE id = 0
      BY <2>3, <2>5, <2>6, <3>1 DEF TimerOff
    <3>2. CASE id # 0
      <4>1. t = ClearTimeout(s, id)
        BY <2>3, <3>2 DEF TimerOff
      <4>2. k.scheduler = s
        BY <2>5 DEF Rt
      <4>3. h = [k EXCEPT !.scheduler = ClearTimeout(k.scheduler, id)]
        BY <2>6, <3>2
      <4> QED
        BY <2>5, <4>1, <4>2, <4>3 DEF Rt
    <3> QED
      BY <3>1, <3>2
  <2>8. /\ h.scheduler = t /\ h.pending = r.pending /\ h.cancelled = r.cancelled \union {c}
        /\ h.callTimer = [r.callTimer EXCEPT ![c] = 0] /\ h.timerCall = TakenFrom(r, c)
        /\ h.streamSeq = r.streamSeq /\ h.queue = r.queue
        /\ h.listening = r.listening /\ h.lastSeq = r.lastSeq /\ h.streams = r.streams
        /\ h.callbacks = r.callbacks
    BY <2>7, RtFields
  <2>9. id \in TimerIds \union {0}
    BY <1>1, <2>3 DEF RtTypes
  <2>10. /\ Sched(t, RtTasks) /\ Fresh(t)
         /\ LiveIn(t) = LiveIn(s) \ {id} /\ FiredIn(t) = FiredIn(s)
         /\ t.tasks = s.tasks /\ t.nextId = s.nextId
    BY <1>1, <2>3, <2>9, TimerOffKeeps
  <2>11. h \in Runtimes
    <3>1. h.callTimer \in [Calls -> TimerIds \union {0}]
      BY <1>1, <2>8 DEF RtTypes
    <3>2. h.timerCall \in [TimerIds -> Calls \union {NoCall}]
      BY <1>1, <2>8 DEF RtTypes, TakenFrom
    <3>3. h.cancelled \in SUBSET Calls
      BY <1>1, <2>8 DEF RtTypes
    <3>4. t \in Schedulers(RtTasks)
      BY <2>10 DEF Sched
    <3> QED
      BY <1>1, <2>7, <2>8, <3>1, <3>2, <3>3, <3>4, RtFormed DEF RtTypes
  <2>12. Quieted(r, h, c)
    BY <1>1, <1>3, <2>3, <2>8, <2>10, <2>11 DEF Quieted, IsActive
  <2>13. RtInv(h, {}, {c})
    <3>1. RtInv(h, {} \ {r.callTimer[c]}, {} \union {c})
      BY <1>1, <2>12, QuietKeeps
    <3> QED
      BY <3>1
  <2>14. PICK o : o = Sentinel(r.streamSeq[c] + 1)
    OBVIOUS
  <2>15. o \in AllOutcomes /\ ~Partial(o) /\ Fits(c, o)
    <3>1. r.streamSeq[c] \in -1..MaxChunks
      BY <1>1 DEF RtTypes
    <3>2. r.streamSeq[c] + 1 \in 0..(MaxChunks + 1)
      BY <3>1, NodeRuntimeConstants
    <3> QED
      BY <2>14, <3>2, OutcomeFacts
  <2>16. q = Enqueue(h, c, o)
    BY <1>3, <2>1, <2>3, <2>4, <2>6, <2>14 DEF CancelHostcall
  <2>17. RtInv(q, {}, {c} \ {c}) /\ Arrived(h, q, c, o)
    BY <2>13, <2>15, <2>16, EnqueueKeepsSound
  <2>18. CalledOff(r, q, c)
    <3>1. TaskJoins(r, q, c)
      BY <2>3, <2>8, <2>10, <2>15, <2>17 DEF TaskJoins, Arrived
    <3> QED
      BY <1>3, <2>8, <2>17, <3>1 DEF CalledOff, IsActive, Arrived
  <2>19. Sound(q) /\ Remains(r, q)
    BY <2>3, <2>8, <2>10, <2>17 DEF Sound, Remains, Unheard, Arrived
  <2>20. ~IsActive(q, c)
    BY <2>8, <2>17 DEF IsActive, Arrived
  <2> QED
    BY <2>18, <2>19, <2>20
<1> QED
  BY <1>2, <1>3

(* The timer id has just fired.                                                *)
Rung(r, id) == RtInv(r, {id}, {}) /\ id \notin LiveIn(r.scheduler)

(* When a call's timer fires, the tracker forgets the call.                    *)
LEMMA TimedOutKeeps ==
  ASSUME NEW r, NEW id \in TimerIds, Rung(r, id),
         NEW c \in Calls, r.timerCall[id] = c, NEW q, q = TimedOut(r, c)
  PROVE  Forgotten(r, q, c)
<1> USE DEF Rung
<1>1. /\ r \in Runtimes /\ RtTypes(r) /\ Timed(r) /\ Len(r.queue) <= QueueLimit
      /\ Sched(r.scheduler, RtTasks) /\ Fresh(r.scheduler)
  BY RtInvParts
<1>2. PICK w : w = WithoutTimer(r, c)
  OBVIOUS
<1>3. w = Rt(r.scheduler, r.pending, r.cancelled, [r.callTimer EXCEPT ![c] = 0],
             TakenFrom(r, c), r.streamSeq, r.queue, r.listening, r.lastSeq, r.streams, r.callbacks)
  BY <1>1, <1>2, TimerTaken
<1>4. q = Rt(r.scheduler, r.pending \ {c}, r.cancelled \ {c}, [r.callTimer EXCEPT ![c] = 0],
             TakenFrom(r, c), [r.streamSeq EXCEPT ![c] = -1], r.queue, r.listening, r.lastSeq,
             r.streams, r.callbacks)
  <2>1. q = [w EXCEPT !.pending = @ \ {c}, !.cancelled = @ \ {c}, !.streamSeq[c] = -1]
    BY <1>2 DEF TimedOut
  <2> QED
    BY ZenonT(40), <1>3, <2>1 DEF Rt
<1>5. /\ q.scheduler = r.scheduler /\ q.pending = r.pending \ {c} /\ q.cancelled = r.cancelled \ {c}
      /\ q.callTimer = [r.callTimer EXCEPT ![c] = 0] /\ q.timerCall = TakenFrom(r, c)
      /\ q.streamSeq = [r.streamSeq EXCEPT ![c] = -1] /\ q.queue = r.queue
      /\ q.listening = r.listening /\ q.lastSeq = r.lastSeq /\ q.streams = r.streams
      /\ q.callbacks = r.callbacks
  BY <1>4, RtFields
<1>6. id = r.callTimer[c]
  BY <1>1, NotOwners DEF Timed
<1>7. q \in Runtimes
  <2>1. q.callTimer \in [Calls -> TimerIds \union {0}]
    BY <1>1, <1>5 DEF RtTypes
  <2>2. q.timerCall \in [TimerIds -> Calls \union {NoCall}]
    BY <1>1, <1>5 DEF RtTypes, TakenFrom
  <2>3. q.streamSeq \in [Calls -> -1..MaxChunks]
    <3>1. -1 \in -1..MaxChunks
      BY NodeRuntimeConstants
    <3> QED
      BY <1>1, <1>5, <3>1 DEF RtTypes
  <2> QED
    BY <1>1, <1>4, <1>5, <2>1, <2>2, <2>3, RtFormed DEF RtTypes
<1>8. Quieted(r, q, c)
  BY <1>1, <1>5, <1>6, <1>7 DEF Quieted
<1>9. Sound(q)
  <2>1. c \notin q.cancelled
    BY <1>5
  <2>2. PICK lost, ended : lost = {id} /\ ended = {}
    OBVIOUS
  <2>3. RtInv(r, lost, ended) /\ ended \subseteq {c}
    BY <2>2
  <2>4. RtInv(q, lost \ {r.callTimer[c]}, {})
    BY ONLY c \in Calls, <1>8, <2>1, <2>3, QuietKeeps
  <2>5. lost \ {r.callTimer[c]} = {}
    BY <1>6, <2>2
  <2> QED
    BY <2>4, <2>5 DEF Sound
<1> QED
  BY <1>5, <1>9 DEF Unheard, Forgotten

(* A call is registered together with its timer.                               *)
LEMMA Registered ==
  ASSUME NEW r, Sound(r), r.scheduler.nextId < MaxTimerId, now \in Int,
         NEW c \in Calls, c \notin r.pending, NEW timeout \in Int,
         timeout = 0 => c \in Exits \/ HostcallTimeout = 0,
         NEW q, q = Register(r, c, timeout)
  PROVE  /\ Sound(q) /\ q.pending = r.pending \union {c} /\ q.cancelled = r.cancelled \ {c}
         /\ q.queue = r.queue /\ Unheard(r, q) /\ q.scheduler.tasks = r.scheduler.tasks
<1>1. /\ r \in Runtimes /\ RtTypes(r) /\ Len(r.queue) <= QueueLimit
      /\ Sched(r.scheduler, RtTasks) /\ Fresh(r.scheduler)
      /\ Timed(r) /\ Owners(r, {}) /\ Stalls(r) /\ Ends(r, {}) /\ Deadlines(r)
  BY RtInvParts DEF Sound
<1>2. r.callTimer[c] = 0 /\ c \notin r.cancelled /\ \A t \in TimerIds : r.timerCall[t] # c
  <2>1. \A t \in TimerIds : r.timerCall[t] # c
    BY <1>1, NotOwners DEF Timed, IsActive
  <2>2. r.callTimer[c] # 0 => r.callTimer[c] \in TimerIds
    BY <1>1 DEF RtTypes
  <2> QED
    BY <1>1, <2>1, <2>2 DEF Timed
<1>3. PICK ss : ss = [r.streamSeq EXCEPT ![c] = -1]
  OBVIOUS
<1>4. ss \in [Calls -> -1..MaxChunks]
  <2>1. -1 \in -1..MaxChunks
    BY NodeRuntimeConstants
  <2> QED
    BY <1>1, <1>3, <2>1 DEF RtTypes
<1>5. PICK g : g = [r EXCEPT !.pending = @ \union {c}, !.cancelled = @ \ {c}, !.streamSeq[c] = -1]
  OBVIOUS
<1>6. g = Rt(r.scheduler, r.pending \union {c}, r.cancelled \ {c}, r.callTimer, r.timerCall,
             ss, r.queue, r.listening, r.lastSeq, r.streams, r.callbacks)
  BY <1>1, <1>3, <1>5 DEF Runtimes, Rt
<1>7. CASE timeout = 0
  <2>1. q = g
    BY <1>5, <1>7 DEF Register
  <2>2. /\ q.scheduler = r.scheduler /\ q.pending = r.pending \union {c}
        /\ q.cancelled = r.cancelled \ {c}
        /\ q.callTimer = r.callTimer /\ q.timerCall = r.timerCall /\ q.streamSeq = ss
        /\ q.queue = r.queue /\ q.listening = r.listening /\ q.lastSeq = r.lastSeq
        /\ q.streams = r.streams /\ q.callbacks = r.callbacks
    BY <1>6, <2>1, RtFields
  <2>3. q \in Runtimes
    BY <1>1, <1>4, <1>6, <2>1, <2>2, RtFormed DEF RtTypes
  <2>4. Timed(q) /\ Owners(q, {}) /\ Stalls(q) /\ Ends(q, {})
    BY <1>1, <1>2, <2>2 DEF Timed, IsActive, Owners, Has, Stalls, Ends, RtTypes
  <2>5. Deadlines(q)
    BY <1>1, <1>7, <2>2 DEF Deadlines
  <2> QED
    BY <1>1, <2>2, <2>3, <2>4, <2>5 DEF Sound, RtInv, Unheard
<1>8. CASE timeout # 0
  <2> PICK delay \in Int : delay = timeout
    OBVIOUS
  <2>1. PICK s, t, id : s = r.scheduler /\ t = SetTimeout(s, now, delay) /\ id = NewTimerId(s)
    OBVIOUS
  <2>2. /\ Sched(t, RtTasks) /\ Fresh(t)
        /\ LiveIn(t) = LiveIn(s) \union {id} /\ FiredIn(t) = FiredIn(s)
        /\ t.tasks = s.tasks
        /\ id \in TimerIds /\ ~Has(r, id)
    <3>1. NewTimer(r, s, t, id)
      BY <2>1, NewHasNone
    <3> QED
      BY <3>1 DEF NewTimer
  <2>3. q = Rt(t, r.pending \union {c}, r.cancelled \ {c}, [r.callTimer EXCEPT ![c] = id],
               [r.timerCall EXCEPT ![id] = c], ss, r.queue, r.listening, r.lastSeq, r.streams,
               r.callbacks)
    <3>1. q = [g EXCEPT !.scheduler = SetTimeout(@, now, timeout),
                        !.callTimer[c] = id, !.timerCall[id] = c]
      BY <1>5, <1>8, <2>1 DEF Register
    <3>2. g.scheduler = s
      BY <1>6, <2>1 DEF Rt
    <3>3. q = [g EXCEPT !.scheduler = t, !.callTimer[c] = id, !.timerCall[id] = c]
      BY <2>1, <3>1, <3>2
    <3> QED
      BY <1>6, <3>3 DEF Rt
  <2>4. /\ q.scheduler = t /\ q.pending = r.pending \union {c}
        /\ q.cancelled = r.cancelled \ {c}
        /\ q.callTimer = [r.callTimer EXCEPT ![c] = id]
        /\ q.timerCall = [r.timerCall EXCEPT ![id] = c] /\ q.streamSeq = ss
        /\ q.queue = r.queue /\ q.listening = r.listening /\ q.lastSeq = r.lastSeq
        /\ q.streams = r.streams /\ q.callbacks = r.callbacks
    BY <2>3, RtFields
  <2>5. q \in Runtimes
    <3>1. q.callTimer \in [Calls -> TimerIds \union {0}]
      BY <1>1, <2>2, <2>4 DEF RtTypes
    <3>2. q.timerCall \in [TimerIds -> Calls \union {NoCall}]
      BY <1>1, <2>2, <2>4 DEF RtTypes
    <3>3. t \in Schedulers(RtTasks)
      BY <2>2 DEF Sched
    <3> QED
      BY <1>1, <1>4, <2>3, <2>4, <3>1, <3>2, <3>3, RtFormed DEF RtTypes
  <2>6. r.timerCall[id] = NoCall /\ r.callbacks[id] = "none"
    BY <2>2 DEF Has
  <2>7. /\ q.callTimer[c] = id /\ \A d \in Calls \ {c} : q.callTimer[d] = r.callTimer[d]
        /\ q.timerCall[id] = c /\ \A x \in TimerIds \ {id} : q.timerCall[x] = r.timerCall[x]
    BY <1>1, <2>2, <2>4 DEF RtTypes
  <2>8. Timed(q)
    <3>1. ASSUME NEW d \in Calls, q.callTimer[d] # 0 PROVE q.timerCall[q.callTimer[d]] = d
      <4>1. CASE d = c
        BY <2>7, <4>1
      <4>2. CASE d # c
        <5>1. q.callTimer[d] = r.callTimer[d] /\ r.callTimer[d] \in TimerIds
          BY <1>1, <2>7, <3>1, <4>2 DEF RtTypes
        <5>2. r.timerCall[r.callTimer[d]] = d
          BY <1>1, <3>1, <5>1 DEF Timed
        <5> QED
          BY <2>6, <2>7, <5>1, <5>2, NotOwners
      <4> QED
        BY <4>1, <4>2
    <3>2. ASSUME NEW x \in TimerIds, q.timerCall[x] # NoCall
          PROVE  /\ q.callTimer[q.timerCall[x]] = x /\ IsActive(q, q.timerCall[x])
      <4>1. CASE x = id
        BY <1>2, <2>4, <2>7, <4>1 DEF IsActive
      <4>2. CASE x # id
        <5>1. q.timerCall[x] = r.timerCall[x] /\ r.timerCall[x] \in Calls
          BY <1>1, <2>7, <3>2, <4>2 DEF RtTypes
        <5>2. r.callTimer[r.timerCall[x]] = x /\ IsActive(r, r.timerCall[x])
          BY <1>1, <3>2, <5>1 DEF Timed
        <5> QED
          BY <1>2, <2>4, <2>7, <5>1, <5>2 DEF IsActive
      <4> QED
        BY <4>1, <4>2
    <3>3. q.cancelled \subseteq q.pending
      BY <1>1, <2>4 DEF Timed
    <3> QED
      BY <3>1, <3>2, <3>3 DEF Timed
  <2>9. Owners(q, {})
    BY <1>1, <2>1, <2>2, <2>4, <2>6, <2>7, NotOwners DEF Owners, Has
  <2>10. Stalls(q) /\ Ends(q, {})
    BY <1>1, <2>1, <2>2, <2>4 DEF Stalls, Ends, EndComes
  <2>11. Deadlines(q)
    BY <1>1, <2>2, <2>4, <2>7, IdsArePositive DEF Deadlines
  <2> QED
    BY <1>1, <2>1, <2>2, <2>4, <2>5, <2>8, <2>9, <2>10, <2>11 DEF Sound, RtInv, Unheard
<1> QED
  BY <1>7, <1>8

(* A request joins the queue, or is refused and forgotten.                       *)
LEMMA RequestPushed ==
  ASSUME NEW r, Sound(r), NEW c \in Calls, NEW q, q = PushRequest(r, c)
  PROVE  /\ Sound(q) /\ Unheard(r, q)
         /\ \/ /\ q.queue = Append(r.queue, c) /\ q.pending = r.pending
               /\ q.cancelled = r.cancelled /\ q.scheduler.tasks = r.scheduler.tasks
            \/ /\ q.queue = r.queue /\ q.pending = r.pending \ {c}
               /\ q.cancelled = r.cancelled \ {c} /\ TaskJoins(r, q, c)
<1>1. RtInv(r, {}, {}) /\ r \in Runtimes /\ RtTypes(r)
  BY RtInvParts DEF Sound
<1>2. CASE Len(r.queue) < QueueLimit
  <2>1. PICK qu : qu = Append(r.queue, c)
    OBVIOUS
  <2>2. qu \in Seq(Calls) /\ Len(qu) <= QueueLimit
    BY <1>1, <1>2, <2>1, NodeRuntimeConstants DEF RtTypes
  <2>3. q = [r EXCEPT !.queue = qu]
    BY <1>2, <2>1 DEF PushRequest
  <2>4. q = Rt(r.scheduler, r.pending, r.cancelled, r.callTimer, r.timerCall, r.streamSeq, qu,
               r.listening, r.lastSeq, r.streams, r.callbacks)
    BY <1>1, <2>3 DEF Runtimes, Rt
  <2>5. /\ q.scheduler = r.scheduler /\ q.pending = r.pending /\ q.cancelled = r.cancelled
        /\ q.callTimer = r.callTimer /\ q.timerCall = r.timerCall /\ q.streamSeq = r.streamSeq
        /\ q.queue = qu /\ q.listening = r.listening /\ q.lastSeq = r.lastSeq
        /\ q.streams = r.streams /\ q.callbacks = r.callbacks
    BY <2>4, RtFields
  <2>6. q \in Runtimes
    BY <1>1, <2>2, <2>4, <2>5, RtFormed DEF RtTypes
  <2>7. Sound(q)
    BY <1>1, <2>2, <2>5, <2>6, Elsewhere DEF Sound
  <2> QED
    BY <2>1, <2>5, <2>7 DEF Unheard
<1>3. CASE ~(Len(r.queue) < QueueLimit)
  <2>1. PICK u : u = Completed(r, c)
    OBVIOUS
  <2>2. /\ Sound(u) /\ u.pending = r.pending \ {c} /\ u.cancelled = r.cancelled \ {c}
        /\ u.queue = r.queue /\ Unheard(r, u) /\ u.scheduler.tasks = r.scheduler.tasks
    <3>1. Forgotten(r, u, c)
      BY <1>1, <2>1, CompletedKeeps
    <3> QED
      BY <3>1 DEF Forgotten
  <2>3. PICK o : o = Failed("overloaded")
    OBVIOUS
  <2>4. o \in AllOutcomes /\ Fits(c, o) /\ q = Enqueue(u, c, o)
    BY <1>3, <2>1, <2>3, OutcomeFacts DEF PushRequest
  <2>5. RtInv(u, {}, {})
    BY <2>2 DEF Sound
  <2>6. RtInv(q, {}, {}) /\ Arrived(u, q, c, o)
    BY <2>4, <2>5, EnqueueKeepsSound
  <2>7. TaskJoins(r, q, c)
    BY <2>2, <2>4, <2>6 DEF TaskJoins, Arrived
  <2> QED
    BY <2>2, <2>6, <2>7 DEF Sound, Unheard, Arrived
<1> QED
  BY <1>2, <1>3

-----------------------------------------------------------------------------
(* NodeRuntime: the operations of streams keep the invariant                 *)

(* The stream of c becomes rec.                                                *)
Turns(r, q, c, rec) == StreamStep(r, q) /\ q.streams = [r.streams EXCEPT ![c] = rec]

(* The other streams stay as they are.                                         *)
Apart(r, q, c) == \A d \in Calls \ {c} : q.streams[d] = r.streams[d]

(* A stream may change anything but its stall timer.                           *)
LEMMA StreamChanged ==
  ASSUME NEW r, Sound(r), NEW c \in Calls, NEW rec \in StreamRec,
         rec.stall = r.streams[c].stall, NEW q, q = [r EXCEPT !.streams[c] = rec]
  PROVE  Turns(r, q, c, rec)
<1>1. RtInv(r, {}, {}) /\ r \in Runtimes /\ RtTypes(r) /\ Len(r.queue) <= QueueLimit
  BY RtInvParts DEF Sound
<1>2. q = Rt(r.scheduler, r.pending, r.cancelled, r.callTimer, r.timerCall, r.streamSeq, r.queue,
             r.listening, r.lastSeq, [r.streams EXCEPT ![c] = rec], r.callbacks)
  BY <1>1 DEF Runtimes, Rt
<1>3. /\ q.scheduler = r.scheduler /\ q.pending = r.pending /\ q.cancelled = r.cancelled
      /\ q.callTimer = r.callTimer /\ q.timerCall = r.timerCall /\ q.streamSeq = r.streamSeq
      /\ q.queue = r.queue /\ q.listening = r.listening /\ q.lastSeq = r.lastSeq
      /\ q.streams = [r.streams EXCEPT ![c] = rec] /\ q.callbacks = r.callbacks
  BY <1>2, RtFields
<1>4. q.streams \in [Calls -> StreamRec] /\ q.streams[c] = rec
      /\ \A d \in Calls : q.streams[d].stall = r.streams[d].stall
  BY <1>1, <1>3 DEF RtTypes
<1>5. q \in Runtimes
  BY <1>1, <1>2, <1>3, <1>4, RtFormed DEF RtTypes
<1>6. Sound(q)
  BY ZenonT(40), <1>1, <1>3, <1>4, <1>5, Elsewhere DEF Sound
<1> QED
  BY <1>3, <1>6 DEF Turns, StreamStep, Kept

(* The items of a buffer.                                                      *)
LEMMA ItemFacts ==
  /\ End \in Items /\ Broken \in Items
  /\ \A n \in Int : Item(n) \in Items
<1>1. End \in Items
  BY DEF End, Items
<1>2. Broken \in Items
  BY DEF Broken, Items
<1>3. \A n \in Int : Item(n) \in Items
  BY DEF Item, Items
<1> QED
  BY <1>1, <1>2, <1>3

StreamFields(s) ==
  /\ s.buffer \in Seq(Items) /\ s.waiting \in BOOLEAN /\ s.done \in BOOLEAN
  /\ s.closed \in BOOLEAN /\ s.stall \in TimerIds \union {0}

(* Changes of a stream that leave its type and its stall timer.                *)
LEMMA StreamForm ==
  ASSUME NEW s \in StreamRec
  PROVE  /\ StreamFields(s)
         /\ \A b \in Seq(Items) : [s EXCEPT !.buffer = b] \in StreamRec /\ [s EXCEPT !.buffer = b].stall = s.stall
         /\ \A b \in BOOLEAN : [s EXCEPT !.waiting = b] \in StreamRec /\ [s EXCEPT !.waiting = b].stall = s.stall
         /\ [s EXCEPT !.done = TRUE] \in StreamRec /\ [s EXCEPT !.done = TRUE].stall = s.stall
  BY DEF StreamRec, StreamFields

(* Every call has a stream record.                                             *)
LEMMA SoundStreams ==
  ASSUME NEW r, Sound(r), NEW c \in Calls
  PROVE  /\ r \in Runtimes /\ r.streams \in [Calls -> StreamRec]
         /\ r.streams[c] \in StreamRec /\ StreamFields(r.streams[c])
<1>1. r \in Runtimes /\ r.streams \in [Calls -> StreamRec]
  BY RtInvParts DEF Sound, RtTypes
<1> QED
  BY <1>1, StreamForm

(* What a stream has become, and the others.                                   *)
LEMMA TurnsTo ==
  ASSUME NEW r, Sound(r), NEW c \in Calls, NEW rec, NEW q, Turns(r, q, c, rec)
  PROVE  /\ q.streams[c] = rec /\ Apart(r, q, c) /\ StreamStep(r, q) /\ Sound(q)
         /\ rec \in StreamRec /\ StreamFields(rec)
<1>1. q.streams[c] = rec /\ Apart(r, q, c)
  BY SoundStreams DEF Turns, Apart
<1>2. StreamStep(r, q) /\ Sound(q)
  BY DEF Turns, StreamStep
<1> QED
  BY <1>1, <1>2, SoundStreams

(* Two changes of a stream are one                                             *)
LEMMA TurnsJoin ==
  ASSUME NEW r, Sound(r), NEW c \in Calls, NEW a, NEW b, NEW u, NEW q, Turns(r, u, c, a), Turns(u, q, c, b)
  PROVE  Turns(r, q, c, b)
<1>1. q.streams = [[r.streams EXCEPT ![c] = a] EXCEPT ![c] = b] /\ r.streams \in [Calls -> StreamRec]
  BY SoundStreams DEF Turns
<1>2. q.streams = [r.streams EXCEPT ![c] = b]
  BY <1>1
<1> QED
  BY <1>2 DEF Turns, StreamStep, Kept

(* and none is one.                                                            *)
LEMMA NoTurn ==
  ASSUME NEW r, Sound(r), NEW c \in Calls
  PROVE  Turns(r, r, c, r.streams[c])
<1>1. r.streams = [r.streams EXCEPT ![c] = r.streams[c]]
  BY SoundStreams
<1> QED
  BY <1>1 DEF Turns, StreamStep, Kept

(* Its stall timer is cleared.                                                 *)
LEMMA StallTurns ==
  ASSUME NEW r, Sound(r), NEW c \in Calls, NEW q, q = ClearStall(r, c)
  PROVE  Turns(r, q, c, [r.streams[c] EXCEPT !.stall = 0])
<1>1. Unset(r, q, c)
  BY StallCleared
<1> QED
  BY <1>1 DEF Unset, Turns

(* A stream that is done has no stall timer.                                   *)
LEMMA MarkedDone ==
  ASSUME NEW r, Sound(r), NEW c \in Calls, NEW q, q = [ClearStall(r, c) EXCEPT !.streams[c].done = TRUE]
  PROVE  Turns(r, q, c, [r.streams[c] EXCEPT !.stall = 0, !.done = TRUE])
<1>1. PICK u, a : u = ClearStall(r, c) /\ a = [r.streams[c] EXCEPT !.stall = 0]
  OBVIOUS
<1>2. Turns(r, u, c, a)
  BY <1>1, StallTurns
<1>3. Sound(u) /\ u.streams[c] = a /\ a \in StreamRec
  BY <1>2, TurnsTo
<1>4. PICK rec : rec = [a EXCEPT !.done = TRUE]
  OBVIOUS
<1>5. rec \in StreamRec /\ rec.stall = a.stall
  BY <1>3, <1>4, StreamForm
<1>6. q = [u EXCEPT !.streams[c] = rec]
  BY <1>1, <1>3, <1>4
<1>7. Turns(u, q, c, rec)
  BY <1>3, <1>5, <1>6, StreamChanged
<1>8. Turns(r, q, c, rec)
  BY <1>2, <1>7, TurnsJoin
<1> QED
  BY <1>1, <1>4, <1>8

(* A reader waits, or no longer.                                               *)
LEMMA WaitingSet ==
  ASSUME NEW r, Sound(r), NEW c \in Calls, NEW b \in BOOLEAN,
         NEW q, q = [r EXCEPT !.streams[c].waiting = b]
  PROVE  Turns(r, q, c, [r.streams[c] EXCEPT !.waiting = b])
<1>1. r.streams[c] \in StreamRec
  BY SoundStreams
<1>2. PICK rec : rec = [r.streams[c] EXCEPT !.waiting = b]
  OBVIOUS
<1>3. rec \in StreamRec /\ rec.stall = r.streams[c].stall
  BY <1>1, <1>2, StreamForm
<1>4. q = [r EXCEPT !.streams[c] = rec]
  BY <1>2
<1> QED
  BY <1>2, <1>3, <1>4, StreamChanged

(* The buffer changes.                                                         *)
LEMMA BufferSet ==
  ASSUME NEW r, Sound(r), NEW c \in Calls, NEW b \in Seq(Items),
         NEW q, q = [r EXCEPT !.streams[c].buffer = b]
  PROVE  Turns(r, q, c, [r.streams[c] EXCEPT !.buffer = b])
<1>1. r.streams[c] \in StreamRec
  BY SoundStreams
<1>2. PICK rec : rec = [r.streams[c] EXCEPT !.buffer = b]
  OBVIOUS
<1>3. rec \in StreamRec /\ rec.stall = r.streams[c].stall
  BY <1>1, <1>2, StreamForm
<1>4. q = [r EXCEPT !.streams[c] = rec]
  BY <1>2
<1> QED
  BY <1>2, <1>3, <1>4, StreamChanged

(* An item joins the buffer.                                                   *)
LEMMA Buffered ==
  ASSUME NEW r, Sound(r), NEW c \in Calls, NEW item \in Items,
         NEW q, q = [r EXCEPT !.streams[c].buffer = Append(@, item)]
  PROVE  Turns(r, q, c, [r.streams[c] EXCEPT !.buffer = Append(@, item)])
<1>1. r.streams[c].buffer \in Seq(Items)
  BY SoundStreams DEF StreamFields
<1>2. PICK b \in Seq(Items) : b = Append(r.streams[c].buffer, item)
  <2>1. \A s \in Seq(Items) : Append(s, item) \in Seq(Items)
    OBVIOUS
  <2> QED
    BY <1>1, <2>1
<1>3. q = [r EXCEPT !.streams[c].buffer = b]
  BY <1>2
<1>4. Turns(r, q, c, [r.streams[c] EXCEPT !.buffer = b])
  BY <1>3, BufferSet
<1> QED
  BY <1>2, <1>4

(* What a push may leave: the ids given out may have moved on.                    *)
Pushed(r, q) == Sound(q) /\ Kept(r, q) /\ q.lastSeq = r.lastSeq

(* A change of a stream is what a push may leave.                              *)
LEMMA TurnIsPush ==
  ASSUME NEW r, Sound(r), NEW c \in Calls, NEW rec, NEW q, Turns(r, q, c, rec)
  PROVE  Pushed(r, q) /\ Apart(r, q, c) /\ q.streams[c] = rec
<1>1. StreamStep(r, q) /\ Apart(r, q, c) /\ q.streams[c] = rec
  BY TurnsTo
<1> QED
  BY <1>1 DEF Pushed, StreamStep

(* A stream whose stall timer is set anew, if there are such timers.             *)
Rearmed(s, t) ==
  \E id \in TimerIds \union {0} : t = [s EXCEPT !.stall = id] /\ (StallTimeout > 0 => id # 0)

(* Setting it touches no other stream.                                          *)
LEMMA StallSet ==
  ASSUME NEW a \in [Calls -> StreamRec], NEW c \in Calls, NEW id \in TimerIds \union {0},
         NEW b, SetsStall(a, b, c, id), StallTimeout > 0 => id # 0
  PROVE  Rearmed(a[c], b[c]) /\ \A d \in Calls \ {c} : b[d] = a[d]
<1>1. b[c] = [a[c] EXCEPT !.stall = id] /\ \A d \in Calls \ {c} : b[d] = a[d]
  BY ZenonT(40) DEF SetsStall
<1>2. Rearmed(a[c], b[c])
  BY ONLY ZenonT(40), <1>1, id \in TimerIds \union {0}, StallTimeout > 0 => id # 0 DEF Rearmed
<1> QED
  BY <1>1, <1>2

(* So is one after which its stall timer is set anew.                          *)
LEMMA ArmedIsPush ==
  ASSUME NEW r, Sound(r), NEW c \in Calls, NEW rec, NEW u, Turns(r, u, c, rec),
         r.scheduler.nextId < MaxTimerId, now \in Int, NEW q, q = ArmStall(u, c)
  PROVE  Pushed(r, q) /\ Apart(r, q, c) /\ Rearmed(rec, q.streams[c])
<1>1. /\ u.streams[c] = rec /\ Apart(r, u, c) /\ StreamStep(r, u) /\ Sound(u)
      /\ u.streams \in [Calls -> StreamRec]
  BY TurnsTo, SoundStreams
<1>2. u.scheduler.nextId < MaxTimerId
  BY <1>1 DEF StreamStep
<1>3. Armed(u, q, c)
  BY <1>1, <1>2, StallArmed
<1>4. PICK id \in TimerIds \union {0} :
        SetsStall(u.streams, q.streams, c, id) /\ (StallTimeout > 0 => id # 0)
  BY <1>3 DEF Armed
<1>5. Rearmed(u.streams[c], q.streams[c]) /\ \A d \in Calls \ {c} : q.streams[d] = u.streams[d]
  BY <1>1, <1>4, StallSet
<1>6. Rearmed(rec, q.streams[c])
  BY <1>1, <1>5
<1>7. Apart(r, q, c)
  BY <1>1, <1>5 DEF Apart
<1>8. Pushed(r, q)
  BY <1>1, <1>3 DEF Armed, Pushed, StreamStep, Kept
<1> QED
  BY <1>6, <1>7, <1>8

(* What becomes of a stream when an item comes, its last or not,                  *)
Joins(s, t, item, final) ==
  /\ s.closed => t = s
  /\ ~s.closed => /\ ~t.closed /\ ~t.waiting
                  /\ t.done <=> s.done \/ final
                  /\ t.buffer = IF s.waiting THEN s.buffer ELSE Append(s.buffer, item)
                  /\ s.waiting \/ final => t.stall = 0

(* whether it is watched,                                                      *)
Watches(s, t) ==
  LET full == ~t.done /\ Len(t.buffer) >= BufferLimit IN
    /\ ~full => t.stall \in {s.stall, 0}
    /\ full /\ StallTimeout > 0 => t.stall # 0

(* and when a chunk is taken.                                                     *)
Gives(s, t) ==
  /\ t.closed = s.closed /\ t.done = s.done
  /\ s.buffer # <<>> => t.waiting = s.waiting /\ t.buffer = Tail(s.buffer)
  /\ s.buffer = <<>> => t.waiting = ~s.done /\ t.buffer = <<>> /\ t.stall = 0
  /\ s.buffer # <<>> /\ ~s.done /\ Len(t.buffer) < BufferLimit => t.stall = 0
  /\ s.buffer # <<>> /\ s.done => t.stall = s.stall

(* What kinds of outcome carry.                                                *)
LEMMA ChunkFacts ==
  ASSUME NEW o \in AllOutcomes
  PROVE  /\ o.type \in {"ok", "error", "chunk"}
         /\ o.type = "chunk" =>
              /\ o.final \in BOOLEAN /\ o.null \in BOOLEAN /\ o.seq \in 0..(MaxChunks + 1)
              /\ Partial(o) <=> ~o.final
         /\ o.type # "chunk" => ~Partial(o)
<1>1. CASE o = Ok
  BY <1>1 DEF Ok, Partial
<1>2. CASE o \in Errors
  BY <1>2 DEF Errors, Failed, Partial
<1>3. CASE o \in ChunkOutcomes
  <2>1. CASE \E n \in 0..MaxChunks : \E final \in BOOLEAN : o = Chunk(n, final)
    <3>1. PICK n \in 0..MaxChunks, final \in BOOLEAN : o = Chunk(n, final)
      BY <2>1
    <3>2. n \in 0..(MaxChunks + 1)
      BY NodeRuntimeConstants
    <3>3. o.type = "chunk" /\ o.final = final /\ o.null = FALSE /\ o.seq = n
      BY <3>1 DEF Chunk
    <3> QED
      BY <3>2, <3>3 DEF Partial
  <2>2. CASE \E n \in 0..(MaxChunks + 1) : o = Sentinel(n)
    <3>1. PICK n \in 0..(MaxChunks + 1) : o = Sentinel(n)
      BY <2>2
    <3>2. o.type = "chunk" /\ o.final = TRUE /\ o.null = TRUE /\ o.seq = n
      BY <3>1 DEF Sentinel
    <3> QED
      BY <3>2 DEF Partial
  <2> QED
    BY <1>3, <2>1, <2>2 DEF ChunkOutcomes
<1> QED
  BY <1>1, <1>2, <1>3 DEF AllOutcomes

(* A chunk is handed to a waiting reader or buffered; a full buffer is watched. *)
LEMMA PushChunkKeeps ==
  ASSUME NEW r, Sound(r), r.scheduler.nextId < MaxTimerId, now \in Int, NEW c \in Calls,
         NEW o, o.final \in BOOLEAN, o.seq \in Int, NEW q, q = PushChunk(r, c, o),
         NEW item, item = IF o.null THEN End ELSE Item(o.seq)
  PROVE  /\ Pushed(r, q) /\ Apart(r, q, c) /\ Joins(r.streams[c], q.streams[c], item, o.final)
         /\ ~r.streams[c].closed /\ ~r.streams[c].waiting => Watches(r.streams[c], q.streams[c])
<1>1. PICK s, ended, e :
        /\ s = r.streams[c]
        /\ ended = IF o.final THEN [ClearStall(r, c) EXCEPT !.streams[c].done = TRUE] ELSE r
        /\ e = IF o.final THEN [s EXCEPT !.stall = 0, !.done = TRUE] ELSE s
  OBVIOUS
<1>2. Turns(r, ended, c, e)
  <2>1. CASE o.final
    BY <1>1, <2>1, MarkedDone
  <2>2. CASE ~o.final
    BY <1>1, <2>2, NoTurn
  <2> QED
    BY <2>1, <2>2
<1>3. Sound(ended) /\ ended.streams[c] = e /\ s \in StreamRec /\ e \in StreamRec
  <2>1. s = r.streams[c]
    BY <1>1
  <2> QED
    BY ONLY Sound(r), c \in Calls, <1>2, <2>1, TurnsTo, SoundStreams
<1>4. item \in Items
  BY ItemFacts
<1>5. PICK buffered, d : /\ buffered = [ended EXCEPT !.streams[c].buffer = Append(@, item)]
                         /\ d = [e EXCEPT !.buffer = Append(@, item)]
  OBVIOUS
<1>6. Turns(r, buffered, c, d)
  <2>1. Turns(ended, buffered, c, d)
    BY <1>3, <1>4, <1>5, Buffered
  <2> QED
    BY <1>2, <2>1, TurnsJoin
<1>7. PICK u, f : u = ClearStall(ended, c) /\ f = [e EXCEPT !.stall = 0]
  OBVIOUS
<1>8. PICK heard, g : heard = [u EXCEPT !.streams[c].waiting = FALSE] /\ g = [f EXCEPT !.waiting = FALSE]
  OBVIOUS
<1>9. Turns(r, heard, c, g)
  <2>1. Turns(ended, u, c, f)
    BY <1>3, <1>7, StallTurns
  <2>2. Sound(u) /\ u.streams[c] = f
    BY <1>3, <2>1, TurnsTo
  <2>3. Turns(u, heard, c, g)
    BY <1>8, <2>2, WaitingSet
  <2> QED
    BY <1>2, <1>3, <2>1, <2>3, TurnsJoin
<1>10. PICK armed : armed = ArmStall(buffered, c)
  OBVIOUS
<1>11. buffered.streams[c] = d /\ d \in StreamRec
  BY <1>6, TurnsTo
<1>12. /\ s.closed => q = r
       /\ ~s.closed /\ s.waiting => q = heard
       /\ ~s.closed /\ ~s.waiting =>
            q = IF ~d.done /\ Len(d.buffer) >= BufferLimit THEN armed ELSE buffered
  <2>1. s.closed => q = r
    BY <1>1 DEF PushChunk
  <2>2. ~s.closed /\ s.waiting => q = heard
    BY <1>1, <1>7, <1>8 DEF PushChunk
  <2>3. ~s.closed /\ ~s.waiting =>
          q = IF ~buffered.streams[c].done /\ Len(buffered.streams[c].buffer) >= BufferLimit
              THEN armed ELSE buffered
    BY <1>1, <1>5, <1>10 DEF PushChunk
  <2> QED
    BY <1>11, <2>1, <2>2, <2>3
<1>13. CASE s.closed
  <2>1. Turns(r, q, c, s)
    BY <1>1, <1>12, <1>13, NoTurn
  <2>2. Pushed(r, q) /\ Apart(r, q, c) /\ q.streams[c] = s
    BY <2>1, TurnIsPush
  <2> QED
    BY <1>1, <1>13, <2>2 DEF Joins
<1>14. CASE ~s.closed /\ s.waiting
  <2>1. Pushed(r, q) /\ Apart(r, q, c) /\ q.streams[c] = g
    BY <1>9, <1>12, <1>14, TurnIsPush
  <2>2. Joins(s, g, item, o.final)
    BY <1>1, <1>3, <1>7, <1>8, <1>14 DEF Joins, StreamRec
  <2> QED
    BY <1>1, <1>14, <2>1, <2>2
<1>15. ASSUME ~s.closed, ~s.waiting, NEW id \in TimerIds \union {0},
              id = d.stall \/ (~d.done /\ Len(d.buffer) >= BufferLimit),
              StallTimeout > 0 /\ ~d.done /\ Len(d.buffer) >= BufferLimit => id # 0,
              NEW t, t = [d EXCEPT !.stall = id]
       PROVE  Joins(s, t, item, o.final) /\ Watches(s, t)
  <2>1. /\ t.buffer = Append(s.buffer, item) /\ t.done = d.done /\ t.waiting = s.waiting
        /\ t.closed = s.closed /\ t.stall = id /\ t.buffer = d.buffer
        /\ d.done = IF o.final THEN TRUE ELSE s.done
        /\ d.stall = IF o.final THEN 0 ELSE s.stall
    BY <1>1, <1>3, <1>5, <1>15 DEF StreamRec
  <2>2. s.done \in BOOLEAN
    BY <1>3 DEF StreamRec
  <2>3. Joins(s, t, item, o.final)
    BY <1>15, <2>1, <2>2 DEF Joins
  <2>4. Watches(s, t)
    BY <1>15, <2>1 DEF Watches
  <2> QED
    BY <2>3, <2>4
<1>16. CASE ~s.closed /\ ~s.waiting /\ ~(~d.done /\ Len(d.buffer) >= BufferLimit)
  <2>1. Pushed(r, q) /\ Apart(r, q, c) /\ q.streams[c] = d
    BY <1>6, <1>12, <1>16, TurnIsPush
  <2>2. d.stall \in TimerIds \union {0} /\ d = [d EXCEPT !.stall = d.stall]
    BY <1>11 DEF StreamRec
  <2>3. Joins(s, d, item, o.final) /\ Watches(s, d)
    BY <1>15, <1>16, <2>2
  <2> QED
    BY <1>1, <2>1, <2>3
<1>17. CASE ~s.closed /\ ~s.waiting /\ ~d.done /\ Len(d.buffer) >= BufferLimit
  <2>1. q = armed
    BY <1>12, <1>17
  <2>2. Pushed(r, q) /\ Apart(r, q, c)
    BY <1>6, <1>10, <2>1, ArmedIsPush
  <2>3. Rearmed(d, q.streams[c])
    BY <1>6, <1>10, <2>1, ArmedIsPush
  <2> PICK id \in TimerIds \union {0} : q.streams[c] = [d EXCEPT !.stall = id] /\ (StallTimeout > 0 => id # 0)
    BY <2>3 DEF Rearmed
  <2>4. Joins(s, q.streams[c], item, o.final) /\ Watches(s, q.streams[c])
    BY <1>15, <1>17
  <2> QED
    BY <1>1, <2>2, <2>4
<1> QED
  BY <1>13, <1>14, <1>16, <1>17

(* A failure ends the stream.                                                  *)
LEMMA PushErrorKeeps ==
  ASSUME NEW r, Sound(r), NEW c \in Calls, NEW q, q = PushError(r, c)
  PROVE  /\ Pushed(r, q) /\ Apart(r, q, c) /\ Joins(r.streams[c], q.streams[c], Broken, TRUE)
<1>1. PICK s, ended, e :
        /\ s = r.streams[c] /\ ended = [ClearStall(r, c) EXCEPT !.streams[c].done = TRUE]
        /\ e = [s EXCEPT !.stall = 0, !.done = TRUE]
  OBVIOUS
<1>2. Turns(r, ended, c, e)
  BY <1>1, MarkedDone
<1>3. Sound(ended) /\ ended.streams[c] = e /\ s \in StreamRec /\ e \in StreamRec
  <2>1. s = r.streams[c]
    BY <1>1
  <2> QED
    BY ONLY Sound(r), c \in Calls, <1>2, <2>1, TurnsTo, SoundStreams
<1>4. PICK heard, g, buffered, d :
        /\ heard = [ended EXCEPT !.streams[c].waiting = FALSE] /\ g = [e EXCEPT !.waiting = FALSE]
        /\ buffered = [ended EXCEPT !.streams[c].buffer = Append(@, Broken)]
        /\ d = [e EXCEPT !.buffer = Append(@, Broken)]
  OBVIOUS
<1>5. Turns(r, heard, c, g)
  <2>1. Turns(ended, heard, c, g)
    BY <1>3, <1>4, WaitingSet
  <2> QED
    BY <1>2, <2>1, TurnsJoin
<1>6. Turns(r, buffered, c, d)
  <2>1. Turns(ended, buffered, c, d)
    BY <1>3, <1>4, ItemFacts, Buffered
  <2> QED
    BY <1>2, <2>1, TurnsJoin
<1>7. /\ s.closed => q = r
      /\ ~s.closed /\ s.waiting => q = heard
      /\ ~s.closed /\ ~s.waiting => q = buffered
  BY <1>1, <1>4 DEF PushError
<1>8. CASE s.closed
  <2>1. Turns(r, q, c, s)
    BY <1>1, <1>7, <1>8, NoTurn
  <2>2. Pushed(r, q) /\ Apart(r, q, c) /\ q.streams[c] = s
    BY <2>1, TurnIsPush
  <2> QED
    BY <1>1, <1>8, <2>2 DEF Joins
<1>9. CASE ~s.closed /\ s.waiting
  <2>1. Pushed(r, q) /\ Apart(r, q, c) /\ q.streams[c] = g
    BY <1>5, <1>7, <1>9, TurnIsPush
  <2>2. Joins(s, g, Broken, TRUE)
    BY <1>1, <1>3, <1>4, <1>9 DEF Joins, StreamRec
  <2> QED
    BY <1>1, <2>1, <2>2
<1>10. CASE ~s.closed /\ ~s.waiting
  <2>1. Pushed(r, q) /\ Apart(r, q, c) /\ q.streams[c] = d
    BY <1>6, <1>7, <1>10, TurnIsPush
  <2>2. Joins(s, d, Broken, TRUE)
    BY <1>1, <1>3, <1>4, <1>10 DEF Joins, StreamRec
  <2> QED
    BY <1>1, <2>1, <2>2
<1> QED
  BY <1>8, <1>9, <1>10

(* A read makes room, and the watch over the buffer is set anew or ends.       *)
LEMMA AfterPullKeeps ==
  ASSUME NEW r, Sound(r), r.scheduler.nextId < MaxTimerId, now \in Int, NEW c \in Calls,
         NEW q, q = AfterPull(r, c)
  PROVE  /\ Pushed(r, q) /\ Apart(r, q, c) /\ Gives(r.streams[c], q.streams[c])
         /\ Watches(r.streams[c], q.streams[c])
<1>1. PICK s : s = r.streams[c] /\ s \in StreamRec /\ s.buffer \in Seq(Items) /\ s.done \in BOOLEAN
  BY SoundStreams DEF StreamFields
<1>2. CASE s.buffer # <<>>
  <2>1. PICK b \in Seq(Items) : b = Tail(s.buffer)
    <3>1. \A x \in Seq(Items) : x # <<>> => Tail(x) \in Seq(Items)
      OBVIOUS
    <3> QED
      BY <1>1, <1>2, <3>1
  <2>2. PICK shorter, d : shorter = [r EXCEPT !.streams[c].buffer = Tail(@)] /\ d = [s EXCEPT !.buffer = b]
    OBVIOUS
  <2>3. Turns(r, shorter, c, d)
    <3>1. shorter = [r EXCEPT !.streams[c].buffer = b]
      BY <1>1, <2>1, <2>2
    <3> QED
      BY <1>1, <2>2, <3>1, BufferSet
  <2>4. Sound(shorter) /\ shorter.streams[c] = d
    BY <2>3, TurnsTo
  <2>5. PICK unset, e, armed : /\ unset = ClearStall(shorter, c) /\ e = [d EXCEPT !.stall = 0]
                               /\ armed = ArmStall(shorter, c)
    OBVIOUS
  <2>6. Turns(r, unset, c, e)
    <3>1. Turns(shorter, unset, c, e)
      BY <2>4, <2>5, StallTurns
    <3> QED
      BY <2>3, <3>1, TurnsJoin
  <2>7. Len(b) = Len(s.buffer) - 1
    BY <1>1, <1>2, <2>1
  <2>8. /\ s.done => q = shorter
        /\ ~s.done /\ Len(b) < BufferLimit => q = unset
        /\ ~s.done /\ ~(Len(b) < BufferLimit) => q = armed
    BY <1>1, <1>2, <2>2, <2>5, <2>7 DEF AfterPull
  <2>9. ASSUME NEW id \in TimerIds \union {0}, s.done => id = s.stall,
               ~s.done /\ Len(b) < BufferLimit => id = 0,
               StallTimeout > 0 /\ ~s.done /\ ~(Len(b) < BufferLimit) => id # 0,
               NEW t, t = [d EXCEPT !.stall = id]
        PROVE  Gives(s, t) /\ Watches(s, t)
    <3>1. /\ t.buffer = b /\ t.done = s.done /\ t.waiting = s.waiting
          /\ t.closed = s.closed /\ t.stall = id
      BY <1>1, <2>2, <2>9 DEF StreamRec
    <3>2. Gives(s, t)
      BY <1>2, <2>1, <2>9, <3>1 DEF Gives
    <3>3. Len(b) \in Nat /\ BufferLimit \in Nat
      BY <2>1, NodeRuntimeConstants
    <3>4. Watches(s, t)
      BY <1>1, <2>9, <3>1, <3>3 DEF Watches
    <3> QED
      BY <3>2, <3>4
  <2>10. d \in StreamRec /\ d.stall = s.stall
    BY <1>1, <2>2, StreamForm
  <2>11. CASE s.done
    <3>1. Pushed(r, q) /\ Apart(r, q, c) /\ q.streams[c] = d
      BY <2>3, <2>8, <2>11, TurnIsPush
    <3>2. d.stall \in TimerIds \union {0} /\ d = [d EXCEPT !.stall = d.stall]
      BY <2>10 DEF StreamRec
    <3>3. Gives(s, d) /\ Watches(s, d)
      BY <2>9, <2>10, <2>11, <3>2
    <3> QED
      BY <1>1, <3>1, <3>3
  <2>12. CASE ~s.done /\ Len(b) < BufferLimit
    <3>1. Pushed(r, q) /\ Apart(r, q, c) /\ q.streams[c] = e
      BY <2>6, <2>8, <2>12, TurnIsPush
    <3>2. Gives(s, e) /\ Watches(s, e)
      BY <2>5, <2>9, <2>12
    <3> QED
      BY <1>1, <3>1, <3>2
  <2>13. CASE ~s.done /\ ~(Len(b) < BufferLimit)
    <3>1. q = armed
      BY <2>8, <2>13
    <3>2. Pushed(r, q) /\ Apart(r, q, c)
      BY <2>3, <2>5, <3>1, ArmedIsPush
    <3>3. Rearmed(d, q.streams[c])
      BY <2>3, <2>5, <3>1, ArmedIsPush
    <3> PICK id \in TimerIds \union {0} : q.streams[c] = [d EXCEPT !.stall = id] /\ (StallTimeout > 0 => id # 0)
      BY <3>3 DEF Rearmed
    <3>4. Gives(s, q.streams[c]) /\ Watches(s, q.streams[c])
      BY <2>9, <2>13
    <3> QED
      BY <1>1, <3>2, <3>4
  <2> QED
    BY <2>11, <2>12, <2>13
<1>3. CASE s.buffer = <<>>
  <2>1. PICK u, d, b : u = ClearStall(r, c) /\ d = [s EXCEPT !.stall = 0] /\ b = ~s.done
    OBVIOUS
  <2>2. Turns(r, u, c, d)
    BY <1>1, <2>1, StallTurns
  <2>3. Sound(u) /\ u.streams[c] = d
    BY <2>2, TurnsTo
  <2>4. q = [u EXCEPT !.streams[c].waiting = b] /\ b \in BOOLEAN
    BY <1>1, <1>3, <2>1 DEF AfterPull
  <2>5. PICK e : e = [d EXCEPT !.waiting = b]
    OBVIOUS
  <2>6. Turns(u, q, c, e)
    BY <2>3, <2>4, <2>5, WaitingSet
  <2>7. Pushed(r, q) /\ Apart(r, q, c) /\ q.streams[c] = e
    BY <2>2, <2>6, TurnsJoin, TurnIsPush
  <2>8. e.buffer = s.buffer /\ e.done = s.done /\ e.waiting = b /\ e.closed = s.closed /\ e.stall = 0
    BY <1>1, <2>1, <2>4, <2>5 DEF StreamRec
  <2>9. Gives(s, e)
    BY <1>3, <2>1, <2>8 DEF Gives
  <2>10. Watches(s, e)
    <3>1. Len(e.buffer) = 0 /\ ~(0 >= BufferLimit)
      BY <1>3, <2>8, NodeRuntimeConstants
    <3> QED
      BY <2>8, <3>1 DEF Watches
  <2> QED
    BY <1>1, <2>7, <2>9, <2>10
<1> QED
  BY <1>2, <1>3

-----------------------------------------------------------------------------
(* NodeRuntime: a stream is left, a timer fires, an outcome is delivered       *)

(* A stream that was left.                                                     *)
Closed(s) == s.closed /\ s.done /\ s.buffer = <<>> /\ ~s.waiting /\ s.stall = 0

(* return() closes the stream.                                                 *)
LEMMA Stopped ==
  ASSUME NEW r, Sound(r), NEW c \in Calls,
         NEW q, q = [ClearStall(r, c) EXCEPT
                       !.streams[c] = [@ EXCEPT !.closed = TRUE, !.done = TRUE,
                                                !.buffer = <<>>, !.waiting = FALSE]]
  PROVE  StreamStep(r, q) /\ Apart(r, q, c) /\ Closed(q.streams[c])
<1>1. PICK u, d : u = ClearStall(r, c) /\ d = [r.streams[c] EXCEPT !.stall = 0]
  OBVIOUS
<1>2. Turns(r, u, c, d)
  BY <1>1, StallTurns
<1>3. Sound(u) /\ u.streams[c] = d /\ d \in StreamRec /\ d.stall = 0
  <2>1. r.streams[c] \in StreamRec
    BY SoundStreams
  <2> QED
    BY <1>1, <1>2, <2>1, TurnsTo DEF StreamRec
<1>4. PICK rec : rec = [d EXCEPT !.closed = TRUE, !.done = TRUE, !.buffer = <<>>, !.waiting = FALSE]
  OBVIOUS
<1>5. rec \in StreamRec /\ rec.stall = d.stall /\ Closed(rec)
  <2>1. <<>> \in Seq(Items)
    OBVIOUS
  <2> QED
    BY <1>3, <1>4, <2>1 DEF StreamRec, Closed
<1>6. q = [u EXCEPT !.streams[c] = rec]
  BY <1>1, <1>3, <1>4
<1>7. Turns(u, q, c, rec)
  BY <1>3, <1>5, <1>6, StreamChanged
<1>8. Turns(r, q, c, rec)
  BY ONLY Sound(r), c \in Calls, <1>2, <1>7, TurnsJoin
<1>9. StreamStep(r, q) /\ Apart(r, q, c) /\ q.streams[c] = rec
  BY ONLY Sound(r), c \in Calls, <1>8, TurnsTo
<1> QED
  BY <1>5, <1>9

(* The fired timer of a stream's reader, or of the program.                      *)
Taken(r, q) ==
  /\ Sound(q) /\ q.pending = r.pending /\ q.queue = r.queue /\ q.listening = r.listening
  /\ q.lastSeq = r.lastSeq /\ q.scheduler = r.scheduler /\ q.cancelled = r.cancelled

NoCallback(r, q, id) == q = [r EXCEPT !.callbacks[id] = "none"]
NoStall(r, q, c) == q = [r EXCEPT !.streams[c].stall = 0]
StallTaken(r, q, c) == Taken(r, q) /\ q.streams = [r.streams EXCEPT ![c].stall = 0]

(* A timer that fired belongs to nobody afterwards, a stream's no longer to it. *)
LEMMA CallbackTaken ==
  ASSUME NEW r, NEW id \in TimerIds, Rung(r, id), r.timerCall[id] = NoCall,
         NEW fired, NoCallback(r, fired, id)
  PROVE  /\ r.callbacks[id] \notin Calls => Taken(r, fired) /\ fired.streams = r.streams
         /\ \A c \in Calls : \A off :
              r.callbacks[id] = c /\ NoStall(fired, off, c) => StallTaken(r, off, c)
<1> USE DEF Rung, NoCallback, NoStall
<1>1. /\ r \in Runtimes /\ RtTypes(r) /\ Len(r.queue) <= QueueLimit
      /\ Sched(r.scheduler, RtTasks) /\ Fresh(r.scheduler)
      /\ Timed(r) /\ Owners(r, {id}) /\ Stalls(r) /\ Ends(r, {}) /\ Deadlines(r)
  BY RtInvParts
<1>2. PICK cb : cb = [r.callbacks EXCEPT ![id] = "none"]
  OBVIOUS
<1>3. /\ cb \in [TimerIds -> Calls \union NoOwner]
      /\ cb[id] = "none" /\ \A x \in TimerIds \ {id} : cb[x] = r.callbacks[x]
  BY <1>1, <1>2 DEF RtTypes, NoOwner
<1>4. fired = Rt(r.scheduler, r.pending, r.cancelled, r.callTimer, r.timerCall, r.streamSeq,
                 r.queue, r.listening, r.lastSeq, r.streams, cb)
  BY <1>1, <1>2 DEF Runtimes, Rt
<1>5. ASSUME NEW st \in [Calls -> StreamRec], NEW q,
             q = Rt(r.scheduler, r.pending, r.cancelled, r.callTimer, r.timerCall, r.streamSeq,
                    r.queue, r.listening, r.lastSeq, st, cb),
             \A d \in Calls : st[d].stall # 0 => st[d].stall = r.streams[d].stall /\ st[d].stall # id,
             \A d \in Calls : r.streams[d].stall # id => st[d].stall = r.streams[d].stall
      PROVE  Taken(r, q) /\ q.streams = st
  <2>1. /\ q.scheduler = r.scheduler /\ q.pending = r.pending /\ q.cancelled = r.cancelled
        /\ q.callTimer = r.callTimer /\ q.timerCall = r.timerCall /\ q.streamSeq = r.streamSeq
        /\ q.queue = r.queue /\ q.listening = r.listening /\ q.lastSeq = r.lastSeq
        /\ q.streams = st /\ q.callbacks = cb
    BY <1>5, RtFields
  <2>2. q \in Runtimes
    BY <1>1, <1>3, <1>5, <2>1, RtFormed DEF RtTypes
  <2>3. Timed(q) /\ Ends(q, {}) /\ Deadlines(q)
    BY <1>1, <2>1 DEF Timed, IsActive, Ends, Deadlines
  <2>4. Owners(q, {})
    <3>1. ~Has(q, id) /\ \A x \in TimerIds \ {id} : Has(q, x) <=> Has(r, x)
      BY <1>3, <2>1 DEF Has
    <3>2. LiveIn(r.scheduler) \subseteq TimerIds
      BY <1>1, LiveIsNotCancelled DEF Sched, Schedulers
    <3>3. \A x \in TimerIds : Has(q, x) => x \in LiveIn(q.scheduler) \union FiredIn(q.scheduler)
      BY <1>1, <2>1, <3>1 DEF Owners
    <3>4. \A x \in LiveIn(q.scheduler) : Has(q, x)
      BY <1>1, <2>1, <3>1, <3>2 DEF Owners
    <3>5. \A x \in TimerIds : q.timerCall[x] = NoCall \/ q.callbacks[x] = "none"
      BY <1>1, <1>3, <2>1 DEF Owners
    <3> QED
      BY <3>3, <3>4, <3>5 DEF Owners
  <2>5. Stalls(q)
    <3>1. \A d \in Calls : r.streams[d].stall # 0 => r.streams[d].stall \in TimerIds
      BY <1>1 DEF RtTypes, StreamRec
    <3>2. \A d \in Calls : st[d].stall # 0 => cb[st[d].stall] = d
      BY <1>1, <1>3, <1>5, <3>1 DEF Stalls
    <3>3. \A x \in TimerIds : cb[x] \in Calls => st[cb[x]].stall = x
      BY <1>1, <1>3, <1>5, NotOwners DEF Stalls
    <3> QED
      BY <2>1, <3>2, <3>3 DEF Stalls
  <2> QED
    BY <1>1, <2>1, <2>2, <2>3, <2>4, <2>5 DEF Sound, RtInv, Taken
<1>6. ASSUME r.callbacks[id] \notin Calls PROVE Taken(r, fired) /\ fired.streams = r.streams
  <2>1. r.streams \in [Calls -> StreamRec]
    BY <1>1 DEF RtTypes
  <2>2. \A d \in Calls : r.streams[d].stall # id
    BY <1>1, <1>6, IdsArePositive DEF Stalls
  <2> QED
    BY <1>4, <1>5, <2>1, <2>2
<1>7. ASSUME NEW c \in Calls, NEW off, r.callbacks[id] = c, NoStall(fired, off, c)
      PROVE  StallTaken(r, off, c)
  <2>1. PICK st : st = [r.streams EXCEPT ![c].stall = 0]
    OBVIOUS
  <2>2. st \in [Calls -> StreamRec] /\ st[c].stall = 0 /\ \A d \in Calls \ {c} : st[d] = r.streams[d]
    BY <1>1, <2>1 DEF RtTypes, StreamRec
  <2>3. off = Rt(r.scheduler, r.pending, r.cancelled, r.callTimer, r.timerCall, r.streamSeq,
                 r.queue, r.listening, r.lastSeq, st, cb)
    BY <1>4, <1>7, <2>1 DEF Rt
  <2>4. r.streams[c].stall = id
    BY <1>1, <1>7 DEF Stalls
  <2>5. \A d \in Calls : st[d].stall # 0 => st[d].stall = r.streams[d].stall /\ st[d].stall # id
    BY <1>1, <1>7, <2>2, IdsArePositive DEF Stalls
  <2>6. Taken(r, off) /\ off.streams = st
    BY <1>5, <2>2, <2>3, <2>4, <2>5
  <2> QED
    BY <2>1, <2>6 DEF StallTaken
<1> QED
  BY <1>6, <1>7

(* What delivering an outcome of c may change.                                  *)
Handed(r, q, c, o) ==
  /\ Sound(q) /\ q.pending = r.pending /\ q.queue = r.queue
  /\ q.listening = r.listening \/ q.listening = r.listening \ {c}
  /\ ~Partial(o) => q.listening = r.listening \ {c}

(* What a reader is handed of a chunk.                                         *)
ItemOf(o) == IF o.null THEN End ELSE Item(o.seq)

(* Nothing but what concerns c.                                                *)
Beside(r, q, c) ==
  /\ Apart(r, q, c) /\ q.cancelled = r.cancelled /\ q.pending = r.pending
  /\ q.scheduler.tasks = r.scheduler.tasks
  /\ \A d \in Calls \ {c} : q.lastSeq[d] = r.lastSeq[d]

(* What the stream and the count of c have become.                               *)
Hears(r, q, c, o) ==
  /\ Beside(r, q, c)
  /\ Deaf(r, c) => Unheard(r, q)
  /\ ~Deaf(r, c) /\ Breaks(r, c, o) =>
       /\ q.listening = r.listening \ {c} /\ q.lastSeq[c] = r.lastSeq[c]
       /\ c \in Streams => Joins(r.streams[c], q.streams[c], Broken, TRUE)
       /\ c \notin Streams => q.streams[c] = r.streams[c]
  /\ ~Deaf(r, c) /\ o.type = "ok" =>
       /\ q.listening = r.listening \ {c} /\ q.lastSeq[c] = r.lastSeq[c]
       /\ q.streams[c] = r.streams[c]
  /\ ~Deaf(r, c) /\ ~Breaks(r, c, o) /\ o.type # "ok" =>
       /\ q.listening = IF o.final THEN r.listening \ {c} ELSE r.listening
       /\ q.lastSeq[c] = o.seq
       /\ c \in Streams =>
            /\ Joins(r.streams[c], q.streams[c], ItemOf(o), o.final)
            /\ ~r.streams[c].closed /\ ~r.streams[c].waiting => Watches(r.streams[c], q.streams[c])
       /\ c \notin Streams => q.streams[c] = r.streams[c]

(* JavaScript no longer listens for the call.                                  *)
LEMMA ReleasedKeeps ==
  ASSUME NEW r, Sound(r), NEW c \in Calls, NEW q, q = Released(r, c)
  PROVE  /\ Sound(q) /\ q.pending = r.pending /\ q.queue = r.queue
         /\ q.listening = r.listening \ {c} /\ q.cancelled = r.cancelled
         /\ q.streams = r.streams /\ q.lastSeq = r.lastSeq /\ q.scheduler = r.scheduler
<1>1. RtInv(r, {}, {}) /\ r \in Runtimes /\ RtTypes(r) /\ Len(r.queue) <= QueueLimit
  BY RtInvParts DEF Sound
<1>2. q = Rt(r.scheduler, r.pending, r.cancelled, r.callTimer, r.timerCall, r.streamSeq, r.queue,
             r.listening \ {c}, r.lastSeq, r.streams, r.callbacks)
  BY <1>1 DEF Runtimes, Rt, Released
<1>3. /\ q.scheduler = r.scheduler /\ q.pending = r.pending /\ q.cancelled = r.cancelled
      /\ q.callTimer = r.callTimer /\ q.timerCall = r.timerCall /\ q.streamSeq = r.streamSeq
      /\ q.queue = r.queue /\ q.listening = r.listening \ {c} /\ q.lastSeq = r.lastSeq
      /\ q.streams = r.streams /\ q.callbacks = r.callbacks
  BY <1>2, RtFields
<1>4. q \in Runtimes
  BY <1>1, <1>2, <1>3, RtFormed DEF RtTypes
<1>5. Sound(q)
  BY <1>1, <1>3, <1>4, Elsewhere DEF Sound
<1> QED
  BY <1>3, <1>5

(* Nothing but the number of the last chunk of c.                              *)
Counted(r, q, c, n) ==
  /\ Sound(q) /\ Kept(r, q) /\ q.scheduler = r.scheduler /\ q.streams = r.streams
  /\ q.lastSeq[c] = n /\ \A d \in Calls \ {c} : q.lastSeq[d] = r.lastSeq[d]

(* The last chunk number is noted.                                             *)
LEMMA CountedKeeps ==
  ASSUME NEW r, Sound(r), NEW c \in Calls, NEW n \in 0..(MaxChunks + 1),
         NEW q, q = [r EXCEPT !.lastSeq[c] = n]
  PROVE  Counted(r, q, c, n)
<1>1. RtInv(r, {}, {}) /\ r \in Runtimes /\ RtTypes(r) /\ Len(r.queue) <= QueueLimit
  BY RtInvParts DEF Sound
<1>2. q = Rt(r.scheduler, r.pending, r.cancelled, r.callTimer, r.timerCall, r.streamSeq, r.queue,
             r.listening, [r.lastSeq EXCEPT ![c] = n], r.streams, r.callbacks)
  BY <1>1 DEF Runtimes, Rt
<1>3. /\ q.scheduler = r.scheduler /\ q.pending = r.pending /\ q.cancelled = r.cancelled
      /\ q.callTimer = r.callTimer /\ q.timerCall = r.timerCall /\ q.streamSeq = r.streamSeq
      /\ q.queue = r.queue /\ q.listening = r.listening /\ q.lastSeq = [r.lastSeq EXCEPT ![c] = n]
      /\ q.streams = r.streams /\ q.callbacks = r.callbacks
  BY <1>2, RtFields
<1>4. q \in Runtimes
  <2>1. q.lastSeq \in [Calls -> -1..(MaxChunks + 1)]
    BY <1>1, <1>3, NodeRuntimeConstants DEF RtTypes
  <2> QED
    BY <1>1, <1>2, <1>3, <2>1, RtFormed DEF RtTypes
<1>5. Sound(q)
  BY <1>1, <1>3, <1>4, Elsewhere DEF Sound
<1>6. q.lastSeq[c] = n /\ \A d \in Calls \ {c} : q.lastSeq[d] = r.lastSeq[d]
  BY <1>1, <1>3 DEF RtTypes
<1> QED
  BY <1>3, <1>5, <1>6 DEF Kept, Counted

(* Handing an outcome to JavaScript keeps the invariant.                       *)
LEMMA DeliverKeeps ==
  ASSUME NEW r, Sound(r), r.scheduler.nextId < MaxTimerId, now \in Int, NEW c \in Calls,
         NEW o \in AllOutcomes, NEW q, q = Deliver(r, c, o)
  PROVE  Handed(r, q, c, o) /\ Hears(r, q, c, o)
<1>1. CASE Deaf(r, c)
  <2>1. q = r
    BY <1>1 DEF Deliver
  <2>2. r.listening \ {c} = r.listening
    BY <1>1 DEF Deaf
  <2> QED
    BY <1>1, <2>1, <2>2 DEF Handed, Hears, Beside, Apart, Unheard
<1>2. CASE ~Deaf(r, c) /\ Breaks(r, c, o)
  <2> o.type # "ok"
    BY <1>2 DEF Breaks
  <2>1. PICK u : /\ Pushed(r, u) /\ Apart(r, u, c) /\ q = Released(u, c)
                 /\ c \in Streams => Joins(r.streams[c], u.streams[c], Broken, TRUE)
                 /\ c \notin Streams => u.streams[c] = r.streams[c]
    <3>1. CASE c \in Streams
      <4>1. q = Released(PushError(r, c), c)
        BY <1>2, <3>1 DEF Deliver
      <4> QED
        BY <3>1, <4>1, PushErrorKeeps
    <3>2. CASE c \notin Streams
      <4>1. q = Released(r, c)
        BY <1>2, <3>2 DEF Deliver
      <4>2. Pushed(r, r) /\ Apart(r, r, c)
        BY NoTurn, TurnIsPush
      <4> QED
        BY <3>2, <4>1, <4>2
    <3> QED
      BY <3>1, <3>2
  <2>2. Pushed(r, u) /\ Apart(r, u, c)
    BY <2>1
  <2>3. q = Released(u, c)
    BY <2>1
  <2>4. Sound(u)
    BY <2>2 DEF Pushed
  <2>5. /\ Sound(q) /\ q.pending = u.pending /\ q.queue = u.queue /\ q.listening = u.listening \ {c}
        /\ q.cancelled = u.cancelled /\ q.streams = u.streams /\ q.lastSeq = u.lastSeq
        /\ q.scheduler = u.scheduler
    BY <2>3, <2>4, ReleasedKeeps
  <2>6. Handed(r, q, c, o)
    BY <2>2, <2>5 DEF Handed, Pushed, Kept
  <2>7. Beside(r, q, c) /\ q.listening = r.listening \ {c} /\ q.lastSeq = r.lastSeq
    BY <2>2, <2>5 DEF Beside, Apart, Pushed, Kept
  <2> QED
    BY <1>2, <2>1, <2>5, <2>6, <2>7 DEF Hears
<1>3. CASE ~Deaf(r, c) /\ ~Breaks(r, c, o) /\ o.type = "ok"
  <2>1. q = Released(r, c)
    BY <1>3 DEF Deliver
  <2>2. /\ Sound(q) /\ q.pending = r.pending /\ q.queue = r.queue /\ q.listening = r.listening \ {c}
        /\ q.cancelled = r.cancelled /\ q.streams = r.streams /\ q.lastSeq = r.lastSeq
        /\ q.scheduler = r.scheduler
    BY <2>1, ReleasedKeeps
  <2> QED
    BY <1>3, <2>2 DEF Handed, Hears, Beside, Apart
<1>4. CASE ~Deaf(r, c) /\ ~Breaks(r, c, o) /\ o.type # "ok"
  <2>1. /\ o.final \in BOOLEAN /\ o.seq \in 0..(MaxChunks + 1) /\ (Partial(o) <=> ~o.final)
    <3>1. o.type = "chunk"
      BY <1>4, ChunkFacts DEF Breaks
    <3> QED
      BY <3>1, ChunkFacts
  <2>2. PICK n \in 0..(MaxChunks + 1) : n = o.seq
    BY <2>1
  <2>3. PICK counted : counted = [r EXCEPT !.lastSeq[c] = n]
    OBVIOUS
  <2>4. /\ Sound(counted) /\ Kept(r, counted) /\ counted.scheduler = r.scheduler
        /\ counted.streams = r.streams /\ counted.lastSeq[c] = n
        /\ \A d \in Calls \ {c} : counted.lastSeq[d] = r.lastSeq[d]
    <3>1. Counted(r, counted, c, n)
      BY <2>3, CountedKeeps
    <3> QED
      BY <3>1 DEF Counted
  <2>5. PICK u : u = IF c \in Streams THEN PushChunk(counted, c, o) ELSE counted
    OBVIOUS
  <2>6. /\ Sound(u) /\ Kept(counted, u) /\ u.lastSeq = counted.lastSeq /\ Apart(counted, u, c)
        /\ c \in Streams =>
             /\ Joins(r.streams[c], u.streams[c], ItemOf(o), o.final)
             /\ ~r.streams[c].closed /\ ~r.streams[c].waiting => Watches(r.streams[c], u.streams[c])
        /\ c \notin Streams => u.streams[c] = r.streams[c]
    <3>1. CASE c \in Streams
      <4>1. counted.scheduler.nextId < MaxTimerId /\ o.seq \in Int
        BY <2>1, <2>4, NodeRuntimeConstants
      <4>2. u = PushChunk(counted, c, o)
        BY <2>5, <3>1
      <4>3. /\ Pushed(counted, u) /\ Apart(counted, u, c)
            /\ Joins(counted.streams[c], u.streams[c], ItemOf(o), o.final)
            /\ ~counted.streams[c].closed /\ ~counted.streams[c].waiting =>
                 Watches(counted.streams[c], u.streams[c])
        BY <2>1, <2>4, <4>1, <4>2, PushChunkKeeps DEF ItemOf
      <4> QED
        BY <2>4, <3>1, <4>3 DEF Pushed
    <3>2. CASE c \notin Streams
      BY <2>4, <2>5, <3>2 DEF Kept, Apart
    <3> QED
      BY <3>1, <3>2
  <2>7. q = IF o.final THEN Released(u, c) ELSE u
    BY <1>4, <2>2, <2>3, <2>5 DEF Deliver
  <2>8. /\ Sound(q) /\ q.pending = u.pending /\ q.queue = u.queue /\ q.cancelled = u.cancelled
        /\ q.listening = IF o.final THEN u.listening \ {c} ELSE u.listening
        /\ q.streams = u.streams /\ q.lastSeq = u.lastSeq /\ q.scheduler = u.scheduler
    <3>1. CASE o.final
      BY <2>6, <2>7, <3>1, ReleasedKeeps
    <3>2. CASE ~o.final
      BY <2>6, <2>7, <3>2
    <3> QED
      BY <3>1, <3>2
  <2>9. Handed(r, q, c, o)
    BY <2>1, <2>4, <2>6, <2>8 DEF Handed, Kept
  <2>10. Beside(r, q, c) /\ q.lastSeq[c] = o.seq
    BY <2>2, <2>4, <2>6, <2>8 DEF Beside, Apart, Kept
  <2>11. q.listening = IF o.final THEN r.listening \ {c} ELSE r.listening
    BY <2>4, <2>6, <2>8 DEF Kept
  <2> QED
    BY <1>4, <2>6, <2>8, <2>9, <2>10, <2>11 DEF Hears
<1> QED
  BY <1>1, <1>2, <1>3, <1>4

-----------------------------------------------------------------------------
(* NodeRuntime: every action keeps the invariant                             *)

(* The host's side changes only as far as the runtime's does.                     *)
LEMMA HostKept ==
  ASSUME NodeInv, host' = host, rt'.queue = rt.queue, rt'.pending \subseteq rt.pending,
         rt'.listening \subseteq rt.listening,
         \A c \in rt'.listening : c \in rt.pending => c \in rt'.pending
  PROVE  HostInv'
  BY DEF NodeInv, HostInv, Made, ListenersAreTracked, Refused

(* What a step has to show.                                                    *)
LEMMA NodeStep ==
  ASSUME NodeInv, Sound(rt'), HostInv', now' = now,
         result' = result \/ \E c \in Calls : \E v \in {"open", "resolved", "rejected"} :
                               result' = [result EXCEPT ![c] = v]
  PROVE  NodeInv'
<1>1. result' \in [Calls -> {"open", "resolved", "rejected"}]
  BY DEF NodeInv
<1> QED
  BY <1>1 DEF NodeInv, Sound

(* What the invariant says of the clock and of the two sides.                  *)
LEMMA NowIsInt == ASSUME NodeInv PROVE now \in Int /\ Sound(rt) /\ HostInv
  BY NodeRuntimeConstants DEF NodeInv, Sound

(* One lemma for each action; the program reads a stream                       *)
LEMMA PullHolds ==
  ASSUME NodeInv, IdsSuffice, NEW c \in Streams, Pull(c)
  PROVE  NodeInv'
<1>1. c \in Calls
  BY NodeRuntimeConstants
<1>2. now \in Int /\ Sound(rt) /\ rt.scheduler.nextId < MaxTimerId
  BY NowIsInt DEF IdsSuffice
<1>3. rt' = AfterPull(rt, c) /\ host' = host /\ now' = now /\ result' = result
  BY DEF Pull
<1>4. Pushed(rt, rt')
  BY <1>1, <1>2, <1>3, AfterPullKeeps
<1>5. Sound(rt') /\ rt'.queue = rt.queue /\ rt'.pending = rt.pending /\ rt'.listening = rt.listening
  BY <1>4 DEF Pushed, Kept
<1>6. HostInv'
  BY <1>3, <1>5, HostKept
<1> QED
  BY <1>3, <1>5, <1>6, NodeStep

(* ... stops reading it                                                        *)
LEMMA ReturnHolds ==
  ASSUME NodeInv, NEW c \in Streams, Return(c)
  PROVE  NodeInv'
<1>1. c \in Calls /\ Sound(rt)
  BY NodeRuntimeConstants, NowIsInt
<1>2. host' = host /\ now' = now /\ result' = result
  BY DEF Return
<1>3. PICK stopped : stopped = IF rt.streams[c].done THEN rt ELSE CancelHostcall(rt, c)
  OBVIOUS
<1>4. Sound(stopped) /\ Remains(rt, stopped)
  <2>1. CASE rt.streams[c].done
    BY <1>1, <1>3, <2>1 DEF Remains, Unheard
  <2>2. CASE ~rt.streams[c].done
    BY <1>1, <1>3, <2>2, CancelKeeps
  <2> QED
    BY <2>1, <2>2
<1>5. rt' = [ClearStall(stopped, c) EXCEPT
               !.streams[c] = [@ EXCEPT !.closed = TRUE, !.done = TRUE,
                                        !.buffer = <<>>, !.waiting = FALSE]]
  BY <1>3 DEF Return
<1>6. StreamStep(stopped, rt')
  BY <1>1, <1>4, <1>5, Stopped
<1>7. Sound(rt') /\ rt'.queue = rt.queue /\ rt'.pending = rt.pending /\ rt'.listening = rt.listening
  BY <1>4, <1>6 DEF StreamStep, Kept, Remains, Unheard
<1>8. HostInv'
  BY <1>2, <1>7, HostKept
<1> QED
  BY <1>2, <1>7, <1>8, NodeStep

(* ... cancels a call                                                          *)
LEMMA CancelHolds ==
  ASSUME NodeInv, NEW c \in Calls, Cancel(c)
  PROVE  NodeInv'
<1>1. Sound(rt)
  BY NowIsInt
<1>2. rt' = CancelHostcall(rt, c) /\ host' = host /\ now' = now /\ result' = result
  BY DEF Cancel
<1>3. Sound(rt') /\ Remains(rt, rt')
  BY <1>1, <1>2, CancelKeeps
<1>4. HostInv'
  BY <1>2, <1>3, HostKept DEF Remains, Unheard
<1> QED
  BY <1>2, <1>3, <1>4, NodeStep

(* ... sets a timer                                                            *)
LEMMA SetUserTimerHolds ==
  ASSUME NodeInv, IdsSuffice, NEW delay \in 0..1, SetUserTimer(delay)
  PROVE  NodeInv'
<1>1. now \in Int /\ Sound(rt) /\ rt.scheduler.nextId < MaxTimerId /\ delay \in Int
  BY NowIsInt DEF IdsSuffice
<1>2. rt' = SetTimer(rt, delay, "user") /\ host' = host /\ now' = now /\ result' = result
  BY DEF SetUserTimer
<1>3. Sound(rt') /\ Kept(rt, rt')
  BY <1>1, <1>2, UserTimerSet
<1>4. HostInv'
  BY <1>2, <1>3, HostKept DEF Kept
<1> QED
  BY <1>2, <1>3, <1>4, NodeStep

(* ... or clears one.                                                          *)
LEMMA ClearUserTimerHolds ==
  ASSUME NodeInv, NEW id \in TimerIds, ClearUserTimer(id)
  PROVE  NodeInv'
<1>1. Sound(rt) /\ rt.callbacks[id] = "user"
  BY NowIsInt DEF ClearUserTimer, UserTimers
<1>2. rt' = ClearTimer(rt, id) /\ host' = host /\ now' = now /\ result' = result
  BY DEF ClearUserTimer
<1>3. Sound(rt') /\ Kept(rt, rt')
  BY <1>1, <1>2, UserTimerCleared
<1>4. HostInv'
  BY <1>2, <1>3, HostKept DEF Kept
<1> QED
  BY <1>2, <1>3, <1>4, NodeStep

(* The clock moves either way.                                                 *)
LEMMA ClockHolds ==
  ASSUME NodeInv, Clock
  PROVE  NodeInv'
<1>1. rt' = rt /\ host' = host /\ result' = result /\ now' = now + 1 /\ now < MaxTime
  BY DEF Clock
<1>2. HostInv'
  BY <1>1, HostKept
<1>3. now' \in 0..MaxTime
  BY <1>1, NodeRuntimeConstants DEF NodeInv
<1> QED
  BY <1>1, <1>2, <1>3 DEF NodeInv

(* What the host has of calls.                                                 *)
LEMMA HostFields ==
  ASSUME NodeInv
  PROVE  /\ host \in [Calls -> HostRec] /\ rt.queue \in Seq(Calls)
         /\ \A c \in Calls : host[c].state \in {"new", "sent", "dispatched", "answered"}
                             /\ host[c].chunks \in Nat
         /\ \A x \in Range(rt.queue) : x \in Calls /\ host[x].state = "sent"
         /\ \A x : x \in Range(rt.queue) <=> \E i \in 1..Len(rt.queue) : rt.queue[i] = x
<1>1. host \in [Calls -> HostRec] /\ rt.queue \in Seq(Calls)
  <2>1. RtTypes(rt)
    BY NowIsInt, RtInvParts DEF Sound
  <2> QED
    BY <2>1 DEF NodeInv, HostInv, RtTypes
<1>2. \A c \in Calls : host[c].state \in {"new", "sent", "dispatched", "answered"} /\ host[c].chunks \in Nat
  BY <1>1 DEF HostRec
<1>3. \A x : x \in Range(rt.queue) <=> \E i \in 1..Len(rt.queue) : rt.queue[i] = x
  BY <1>1 DEF Range
<1>4. \A x \in Range(rt.queue) : x \in Calls /\ host[x].state = "sent"
  BY <1>1, <1>3 DEF NodeInv, HostInv
<1> QED
  BY <1>1, <1>2, <1>3, <1>4

(* A call is registered, listened for and queued, or refused.                  *)
Accepted(c) ==
  /\ rt'.listening = rt.listening \union ({c} \ Exits)
  /\ rt'.streams = rt.streams /\ rt'.lastSeq = rt.lastSeq /\ rt'.cancelled = rt.cancelled \ {c}
  /\ \/ rt'.pending = rt.pending \union {c} /\ rt'.scheduler.tasks = rt.scheduler.tasks
     \/ rt'.pending = rt.pending \ {c} /\ TaskJoins(rt, rt', c)

LEMMA CallHolds ==
  ASSUME NodeInv, IdsSuffice, NEW c \in Calls, Call(c)
  PROVE  NodeInv' /\ Accepted(c)
<1>1. now \in Int /\ Sound(rt) /\ rt.scheduler.nextId < MaxTimerId /\ HostInv
  BY NowIsInt DEF IdsSuffice
<1>2. host[c].state = "new" /\ host' = [host EXCEPT ![c].state = "sent"] /\ now' = now /\ result' = result
  BY DEF Call
<1>3. c \notin rt.pending /\ c \notin rt.listening
  BY <1>1, <1>2 DEF HostInv, Made
<1>4. PICK timeout : timeout = IF c \in Exits THEN 0 ELSE HostcallTimeout
  OBVIOUS
<1>5. timeout \in Int /\ (timeout = 0 => c \in Exits \/ HostcallTimeout = 0)
  BY <1>4, NodeRuntimeConstants
<1>6. PICK registered, pushed : registered = Register(rt, c, timeout) /\ pushed = PushRequest(registered, c)
  OBVIOUS
<1>7. rt' = [pushed EXCEPT !.listening = @ \union ({c} \ Exits)]
  BY <1>4, <1>6 DEF Call
<1>8. /\ Sound(registered) /\ registered.pending = rt.pending \union {c}
      /\ registered.cancelled = rt.cancelled \ {c} /\ registered.queue = rt.queue
      /\ Unheard(rt, registered) /\ registered.scheduler.tasks = rt.scheduler.tasks
  BY <1>1, <1>3, <1>5, <1>6, Registered
<1>9. /\ Sound(pushed) /\ Unheard(rt, pushed) /\ pushed.cancelled = rt.cancelled \ {c}
      /\ \/ /\ pushed.queue = Append(rt.queue, c) /\ pushed.pending = rt.pending \union {c}
            /\ pushed.scheduler.tasks = rt.scheduler.tasks
         \/ pushed.queue = rt.queue /\ pushed.pending = rt.pending \ {c} /\ TaskJoins(rt, pushed, c)
  <2>1. /\ Sound(pushed) /\ Unheard(registered, pushed)
        /\ \/ /\ pushed.queue = Append(registered.queue, c) /\ pushed.pending = registered.pending
              /\ pushed.cancelled = registered.cancelled
              /\ pushed.scheduler.tasks = registered.scheduler.tasks
           \/ /\ pushed.queue = registered.queue /\ pushed.pending = registered.pending \ {c}
              /\ pushed.cancelled = registered.cancelled \ {c} /\ TaskJoins(registered, pushed, c)
    BY <1>6, <1>8, RequestPushed
  <2>2. TaskJoins(registered, pushed, c) => TaskJoins(rt, pushed, c)
    BY <1>8 DEF TaskJoins
  <2> QED
    BY <1>3, <1>8, <2>1, <2>2 DEF Unheard
<1>10. /\ Sound(rt') /\ rt'.pending = pushed.pending /\ rt'.queue = pushed.queue
       /\ rt'.listening = rt.listening \union ({c} \ Exits)
       /\ rt'.streams = pushed.streams /\ rt'.lastSeq = pushed.lastSeq
       /\ rt'.cancelled = pushed.cancelled /\ rt'.scheduler = pushed.scheduler
  <2>1. RtInv(pushed, {}, {}) /\ pushed \in Runtimes /\ RtTypes(pushed) /\ Len(pushed.queue) <= QueueLimit
    BY <1>9, RtInvParts DEF Sound
  <2>2. PICK li : li = rt.listening \union ({c} \ Exits)
    OBVIOUS
  <2>3. rt' = Rt(pushed.scheduler, pushed.pending, pushed.cancelled, pushed.callTimer,
                 pushed.timerCall, pushed.streamSeq, pushed.queue, li, pushed.lastSeq,
                 pushed.streams, pushed.callbacks)
    BY <1>7, <1>9, <2>1, <2>2 DEF Runtimes, Rt, Unheard
  <2>4. PICK q : q = rt'
    OBVIOUS
  <2>5. /\ q.scheduler = pushed.scheduler /\ q.pending = pushed.pending
        /\ q.cancelled = pushed.cancelled /\ q.callTimer = pushed.callTimer
        /\ q.timerCall = pushed.timerCall /\ q.streamSeq = pushed.streamSeq
        /\ q.queue = pushed.queue /\ q.listening = li /\ q.lastSeq = pushed.lastSeq
        /\ q.streams = pushed.streams /\ q.callbacks = pushed.callbacks
    BY ONLY <2>3, <2>4 DEF Rt
  <2>6. li \in SUBSET Calls
    BY <1>9, <2>1, <2>2 DEF RtTypes, Unheard
  <2>7. q \in Runtimes
    BY <2>1, <2>3, <2>4, <2>5, <2>6, RtFormed DEF RtTypes
  <2>8. Sound(q)
    BY <2>1, <2>5, <2>7, Elsewhere DEF Sound
  <2> QED
    BY <2>2, <2>4, <2>5, <2>8
<1>11. PICK h : h = host'
  OBVIOUS
<1>12. /\ h \in [Calls -> HostRec] /\ h[c].state = "sent" /\ h[c].chunks = host[c].chunks
       /\ \A d \in Calls \ {c} : h[d] = host[d]
  BY <1>2, <1>11, HostFields DEF HostRec
<1>13. PICK qu : qu = Append(rt.queue, c)
  OBVIOUS
<1>14. /\ \A x : x \in Range(qu) <=> x \in Range(rt.queue) \/ x = c
       /\ \A i \in 1..Len(qu) : qu[i] \in Range(qu)
  <2>1. rt.queue \in Seq(Calls)
    BY HostFields
  <2>2. qu \in Seq(Calls) /\ Len(qu) = Len(rt.queue) + 1 /\ Len(rt.queue) \in Nat
        /\ qu[Len(rt.queue) + 1] = c /\ \A i \in 1..Len(rt.queue) : qu[i] = rt.queue[i]
    BY <1>13, <2>1
  <2>3. \A i \in 1..Len(qu) : i \in 1..Len(rt.queue) \/ i = Len(rt.queue) + 1
    BY <2>2
  <2>4. \A i \in 1..Len(rt.queue) : i \in 1..Len(qu)
    BY <2>2
  <2>5. Len(rt.queue) + 1 \in 1..Len(qu)
    BY <2>2
  <2>6. \A x : x \in Range(qu) <=> \E i \in 1..Len(qu) : qu[i] = x
    BY <2>2 DEF Range
  <2> QED
    BY <2>2, <2>3, <2>4, <2>5, <2>6, HostFields
<1>15. c \notin Range(rt.queue)
  BY <1>2, HostFields
<1>16. PICK p, nq, li : p = rt'.pending /\ nq = rt'.queue /\ li = rt'.listening
  OBVIOUS
<1>17. /\ li = rt.listening \union ({c} \ Exits)
       /\ \/ nq = qu /\ p = rt.pending \union {c}
          \/ nq = rt.queue /\ p = rt.pending
  BY <1>3, <1>9, <1>10, <1>13, <1>16
<1>18. rt.pending \subseteq Calls /\ rt.listening \subseteq Calls
  BY <1>1, RtInvParts DEF Sound, RtTypes
<1>19. \A d \in Streams : h[d].state # "answered" => h[d].chunks <= MaxChunks
  BY <1>1, <1>2, <1>12, NodeRuntimeConstants DEF HostInv
<1>20. \A i \in 1..Len(nq) : h[nq[i]].state = "sent"
  <2>1. CASE nq = qu
    BY <1>12, <1>14, <2>1, HostFields
  <2>2. CASE nq = rt.queue
    BY <1>12, <1>15, <2>2, HostFields
  <2> QED
    BY <1>17, <2>1, <2>2
<1>21. \A d \in p \union li : h[d].state # "new"
  BY <1>1, <1>12, <1>17, <1>18 DEF HostInv, Made
<1>22. li \cap Exits = {}
  BY <1>1, <1>17 DEF HostInv
<1>23. \A d \in li : d \in p \/ (h[d].state = "sent" /\ d \notin Range(nq))
  <2>1. ASSUME NEW d \in rt.listening PROVE d \in p \/ (h[d].state = "sent" /\ d \notin Range(nq))
    <3>1. d \in rt.pending \/ (host[d].state = "sent" /\ d \notin Range(rt.queue))
      BY <1>1 DEF HostInv, ListenersAreTracked, Refused
    <3>2. d # c /\ d \in Calls
      BY <1>3, <1>18
    <3> QED
      BY <1>12, <1>14, <1>17, <3>1, <3>2
  <2>2. c \in p \/ (h[c].state = "sent" /\ c \notin Range(nq))
    BY <1>12, <1>15, <1>17
  <2> QED
    BY <1>17, <2>1, <2>2
<1>24. HostInv'
  BY <1>11, <1>12, <1>16, <1>19, <1>20, <1>21, <1>22, <1>23 DEF HostInv, Made, ListenersAreTracked, Refused
<1>25. Accepted(c)
  BY <1>9, <1>10 DEF Accepted, Unheard, TaskJoins
<1> QED
  BY <1>2, <1>10, <1>24, <1>25, NodeStep

(* What the host does leaves the tracker as it is and tells the program nothing.   *)
Outside ==
  /\ rt'.pending = rt.pending /\ rt'.cancelled = rt.cancelled
  /\ rt'.listening = rt.listening /\ rt'.streams = rt.streams /\ rt'.lastSeq = rt.lastSeq

(* Requests are taken,                                                         *)
Drained ==
  /\ Outside /\ rt'.scheduler = rt.scheduler
  /\ \A c \in Calls : host'[c].chunks = host[c].chunks /\ (host'[c].state = "new" => host[c].state = "new")

(* The host takes every queued request.                                        *)
LEMMA DrainHolds ==
  ASSUME NodeInv, DrainHostcallRequests
  PROVE  NodeInv' /\ Drained
<1>1. Sound(rt) /\ HostInv
  BY NowIsInt
<1>2. /\ rt' = [rt EXCEPT !.queue = <<>>] /\ now' = now /\ result' = result
      /\ host' = [c \in Calls |-> IF c \in Range(rt.queue)
                                  THEN [host[c] EXCEPT !.state = "dispatched"] ELSE host[c]]
  BY DEF DrainHostcallRequests
<1>3. /\ Sound(rt') /\ rt'.pending = rt.pending /\ rt'.listening = rt.listening /\ rt'.queue = <<>>
      /\ Outside /\ rt'.scheduler = rt.scheduler
  <2>1. RtInv(rt, {}, {}) /\ rt \in Runtimes /\ RtTypes(rt)
    BY <1>1, RtInvParts DEF Sound
  <2>2. PICK q : q = rt'
    OBVIOUS
  <2>3. q = Rt(rt.scheduler, rt.pending, rt.cancelled, rt.callTimer, rt.timerCall, rt.streamSeq,
               <<>>, rt.listening, rt.lastSeq, rt.streams, rt.callbacks)
    BY <1>2, <2>1, <2>2 DEF Runtimes, Rt
  <2>4. /\ q.scheduler = rt.scheduler /\ q.pending = rt.pending /\ q.cancelled = rt.cancelled
        /\ q.callTimer = rt.callTimer /\ q.timerCall = rt.timerCall /\ q.streamSeq = rt.streamSeq
        /\ q.queue = <<>> /\ q.listening = rt.listening /\ q.lastSeq = rt.lastSeq
        /\ q.streams = rt.streams /\ q.callbacks = rt.callbacks
    BY <2>3, RtFields
  <2>5. <<>> \in Seq(Calls) /\ Len(<<>>) <= QueueLimit
    BY NodeRuntimeConstants
  <2>6. q \in Runtimes
    BY <2>1, <2>3, <2>4, <2>5, RtFormed DEF RtTypes
  <2>7. Sound(q)
    <3>1. Len(q.queue) <= QueueLimit
      BY <2>4, <2>5
    <3> QED
      BY <2>1, <2>4, <2>6, <3>1, Elsewhere DEF Sound
  <2> QED
    BY <2>2, <2>4, <2>7 DEF Outside
<1>4. PICK h : h = host'
  OBVIOUS
<1>5. /\ h \in [Calls -> HostRec]
      /\ \A c \in Calls : h[c].chunks = host[c].chunks
      /\ \A c \in Calls : c \in Range(rt.queue) => h[c].state = "dispatched"
      /\ \A c \in Calls : c \notin Range(rt.queue) => h[c] = host[c]
  BY <1>2, <1>4, HostFields DEF HostRec
<1>6. PICK p, nq, li : p = rt'.pending /\ nq = rt'.queue /\ li = rt'.listening
  OBVIOUS
<1>7. p = rt.pending /\ nq = <<>> /\ li = rt.listening /\ p \subseteq Calls /\ li \subseteq Calls
  <2>1. RtTypes(rt)
    BY <1>1, RtInvParts DEF Sound
  <2> QED
    BY <1>3, <1>6, <2>1 DEF RtTypes
<1>8. Range(nq) = {} /\ 1..Len(nq) = {}
  BY <1>7 DEF Range
<1>9. \A d \in Streams : h[d].state # "answered" => h[d].chunks <= MaxChunks
  <2>1. \A d \in Streams : d \in Calls
    BY NodeRuntimeConstants
  <2>2. \A d \in Calls : h[d].state # "answered" => host[d].state # "answered"
    BY <1>5, HostFields
  <2> QED
    BY <1>1, <1>5, <2>1, <2>2 DEF HostInv
<1>10. \A d \in p \union li : h[d].state # "new"
  BY <1>1, <1>5, <1>7 DEF HostInv, Made
<1>11. \A d \in li : d \in p \/ (h[d].state = "sent" /\ d \notin Range(nq))
  BY <1>1, <1>5, <1>7, <1>8 DEF HostInv, ListenersAreTracked, Refused
<1>12. li \cap Exits = {}
  BY <1>1, <1>7 DEF HostInv
<1>13. HostInv'
  BY <1>4, <1>5, <1>6, <1>8, <1>9, <1>10, <1>11, <1>12 DEF HostInv, Made, ListenersAreTracked, Refused
<1>14. Drained
  BY <1>3, <1>4, <1>5 DEF Drained
<1> QED
  BY <1>2, <1>3, <1>13, <1>14, NodeStep

(* The outcomes a host may send of c, and the chunk count after.                  *)
LEMMA OutcomesSent ==
  ASSUME NodeInv, NEW c \in Calls, host[c].state = "dispatched", NEW o \in Outcomes(c)
  PROVE  /\ o \in AllOutcomes /\ Fits(c, o)
         /\ o.type = "chunk" => o.seq = host[c].chunks /\ o.seq \in 0..MaxChunks /\ o.final \in BOOLEAN
         /\ o.type = "chunk" /\ ~o.final /\ c \in Streams => host[c].chunks < MaxChunks
<1>1. host[c].chunks \in Nat /\ (c \in Streams => host[c].chunks <= MaxChunks)
  <2>1. host[c].state # "answered"
    OBVIOUS
  <2> QED
    BY <2>1, HostFields, NowIsInt DEF HostInv
<1>2. CASE o = Failed("io")
  BY <1>2, OutcomeFacts DEF Failed, Fits
<1>3. CASE o = Ok
  BY <1>3, OutcomeFacts DEF Ok, Fits
<1>4. CASE o = Chunk(host[c].chunks, TRUE) /\ c \in Streams
  <2>1. host[c].chunks \in 0..MaxChunks
    BY <1>1, <1>4, NodeRuntimeConstants
  <2>2. o \in AllOutcomes
    BY <1>4, <2>1, OutcomeFacts
  <2>3. o.type = "chunk" /\ o.seq = host[c].chunks /\ o.final = TRUE
    BY <1>4 DEF Chunk
  <2>4. c \notin Chunked
    BY <1>4, NodeRuntimeConstants
  <2> QED
    BY <2>1, <2>2, <2>3, <2>4 DEF Fits
<1>5. CASE o = Chunk(host[c].chunks, FALSE) /\ host[c].chunks < ChunkLimit(c)
  <2>1. /\ c \in Streams => host[c].chunks < MaxChunks
        /\ c \notin Streams => host[c].chunks < 1
    BY <1>1, <1>5, NodeRuntimeConstants DEF ChunkLimit
  <2>2. host[c].chunks \in 0..MaxChunks
    BY <1>1, <2>1, NodeRuntimeConstants
  <2>3. o \in AllOutcomes
    BY <1>5, <2>2, OutcomeFacts
  <2>4. o.type = "chunk" /\ o.seq = host[c].chunks /\ o.final = FALSE
    BY <1>5 DEF Chunk
  <2> QED
    BY <2>1, <2>2, <2>3, <2>4 DEF Fits
<1> QED
  BY <1>2, <1>3, <1>4, <1>5 DEF Outcomes

(* or the outcome o of c is put behind the tasks.                                *)
Sent(c, o) ==
  /\ Outside /\ o \in AllOutcomes /\ (o.type = "chunk" => o.seq = host[c].chunks)
  /\ \E n \in Nat : rt'.scheduler.tasks = Append(rt.scheduler.tasks, Completion(n, c, o))
  /\ host'[c].chunks = host[c].chunks + (IF o.type = "chunk" THEN 1 ELSE 0)
  /\ host[c].state # "new" /\ host'[c].state # "new"
  /\ \A d \in Calls \ {c} : host'[d] = host[d]

(* The host sends an outcome.                                                  *)
LEMMA CompleteHolds ==
  ASSUME NodeInv, NEW c \in Calls, NEW o \in Outcomes(c), CompleteHostcall(c, o)
  PROVE  NodeInv' /\ Sent(c, o)
<1>1. Sound(rt) /\ HostInv
  BY NowIsInt
<1>2. /\ host[c].state = "dispatched" /\ now' = now /\ result' = result
      /\ host' = [host EXCEPT ![c].chunks = @ + (IF o.type = "chunk" THEN 1 ELSE 0),
                              ![c].state = IF o.type = "chunk" /\ ~o.final
                                           THEN "dispatched" ELSE "answered"]
  BY DEF CompleteHostcall
<1>3. /\ o \in AllOutcomes /\ Fits(c, o)
      /\ o.type = "chunk" => o.seq = host[c].chunks /\ o.seq \in 0..MaxChunks /\ o.final \in BOOLEAN
      /\ o.type = "chunk" /\ ~o.final /\ c \in Streams => host[c].chunks < MaxChunks
  BY <1>2, OutcomesSent
<1>4. PICK recorded : recorded = IF o.type = "chunk" /\ c \in rt.pending /\ o.seq > rt.streamSeq[c]
                                 THEN [rt EXCEPT !.streamSeq[c] = o.seq] ELSE rt
  OBVIOUS
<1>5. rt' = Enqueue(recorded, c, o)
  BY <1>4 DEF CompleteHostcall
<1>6. RtInv(rt, {}, {}) /\ rt \in Runtimes /\ RtTypes(rt) /\ Len(rt.queue) <= QueueLimit
  BY <1>1, RtInvParts DEF Sound
<1>7. /\ RtInv(recorded, {}, {}) /\ Kept(rt, recorded) /\ Unheard(rt, recorded)
      /\ recorded.scheduler = rt.scheduler
  <2>1. CASE recorded = rt
    BY <1>6, <2>1 DEF Kept, Unheard
  <2>2. CASE recorded = [rt EXCEPT !.streamSeq[c] = o.seq] /\ o.type = "chunk"
    <3>1. PICK ss : ss = [rt.streamSeq EXCEPT ![c] = o.seq]
      OBVIOUS
    <3>2. ss \in [Calls -> -1..MaxChunks]
      BY <1>3, <1>6, <2>2, <3>1, NodeRuntimeConstants DEF RtTypes
    <3>3. recorded = Rt(rt.scheduler, rt.pending, rt.cancelled, rt.callTimer, rt.timerCall, ss,
                        rt.queue, rt.listening, rt.lastSeq, rt.streams, rt.callbacks)
      BY <1>6, <2>2, <3>1 DEF Runtimes, Rt
    <3>4. /\ recorded.scheduler = rt.scheduler /\ recorded.pending = rt.pending
          /\ recorded.cancelled = rt.cancelled /\ recorded.callTimer = rt.callTimer
          /\ recorded.timerCall = rt.timerCall /\ recorded.streamSeq = ss
          /\ recorded.queue = rt.queue /\ recorded.listening = rt.listening
          /\ recorded.lastSeq = rt.lastSeq /\ recorded.streams = rt.streams
          /\ recorded.callbacks = rt.callbacks
      BY <3>3, RtFields
    <3>5. recorded \in Runtimes
      BY <1>6, <3>2, <3>3, <3>4, RtFormed DEF RtTypes
    <3> QED
      BY <1>6, <3>4, <3>5, Elsewhere DEF Kept, Unheard
  <2> QED
    BY <1>4, <2>1, <2>2
<1>8. /\ Sound(rt') /\ rt'.queue = rt.queue /\ rt'.pending = rt.pending /\ rt'.listening = rt.listening
      /\ Outside /\ rt'.scheduler.tasks = Append(rt.scheduler.tasks, Completion(rt.scheduler.seq, c, o))
  <2>1. RtInv(rt', {}, {})
    BY <1>3, <1>5, <1>7, EnqueueKeepsSound
  <2>2. Arrived(recorded, rt', c, o)
    BY <1>3, <1>5, <1>7, EnqueueKeepsSound
  <2> QED
    BY <1>7, <2>1, <2>2 DEF Sound, Kept, Arrived, Unheard, Outside
<1>9. PICK h : h = host'
  OBVIOUS
<1>10. PICK n : n = host[c].chunks + (IF o.type = "chunk" THEN 1 ELSE 0)
  OBVIOUS
<1>11. n \in Nat
  BY <1>10, HostFields
<1>12. PICK state : state = IF o.type = "chunk" /\ ~o.final THEN "dispatched" ELSE "answered"
  OBVIOUS
<1>13. state \in {"dispatched", "answered"}
  BY <1>12
<1>14. h = [host EXCEPT ![c].chunks = n, ![c].state = state]
  <2>1. h = [host EXCEPT ![c].chunks = @ + (IF o.type = "chunk" THEN 1 ELSE 0), ![c].state = state]
    BY <1>2, <1>9, <1>12
  <2> QED
    BY <1>10, <2>1
<1>15. /\ h \in [Calls -> HostRec] /\ h[c].state = state /\ h[c].chunks = n
       /\ \A d \in Calls \ {c} : h[d] = host[d]
  <2>1. PICK g : g = [host EXCEPT ![c].chunks = n]
    OBVIOUS
  <2>2. h = [g EXCEPT ![c].state = state]
    BY <1>14, <2>1
  <2>3. g \in [Calls -> HostRec] /\ g[c].chunks = n /\ \A d \in Calls \ {c} : g[d] = host[d]
    BY <1>11, <2>1, HostFields DEF HostRec
  <2> QED
    BY <1>13, <2>2, <2>3 DEF HostRec
<1>16. \A d \in Streams : h[d].state # "answered" => h[d].chunks <= MaxChunks
  <2> SUFFICES ASSUME NEW d \in Streams, h[d].state # "answered" PROVE h[d].chunks <= MaxChunks
    OBVIOUS
  <2>1. d \in Calls
    BY NodeRuntimeConstants
  <2>2. CASE d # c
    BY <1>1, <1>15, <2>1, <2>2 DEF HostInv
  <2>3. CASE d = c
    <3>1. o.type = "chunk" /\ ~o.final
      BY <1>12, <1>15, <2>3
    <3>2. host[c].chunks < MaxChunks /\ n = host[c].chunks + 1 /\ host[c].chunks \in Nat
      BY <1>3, <1>10, <2>3, <3>1, HostFields
    <3> QED
      BY <1>15, <2>3, <3>2, NodeRuntimeConstants
  <2> QED
    BY <2>2, <2>3
<1>17. c \notin Range(rt.queue)
  BY <1>2, HostFields
<1>18. PICK p, nq, li : p = rt'.pending /\ nq = rt'.queue /\ li = rt'.listening
  OBVIOUS
<1>19. p = rt.pending /\ nq = rt.queue /\ li = rt.listening /\ p \subseteq Calls /\ li \subseteq Calls
  BY <1>6, <1>8, <1>18 DEF RtTypes
<1>20. \A i \in 1..Len(nq) : h[nq[i]].state = "sent"
  BY <1>15, <1>17, <1>19, HostFields
<1>21. \A d \in p \union li : h[d].state # "new"
  BY <1>1, <1>13, <1>15, <1>19 DEF HostInv, Made
<1>22. \A d \in li : d \in p \/ (h[d].state = "sent" /\ d \notin Range(nq))
  BY <1>1, <1>2, <1>15, <1>19 DEF HostInv, ListenersAreTracked, Refused
<1>23. li \cap Exits = {}
  BY <1>1, <1>19 DEF HostInv
<1>24. HostInv'
  BY <1>9, <1>15, <1>16, <1>18, <1>20, <1>21, <1>22, <1>23 DEF HostInv, Made, ListenersAreTracked, Refused
<1>25. Sent(c, o)
  <2>1. rt.scheduler.seq \in Nat
    BY <1>1, RtInvParts DEF Sound, Sched, Schedulers
  <2>2. \E k \in Nat : rt'.scheduler.tasks = Append(rt.scheduler.tasks, Completion(k, c, o))
    BY <1>8, <2>1
  <2>3. host'[c].chunks = host[c].chunks + (IF o.type = "chunk" THEN 1 ELSE 0)
    BY <1>9, <1>10, <1>15
  <2> QED
    BY <1>2, <1>3, <1>8, <1>9, <1>13, <1>15, <2>2, <2>3 DEF Sent
<1> QED
  BY <1>2, <1>8, <1>24, <1>25, NodeStep

(* After a tick the head of the queue is neither alive nor waiting.            *)
LEMMA Ticked ==
  ASSUME NEW r, Sound(r), NEW s, s = r.scheduler, NEW t, Sched(t, RtTasks), Fresh(t),
         NEW lost, NEW ended, LiveIn(t) \subseteq LiveIn(s),
         LiveIn(s) \union FiredIn(s) \subseteq LiveIn(t) \union FiredIn(t) \union lost,
         \A d : EndComes(s, d) /\ d \notin ended => EndComes(t, d),
         NEW q, q = [r EXCEPT !.scheduler = t]
  PROVE  /\ RtInv(q, lost, ended) /\ q.scheduler = t
         /\ q.pending = r.pending /\ q.cancelled = r.cancelled /\ q.queue = r.queue
         /\ Unheard(r, q) /\ q.timerCall = r.timerCall /\ q.callbacks = r.callbacks
<1>1. /\ r \in Runtimes /\ RtTypes(r) /\ Len(r.queue) <= QueueLimit
      /\ Timed(r) /\ Owners(r, {}) /\ Stalls(r) /\ Ends(r, {}) /\ Deadlines(r)
  BY RtInvParts DEF Sound
<1>2. q = Rt(t, r.pending, r.cancelled, r.callTimer, r.timerCall, r.streamSeq, r.queue,
             r.listening, r.lastSeq, r.streams, r.callbacks)
  BY <1>1 DEF Runtimes, Rt
<1>3. /\ q.scheduler = t /\ q.pending = r.pending /\ q.cancelled = r.cancelled
      /\ q.callTimer = r.callTimer /\ q.timerCall = r.timerCall /\ q.streamSeq = r.streamSeq
      /\ q.queue = r.queue /\ q.listening = r.listening /\ q.lastSeq = r.lastSeq
      /\ q.streams = r.streams /\ q.callbacks = r.callbacks
  BY <1>2, RtFields
<1>4. q \in Runtimes
  <2>1. t \in Schedulers(RtTasks)
    BY DEF Sched
  <2> QED
    BY <1>1, <1>2, <1>3, <2>1, RtFormed DEF RtTypes
<1>5. Timed(q) /\ Stalls(q) /\ Deadlines(q)
  BY <1>1, <1>3 DEF Timed, IsActive, Stalls, Deadlines
<1>6. Owners(q, lost)
  BY <1>1, <1>3 DEF Owners, Has
<1>7. Ends(q, ended)
  BY <1>1, <1>3 DEF Ends
<1> QED
  BY <1>1, <1>3, <1>4, <1>5, <1>6, <1>7 DEF RtInv, Unheard

(* A tick tells the program nothing, or hands it one outcome.                  *)
Heeded ==
  \/ result' = result /\ got' = got /\ rt'.listening = rt.listening
  \/ \E c \in Calls : \E o \in AllOutcomes : \E before \in Runtimes :
       /\ Fits(c, o) /\ before.listening = rt.listening
       /\ Delivered(before, c, o) /\ Handed(before, rt', c, o)

(* An outcome that is delivered, after what the tracker did.                   *)
LEMMA DeliveredHolds ==
  ASSUME NodeInv, IdsSuffice, host' = host, now' = now, NEW c \in Calls, NEW o \in AllOutcomes,
         NEW before, Sound(before), before.scheduler.nextId = rt.scheduler.nextId,
         before.queue = rt.queue, before.listening = rt.listening,
         before.pending = rt.pending \/ (before.pending = rt.pending \ {c} /\ ~Partial(o)),
         Delivered(before, c, o), Fits(c, o)
  PROVE  NodeInv' /\ Heeded
<1>1. /\ rt' = Deliver(before, c, o)
      /\ result' = [result EXCEPT ![c] = Settles(before, c, o)]
  BY DEF Delivered
<1>2. now \in Int /\ before.scheduler.nextId < MaxTimerId
  BY NowIsInt DEF IdsSuffice
<1>3. Handed(before, rt', c, o)
  BY <1>1, <1>2, DeliverKeeps
<1>4. Settles(before, c, o) \in {"open", "resolved", "rejected"}
  <2>1. result[c] \in {"open", "resolved", "rejected"}
    BY DEF NodeInv
  <2>2. Breaks(before, c, o) => o.type # "ok"
    BY DEF Breaks
  <2> QED
    BY <2>1, <2>2 DEF Settles
<1>5. HostInv'
  BY <1>3, HostKept DEF Handed
<1>6. NodeInv'
  BY <1>1, <1>3, <1>4, <1>5, NodeStep DEF Handed
<1>7. before \in Runtimes
  BY RtInvParts DEF Sound
<1> QED
  BY <1>3, <1>6, <1>7 DEF Heeded

(* A tick whose task is an outcome                                             *)
LEMMA TickHostcall ==
  ASSUME NodeInv, IdsSuffice, host' = host, now' = now,
         NEW c \in Calls, NEW o \in AllOutcomes, NEW n, NEW task, task = Completion(n, c, o),
         NEW r, RtInv(r, {}, IF Partial(o) THEN {} ELSE {c}),
         r.scheduler.nextId = rt.scheduler.nextId, r.pending = rt.pending, r.queue = rt.queue,
         r.listening = rt.listening, HostcallComplete(r, task), Fits(c, o)
  PROVE  NodeInv' /\ Heeded
<1>1. task.call = c /\ task.outcome = o
  BY TaskFacts
<1>2. CASE Partial(o)
  <2>1. Sound(r)
    BY <1>2 DEF Sound
  <2>2. CASE IsActive(r, c)
    <3>1. Delivered(r, c, o)
      BY <1>1, <1>2, <2>2 DEF HostcallComplete, Partial
    <3> QED
      BY <2>1, <3>1, DeliveredHolds
  <2>3. CASE ~IsActive(r, c)
    <3>1. rt' = r /\ result' = result /\ got' = got
      BY <1>1, <1>2, <2>3 DEF HostcallComplete, Partial
    <3>2. HostInv'
      BY <3>1, HostKept
    <3> QED
      BY <2>1, <3>1, <3>2, NodeStep DEF Heeded
  <2> QED
    BY <2>2, <2>3
<1>3. CASE ~Partial(o)
  <2>1. RtInv(r, {}, {c})
    BY <1>3
  <2>2. CASE c \in r.pending
    <3>1. PICK u : u = Completed(r, c)
      OBVIOUS
    <3>2. Forgotten(r, u, c)
      BY <2>1, <3>1, CompletedKeeps
    <3>3. Delivered(u, c, o)
      BY <1>1, <1>3, <2>2, <3>1 DEF HostcallComplete, Partial
    <3>4. /\ Sound(u) /\ u.scheduler.nextId = rt.scheduler.nextId /\ u.queue = rt.queue
          /\ u.listening = rt.listening /\ u.pending = rt.pending \ {c}
      BY <3>2 DEF Forgotten, Unheard
    <3> QED
      BY <1>3, <3>3, <3>4, DeliveredHolds
  <2>3. CASE c \notin r.pending
    <3>1. rt' = r /\ result' = result /\ got' = got
      BY <1>1, <1>3, <2>3 DEF HostcallComplete, Partial
    <3>2. Sound(r)
      <4>1. c \notin r.cancelled
        BY <2>1, <2>3, RtInvParts DEF Timed
      <4> QED
        BY <2>1, <4>1 DEF Sound, RtInv, Ends
    <3>3. HostInv'
      BY <3>1, HostKept
    <3> QED
      BY <3>1, <3>2, <3>3, NodeStep DEF Heeded
  <2> QED
    BY <2>2, <2>3
<1> QED
  BY <1>2, <1>3

(* ... or a fired timer.                                                       *)
LEMMA TickTimer ==
  ASSUME NodeInv, IdsSuffice, host' = host, now' = now, NEW id \in TimerIds,
         NEW r, Rung(r, id),
         r.scheduler.nextId = rt.scheduler.nextId, r.pending = rt.pending, r.queue = rt.queue,
         r.listening = rt.listening, TimerFired(r, id)
  PROVE  NodeInv' /\ Heeded
<1>1. r.timerCall[id] \in Calls \union {NoCall} /\ r.callbacks[id] \in Calls \union NoOwner
  BY RtInvParts DEF RtTypes, Rung
<1>2. CASE r.timerCall[id] # NoCall
  <2>1. PICK c \in Calls : c = r.timerCall[id]
    BY <1>1, <1>2
  <2>2. PICK u, o : u = TimedOut(r, c) /\ o = Failed("timeout")
    OBVIOUS
  <2>3. /\ Sound(u) /\ u.scheduler.nextId = r.scheduler.nextId
        /\ u.pending = r.pending \ {c} /\ u.queue = r.queue /\ u.listening = r.listening
    BY <2>1, <2>2, TimedOutKeeps DEF Unheard, Forgotten
  <2>4. o \in AllOutcomes /\ ~Partial(o) /\ Fits(c, o)
    BY <2>2, OutcomeFacts
  <2>5. Delivered(u, c, o)
    BY <1>2, <2>1, <2>2 DEF TimerFired
  <2> QED
    BY <2>3, <2>4, <2>5, DeliveredHolds
<1>3. CASE r.timerCall[id] = NoCall
  <2>1. PICK fired : fired = [r EXCEPT !.callbacks[id] = "none"]
    OBVIOUS
  <2>2. /\ rt' = IF r.callbacks[id] \in Calls THEN StallCallback(fired, r.callbacks[id]) ELSE fired
        /\ result' = result /\ got' = got
    BY <1>3, <2>1 DEF TimerFired
  <2>3. CASE r.callbacks[id] \notin Calls
    <3>1. Taken(r, fired)
      BY <1>3, <2>1, <2>3, CallbackTaken DEF NoCallback
    <3>2. rt' = fired
      BY <2>2, <2>3
    <3>3. HostInv'
      BY <3>1, <3>2, HostKept DEF Taken
    <3> QED
      BY <2>2, <3>1, <3>2, <3>3, NodeStep DEF Taken, Heeded
  <2>4. CASE r.callbacks[id] \in Calls
    <3>1. PICK c \in Calls : c = r.callbacks[id]
      BY <2>4
    <3>2. PICK off : off = [fired EXCEPT !.streams[c].stall = 0]
      OBVIOUS
    <3>3. Sound(off) /\ off.pending = r.pending /\ off.queue = r.queue /\ off.listening = r.listening
      <4>1. NoCallback(r, fired, id) /\ NoStall(fired, off, c)
        BY <2>1, <3>2 DEF NoCallback, NoStall
      <4>2. StallTaken(r, off, c)
        BY <1>3, <3>1, <4>1, CallbackTaken
      <4> QED
        BY <4>2 DEF Taken, StallTaken
    <3>4. rt' = off \/ rt' = CancelHostcall(off, c)
      BY <2>2, <2>4, <3>1, <3>2 DEF StallCallback
    <3>5. Sound(rt') /\ rt'.pending = r.pending /\ rt'.queue = r.queue /\ rt'.listening = r.listening
      BY <3>3, <3>4, CancelKeeps DEF Remains, Unheard
    <3>6. HostInv'
      BY <3>5, HostKept
    <3> QED
      BY <2>2, <3>5, <3>6, NodeStep DEF Heeded
  <2> QED
    BY <2>3, <2>4
<1> QED
  BY <1>2, <1>3

(* What a tick makes of the runtime before it hands out the task it took:       *)
Turned(r) ==
  /\ Unheard(rt, r) /\ r.pending = rt.pending /\ r.cancelled = rt.cancelled /\ r.queue = rt.queue
  /\ r.scheduler.nextId = rt.scheduler.nextId

(* nothing was due,                                                            *)
Idles(r) ==
  /\ rt' = r /\ result' = result /\ got' = got /\ Sound(r)
  /\ \A d : LineStays(rt.scheduler.tasks, r.scheduler.tasks, d)

(* an outcome o of c was,                                                      *)
HandsOut(r, c, o) ==
  /\ Fits(c, o) /\ RtInv(r, {}, IF Partial(o) THEN {} ELSE {c})
  /\ \E n : HostcallComplete(r, Completion(n, c, o))
  /\ \A d : d # c \/ o.type # "chunk" => LineStays(rt.scheduler.tasks, r.scheduler.tasks, d)
  /\ o.type = "chunk" => LineMoves(rt.scheduler.tasks, r.scheduler.tasks, c, o.seq)

(* or a timer.                                                                 *)
Rings(r, id) ==
  /\ RtInv(r, {id}, {}) /\ id \notin LiveIn(r.scheduler) /\ TimerFired(r, id)
  /\ \A d : LineStays(rt.scheduler.tasks, r.scheduler.tasks, d)

(* These are the cases of a tick.                                              *)
LEMMA TickCases ==
  ASSUME NodeInv, TickRuntime
  PROVE  \E r : /\ Turned(r)
                /\ \/ Idles(r)
                   \/ \E c \in Calls : \E o \in AllOutcomes : HandsOut(r, c, o)
                   \/ \E id \in TimerIds : Rings(r, id)
<1>2. now \in Int /\ Sound(rt)
  BY NowIsInt
<1> PICK clock \in Int : clock = now
  BY <1>2
<1>3. PICK s, t, m : s = rt.scheduler /\ t = AfterTick(s, clock) /\ m = MoveDueTimers(s, clock)
  OBVIOUS
<1>4. PICK head : m.tasks # <<>> => head = Head(m.tasks)
  OBVIOUS
<1>5. PICK r : r = [rt EXCEPT !.scheduler = t]
  OBVIOUS
<1>6. Sched(s, RtTasks) /\ Fresh(s)
  BY <1>2, <1>3, RtInvParts DEF Sound
<1>7. Ready(s, clock) = m.tasks /\ Tick(s, t, m, head)
  BY <1>3, <1>4, <1>6, RtTick
<1>8. r = [rt EXCEPT !.scheduler = AfterTick(@, now)]
  BY <1>3, <1>5
<1>9. CASE m.tasks = <<>>
  <2>1. rt' = r /\ result' = result /\ got' = got
    BY <1>3, <1>7, <1>8, <1>9 DEF TickRuntime
  <2>2. /\ LiveIn(t) \subseteq LiveIn(s) /\ Sched(t, RtTasks) /\ Fresh(t) /\ t.nextId = s.nextId
        /\ LiveIn(s) \union FiredIn(s) \subseteq LiveIn(t) \union FiredIn(t) \union {}
        /\ \A d : EndComes(s, d) /\ d \notin {} => EndComes(t, d)
        /\ \A d : LineStays(s.tasks, t.tasks, d)
    BY <1>7, <1>9 DEF Tick
  <2>3. /\ RtInv(r, {}, {}) /\ r.scheduler = t /\ r.pending = rt.pending /\ r.queue = rt.queue
        /\ r.cancelled = rt.cancelled /\ Unheard(rt, r)
    BY <1>2, <1>3, <1>5, <2>2, Ticked
  <2>4. Turned(r) /\ Idles(r)
    BY <1>3, <2>1, <2>2, <2>3 DEF Turned, Idles, Sound
  <2> QED
    BY <2>4
<1>10. CASE m.tasks # <<>>
  <2>1. /\ head.kind = "hostcall" => HostcallComplete(r, head)
        /\ head.kind = "timer" => TimerFired(r, head.id)
    BY <1>3, <1>4, <1>7, <1>8, <1>10 DEF TickRuntime
  <2>2. head \in RtTasks
    BY <1>7, <1>10 DEF Tick
  <2>3. CASE \E n \in Nat : \E c \in Calls : \E o \in AllOutcomes :
               head = Completion(n, c, o) /\ Fits(c, o)
    <3>1. PICK n \in Nat, c \in Calls, o \in AllOutcomes : head = Completion(n, c, o) /\ Fits(c, o)
      BY <2>3
    <3>2. HostcallComplete(r, head)
      BY <2>1, <3>1, TaskFacts
    <3>3. PICK ended : ended = IF Partial(o) THEN {} ELSE {c}
      OBVIOUS
    <3>4. /\ LiveIn(t) \subseteq LiveIn(s) /\ Sched(t, RtTasks) /\ Fresh(t) /\ t.nextId = s.nextId
          /\ LiveIn(s) \union FiredIn(s) \subseteq LiveIn(t) \union FiredIn(t) \union {}
          /\ \A d : EndComes(s, d) /\ d \notin ended => EndComes(t, d)
      BY <1>7, <1>10, <3>1, <3>3 DEF Tick
    <3>5. /\ RtInv(r, {}, ended) /\ r.scheduler = t /\ r.pending = rt.pending /\ r.queue = rt.queue
          /\ r.cancelled = rt.cancelled /\ Unheard(rt, r)
      BY <1>2, <1>3, <1>5, <3>4, Ticked
    <3>6. /\ \A d : d # c \/ o.type # "chunk" => LineStays(s.tasks, t.tasks, d)
          /\ o.type = "chunk" => LineMoves(s.tasks, t.tasks, c, o.seq)
      <4>1. head.kind = "hostcall" /\ head.call = c /\ head.outcome = o
        BY <3>1, TaskFacts
      <4> QED
        BY <1>7, <1>10, <4>1 DEF Tick, ChunkOf
    <3>7. Turned(r)
      BY <1>3, <3>4, <3>5 DEF Turned
    <3>8. HandsOut(r, c, o)
      BY <1>3, <3>1, <3>2, <3>3, <3>5, <3>6 DEF HandsOut
    <3> QED
      BY <3>7, <3>8
  <2>4. CASE \E n \in Nat : \E id \in TimerIds : head = TimerTask(n, id)
    <3>1. PICK n \in Nat, id \in TimerIds : head = TimerTask(n, id)
      BY <2>4
    <3>2. TimerFired(r, id) /\ \A d : ~ChunkOf(head, d)
      BY <2>1, <3>1, TaskFacts DEF ChunkOf
    <3>3. /\ LiveIn(t) \subseteq LiveIn(s) /\ Sched(t, RtTasks) /\ Fresh(t) /\ t.nextId = s.nextId
          /\ LiveIn(s) \union FiredIn(s) \subseteq LiveIn(t) \union FiredIn(t) \union {id}
          /\ \A d : EndComes(s, d) /\ d \notin {} => EndComes(t, d)
          /\ id \notin LiveIn(t)
      BY <1>7, <1>10, <3>1 DEF Tick
    <3>4. /\ RtInv(r, {id}, {}) /\ r.scheduler = t /\ r.pending = rt.pending /\ r.queue = rt.queue
          /\ r.cancelled = rt.cancelled /\ Unheard(rt, r)
      BY <1>2, <1>3, <1>5, <3>3, Ticked
    <3>5. \A d : LineStays(s.tasks, t.tasks, d)
      BY <1>7, <1>10, <3>2 DEF Tick
    <3>6. Turned(r) /\ Rings(r, id)
      BY <1>3, <3>2, <3>3, <3>4, <3>5 DEF Turned, Rings
    <3> QED
      BY <3>6
  <2>5. ASSUME head \in CallTasks
        PROVE  \E n \in Nat : \E c \in Calls : \E o \in AllOutcomes : head = Completion(n, c, o) /\ Fits(c, o)
    <3>1. PICK n \in Nat, c \in Calls, o \in AllOutcomes :
            head = Completion(n, c, o) /\ Fits(head.call, head.outcome)
      BY <2>5 DEF CallTasks
    <3>2. head.call = c /\ head.outcome = o
      BY <3>1, TaskFacts
    <3> QED
      BY <3>1, <3>2
  <2> QED
    BY <2>2, <2>3, <2>4, <2>5 DEF RtTasks, TimerTasks
<1> QED
  BY <1>9, <1>10

(* Every tick keeps the invariant.                                             *)
LEMMA TickHolds ==
  ASSUME NodeInv, IdsSuffice, TickRuntime
  PROVE  NodeInv' /\ Heeded
<1>1. host' = host /\ now' = now
  BY DEF TickRuntime
<1>2. PICK r : /\ Turned(r)
               /\ \/ Idles(r)
                  \/ \E c \in Calls : \E o \in AllOutcomes : HandsOut(r, c, o)
                  \/ \E id \in TimerIds : Rings(r, id)
  BY TickCases
<1>3. /\ r.pending = rt.pending /\ r.queue = rt.queue /\ r.listening = rt.listening
      /\ r.scheduler.nextId = rt.scheduler.nextId
  BY <1>2 DEF Turned, Unheard
<1>4. CASE Idles(r)
  <2>1. rt' = r /\ result' = result /\ got' = got /\ Sound(r)
    BY <1>4 DEF Idles
  <2>2. HostInv'
    BY <1>1, <1>3, <2>1, HostKept
  <2> QED
    BY <1>1, <1>3, <2>1, <2>2, NodeStep DEF Heeded
<1>5. CASE \E c \in Calls : \E o \in AllOutcomes : HandsOut(r, c, o)
  <2>1. PICK c \in Calls, o \in AllOutcomes : HandsOut(r, c, o)
    BY <1>5
  <2> QED
    BY <1>1, <1>3, <2>1, TickHostcall DEF HandsOut
<1>6. CASE \E id \in TimerIds : Rings(r, id)
  <2>1. PICK id \in TimerIds : Rings(r, id)
    BY <1>6
  <2> QED
    BY <1>1, <1>3, <2>1, TickTimer DEF Rings, Rung
<1> QED
  BY <1>2, <1>4, <1>5, <1>6

(* The invariant holds at first,                                               *)
LEMMA NodeInit == Init => NodeInv
<1> SUFFICES ASSUME Init PROVE NodeInv
  OBVIOUS
<1>1. PICK r : r = rt
  OBVIOUS
<1>2. /\ r.scheduler = EmptyScheduler /\ r.pending = {} /\ r.cancelled = {}
      /\ r.callTimer = [c \in Calls |-> 0] /\ r.timerCall = [t \in TimerIds |-> NoCall]
      /\ r.streamSeq = [c \in Calls |-> -1] /\ r.queue = <<>> /\ r.listening = {}
      /\ r.lastSeq = [c \in Calls |-> -1] /\ r.streams = [c \in Calls |-> IdleStream]
      /\ r.callbacks = [t \in TimerIds |-> "none"]
  BY <1>1 DEF Init
<1>3. r = Rt(r.scheduler, r.pending, r.cancelled, r.callTimer, r.timerCall, r.streamSeq, r.queue,
             r.listening, r.lastSeq, r.streams, r.callbacks)
  BY <1>1 DEF Init, Rt
<1>4. Sched(r.scheduler, RtTasks)
  BY <1>2, EmptyIsSched
<1>5. IdleStream \in StreamRec /\ IdleStream.stall = 0
  BY DEF IdleStream, StreamRec
<1>6. RtTypes(r)
  <2>1. r.scheduler \in Schedulers(RtTasks)
    BY <1>4 DEF Sched
  <2>2. r.streamSeq \in [Calls -> -1..MaxChunks] /\ r.lastSeq \in [Calls -> -1..(MaxChunks + 1)]
    <3>1. -1 \in -1..MaxChunks /\ -1 \in -1..(MaxChunks + 1)
      BY NodeRuntimeConstants
    <3> QED
      BY <1>2, <3>1
  <2>3. r.callTimer \in [Calls -> TimerIds \union {0}] /\ r.timerCall \in [TimerIds -> Calls \union {NoCall}]
    BY <1>2
  <2>4. r.callbacks \in [TimerIds -> Calls \union NoOwner] /\ r.streams \in [Calls -> StreamRec]
    BY <1>2, <1>5 DEF NoOwner
  <2>5. r.queue \in Seq(Calls)
    BY <1>2
  <2> QED
    BY <1>2, <2>1, <2>2, <2>3, <2>4, <2>5 DEF RtTypes
<1>7. r \in Runtimes
  BY <1>3, <1>6, RtFormed
<1>8. LiveIn(r.scheduler) = {} /\ FiredIn(r.scheduler) = {} /\ r.scheduler.ids = {}
  <2>1. r.scheduler.ids = {} /\ r.scheduler.tasks = <<>>
    BY <1>2 DEF EmptyScheduler
  <2>2. Range(r.scheduler.tasks) = {}
    BY <2>1 DEF Range
  <2> QED
    BY <1>4, <2>1, <2>2, LiveIsNotCancelled DEF FiredIn
<1>9. Fresh(r.scheduler)
  BY <1>8 DEF Fresh
<1>10. Timed(r) /\ Stalls(r) /\ Ends(r, {}) /\ Deadlines(r)
  BY <1>2, <1>5, NotOwners DEF Timed, Stalls, Ends, Deadlines
<1>11. Owners(r, {})
  BY <1>2, <1>8 DEF Owners, Has
<1>12. Len(r.queue) <= QueueLimit
  BY <1>2, NodeRuntimeConstants
<1>13. RtInv(rt, {}, {})
  BY <1>1, <1>4, <1>7, <1>9, <1>10, <1>11, <1>12 DEF RtInv
<1>14. HostInv
  <2>1. host = [c \in Calls |-> [state |-> "new", chunks |-> 0]]
    BY DEF Init
  <2>2. host \in [Calls -> HostRec] /\ \A c \in Calls : host[c].chunks = 0
    BY <2>1 DEF HostRec
  <2>3. \A c \in Streams : host[c].chunks <= MaxChunks
    BY <2>2, NodeRuntimeConstants
  <2>4. 1..Len(rt.queue) = {} /\ rt.pending = {} /\ rt.listening = {}
    BY <1>1, <1>2
  <2> QED
    BY <2>2, <2>3, <2>4 DEF HostInv, ListenersAreTracked
<1>15. now \in 0..MaxTime /\ result \in [Calls -> {"open", "resolved", "rejected"}]
  BY NodeRuntimeConstants DEF Init
<1> QED
  BY <1>13, <1>14, <1>15 DEF NodeInv

(* every step keeps it,                                                        *)
LEMMA NodeNext == NodeInv /\ IdsSuffice /\ [Next]_vars => NodeInv'
<1> SUFFICES ASSUME NodeInv, IdsSuffice, [Next]_vars PROVE NodeInv'
  OBVIOUS
<1>1. CASE Program
  BY <1>1, CallHolds, PullHolds, ReturnHolds, CancelHolds, SetUserTimerHolds, ClearUserTimerHolds
     DEF Program
<1>2. CASE Host
  BY <1>2, DrainHolds, CompleteHolds DEF Host
<1>3. CASE TickRuntime
  BY <1>3, TickHolds
<1>4. CASE Clock
  BY <1>4, ClockHolds
<1>5. CASE UNCHANGED vars
  <2>1. rt' = rt /\ host' = host /\ now' = now /\ result' = result
    BY <1>5 DEF vars
  <2>2. HostInv'
    BY <2>1, HostKept
  <2> QED
    BY <2>1, <2>2, NowIsInt, NodeStep
<1> QED
  BY <1>1, <1>2, <1>3, <1>4, <1>5 DEF Next

(* The end of a cancelled call is an end that is coming.                          *)
LEMMA EndComesFirst == ASSUME NodeInv, NEW c, EndComes(rt.scheduler, c) PROVE EndIsComing(c)
<1>1. PICK i \in 1..Len(rt.scheduler.tasks), o \in AllOutcomes :
        rt.scheduler.tasks[i] = Completion(rt.scheduler.tasks[i].seq, c, o) /\ ~Partial(o)
  BY DEF EndComes
<1>2. i \in DOMAIN rt.scheduler.tasks
  BY NowIsInt, RtInvParts DEF Sound, Sched, Schedulers
<1>3. /\ rt.scheduler.tasks[i].kind = "hostcall" /\ rt.scheduler.tasks[i].call = c
      /\ rt.scheduler.tasks[i].outcome = o
  BY <1>1, TaskFacts
<1>4. o.type = "chunk" => o.final
  BY <1>1 DEF Partial
<1> QED
  BY <1>2, <1>3, <1>4 DEF EndIsComing

(* and it implies what the run checks.                                         *)
LEMMA NodeImplies == NodeInv => CallsAreSound
<1> SUFFICES ASSUME NodeInv PROVE CallsAreSound
  OBVIOUS
<1>1. /\ rt \in Runtimes /\ RtTypes(rt) /\ Len(rt.queue) <= QueueLimit
      /\ Sched(rt.scheduler, RtTasks)
      /\ Timed(rt) /\ Owners(rt, {}) /\ Stalls(rt) /\ Ends(rt, {}) /\ Deadlines(rt)
  BY NowIsInt, RtInvParts DEF Sound
<1>2. TypeOK
  <2>1. rt.streamSeq \in [Calls -> -1..(MaxChunks + 1)]
    BY <1>1, NodeRuntimeConstants DEF RtTypes
  <2>2. \A c \in Calls : rt.streams[c].stall \in TimerIds \union {0}
    BY <1>1 DEF RtTypes, StreamRec
  <2> QED
    BY <1>1, <2>1, <2>2 DEF NodeInv, RtTypes, TypeOK
<1>3. TrackerAgrees
  BY <1>1 DEF Timed, TrackerAgrees
<1>4. LiveIds = LiveIn(rt.scheduler) /\ FiredIds = FiredIn(rt.scheduler)
  BY DEF LiveIds, LiveIn, FiredIds, FiredIn
<1>5. TimersHaveOwners
  BY <1>1, <1>4 DEF Owners, Has, TimersHaveOwners, Owned
<1>6. ListenersAreTracked
  BY DEF NodeInv, HostInv
<1>7. CallsWillEnd
  <2> SUFFICES ASSUME NEW c \in rt.listening, ~Refused(c), ~EndIsComing(c), HostcallTimeout > 0
               PROVE  rt.callTimer[c] \in LiveIds \union FiredIds
    BY DEF CallsWillEnd
  <2>1. c \in rt.pending /\ c \notin Exits /\ c \in Calls
    BY <1>1 DEF NodeInv, HostInv, ListenersAreTracked, RtTypes
  <2>2. ~EndComes(rt.scheduler, c)
    BY EndComesFirst
  <2>3. c \notin rt.cancelled
    BY <1>1, <2>2 DEF Ends
  <2>4. rt.callTimer[c] # 0
    BY <1>1, <2>1, <2>3 DEF Deadlines
  <2>5. rt.callTimer[c] \in TimerIds /\ rt.timerCall[rt.callTimer[c]] = c
    BY <1>1, <2>1, <2>4 DEF RtTypes, Timed
  <2>6. Has(rt, rt.callTimer[c])
    BY <2>1, <2>5, NotOwners DEF Has
  <2> QED
    BY <1>1, <1>4, <2>5, <2>6 DEF Owners
<1> QED
  BY <1>2, <1>3, <1>5, <1>6, <1>7 DEF CallsAreSound, CallTablesAgree

(* As long as the ids of timers are not used up, whatever is called, cancelled, *)
(* streamed, refused, timed out and however the clock moves: the tables of the *)
(* tracker, the scheduler and JavaScript agree about every call and timer, and *)
(* who listens for a call has been refused, has its end on the way, or has a   *)
(* timer that will fire (HostcallTracker, tick_runtime, __pi_complete_hostcall). *)
THEOREM CallsSound == Spec /\ []IdsSuffice => []CallsAreSound
<1>1. Init => NodeInv
  BY NodeInit
<1>2. NodeInv /\ IdsSuffice /\ [Next]_vars => NodeInv'
  BY NodeNext
<1>3. NodeInv => CallsAreSound
  BY NodeImplies
<1> QED
  BY <1>1, <1>2, <1>3, PTL DEF Spec

-----------------------------------------------------------------------------
(* ChildProcess: what a child says                                           *)

ChildEvents == {"stdout", "stderr", "error", "exit", "close"}
Endings == {"ok", "failed", "killed", "too long"}
ChildRec == [kind : ChildKinds \union {"none"}, done : BOOLEAN, killed : BOOLEAN,
             heard : Seq(ChildEvents), over : BOOLEAN, called : Seq(Endings)]

(* A child of which these were heard exits at x and closes right after; an error  *)
(* comes right before, output before that, and after it one part of a killed child. *)
EndsAt(heard, x, killed) ==
  /\ x \in 1..Len(heard) /\ x + 1 \in 1..Len(heard)
  /\ heard[x] = "exit" /\ heard[x + 1] = "close"
  /\ \A i \in 1..Len(heard) : i < x => heard[i] \in Outputs \/ (heard[i] = "error" /\ i = x - 1)
  /\ \A i \in 1..Len(heard) : i > x + 1 => i = x + 2 /\ heard[i] = "stderr" /\ killed

OnlyOutputs(heard) == \A i \in 1..Len(heard) : heard[i] \in Outputs

(* What became of a child until now.                                           *)
Story(k) ==
  /\ ~k.done => OnlyOutputs(k.heard) /\ ~k.killed /\ ~k.over /\ k.called = <<>>
  /\ k.done => \E x \in Nat : EndsAt(k.heard, x, k.killed)
  /\ k.kind = "exec" =>
       /\ k.done => Len(k.called) = 1
       /\ k.called = <<"ok">> => ~k.killed /\ ~k.over
       /\ k.over => k.called = <<"too long">>

(* An event more.                                                              *)
LEMMA EmitsFacts ==
  ASSUME NEW k \in ChildRec, NEW event \in ChildEvents, NEW q, q = Emits(k, event)
  PROVE  /\ q \in ChildRec /\ q.heard = Append(k.heard, event)
         /\ q.kind = k.kind /\ q.done = k.done /\ q.killed = k.killed
         /\ q.over = k.over /\ q.called = k.called
<1>1. PICK h : h = Append(k.heard, event)
  OBVIOUS
<1>2. h \in Seq(ChildEvents)
  BY <1>1 DEF ChildRec
<1>3. q = [k EXCEPT !.heard = h]
  BY <1>1 DEF Emits
<1> QED
  BY <1>1, <1>2, <1>3 DEF ChildRec

(* The callback is called at most once, and only that of exec.                    *)
LEMMA CallBackFacts ==
  ASSUME NEW k \in ChildRec, NEW outcome \in Endings, NEW q, q = CallBack(k, outcome)
  PROVE  /\ q \in ChildRec /\ q.heard = k.heard
         /\ q.kind = k.kind /\ q.done = k.done /\ q.killed = k.killed /\ q.over = k.over
         /\ k.kind = "exec" /\ k.called = <<>> => q.called = <<outcome>>
         /\ k.called # <<>> => q.called = k.called
<1>1. CASE k.kind = "spawn" \/ k.called # <<>>
  BY <1>1 DEF CallBack
<1>2. CASE ~(k.kind = "spawn" \/ k.called # <<>>)
  <2>1. PICK o : o = <<outcome>>
    OBVIOUS
  <2>2. o \in Seq(Endings)
    BY <2>1
  <2>3. q = [k EXCEPT !.called = o]
    BY <1>2, <2>1 DEF CallBack
  <2> QED
    BY <1>2, <2>1, <2>2, <2>3 DEF ChildRec
<1> QED
  BY <1>1, <1>2

(* What heard looks like when a child closes.                                    *)
LEMMA EndsHere ==
  ASSUME NEW h \in Seq(ChildEvents),
         \A i \in 1..Len(h) : h[i] \in Outputs \/ (h[i] = "error" /\ i = Len(h)),
         NEW q, q = Append(Append(h, "exit"), "close")
  PROVE  /\ \A killed : EndsAt(q, Len(h) + 1, killed)
         /\ Len(h) + 1 \in Nat /\ q \in Seq(ChildEvents) /\ Len(q) = Len(h) + 2 /\ q[Len(q)] = "close"
<1>1. PICK p : p = Append(h, "exit")
  OBVIOUS
<1>2. /\ p \in Seq(ChildEvents) /\ Len(p) = Len(h) + 1 /\ Len(h) \in Nat /\ p[Len(h) + 1] = "exit"
      /\ \A i \in 1..Len(h) : p[i] = h[i]
  BY <1>1 DEF ChildEvents
<1>3. /\ q \in Seq(ChildEvents) /\ Len(q) = Len(h) + 2 /\ q[Len(h) + 2] = "close"
      /\ \A i \in 1..Len(p) : q[i] = p[i]
  BY <1>1, <1>2 DEF ChildEvents
<1>4. q[Len(h) + 1] = "exit" /\ \A i \in 1..Len(h) : q[i] = h[i]
  BY <1>2, <1>3
<1>5. /\ Len(h) + 1 \in 1..Len(q) /\ (Len(h) + 1) + 1 \in 1..Len(q) /\ (Len(h) + 1) + 1 = Len(h) + 2
  BY <1>2, <1>3
<1>6. \A i \in 1..Len(q) : i < Len(h) + 1 => q[i] \in Outputs \/ (q[i] = "error" /\ i = (Len(h) + 1) - 1)
  <2> SUFFICES ASSUME NEW i \in 1..Len(q), i < Len(h) + 1
               PROVE  q[i] \in Outputs \/ (q[i] = "error" /\ i = (Len(h) + 1) - 1)
    OBVIOUS
  <2>1. i \in 1..Len(h) /\ (Len(h) + 1) - 1 = Len(h)
    BY <1>2, <1>3
  <2> QED
    BY <1>4, <2>1
<1>7. \A i \in 1..Len(q) : ~(i > (Len(h) + 1) + 1)
  BY <1>2, <1>3
<1>8. \A killed : EndsAt(q, Len(h) + 1, killed)
  BY <1>3, <1>4, <1>5, <1>6, <1>7 DEF EndsAt
<1> QED
  BY <1>2, <1>3, <1>8

(* The errors of the chunk that made a listener kill the child come after.          *)
LEMMA EndsBefore ==
  ASSUME NEW h \in Seq(ChildEvents), NEW x \in Nat, EndsAt(h, x, TRUE), h[Len(h)] = "close",
         NEW q, q = Append(h, "stderr")
  PROVE  EndsAt(q, x, TRUE)
<1>1. /\ Len(h) \in Nat /\ Len(q) = Len(h) + 1 /\ q[Len(h) + 1] = "stderr"
      /\ \A i \in 1..Len(h) : q[i] = h[i]
  OBVIOUS
<1>2. Len(h) = x + 1
  <2>1. Len(h) \in 1..Len(h)
    BY <1>1 DEF EndsAt
  <2>2. ~(Len(h) < x) /\ Len(h) # x /\ ~(Len(h) > x + 1)
    BY <2>1 DEF EndsAt, Outputs
  <2> QED
    BY <1>1, <2>2
<1>3. \A i \in 1..Len(q) : i \in 1..Len(h) \/ i = x + 2
  BY <1>1, <1>2
<1>4. x \in 1..Len(q) /\ x + 1 \in 1..Len(q) /\ q[x] = h[x] /\ q[x + 1] = h[x + 1]
  BY <1>1 DEF EndsAt
<1>5. \A i \in 1..Len(q) : i < x => i \in 1..Len(h)
  BY <1>1, <1>2
<1>6. \A i \in 1..Len(q) : i > x + 1 => i = x + 2
  BY <1>1, <1>2
<1>7. q[x + 2] = "stderr"
  BY <1>1, <1>2
<1>8. \A i \in 1..Len(q) : i < x => q[i] \in Outputs \/ (q[i] = "error" /\ i = x - 1)
  BY <1>1, <1>5 DEF EndsAt
<1> QED
  BY <1>4, <1>6, <1>7, <1>8 DEF EndsAt

(* A child that closes is told so once, and its story is told to the end: with its  *)
(* callback called for it, or for what the caller says.                           *)
LEMMA ClosesWell ==
  ASSUME NEW k \in ChildRec, ~k.done,
         \A i \in 1..Len(k.heard) :
           k.heard[i] \in Outputs \/ (k.heard[i] = "error" /\ i = Len(k.heard)),
         NEW code \in {"ok", "failed", "killed"}, NEW q, q = EmitCloseOnce(k, code)
  PROVE  /\ q \in ChildRec /\ q.done /\ q.kind = k.kind /\ q.killed = k.killed /\ q.over = k.over
         /\ \E x \in Nat : EndsAt(q.heard, x, q.killed)
         /\ q.heard \in Seq(ChildEvents) /\ q.heard[Len(q.heard)] = "close"
         /\ k.called # <<>> \/ k.over => q.called = k.called
         /\ k.kind = "exec" /\ k.called = <<>> /\ ~k.over =>
              q.called \in {<<"ok">>, <<"failed">>, <<"killed">>} /\ (q.called = <<"ok">> => ~k.killed)
<1>1. PICK e, f : e = Emits(k, "exit") /\ f = Emits(e, "close")
  OBVIOUS
<1>2. /\ e \in ChildRec /\ e.heard = Append(k.heard, "exit")
      /\ e.kind = k.kind /\ e.killed = k.killed /\ e.over = k.over /\ e.called = k.called
  BY <1>1, EmitsFacts DEF ChildEvents
<1>3. /\ f \in ChildRec /\ f.heard = Append(e.heard, "close")
      /\ f.kind = k.kind /\ f.killed = k.killed /\ f.over = k.over /\ f.called = k.called
  BY <1>1, <1>2, EmitsFacts DEF ChildEvents
<1>4. PICK d : d = [f EXCEPT !.done = TRUE]
  OBVIOUS
<1>5. /\ d \in ChildRec /\ d.heard = Append(Append(k.heard, "exit"), "close") /\ d.done = TRUE
      /\ d.kind = k.kind /\ d.killed = k.killed /\ d.over = k.over /\ d.called = k.called
  BY <1>2, <1>3, <1>4 DEF ChildRec
<1>6. q = OnClose(d, code)
  BY <1>1, <1>4 DEF EmitCloseOnce
<1>7. k.heard \in Seq(ChildEvents)
  BY DEF ChildRec
<1>8. /\ \A killed : EndsAt(d.heard, Len(k.heard) + 1, killed)
      /\ Len(k.heard) + 1 \in Nat /\ d.heard \in Seq(ChildEvents) /\ d.heard[Len(d.heard)] = "close"
  BY <1>5, <1>7, EndsHere
<1>9. CASE k.over
  <2>1. q = d
    BY <1>5, <1>6, <1>9 DEF OnClose
  <2> QED
    BY <1>5, <1>8, <1>9, <2>1
<1>10. CASE ~k.over
  <2>1. PICK o \in {"ok", "failed", "killed"} : q = CallBack(d, o) /\ (o = "ok" => ~k.killed)
    BY <1>5, <1>6, <1>10 DEF OnClose
  <2>2. o \in Endings
    BY DEF Endings
  <2>3. /\ q \in ChildRec /\ q.heard = d.heard
        /\ q.kind = d.kind /\ q.done = d.done /\ q.killed = d.killed /\ q.over = d.over
        /\ d.kind = "exec" /\ d.called = <<>> => q.called = <<o>>
        /\ d.called # <<>> => q.called = d.called
    BY <1>5, <2>1, <2>2, CallBackFacts
  <2>4. \E x \in Nat : EndsAt(q.heard, x, q.killed)
    BY <1>8, <2>3
  <2>5. k.kind = "exec" /\ k.called = <<>> =>
          q.called \in {<<"ok">>, <<"failed">>, <<"killed">>} /\ (q.called = <<"ok">> => ~k.killed)
    <3> SUFFICES ASSUME k.kind = "exec", k.called = <<>>
                 PROVE  q.called \in {<<"ok">>, <<"failed">>, <<"killed">>} /\ (q.called = <<"ok">> => ~k.killed)
      OBVIOUS
    <3>1. q.called = <<o>>
      BY <1>5, <2>3
    <3> QED
      BY <2>1, <3>1
  <2> QED
    BY <1>5, <1>8, <1>10, <2>3, <2>4, <2>5
<1> QED
  BY <1>9, <1>10
-----------------------------------------------------------------------------
(* ChildProcess: what a tick says to a child                                 *)

ToldNothing(c) ==
  /\ result'[c] = result[c] /\ got'[c] = got[c]
  /\ c \in rt'.listening <=> c \in rt.listening

(* It hears no end, or it is listened for no longer and heard no chunk.            *)
Told(c) ==
  \/ /\ result'[c] = result[c] /\ (c \in rt'.listening <=> c \in rt.listening)
     /\ c \notin rt.listening => got'[c] = got[c]
  \/ /\ c \in rt.listening /\ c \notin rt'.listening
     /\ result'[c] \in {"resolved", "rejected"} /\ ~GotChunk(c)

(* What the program is told are items.                                         *)
LEMMA TellsItems ==
  ASSUME NEW r, NEW c, NEW o \in AllOutcomes
  PROVE  Tells(r, c, o) \in Seq(Items)
<1>1. o.type = "chunk" => o.seq \in Int
  BY ChunkFacts, NodeRuntimeConstants
<1>2. \A item \in Items : Heard(r, c, item) \in Seq(Items) /\ <<item>> \in Seq(Items)
  BY DEF Heard
<1>3. <<>> \in Seq(Items)
  OBVIOUS
<1>4. CASE Deaf(r, c)
  BY <1>3, <1>4 DEF Tells
<1>5. CASE ~Deaf(r, c) /\ Breaks(r, c, o)
  BY <1>2, <1>3, <1>5, ItemFacts DEF Tells
<1>6. CASE ~Deaf(r, c) /\ ~Breaks(r, c, o) /\ o.type = "ok"
  BY <1>3, <1>6 DEF Tells
<1>7. CASE ~Deaf(r, c) /\ ~Breaks(r, c, o) /\ o.type # "ok"
  <2>1. o.type = "chunk"
    BY <1>7, ChunkFacts DEF Breaks
  <2>2. PICK item : item = IF o.null THEN End ELSE Item(o.seq)
    OBVIOUS
  <2>3. item \in Items
    BY <1>1, <2>1, <2>2, ItemFacts
  <2>4. Tells(r, c, o) = CASE c \in Streams -> Heard(r, c, item)
                           [] c \in Chunked -> <<item>>
                           [] OTHER -> <<>>
    BY <1>7, <2>2 DEF Tells
  <2> QED
    BY <1>2, <1>3, <2>3, <2>4, NodeRuntimeConstants
<1> QED
  BY <1>4, <1>5, <1>6, <1>7

(* A call that settles is listened for no longer, and was told its end if anything. *)
LEMMA ChunkedTold ==
  ASSUME NEW c \in Calls, c \in Chunked, NEW o \in AllOutcomes, Fits(c, o), NEW r \in Runtimes, NEW q,
         Handed(r, q, c, o), q = Deliver(r, c, o),
         NEW v, v = Settles(r, c, o), NEW told, told = Tells(r, c, o)
  PROVE  \/ v = result[c] /\ q.listening = r.listening /\ (c \notin r.listening => told = <<>>)
         \/ /\ c \in r.listening /\ q.listening = r.listening \ {c}
            /\ v \in {"resolved", "rejected"} /\ told \in {<<>>, <<End>>}
<1>1. c \notin Streams
  BY NodeRuntimeConstants
<1>2. CASE Deaf(r, c)
  BY <1>2 DEF Deliver, Settles, Tells, Deaf
<1>3. CASE ~Deaf(r, c) /\ Breaks(r, c, o)
  <2>1. o.type # "ok"
    BY <1>3 DEF Breaks
  <2>2. v = "rejected" /\ told = <<>>
    BY <1>1, <1>3, <2>1 DEF Settles, Tells
  <2>3. q = Released(r, c)
    BY <1>1, <1>3, <2>1 DEF Deliver
  <2>4. c \notin q.listening
    BY <2>3 DEF Released, Runtimes
  <2> QED
    BY <1>3, <2>2, <2>4 DEF Deaf, Handed
<1>4. CASE ~Deaf(r, c) /\ ~Breaks(r, c, o) /\ o.type = "ok"
  <2>1. v = "resolved" /\ told = <<>>
    BY <1>1, <1>4 DEF Settles, Tells
  <2>2. ~Partial(o)
    BY <1>4 DEF Partial
  <2> QED
    BY <1>4, <2>1, <2>2 DEF Deaf, Handed
<1>5. CASE ~Deaf(r, c) /\ ~Breaks(r, c, o) /\ o.type # "ok"
  <2>1. o.type = "chunk" /\ o.final \in BOOLEAN
    BY <1>5, ChunkFacts DEF Breaks
  <2>2. CASE o.final
    <3>1. ~Partial(o) /\ o.null = TRUE
      BY <2>1, <2>2 DEF Partial, Fits
    <3>2. told = <<End>> /\ v = "resolved"
      BY <1>1, <1>5, <2>2, <3>1 DEF Tells, Settles
    <3> QED
      BY <1>5, <3>1, <3>2 DEF Deaf, Handed
  <2>3. CASE ~o.final
    <3>1. v = result[c]
      BY <1>1, <1>5, <2>3 DEF Settles
    <3>2. q = [r EXCEPT !.lastSeq[c] = o.seq]
      BY <1>1, <1>5, <2>3 DEF Deliver
    <3> QED
      BY <1>5, <3>1, <3>2 DEF Deaf, Runtimes
  <2> QED
    BY <2>1, <2>2, <2>3
<1> QED
  BY <1>2, <1>3, <1>4, <1>5

(* A tick tells one call at most.                                              *)
LEMMA TickTold ==
  ASSUME NodeInv, got \in [Calls -> Seq(Items)], Heeded
  PROVE  /\ got' \in [Calls -> Seq(Items)]
         /\ \A c \in Children : Told(c)
         /\ \A c \in Calls : ToldNothing(c) \/ \A d \in Calls \ {c} : ToldNothing(d)
<1>1. CASE result' = result /\ got' = got /\ rt'.listening = rt.listening
  BY <1>1 DEF Told, ToldNothing
<1>2. CASE \E c \in Calls : \E o \in AllOutcomes : \E before \in Runtimes :
             /\ Fits(c, o) /\ before.listening = rt.listening
             /\ Delivered(before, c, o) /\ Handed(before, rt', c, o)
  <2>1. PICK c \in Calls, o \in AllOutcomes, before \in Runtimes :
          /\ Fits(c, o) /\ before.listening = rt.listening
          /\ Delivered(before, c, o) /\ Handed(before, rt', c, o)
    BY <1>2
  <2>2. PICK v, told, g, w, li : /\ v = Settles(before, c, o) /\ told = Tells(before, c, o)
                                 /\ g = got' /\ w = result' /\ li = rt'.listening
    OBVIOUS
  <2>3. told \in Seq(Items)
    BY <2>2, TellsItems
  <2>4. w = [result EXCEPT ![c] = v] /\ g = [got EXCEPT ![c] = @ \o told] /\ rt' = Deliver(before, c, o)
    BY <2>1, <2>2 DEF Delivered
  <2>5. result \in [Calls -> {"open", "resolved", "rejected"}]
    BY DEF NodeInv
  <2>6. w[c] = v /\ g[c] = got[c] \o told
    BY <2>4, <2>5
  <2>7. g \in [Calls -> Seq(Items)] /\ \A d \in Calls \ {c} : w[d] = result[d] /\ g[d] = got[d]
    BY <2>3, <2>4, <2>5
  <2>8. li = rt.listening \/ li = rt.listening \ {c}
    BY <2>1, <2>2 DEF Handed
  <2>9. \A d \in Calls \ {c} : ToldNothing(d)
    BY <2>2, <2>7, <2>8 DEF ToldNothing
  <2>10. c \in Children => Told(c)
    <3> SUFFICES ASSUME c \in Children PROVE Told(c)
      OBVIOUS
    <3>1. c \in Chunked
      BY ChildrenAreChunked
    <3>2. \/ v = result[c] /\ li = rt.listening /\ (c \notin rt.listening => told = <<>>)
          \/ /\ c \in rt.listening /\ li = rt.listening \ {c}
             /\ v \in {"resolved", "rejected"} /\ told \in {<<>>, <<End>>}
      BY <2>1, <2>2, <2>4, <3>1, ChunkedTold
    <3>3. got[c] \in Seq(Items)
      OBVIOUS
    <3>4. told = <<>> => g[c] = got[c]
      BY <2>6, <3>3
    <3>5. told = <<End>> => g[c][Len(g[c])].item # "chunk"
      <4>1. End \in Items /\ End.item # "chunk"
        BY ItemFacts DEF End
      <4>2. PICK s, t : s = got[c] /\ t = s \o <<End>>
        OBVIOUS
      <4>3. t[Len(t)] = End
        BY <3>3, <4>1, <4>2
      <4> QED
        BY <2>6, <4>1, <4>2, <4>3
    <3> QED
      BY <2>2, <2>6, <3>2, <3>4, <3>5 DEF Told, GotChunk
  <2>11. \A d \in Children : Told(d)
    <3> SUFFICES ASSUME NEW d \in Children, d # c PROVE Told(d)
      BY <2>10
    <3>1. d \in Calls \ {c}
      BY ChildrenAreChunked
    <3> QED
      BY <2>9, <3>1 DEF Told, ToldNothing
  <2> QED
    BY <2>2, <2>7, <2>9, <2>11
<1> QED
  BY <1>1, <1>2 DEF Heeded

-----------------------------------------------------------------------------
(* ChildProcess: the inductive invariant                                     *)

(* The tables of children, and what became of each.                            *)
ChildTables ==
  /\ child \in [Calls -> ChildRec]
  /\ children \subseteq Children
  /\ RegistryIsOfTheLiving
  /\ \A c \in Calls : Story(child[c])
  /\ \A c \in Calls : host[c].state = "new" => child[c] = NoChild

(* JavaScript listens for the call of a child that is not closed, and the promise  *)
(* of a call it listens for has not settled.                                    *)
Attended ==
  /\ children \subseteq rt.listening
  /\ \A c \in Children : c \in rt.listening \/ host[c].state = "new" => result[c] = "open"
  /\ got \in [Calls -> Seq(Items)]

(* Of the chunk that is emitted only the errors are left when its child is done.    *)
Leftover(k, parts) ==
  k.done => parts = <<"stderr">> /\ k.killed /\ k.heard[Len(k.heard)] = "close"

Voiced ==
  \/ emitting = Silence
  \/ /\ emitting \in [call : Children, parts : {<<"stdout">>, <<"stderr">>, <<"stdout", "stderr">>}]
     /\ Leftover(child[emitting.call], emitting.parts)

ChildInv == NodeInv /\ ChildTables /\ Attended /\ Voiced

(* A child that closes, killed or not, has its story told to the end.              *)
LEMMA StoryCloses ==
  ASSUME NEW k \in ChildRec, ~k.done, ~k.over,
         \A i \in 1..Len(k.heard) :
           k.heard[i] \in Outputs \/ (k.heard[i] = "error" /\ i = Len(k.heard)),
         k.kind = "exec" => k.called \in {<<>>, <<"failed">>},
         NEW code \in {"ok", "failed", "killed"}, NEW q, q = EmitCloseOnce(k, code)
  PROVE  /\ q \in ChildRec /\ Story(q) /\ q.done /\ q.kind = k.kind /\ q.killed = k.killed
         /\ q.heard[Len(q.heard)] = "close"
<1>1. /\ q \in ChildRec /\ q.done /\ q.kind = k.kind /\ q.killed = k.killed /\ q.over = k.over
      /\ \E x \in Nat : EndsAt(q.heard, x, q.killed)
      /\ q.heard[Len(q.heard)] = "close"
      /\ k.called # <<>> \/ k.over => q.called = k.called
      /\ k.kind = "exec" /\ k.called = <<>> /\ ~k.over =>
           q.called \in {<<"ok">>, <<"failed">>, <<"killed">>} /\ (q.called = <<"ok">> => ~k.killed)
  BY ClosesWell
<1>2. k.kind = "exec" =>
        q.called \in {<<"ok">>, <<"failed">>, <<"killed">>} /\ (q.called = <<"ok">> => ~k.killed)
  BY <1>1
<1>3. k.kind = "exec" => Len(q.called) = 1
  BY <1>2
<1> QED
  BY <1>1, <1>2, <1>3 DEF Story

(* Outputs are added to outputs.                                               *)
LEMMA OutputHeard ==
  ASSUME NEW h \in Seq(ChildEvents), OnlyOutputs(h), NEW e, NEW q, q = Append(h, e)
  PROVE  /\ e \in Outputs => OnlyOutputs(q)
         /\ \A i \in 1..Len(q) : q[i] \in Outputs \/ (q[i] = e /\ i = Len(q))
<1>1. /\ Len(h) \in Nat /\ Len(q) = Len(h) + 1 /\ q[Len(h) + 1] = e
      /\ \A i \in 1..Len(h) : q[i] = h[i]
  OBVIOUS
<1>2. \A i \in 1..Len(q) : i \in 1..Len(h) \/ i = Len(q)
  BY <1>1
<1> QED
  BY <1>1, <1>2 DEF OnlyOutputs

(* A child hears a part of a chunk,                                            *)
LEMMA PartHeard ==
  ASSUME NEW k \in ChildRec, Story(k), NEW parts, Leftover(k, parts),
         NEW e \in Outputs, k.done => e = "stderr", NEW q, q = Emits(k, e)
  PROVE  q \in ChildRec /\ Story(q) /\ q.kind = k.kind /\ q.done = k.done
<1>1. e \in ChildEvents
  BY DEF Outputs, ChildEvents
<1>2. /\ q \in ChildRec /\ q.heard = Append(k.heard, e)
      /\ q.kind = k.kind /\ q.done = k.done /\ q.killed = k.killed
      /\ q.over = k.over /\ q.called = k.called
  BY <1>1, EmitsFacts
<1>3. k.heard \in Seq(ChildEvents) /\ k.killed \in BOOLEAN /\ k.done \in BOOLEAN
  BY DEF ChildRec
<1>4. CASE ~k.done
  <2>1. OnlyOutputs(q.heard)
    BY <1>2, <1>3, <1>4, OutputHeard DEF Story
  <2> QED
    BY <1>2, <1>4, <2>1 DEF Story
<1>5. CASE k.done
  <2>1. k.killed = TRUE /\ k.heard[Len(k.heard)] = "close"
    BY <1>3, <1>5 DEF Leftover
  <2>2. PICK x \in Nat : EndsAt(k.heard, x, TRUE)
    BY <1>5, <2>1 DEF Story
  <2>3. EndsAt(q.heard, x, TRUE)
    BY <1>2, <1>3, <1>5, <2>1, <2>2, EndsBefore
  <2>4. \E y \in Nat : EndsAt(q.heard, y, q.killed)
    BY <1>2, <2>1, <2>3
  <2> QED
    BY <1>2, <1>5, <2>4 DEF Story
<1> QED
  BY <1>3, <1>4, <1>5

(* is killed by who hears it, or by exec that has too much of it,                  *)
LEMMA KilledStory ==
  ASSUME NEW k \in ChildRec, ~k.done, ~k.over, k.called = <<>>, OnlyOutputs(k.heard),
         NEW q, q = EmitCloseOnce([k EXCEPT !.killed = TRUE], "killed")
  PROVE  /\ q \in ChildRec /\ Story(q) /\ q.done /\ q.kind = k.kind /\ q.killed
         /\ q.heard[Len(q.heard)] = "close"
<1>1. PICK m : m = [k EXCEPT !.killed = TRUE]
  OBVIOUS
<1>2. /\ m \in ChildRec /\ m.killed = TRUE /\ m.kind = k.kind /\ m.done = k.done
      /\ m.over = k.over /\ m.heard = k.heard /\ m.called = k.called
  BY <1>1 DEF ChildRec
<1>3. \A i \in 1..Len(m.heard) : m.heard[i] \in Outputs \/ (m.heard[i] = "error" /\ i = Len(m.heard))
  BY <1>2 DEF OnlyOutputs
<1>4. q = EmitCloseOnce(m, "killed")
  BY <1>1
<1>5. ~m.done /\ ~m.over /\ (m.kind = "exec" => m.called \in {<<>>, <<"failed">>})
  BY <1>2
<1> QED
  BY <1>2, <1>3, <1>4, <1>5, StoryCloses

LEMMA OverStory ==
  ASSUME NEW k \in ChildRec, ~k.done, k.kind = "exec", k.called = <<>>, OnlyOutputs(k.heard),
         NEW q, q = CallBack(EmitCloseOnce([[k EXCEPT !.over = TRUE] EXCEPT !.killed = TRUE], "killed"),
                             "too long")
  PROVE  /\ q \in ChildRec /\ Story(q) /\ q.done /\ q.kind = k.kind /\ q.killed
         /\ q.heard[Len(q.heard)] = "close"
<1>1. PICK m, p : m = [[k EXCEPT !.over = TRUE] EXCEPT !.killed = TRUE] /\ p = EmitCloseOnce(m, "killed")
  OBVIOUS
<1>2. /\ m \in ChildRec /\ m.killed = TRUE /\ m.kind = k.kind /\ m.done = k.done
      /\ m.over = TRUE /\ m.heard = k.heard /\ m.called = k.called
  BY <1>1 DEF ChildRec
<1>3. \A i \in 1..Len(m.heard) : m.heard[i] \in Outputs \/ (m.heard[i] = "error" /\ i = Len(m.heard))
  BY <1>2 DEF OnlyOutputs
<1>4. /\ p \in ChildRec /\ p.done /\ p.kind = m.kind /\ p.killed = m.killed /\ p.over = m.over
      /\ \E x \in Nat : EndsAt(p.heard, x, p.killed)
      /\ p.heard[Len(p.heard)] = "close" /\ p.called = m.called
  <2>1. m \in ChildRec /\ ~m.done /\ m.over = TRUE
    BY <1>2
  <2>2. "killed" \in {"ok", "failed", "killed"} /\ p = EmitCloseOnce(m, "killed")
    BY <1>1
  <2> QED
    BY ONLY <1>3, <2>1, <2>2, ClosesWell
<1>5. /\ q \in ChildRec /\ q.heard = p.heard /\ q.called = <<"too long">>
      /\ q.kind = p.kind /\ q.done = p.done /\ q.killed = p.killed /\ q.over = p.over
  <2>1. p \in ChildRec /\ p.kind = "exec" /\ p.called = <<>>
    BY <1>2, <1>4
  <2>2. PICK o : o = "too long"
    OBVIOUS
  <2>3. o \in Endings /\ q = CallBack(p, o)
    BY <1>1, <2>2 DEF Endings
  <2>4. /\ q \in ChildRec /\ q.heard = p.heard
        /\ q.kind = p.kind /\ q.done = p.done /\ q.killed = p.killed /\ q.over = p.over
        /\ p.kind = "exec" /\ p.called = <<>> => q.called = <<o>>
    BY ONLY <2>1, <2>3, CallBackFacts
  <2> QED
    BY <2>1, <2>2, <2>4
<1>6. Len(q.called) = 1 /\ q.called # <<"ok">>
  <2>1. PICK long : long = "too long"
    OBVIOUS
  <2>2. q.called = <<long>> /\ long # "ok"
    BY <1>5, <2>1
  <2> QED
    BY ONLY <2>2
<1>7. \E x \in Nat : EndsAt(q.heard, x, q.killed)
  BY <1>4, <1>5
<1> QED
  BY <1>2, <1>4, <1>5, <1>6, <1>7 DEF Story

(* or closes with an error.                                                    *)
LEMMA FailedStory ==
  ASSUME NEW k \in ChildRec, ~k.done, ~k.over, k.called = <<>>, OnlyOutputs(k.heard),
         NEW q, q = EmitCloseOnce(CallBack(Emits(k, "error"), "failed"), "failed")
  PROVE  q \in ChildRec /\ Story(q) /\ q.done /\ q.kind = k.kind
<1>1. PICK e, m : e = Emits(k, "error") /\ m = CallBack(e, "failed")
  OBVIOUS
<1>2. /\ e \in ChildRec /\ e.heard = Append(k.heard, "error") /\ e.kind = k.kind
      /\ e.done = k.done /\ e.over = k.over /\ e.called = k.called
  BY <1>1, EmitsFacts DEF ChildEvents
<1>3. /\ m \in ChildRec /\ m.heard = e.heard /\ m.kind = e.kind /\ m.done = e.done /\ m.over = e.over
      /\ m.kind = "exec" => m.called = <<"failed">>
  <2>1. e \in ChildRec /\ e.called = <<>>
    BY <1>2
  <2>2. "failed" \in Endings /\ m = CallBack(e, "failed")
    BY <1>1 DEF Endings
  <2> QED
    BY ONLY <2>1, <2>2, CallBackFacts
<1>4. \A i \in 1..Len(m.heard) : m.heard[i] \in Outputs \/ (m.heard[i] = "error" /\ i = Len(m.heard))
  <2>1. PICK h, g : h = k.heard /\ g = m.heard
    OBVIOUS
  <2>2. h \in Seq(ChildEvents) /\ OnlyOutputs(h) /\ g = Append(h, "error")
    BY <1>2, <1>3, <2>1 DEF ChildRec
  <2>3. \A i \in 1..Len(g) : g[i] \in Outputs \/ (g[i] = "error" /\ i = Len(g))
    BY ONLY <2>2, OutputHeard
  <2> QED
    BY <2>1, <2>3
<1>5. /\ ~m.done /\ ~m.over /\ (m.kind = "exec" => m.called \in {<<>>, <<"failed">>})
      /\ q = EmitCloseOnce(m, "failed") /\ m \in ChildRec /\ m.kind = k.kind
      /\ "failed" \in {"ok", "failed", "killed"}
  BY <1>1, <1>2, <1>3
<1> QED
  BY ONLY <1>4, <1>5, StoryCloses

-----------------------------------------------------------------------------
(* ChildProcess: its actions                                                 *)

(* What a step makes of one child.                                             *)
Becomes(c, q) ==
  /\ q \in ChildRec /\ Story(q) /\ q.kind = child[c].kind /\ (child[c].done => q.done)
  /\ child' = [child EXCEPT ![c] = q]
  /\ children' = IF q.done THEN children \ {c} ELSE children

LEMMA ChildMoved ==
  ASSUME ChildTables, NEW c \in Children, NEW q, Becomes(c, q), host' = host, host[c].state # "new"
  PROVE  /\ ChildTables' /\ children' \subseteq children /\ child'[c] = q
         /\ \A d \in children' : d = c => ~q.done
<1>1. /\ child \in [Calls -> ChildRec] /\ children \subseteq Children
      /\ \A d \in Children : d \in children <=> child[d].kind # "none" /\ ~child[d].done
      /\ \A d \in Calls : Story(child[d])
      /\ \A d \in Calls : host[d].state = "new" => child[d] = NoChild
  BY DEF ChildTables, RegistryIsOfTheLiving
<1>2. c \in Calls /\ Children \subseteq Calls
  BY ChildrenAreChunked
<1>3. PICK k, s : k = child' /\ s = children'
  OBVIOUS
<1>4. /\ q \in ChildRec /\ Story(q) /\ q.kind = child[c].kind /\ (child[c].done => q.done)
      /\ k = [child EXCEPT ![c] = q] /\ s = IF q.done THEN children \ {c} ELSE children
  BY <1>3 DEF Becomes
<1>5. k \in [Calls -> ChildRec] /\ k[c] = q /\ \A d \in Calls \ {c} : k[d] = child[d]
  BY <1>1, <1>2, <1>4
<1>6. s \subseteq children /\ s \subseteq Children /\ \A d \in s : d = c => ~q.done
  BY <1>1, <1>4
<1>7. \A d \in Children : d \in s <=> k[d].kind # "none" /\ ~k[d].done
  <2> SUFFICES ASSUME NEW d \in Children PROVE d \in s <=> k[d].kind # "none" /\ ~k[d].done
    OBVIOUS
  <2>1. CASE d = c
    BY <1>1, <1>4, <1>5, <2>1
  <2>2. CASE d # c
    BY <1>1, <1>2, <1>4, <1>5, <2>2
  <2> QED
    BY <2>1, <2>2
<1>8. \A d \in Calls : Story(k[d])
  BY <1>1, <1>4, <1>5
<1>9. \A d \in Calls : host[d].state = "new" => k[d] = NoChild
  BY <1>1, <1>5
<1>10. ChildTables'
  BY <1>3, <1>5, <1>6, <1>7, <1>8, <1>9 DEF ChildTables, RegistryIsOfTheLiving
<1> QED
  BY <1>3, <1>5, <1>6, <1>10

(* Nobody is told anything.                                                    *)
Quiet ==
  /\ rt'.listening = rt.listening /\ result' = result /\ got' = got
  /\ \A c \in Calls : host'[c].state = "new" => host[c].state = "new"

LEMMA QuietAttends ==
  ASSUME Attended, Quiet, children' \subseteq children
  PROVE  Attended'
<1>1. \A c \in Children : c \in Calls
  BY ChildrenAreChunked
<1> QED
  BY <1>1 DEF Attended, Quiet

(* A cancelled call, and a step of its own, are quiet.                            *)
LEMMA CancelIsQuiet ==
  ASSUME NodeInv, NEW c \in Calls, Cancel(c)
  PROVE  Quiet /\ host' = host /\ host[c].state # "new"
<1>1. rt' = CancelHostcall(rt, c) /\ host' = host /\ result' = result /\ got' = got /\ Made(c)
  BY DEF Cancel
<1>2. Remains(rt, rt')
  BY <1>1, NowIsInt, CancelKeeps
<1> QED
  BY <1>1, <1>2 DEF Remains, Unheard, Quiet, Made

LEMMA StillIsQuiet == UNCHANGED vars => Quiet /\ host' = host
  BY DEF vars, Quiet

(* Parts of a chunk.                                                           *)
PartSeqs == {<<"stdout">>, <<"stderr">>, <<"stdout", "stderr">>}

LEMMA PartFacts ==
  ASSUME NEW e \in [call : Children, parts : PartSeqs]
  PROVE  /\ Head(e.parts) \in Outputs /\ (e.parts = <<"stderr">> => Head(e.parts) = "stderr")
         /\ Len(e.parts) > 1 => Tail(e.parts) = <<"stderr">>
         /\ e.parts = <<"stderr">> => ~(Len(e.parts) > 1)
         /\ e.parts # <<>>
<1>1. CASE e.parts = <<"stdout">>
  BY <1>1 DEF Outputs
<1>2. CASE e.parts = <<"stderr">>
  BY <1>2 DEF Outputs
<1>3. CASE e.parts = <<"stdout", "stderr">>
  BY <1>3 DEF Outputs
<1> QED
  BY <1>1, <1>2, <1>3 DEF PartSeqs

(* What is left of a chunk whose child has closed was its errors.                  *)
LEMMA VoiceGoesOn ==
  ASSUME Voiced, emitting # Silence, emitting' = AfterPart, NEW q, child'[emitting.call] = q,
         q.done => \/ emitting.parts = <<"stderr">>
                   \/ q.killed /\ q.heard[Len(q.heard)] = "close"
  PROVE  Voiced'
<1>1. PICK e : e = emitting
  OBVIOUS
<1>2. e \in [call : Children, parts : PartSeqs]
  BY <1>1 DEF Voiced, PartSeqs
<1>3. CASE ~(Len(e.parts) > 1)
  <2>1. emitting' = Silence
    BY <1>1, <1>3 DEF AfterPart
  <2> QED
    BY <2>1 DEF Voiced, Silence
<1>4. CASE Len(e.parts) > 1
  <2>1. emitting' = [e EXCEPT !.parts = Tail(e.parts)]
    BY <1>1, <1>4 DEF AfterPart, Rest
  <2>2. PICK t : t = Tail(e.parts)
    OBVIOUS
  <2>3. t = <<"stderr">> /\ e.parts # <<"stderr">> /\ t \in PartSeqs
    BY <1>2, <1>4, <2>2, PartFacts DEF PartSeqs
  <2>4. PICK f : f = emitting'
    OBVIOUS
  <2>5. f = [e EXCEPT !.parts = t]
    BY <2>1, <2>2, <2>4
  <2>6. f \in [call : Children, parts : PartSeqs] /\ f.call = e.call /\ f.parts = t
    BY <1>2, <2>3, <2>5
  <2>7. Leftover(q, f.parts)
    BY <1>1, <2>3, <2>6 DEF Leftover
  <2>8. f \in [call : Children, parts : {<<"stdout">>, <<"stderr">>, <<"stdout", "stderr">>}]
    BY <2>6 DEF PartSeqs
  <2>9. emitting' \in [call : Children, parts : {<<"stdout">>, <<"stderr">>, <<"stdout", "stderr">>}]
        /\ Leftover(child'[emitting'.call], emitting'.parts)
    BY <1>1, <2>4, <2>6, <2>7, <2>8
  <2> QED
    BY <2>9 DEF Voiced
<1> QED
  BY <1>3, <1>4

(* A part is heard by a listener or gathered, and the child may be killed for it.     *)
LEMMA EmitHolds ==
  ASSUME ChildInv, NodeInv', emitting # Silence, NEW c, c = emitting.call,
         EmitPart(c) \/ GatherPart(c)
  PROVE  ChildInv'
<1>1. PICK parts, e, k, h :
        /\ parts = emitting.parts /\ e = Head(parts) /\ k = child[c] /\ h = Emits(k, e)
  OBVIOUS
<1>2. /\ emitting \in [call : Children, parts : PartSeqs] /\ c \in Children /\ Leftover(k, parts)
      /\ parts = emitting.parts
  BY <1>1 DEF ChildInv, Voiced, PartSeqs
<1>3. c \in Calls
  BY <1>2, ChildrenAreChunked
<1>4. e \in Outputs /\ (parts = <<"stderr">> => e = "stderr")
  BY <1>1, <1>2, PartFacts
<1>5. k.done => e = "stderr" /\ parts = <<"stderr">>
  BY <1>2, <1>4 DEF Leftover
<1>6. k \in ChildRec /\ Story(k) /\ k.kind # "none"
  BY <1>1, <1>3 DEF ChildInv, ChildTables, EmitPart, GatherPart
<1>7. h \in ChildRec /\ Story(h) /\ h.kind = k.kind /\ h.done = k.done
  BY <1>1, <1>2, <1>4, <1>5, <1>6, PartHeard
<1>8. host[c].state # "new"
  <2>1. NoChild.kind = "none"
    BY DEF NoChild
  <2> QED
    BY <1>1, <1>3, <1>6, <2>1 DEF ChildInv, ChildTables
<1>9. ChildTables /\ Attended /\ Voiced /\ NodeInv /\ emitting' = AfterPart
  BY DEF ChildInv, EmitPart, GatherPart
<1>10. \E q : /\ Becomes(c, q) /\ (q.done => k.done \/ (q.killed /\ q.heard[Len(q.heard)] = "close"))
              /\ Quiet /\ host' = host
  <2>1. CASE child' = [child EXCEPT ![c] = h] /\ UNCHANGED <<vars, children>>
    <3>1. h.done => c \notin children
      BY <1>1, <1>2, <1>7, <1>9 DEF ChildTables, RegistryIsOfTheLiving
    <3>2. children' = IF h.done THEN children \ {c} ELSE children
      BY <2>1, <3>1
    <3>3. Becomes(c, h)
      BY <1>1, <1>7, <2>1, <3>2 DEF Becomes
    <3> QED
      BY <1>7, <2>1, <3>3, StillIsQuiet
  <2>2. CASE ~h.done /\ Cancel(c) /\ Closes(c, [h EXCEPT !.killed = TRUE], "killed")
    <3>1. PICK q : q = EmitCloseOnce([h EXCEPT !.killed = TRUE], "killed")
      OBVIOUS
    <3>2. ~h.over /\ h.called = <<>> /\ OnlyOutputs(h.heard)
      BY <1>7, <2>2 DEF Story
    <3>3. /\ q \in ChildRec /\ Story(q) /\ q.done /\ q.kind = h.kind /\ q.killed
          /\ q.heard[Len(q.heard)] = "close"
      BY ONLY <1>7, <2>2, <3>1, <3>2, KilledStory
    <3>4. Becomes(c, q)
      BY <1>1, <1>7, <2>2, <3>1, <3>3 DEF Becomes, Closes
    <3> QED
      BY <1>3, <1>9, <2>2, <3>3, <3>4, CancelIsQuiet
  <2>3. CASE /\ ~h.done /\ Cancel(c) /\ k.kind = "exec"
             /\ child' = [child EXCEPT ![c] =
                  CallBack(EmitCloseOnce([[h EXCEPT !.over = TRUE] EXCEPT !.killed = TRUE], "killed"),
                           "too long")]
             /\ children' = children \ {c}
    <3>1. PICK q : q = CallBack(EmitCloseOnce([[h EXCEPT !.over = TRUE] EXCEPT !.killed = TRUE],
                                              "killed"), "too long")
      OBVIOUS
    <3>2. h.called = <<>> /\ OnlyOutputs(h.heard) /\ h.kind = "exec"
      BY <1>7, <2>3 DEF Story
    <3>3. /\ q \in ChildRec /\ Story(q) /\ q.done /\ q.kind = h.kind /\ q.killed
          /\ q.heard[Len(q.heard)] = "close"
      BY ONLY <1>7, <2>3, <3>1, <3>2, OverStory
    <3>4. Becomes(c, q)
      BY <1>1, <1>7, <2>3, <3>1, <3>3 DEF Becomes
    <3> QED
      BY <1>3, <1>9, <2>3, <3>3, <3>4, CancelIsQuiet
  <2>4. CASE EmitPart(c)
    BY <1>1, <2>1, <2>2, <2>4 DEF EmitPart
  <2>5. CASE GatherPart(c)
    BY <1>1, <2>1, <2>3, <2>5 DEF GatherPart
  <2> QED
    BY <2>4, <2>5
<1>11. PICK q : /\ Becomes(c, q) /\ (q.done => k.done \/ (q.killed /\ q.heard[Len(q.heard)] = "close"))
                /\ Quiet /\ host' = host
  BY <1>10
<1>12. ChildTables' /\ children' \subseteq children /\ child'[c] = q
  BY <1>2, <1>8, <1>9, <1>11, ChildMoved
<1>13. Attended'
  BY <1>9, <1>11, <1>12, QuietAttends
<1>14. q.done => parts = <<"stderr">> \/ (q.killed /\ q.heard[Len(q.heard)] = "close")
  BY <1>5, <1>11
<1>15. Voiced'
  BY <1>1, <1>9, <1>12, <1>14, VoiceGoesOn
<1> QED
  BY <1>12, <1>13, <1>15 DEF ChildInv

(* The program kills a child                                                   *)
LEMMA KillHolds ==
  ASSUME ChildInv, NodeInv', emitting = Silence, NEW c \in Children, Kill(c)
  PROVE  ChildInv'
<1>1. PICK k, q : k = child[c] /\ q = EmitCloseOnce([k EXCEPT !.killed = TRUE], "killed")
  OBVIOUS
<1>2. /\ ~k.done /\ Cancel(c) /\ child' = [child EXCEPT ![c] = q] /\ children' = children \ {c}
      /\ emitting' = emitting
  BY <1>1 DEF Kill, KillChild, Closes
<1>3. c \in Calls
  BY ChildrenAreChunked
<1>4. ChildTables /\ Attended /\ NodeInv
  BY DEF ChildInv
<1>5. k \in ChildRec /\ Story(k)
  BY <1>1, <1>3, <1>4 DEF ChildTables
<1>6. ~k.over /\ k.called = <<>> /\ OnlyOutputs(k.heard)
  BY <1>2, <1>5 DEF Story
<1>7. q \in ChildRec /\ Story(q) /\ q.done /\ q.kind = k.kind
  BY ONLY <1>1, <1>2, <1>5, <1>6, KilledStory
<1>8. Becomes(c, q)
  BY <1>1, <1>2, <1>7 DEF Becomes
<1>9. Quiet /\ host' = host /\ host[c].state # "new"
  BY <1>2, <1>3, <1>4, CancelIsQuiet
<1>10. ChildTables' /\ children' \subseteq children
  BY <1>4, <1>8, <1>9, ChildMoved
<1>11. Attended'
  BY <1>4, <1>9, <1>10, QuietAttends
<1>12. Voiced'
  BY <1>2 DEF Voiced, Silence
<1> QED
  BY <1>10, <1>11, <1>12 DEF ChildInv

(* or makes one: JavaScript listens for its call from then on.                     *)
LEMMA SpawnHolds ==
  ASSUME ChildInv, IdsSuffice, emitting = Silence, NEW c \in Children, NEW kind \in ChildKinds,
         Spawn(c, kind)
  PROVE  ChildInv'
<1>1. /\ Call(c) /\ child' = [child EXCEPT ![c].kind = kind] /\ children' = children \union {c}
      /\ emitting' = emitting
  BY DEF Spawn
<1>2. c \in Calls /\ c \in Chunked /\ Children \subseteq Calls
  BY ChildrenAreChunked
<1>3. NodeInv' /\ rt'.listening = rt.listening \union {c}
  <2>1. c \notin Exits
    BY <1>2, NodeRuntimeConstants
  <2>2. NodeInv' /\ rt'.listening = rt.listening \union ({c} \ Exits)
    BY <1>1, <1>2, CallHolds DEF ChildInv, Accepted
  <2> QED
    BY <2>1, <2>2
<1>4. /\ host[c].state = "new" /\ host' = [host EXCEPT ![c].state = "sent"]
      /\ result' = result /\ got' = got
  BY <1>1 DEF Call
<1>5. \A d \in Calls : host'[d].state = "new" => host[d].state = "new" /\ d # c
  <2>1. host \in [Calls -> HostRec]
    BY HostFields DEF ChildInv
  <2>2. \A d \in Calls : host'[d] = IF d = c THEN [host[c] EXCEPT !.state = "sent"] ELSE host[d]
    BY <1>2, <1>4, <2>1
  <2>3. [host[c] EXCEPT !.state = "sent"].state = "sent"
    BY <1>2, <2>1 DEF HostRec
  <2> QED
    BY <2>2, <2>3
<1>6. /\ child \in [Calls -> ChildRec] /\ children \subseteq Children
      /\ \A d \in Children : d \in children <=> child[d].kind # "none" /\ ~child[d].done
      /\ \A d \in Calls : Story(child[d])
      /\ \A d \in Calls : host[d].state = "new" => child[d] = NoChild
  BY DEF ChildInv, ChildTables, RegistryIsOfTheLiving
<1>7. PICK k, q : k = child' /\ q = [child[c] EXCEPT !.kind = kind]
  OBVIOUS
<1>8. /\ q \in ChildRec /\ q.kind = kind /\ ~q.done /\ ~q.killed /\ ~q.over
      /\ q.heard = <<>> /\ q.called = <<>>
  <2>1. child[c] = NoChild /\ child[c] \in ChildRec
    BY <1>2, <1>4, <1>6
  <2>2. /\ child[c].done = FALSE /\ child[c].killed = FALSE /\ child[c].over = FALSE
        /\ child[c].heard = <<>> /\ child[c].called = <<>>
    BY <2>1 DEF NoChild
  <2>3. /\ q \in ChildRec /\ q.kind = kind /\ q.done = child[c].done /\ q.killed = child[c].killed
        /\ q.over = child[c].over /\ q.heard = child[c].heard /\ q.called = child[c].called
    BY <1>7, <2>1 DEF ChildRec
  <2> QED
    BY <2>2, <2>3
<1>9. Story(q)
  <2>1. OnlyOutputs(q.heard)
    BY <1>8 DEF OnlyOutputs
  <2>2. q.called # <<"ok">>
    <3>1. PICK ok : ok = "ok"
      OBVIOUS
    <3>2. q.called # <<ok>>
      BY <1>8
    <3> QED
      BY <3>1, <3>2
  <2> QED
    BY <1>8, <2>1, <2>2 DEF Story
<1>10. k \in [Calls -> ChildRec] /\ k[c] = q /\ \A d \in Calls \ {c} : k[d] = child[d]
  <2>1. k = [child EXCEPT ![c] = q]
    BY <1>1, <1>2, <1>6, <1>7
  <2> QED
    BY <1>2, <1>6, <1>8, <2>1
<1>11. ChildTables'
  <2>1. kind # "none"
    BY DEF ChildKinds
  <2>2. \A d \in Children : d \in children' <=> k[d].kind # "none" /\ ~k[d].done
    BY <1>1, <1>2, <1>6, <1>8, <1>10, <2>1
  <2>3. \A d \in Calls : Story(k[d])
    BY <1>6, <1>9, <1>10
  <2>4. \A d \in Calls : host'[d].state = "new" => k[d] = NoChild
    BY <1>5, <1>6, <1>10
  <2>5. children' \subseteq Children
    BY <1>1, <1>6
  <2> QED
    BY <1>7, <1>10, <2>2, <2>3, <2>4, <2>5 DEF ChildTables, RegistryIsOfTheLiving
<1>12. Attended'
  <2>1. Attended
    BY DEF ChildInv
  <2>2. \A d \in Children : d \in rt'.listening \/ host'[d].state = "new" => result'[d] = "open"
    BY <1>2, <1>3, <1>4, <1>5, <2>1 DEF Attended
  <2> QED
    BY <1>1, <1>3, <1>4, <2>1, <2>2 DEF Attended
<1>13. Voiced'
  BY <1>1 DEF Voiced, Silence
<1> QED
  BY <1>3, <1>11, <1>12, <1>13 DEF ChildInv

(* A tick brings a chunk, an end, or nothing for a child.                           *)
LEMMA TickKeepsAttended ==
  ASSUME ChildInv, NodeInv', got' \in [Calls -> Seq(Items)], host' = host,
         \A c \in Children : Told(c), children' \subseteq children,
         \A c \in children' : c \in rt'.listening
  PROVE  Attended'
<1>1. ASSUME NEW c \in Children, c \in rt'.listening \/ host'[c].state = "new"
      PROVE  result'[c] = "open"
  <2>1. Told(c) /\ Attended
    BY DEF ChildInv
  <2>2. CASE result'[c] = result[c] /\ (c \in rt'.listening <=> c \in rt.listening)
    BY <1>1, <2>1, <2>2 DEF Attended
  <2>3. CASE c \in rt.listening /\ c \notin rt'.listening
    <3>1. c \in Calls /\ Made(c)
      BY <2>3, ChildrenAreChunked DEF ChildInv, NodeInv, HostInv
    <3> QED
      BY <1>1, <2>3, <3>1 DEF Made
  <2> QED
    BY <2>1, <2>2, <2>3 DEF Told
<1> QED
  BY <1>1 DEF Attended

LEMMA TickChildrenHolds ==
  ASSUME ChildInv, IdsSuffice, emitting = Silence, TickChildren
  PROVE  ChildInv'
<1>1. TickRuntime /\ NodeInv /\ ChildTables /\ Attended /\ got \in [Calls -> Seq(Items)]
  BY DEF TickChildren, ChildInv, Attended
<1>2. NodeInv' /\ Heeded /\ host' = host
  BY <1>1, TickHolds DEF TickRuntime
<1>3. /\ got' \in [Calls -> Seq(Items)]
      /\ \A c \in Children : Told(c)
      /\ \A c \in Calls : ToldNothing(c) \/ \A d \in Calls \ {c} : ToldNothing(d)
  BY <1>1, <1>2, TickTold
<1>4. Children \subseteq Calls /\ children \subseteq Children
  BY <1>1, ChildrenAreChunked DEF ChildTables
<1>5. ASSUME NEW c \in Children, ~ToldNothing(c), NEW d \in children, d # c PROVE d \in rt'.listening
  BY <1>1, <1>3, <1>4, <1>5 DEF ToldNothing, Attended
<1>6. CASE \E c \in Children : Chunks(c)
  <2>1. PICK c \in Children : Chunks(c)
    BY <1>6
  <2>2. /\ GotChunk(c) /\ ~child[c].done /\ children' = children /\ child' = child
        /\ \E parts \in {<<>>, <<"stdout">>, <<"stderr">>, <<"stdout", "stderr">>} :
             emitting' = IF parts = <<>> THEN Silence ELSE [call |-> c, parts |-> parts]
    BY <2>1 DEF Chunks
  <2>3. ~ToldNothing(c) /\ (c \in rt.listening => c \in rt'.listening)
    BY <1>3, <2>2 DEF ToldNothing, GotChunk, Told
  <2>4. \A d \in children : d \in rt'.listening
    BY <1>1, <1>5, <2>3 DEF Attended
  <2>5. Attended'
    BY <1>2, <1>3, <2>2, <2>4, TickKeepsAttended
  <2>6. ChildTables'
    BY <1>1, <1>2, <2>2 DEF ChildTables, RegistryIsOfTheLiving
  <2>7. Voiced'
    <3>1. PICK parts \in {<<>>, <<"stdout">>, <<"stderr">>, <<"stdout", "stderr">>} :
            emitting' = IF parts = <<>> THEN Silence ELSE [call |-> c, parts |-> parts]
      BY <2>2
    <3>2. CASE parts = <<>>
      BY <3>1, <3>2 DEF Voiced, Silence
    <3>3. CASE parts # <<>>
      <4>1. PICK e : e = emitting'
        OBVIOUS
      <4>2. e = [call |-> c, parts |-> parts]
        BY <3>1, <3>3, <4>1
      <4>3. parts \in {<<"stdout">>, <<"stderr">>, <<"stdout", "stderr">>}
        BY <3>1, <3>3
      <4>4. e \in [call : Children, parts : {<<"stdout">>, <<"stderr">>, <<"stdout", "stderr">>}]
            /\ e.call = c /\ e.parts = parts
        BY <4>2, <4>3
      <4>5. Leftover(child'[e.call], e.parts)
        BY <2>2, <4>4 DEF Leftover
      <4>6. emitting' \in [call : Children, parts : {<<"stdout">>, <<"stderr">>, <<"stdout", "stderr">>}]
            /\ Leftover(child'[emitting'.call], emitting'.parts)
        BY <4>1, <4>4, <4>5
      <4> QED
        BY <4>6 DEF Voiced
    <3> QED
      BY <3>2, <3>3
  <2> QED
    BY <1>2, <2>5, <2>6, <2>7 DEF ChildInv
<1>7. CASE \E c \in Children : SettleChild(c)
  <2>1. PICK c \in Children : SettleChild(c)
    BY <1>7
  <2>2. PICK k : k = child[c]
    OBVIOUS
  <2>3. /\ result'[c] # result[c] /\ ~k.done /\ emitting' = emitting
        /\ \/ \E code \in {"ok", "failed"} : Closes(c, k, code)
           \/ Closes(c, CallBack(Emits(k, "error"), "failed"), "failed")
    BY <2>1, <2>2 DEF SettleChild
  <2>4. c \in Calls
    BY <1>4
  <2>5. k \in ChildRec /\ Story(k)
    BY <1>1, <2>2, <2>4 DEF ChildTables
  <2>6. ~k.over /\ k.called = <<>> /\ OnlyOutputs(k.heard)
    BY <2>3, <2>5 DEF Story
  <2>7. \E q : /\ q \in ChildRec /\ Story(q) /\ q.done /\ q.kind = k.kind
               /\ child' = [child EXCEPT ![c] = q] /\ children' = children \ {c}
    <3>1. CASE \E code \in {"ok", "failed"} : Closes(c, k, code)
      <4>1. PICK code \in {"ok", "failed"} : Closes(c, k, code)
        BY <3>1
      <4>2. PICK q : q = EmitCloseOnce(k, code)
        OBVIOUS
      <4>3. \A i \in 1..Len(k.heard) : k.heard[i] \in Outputs \/ (k.heard[i] = "error" /\ i = Len(k.heard))
        BY <2>6 DEF OnlyOutputs
      <4>4. code \in {"ok", "failed", "killed"} /\ (k.kind = "exec" => k.called \in {<<>>, <<"failed">>})
        BY <2>6
      <4>5. q \in ChildRec /\ Story(q) /\ q.done /\ q.kind = k.kind
        BY ONLY <2>3, <2>5, <2>6, <4>2, <4>3, <4>4, StoryCloses
      <4> QED
        BY <4>1, <4>2, <4>5 DEF Closes
    <3>2. CASE Closes(c, CallBack(Emits(k, "error"), "failed"), "failed")
      <4>1. PICK q : q = EmitCloseOnce(CallBack(Emits(k, "error"), "failed"), "failed")
        OBVIOUS
      <4>2. q \in ChildRec /\ Story(q) /\ q.done /\ q.kind = k.kind
        BY ONLY <2>3, <2>5, <2>6, <4>1, FailedStory
      <4> QED
        BY <3>2, <4>1, <4>2 DEF Closes
    <3> QED
      BY <2>3, <3>1, <3>2
  <2>8. PICK q : /\ q \in ChildRec /\ Story(q) /\ q.done /\ q.kind = k.kind
                 /\ child' = [child EXCEPT ![c] = q] /\ children' = children \ {c}
    BY <2>7
  <2>9. Becomes(c, q)
    BY <2>2, <2>8 DEF Becomes
  <2>10. host[c].state # "new"
    <3>1. c \in rt.listening
      BY <1>3, <2>3 DEF Told
    <3> QED
      BY <3>1 DEF ChildInv, NodeInv, HostInv, Made
  <2>11. ChildTables' /\ children' \subseteq children
    BY <1>1, <1>2, <2>9, <2>10, ChildMoved
  <2>12. \A d \in children' : d \in rt'.listening
    BY <1>5, <2>3, <2>8 DEF ToldNothing
  <2>13. Attended'
    BY <1>2, <1>3, <2>11, <2>12, TickKeepsAttended
  <2>14. Voiced'
    BY <2>3 DEF Voiced, Silence
  <2> QED
    BY <1>2, <2>11, <2>13, <2>14 DEF ChildInv
<1>8. CASE (\A c \in Children : Unmoved(c)) /\ UNCHANGED childVars
  <2>1. children' = children /\ child' = child /\ emitting' = emitting
    BY <1>8 DEF childVars
  <2>2. ASSUME NEW c \in children PROVE c \in rt'.listening
    <3>1. c \in Children /\ ~child[c].done /\ c \in rt.listening
      BY <1>1, <1>4 DEF ChildTables, RegistryIsOfTheLiving, Attended
    <3>2. result'[c] = result[c] /\ result[c] = "open"
      BY <1>1, <1>8, <3>1 DEF Unmoved, Attended
    <3> QED
      BY <1>3, <3>1, <3>2 DEF Told
  <2>3. Attended'
    BY <1>2, <1>3, <2>1, <2>2, TickKeepsAttended
  <2>4. ChildTables' /\ Voiced'
    BY <1>1, <1>2, <2>1 DEF ChildTables, RegistryIsOfTheLiving, Voiced, Silence
  <2> QED
    BY <1>2, <2>3, <2>4 DEF ChildInv
<1> QED
  BY <1>6, <1>7, <1>8 DEF TickChildren

(* The host and the clock tell nobody anything, and no call becomes new.           *)
LEMMA HostIsQuiet ==
  ASSUME NodeInv, Host \/ Clock
  PROVE  Quiet
<1>1. rt \in Runtimes
  BY NowIsInt, RtInvParts DEF Sound
<1>2. CASE Clock
  BY <1>2 DEF Clock, Quiet
<1>3. CASE DrainHostcallRequests
  <2>1. rt'.listening = rt.listening
    BY <1>1, <1>3 DEF DrainHostcallRequests, Runtimes
  <2>2. \A c \in Calls : host'[c].state = "new" => host[c].state = "new"
    <3> SUFFICES ASSUME NEW c \in Calls, host'[c].state = "new" PROVE host[c].state = "new"
      OBVIOUS
    <3>1. PICK h : h = [host[c] EXCEPT !.state = "dispatched"]
      OBVIOUS
    <3>2. host'[c] = IF c \in Range(rt.queue) THEN h ELSE host[c]
      BY <1>3, <3>1 DEF DrainHostcallRequests
    <3>3. h.state = "dispatched"
      BY <3>1, HostFields DEF HostRec
    <3> QED
      BY <3>2, <3>3
  <2> QED
    BY <1>3, <2>1, <2>2 DEF DrainHostcallRequests, Quiet
<1>4. CASE \E c \in Calls : \E outcome \in Outcomes(c) : CompleteHostcall(c, outcome)
  <2> PICK c \in Calls : \E outcome \in Outcomes(c) : CompleteHostcall(c, outcome)
    BY <1>4
  <2>1. PICK o \in Outcomes(c) : CompleteHostcall(c, o)
    OBVIOUS
  <2>2. PICK recorded : recorded = IF o.type = "chunk" /\ c \in rt.pending /\ o.seq > rt.streamSeq[c]
                                   THEN [rt EXCEPT !.streamSeq[c] = o.seq] ELSE rt
    OBVIOUS
  <2>3. rt' = Enqueue(recorded, c, o) /\ host[c].state = "dispatched" /\ result' = result /\ got' = got
    BY <2>1, <2>2 DEF CompleteHostcall
  <2>4. rt'.listening = rt.listening
    <3>1. PICK ss, r : /\ ss = [rt.streamSeq EXCEPT ![c] = o.seq] /\ r = [rt EXCEPT !.streamSeq = ss]
      OBVIOUS
    <3>2. recorded = rt \/ recorded = r
      BY <1>1, <2>2, <3>1 DEF Runtimes
    <3>3. r.listening = rt.listening /\ [r EXCEPT !.scheduler = rt'.scheduler].listening = rt.listening
          /\ [rt EXCEPT !.scheduler = rt'.scheduler].listening = rt.listening
      BY <1>1, <3>1 DEF Runtimes
    <3>4. CASE recorded = rt
      BY <1>1, <2>3, <3>4 DEF Enqueue, Runtimes
    <3>5. CASE recorded = r
      <4>1. rt' = [r EXCEPT !.scheduler = EnqueueHostcallComplete(r.scheduler, c, o)]
        BY <2>3, <3>5 DEF Enqueue
      <4> QED
        BY <1>1, <3>1, <4>1 DEF Runtimes
    <3> QED
      BY <3>2, <3>4, <3>5
  <2>5. \A d \in Calls : host'[d].state = "new" => host[d].state = "new"
    <3>1. PICK s, n : /\ s = IF o.type = "chunk" /\ ~o.final THEN "dispatched" ELSE "answered"
                      /\ n = host[c].chunks + (IF o.type = "chunk" THEN 1 ELSE 0)
      OBVIOUS
    <3>2. host' = [host EXCEPT ![c].chunks = n, ![c].state = s]
      BY <2>1, <3>1 DEF CompleteHostcall
    <3>3. host'[c].state # "new"
      BY <3>1, <3>2, HostFields DEF HostRec
    <3>4. \A d \in Calls \ {c} : host'[d] = host[d]
      BY <3>2, HostFields
    <3> QED
      BY <3>3, <3>4
  <2> QED
    BY <2>3, <2>4, <2>5 DEF Quiet
<1> QED
  BY <1>2, <1>3, <1>4 DEF Host

(* A step of children is one of the runtime.                                   *)
LEMMA ChildStepIsStep ==
  ASSUME Voiced, [ChildNext]_<<vars, childVars>>
  PROVE  [Next]_vars
<1>1. Children \subseteq Calls
  BY ChildrenAreChunked
<1>2. CASE Emit
  <2>1. PICK c \in Calls : EmitPart(c) \/ GatherPart(c)
    BY <1>1, <1>2 DEF Emit, Voiced
  <2>2. UNCHANGED vars \/ Cancel(c)
    BY <2>1 DEF EmitPart, GatherPart
  <2> QED
    BY <2>2 DEF Next, Program
<1>3. CASE \E c \in Children : (\E kind \in ChildKinds : Spawn(c, kind)) \/ Kill(c)
  BY <1>1, <1>3 DEF Spawn, Kill, KillChild, Next, Program
<1>4. CASE TickChildren
  BY <1>4 DEF TickChildren, Next
<1>5. CASE Host \/ Clock
  BY <1>5 DEF Next
<1>6. CASE UNCHANGED <<vars, childVars>>
  BY <1>6
<1> QED
  BY <1>2, <1>3, <1>4, <1>5, <1>6 DEF ChildNext

(* The invariant holds at first,                                               *)
LEMMA ChildrenInit == Init /\ ChildInit => ChildInv
<1> SUFFICES ASSUME Init, ChildInit PROVE ChildInv
  OBVIOUS
<1>1. NodeInv
  BY NodeInit
<1>2. PICK k : k = NoChild
  OBVIOUS
<1>3. /\ k.kind = "none" /\ k.done = FALSE /\ k.killed = FALSE /\ k.over = FALSE
      /\ k.heard = <<>> /\ k.called = <<>> /\ k \in ChildRec
  BY <1>2 DEF NoChild, ChildRec
<1>4. Story(k)
  BY <1>3 DEF Story, OnlyOutputs
<1>5. child \in [Calls -> ChildRec] /\ (\A c \in Calls : child[c] = k) /\ children = {}
      /\ emitting = Silence
  BY <1>2, <1>3 DEF ChildInit
<1>6. ChildTables
  <2>1. \A c \in Children : c \in Calls
    BY ChildrenAreChunked
  <2> QED
    BY <1>2, <1>3, <1>4, <1>5, <2>1 DEF ChildTables, RegistryIsOfTheLiving
<1>7. Attended
  <2>1. \A c \in Children : result[c] = "open"
    BY ChildrenAreChunked DEF Init
  <2>2. got \in [Calls -> Seq(Items)]
    <3>1. PICK none : none = <<>>
      OBVIOUS
    <3>2. none \in Seq(Items) /\ got = [c \in Calls |-> none]
      BY <3>1 DEF Init
    <3> QED
      BY <3>2
  <2> QED
    BY <1>5, <2>1, <2>2 DEF Attended
<1> QED
  BY <1>1, <1>5, <1>6, <1>7 DEF ChildInv, Voiced

(* every step keeps it,                                                        *)
LEMMA ChildrenNext == ChildInv /\ IdsSuffice /\ [ChildNext]_<<vars, childVars>> => ChildInv'
<1> SUFFICES ASSUME ChildInv, IdsSuffice, [ChildNext]_<<vars, childVars>> PROVE ChildInv'
  OBVIOUS
<1>1. NodeInv'
  BY ChildStepIsStep, NodeNext DEF ChildInv
<1>2. CASE Emit
  BY <1>1, <1>2, EmitHolds DEF Emit
<1>3. CASE /\ emitting = Silence
           /\ \E c \in Children : (\E kind \in ChildKinds : Spawn(c, kind)) \/ Kill(c)
  BY <1>1, <1>3, SpawnHolds, KillHolds
<1>4. CASE emitting = Silence /\ TickChildren
  BY <1>4, TickChildrenHolds
<1>5. CASE Quiet /\ UNCHANGED childVars
  <2>1. children' = children /\ child' = child /\ emitting' = emitting
    BY <1>5 DEF childVars
  <2>2. Attended'
    BY <1>5, <2>1, QuietAttends DEF ChildInv
  <2>3. ChildTables' /\ Voiced'
    BY <1>5, <2>1 DEF ChildInv, ChildTables, RegistryIsOfTheLiving, Voiced, Silence, Quiet
  <2> QED
    BY <1>1, <2>2, <2>3 DEF ChildInv
<1>6. CASE (Host \/ Clock) /\ UNCHANGED childVars
  BY <1>5, <1>6, HostIsQuiet DEF ChildInv
<1>7. CASE UNCHANGED <<vars, childVars>>
  BY <1>5, <1>7, StillIsQuiet
<1> QED
  BY <1>2, <1>3, <1>4, <1>6, <1>7 DEF ChildNext

(* The places of an event in a child's story.                                  *)
LEMMA EndsOnce ==
  ASSUME NEW h \in Seq(ChildEvents), NEW x \in Nat, NEW killed, EndsAt(h, x, killed)
  PROVE  /\ \A i \in DOMAIN h : /\ h[i] = "exit" <=> i = x
                                /\ h[i] = "close" <=> i = x + 1
                                /\ h[i] = "error" => i + 1 = x
         /\ x \in DOMAIN h /\ x + 1 \in DOMAIN h
         /\ \A i \in DOMAIN h : i > x + 1 => i = x + 2 /\ h[i] = "stderr" /\ killed
<1>1. DOMAIN h = 1..Len(h) /\ Len(h) \in Nat
  OBVIOUS
<1>2. ASSUME NEW i \in DOMAIN h
      PROVE  (h[i] = "exit" <=> i = x) /\ (h[i] = "close" <=> i = x + 1) /\ (h[i] = "error" => i + 1 = x)
  <2>1. i \in 1..Len(h) /\ i \in Nat
    BY <1>1
  <2>2. CASE i < x
    <3>1. h[i] \in Outputs \/ (h[i] = "error" /\ i = x - 1)
      BY <2>1, <2>2 DEF EndsAt
    <3> QED
      BY <2>1, <2>2, <3>1 DEF Outputs
  <2>3. CASE i = x \/ i = x + 1
    BY <2>1, <2>3 DEF EndsAt
  <2>4. CASE i > x + 1
    BY <2>1, <2>4 DEF EndsAt
  <2> QED
    BY <2>1, <2>2, <2>3, <2>4
<1> QED
  BY <1>1, <1>2 DEF EndsAt

LEMMA NothingEnds ==
  ASSUME NEW h \in Seq(ChildEvents), OnlyOutputs(h), NEW i \in DOMAIN h
  PROVE  h[i] \notin {"error", "exit", "close"}
<1>1. i \in 1..Len(h)
  OBVIOUS
<1> QED
  BY <1>1 DEF OnlyOutputs, Outputs

(* The story of a child puts its events in order.                               *)
LEMMA StoryIsInOrder ==
  ASSUME ChildTables
  PROVE  EventsAreInOrder
<1> SUFFICES ASSUME NEW c \in Children
             PROVE  /\ \A event \in {"error", "exit", "close"} : Cardinality(At(c, event)) <= 1
                    /\ At(c, "close") = {i + 1 : i \in At(c, "exit")}
                    /\ \A i \in At(c, "error") : i + 1 \in At(c, "exit")
                    /\ child[c].done <=> At(c, "close") # {}
                    /\ \A i \in At(c, "close") : \A j \in DOMAIN child[c].heard :
                         j > i => j = i + 1 /\ child[c].heard[j] = "stderr" /\ child[c].killed
  BY DEF EventsAreInOrder
<1>1. PICK k : k = child[c]
  OBVIOUS
<1>2. k \in ChildRec /\ Story(k)
  BY <1>1, ChildrenAreChunked DEF ChildTables
<1>3. k.heard \in Seq(ChildEvents) /\ k.done \in BOOLEAN
  BY <1>2 DEF ChildRec
<1>4. \A event : At(c, event) = {i \in DOMAIN k.heard : k.heard[i] = event}
  BY <1>1 DEF At
<1>5. CASE ~k.done
  <2>1. \A i \in DOMAIN k.heard : k.heard[i] \notin {"error", "exit", "close"}
    BY <1>2, <1>3, <1>5, NothingEnds DEF Story
  <2>2. At(c, "error") = {} /\ At(c, "exit") = {} /\ At(c, "close") = {}
    BY <1>4, <2>1
  <2>3. \A event \in {"error", "exit", "close"} : Cardinality(At(c, event)) <= 1
    BY <2>2, FS_EmptySet
  <2> QED
    BY <1>1, <1>5, <2>2, <2>3
<1>6. CASE k.done
  <2>1. PICK x \in Nat : EndsAt(k.heard, x, k.killed)
    BY <1>2, <1>6 DEF Story
  <2>2. /\ \A i \in DOMAIN k.heard : /\ k.heard[i] = "exit" <=> i = x
                                     /\ k.heard[i] = "close" <=> i = x + 1
                                     /\ k.heard[i] = "error" => i + 1 = x
        /\ x \in DOMAIN k.heard /\ x + 1 \in DOMAIN k.heard
        /\ \A i \in DOMAIN k.heard : i > x + 1 => i = x + 2 /\ k.heard[i] = "stderr" /\ k.killed
    BY <1>3, <2>1, EndsOnce
  <2>3. At(c, "exit") = {x} /\ At(c, "close") = {x + 1}
    BY <1>4, <2>2
  <2>4. At(c, "error") \subseteq {x - 1}
    <3>1. \A i \in DOMAIN k.heard : i \in Int
      BY <1>3
    <3> QED
      BY <1>4, <2>2, <3>1
  <2>5. \A v, s : s \subseteq {v} => Cardinality(s) <= 1
    <3> SUFFICES ASSUME NEW v, NEW s, s \subseteq {v} PROVE Cardinality(s) <= 1
      OBVIOUS
    <3>1. s = {} \/ s = {v}
      OBVIOUS
    <3> QED
      BY <3>1, FS_EmptySet, FS_Singleton
  <2>6. \A event \in {"error", "exit", "close"} : Cardinality(At(c, event)) <= 1
    BY <2>3, <2>4, <2>5
  <2>7. {i + 1 : i \in At(c, "exit")} = {x + 1}
    BY <2>3
  <2>8. \A i \in At(c, "error") : i + 1 = x
    BY <1>4, <2>2
  <2>9. \A i \in At(c, "close") : \A j \in DOMAIN k.heard :
          j > i => j = i + 1 /\ k.heard[j] = "stderr" /\ k.killed
    BY <2>2, <2>3
  <2> QED
    BY <1>1, <1>6, <2>3, <2>6, <2>7, <2>8, <2>9
<1> QED
  BY <1>3, <1>5, <1>6

(* The tracker has the call of every child that is not closed.                    *)
LEMMA AttendedWillClose ==
  ASSUME NodeInv, Attended
  PROVE  ChildrenWillClose
<1> SUFFICES ASSUME NEW c \in children, ~Refused(c), ~EndIsComing(c)
             PROVE  c \in rt.listening /\ IsActive(rt, c)
  BY DEF ChildrenWillClose, Attended
<1>1. c \in rt.listening
  BY DEF Attended
<1>2. c \in rt.pending
  BY <1>1 DEF NodeInv, HostInv, ListenersAreTracked
<1>3. ~EndComes(rt.scheduler, c)
  BY EndComesFirst
<1>4. c \notin rt.cancelled
  BY <1>3, NowIsInt, RtInvParts DEF Sound, Ends
<1> QED
  BY <1>1, <1>2, <1>4 DEF IsActive

(* and it implies what the run checks.                                         *)
LEMMA ChildrenImplies == ChildInv => ChildrenAreSound
<1> SUFFICES ASSUME ChildInv PROVE ChildrenAreSound
  OBVIOUS
<1>1. ChildTables /\ Attended /\ NodeInv /\ Voiced
  BY DEF ChildInv
<1>2. ChildTypeOK
  <2>1. \A c \in Calls : child[c].kind \in ChildKinds \union {"none"}
    BY <1>1 DEF ChildTables, ChildRec
  <2>2. emitting # Silence => emitting.call \in Children /\ emitting.parts # <<>>
    <3>1. emitting # Silence => emitting \in [call : Children, parts : PartSeqs]
      BY <1>1 DEF Voiced, PartSeqs
    <3>2. ASSUME emitting # Silence PROVE emitting.call \in Children
      BY <3>1, <3>2
    <3> QED
      BY <3>1, <3>2, PartFacts
  <2> QED
    BY <1>1, <2>1, <2>2 DEF ChildTypeOK, ChildTables
<1>3. RegistryIsOfTheLiving /\ EventsAreInOrder
  BY <1>1, StoryIsInOrder DEF ChildTables
<1>4. CallbackIsCalledOnce
  <2> SUFFICES ASSUME NEW c \in Children, child[c].kind = "exec"
               PROVE  /\ Len(child[c].called) = (IF child[c].done THEN 1 ELSE 0)
                      /\ child[c].called = <<"ok">> => ~child[c].killed /\ ~child[c].over
                      /\ child[c].over => child[c].called = <<"too long">>
    BY DEF CallbackIsCalledOnce
  <2>1. Story(child[c])
    BY <1>1, ChildrenAreChunked DEF ChildTables
  <2>2. child[c].called = <<>> => Len(child[c].called) = 0
    OBVIOUS
  <2> QED
    BY <2>1, <2>2 DEF Story
<1>5. ChildrenWillClose
  BY <1>1, AttendedWillClose
<1> QED
  BY <1>2, <1>3, <1>4, <1>5 DEF ChildrenAreSound

(* As long as the ids of timers are not used up, whoever kills a child and however  *)
(* its chunks, its end, its timeout and its refusal race: the registry has exactly *)
(* the children that are not closed, each exits and closes once and in order, the  *)
(* callback of exec is called once, and the call of a child that is not closed is   *)
(* still tracked or its end is on the way (spawn, exec, onChunk, emitCloseOnce).    *)
THEOREM ChildrenSound == ChildSpec /\ []IdsSuffice => []ChildrenAreSound
<1>1. Init /\ ChildInit => ChildInv
  BY ChildrenInit
<1>2. ChildInv /\ IdsSuffice /\ [ChildNext]_<<vars, childVars>> => ChildInv'
  BY ChildrenNext
<1>3. ChildInv => ChildrenAreSound
  BY ChildrenImplies
<1> QED
  BY <1>1, <1>2, <1>3, PTL DEF ChildSpec
-----------------------------------------------------------------------------
(* NodeRuntime: what a reader is told                                        *)

(* The chunks up to the last, none left out.                                   *)
Complete(f, last) == Len(f) = last + 1 /\ \A i \in 1..Len(f) : f[i] = Item(i - 1)

(* ChunksInOrder of one call.                                                  *)
InShape(f) ==
  \A i \in 1..Len(f) :
    /\ f[i].item = "chunk" => f[i].seq >= i - 1
    /\ i < Len(f) => f[i].item = "chunk"
    /\ i < Len(f) /\ f[i + 1].item = "chunk" => f[i] = Item(i - 1)

(* What kinds of item carry.                                                   *)
LEMMA ItemKinds ==
  /\ \A n : Item(n).item = "chunk" /\ Item(n).seq = n
  /\ End.item # "chunk" /\ Broken.item # "chunk"
<1>1. \A n : Item(n).item = "chunk" /\ Item(n).seq = n
  BY DEF Item
<1>2. End.item = "end" /\ Broken.item = "error"
  BY DEF End, Broken
<1> QED
  BY <1>1, <1>2

(* The last of a sequence to which something was appended.                       *)
LEMMA AppendFacts ==
  ASSUME NEW f \in Seq(Items), NEW x \in Items, NEW n, n = Len(f), NEW g, g = Append(f, x)
  PROVE  /\ n \in Nat /\ g \in Seq(Items) /\ Len(g) = n + 1 /\ g[n + 1] = x
         /\ \A i \in 1..n : g[i] = f[i]
OBVIOUS

(* What was told and what waits to be read are one sequence: whatever comes is put *)
(* at its end,                                                                 *)
LEMMA FlowJoins ==
  ASSUME NEW g \in Seq(Items), NEW b \in Seq(Items), NEW x \in Items
  PROVE  /\ g \o b \in Seq(Items) /\ g \o <<>> = g
         /\ g \o Append(b, x) = Append(g \o b, x)
         /\ g \o <<x>> = Append(g, x)
OBVIOUS

(* Two sequences, one behind the other.                                         *)
LEMMA ConcatFacts ==
  ASSUME NEW a \in Seq(Items), NEW b \in Seq(Items), NEW n, n = Len(a), NEW m, m = Len(b),
         NEW w, w = a \o b
  PROVE  /\ n \in Nat /\ m \in Nat /\ w \in Seq(Items) /\ Len(w) = n + m
         /\ \A i \in 1..n : w[i] = a[i]
         /\ \A i \in 1..m : w[n + i] = b[i]
OBVIOUS

(* and reading it leaves it as it is.                                            *)
LEMMA FlowMoves ==
  ASSUME NEW g \in Seq(Items), NEW b \in Seq(Items), b # <<>>
  PROVE  (g \o <<Head(b)>>) \o Tail(b) = g \o b
<1>1. PICK n, m : n = Len(g) /\ m = Len(b)
  OBVIOUS
<1>2. PICK x, t, h : x = Head(b) /\ t = Tail(b) /\ h = <<x>>
  OBVIOUS
<1>3. n \in Nat /\ m \in Nat /\ m > 0 /\ x = b[1] /\ x \in Items /\ t \in Seq(Items) /\ Len(t) = m - 1
      /\ \A i \in 1..(m - 1) : t[i] = b[i + 1]
  BY <1>1, <1>2
<1>4. h \in Seq(Items) /\ Len(h) = 1 /\ h[1] = x
  BY <1>2, <1>3
<1>5. PICK u, v, w : u = g \o h /\ v = u \o t /\ w = g \o b
  OBVIOUS
<1>6. u \in Seq(Items) /\ Len(u) = n + 1 /\ u[n + 1] = x /\ \A i \in 1..n : u[i] = g[i]
  <2>1. u = Append(g, x)
    BY <1>2, <1>3, <1>5, FlowJoins
  <2> QED
    BY <1>1, <1>3, <2>1, AppendFacts
<1>7. /\ v \in Seq(Items) /\ Len(v) = (n + 1) + (m - 1)
      /\ \A i \in 1..(n + 1) : v[i] = u[i]
      /\ \A i \in 1..(m - 1) : v[(n + 1) + i] = t[i]
  <2>1. PICK k, l : k = n + 1 /\ l = m - 1
    OBVIOUS
  <2>2. k = Len(u) /\ l = Len(t)
    BY <1>3, <1>6, <2>1
  <2>3. /\ v \in Seq(Items) /\ Len(v) = k + l
        /\ \A i \in 1..k : v[i] = u[i]
        /\ \A i \in 1..l : v[k + i] = t[i]
    <3>1. u \in Seq(Items) /\ t \in Seq(Items) /\ v = u \o t
      BY <1>3, <1>5, <1>6
    <3> QED
      BY ONLY <2>2, <3>1, ConcatFacts
  <2> QED
    BY <2>1, <2>3
<1>8. /\ w \in Seq(Items) /\ Len(w) = n + m
      /\ \A i \in 1..n : w[i] = g[i]
      /\ \A i \in 1..m : w[n + i] = b[i]
  BY <1>1, <1>5, ConcatFacts
<1>9. \A i \in 1..(n + m) : v[i] = w[i]
  <2> TAKE i \in 1..(n + m)
  <2>1. CASE i \in 1..n
    BY <1>3, <1>6, <1>7, <1>8, <2>1
  <2>2. CASE i = n + 1
    <3>1. v[n + 1] = x
      BY <1>3, <1>6, <1>7
    <3>2. w[n + 1] = b[1]
      BY <1>3, <1>8
    <3> QED
      BY <1>3, <2>2, <3>1, <3>2
  <2>3. CASE i > n + 1
    <3>1. PICK j \in 1..(m - 1) : j = i - (n + 1)
      BY <1>3, <2>3
    <3>2. (n + 1) + j = i /\ n + (j + 1) = i /\ j + 1 \in 1..m
      BY <1>3, <3>1
    <3>3. v[i] = t[j] /\ w[i] = b[j + 1]
      BY <1>7, <1>8, <3>2
    <3> QED
      BY <1>3, <3>3
  <2> QED
    BY <1>3, <2>1, <2>2, <2>3
<1>10. v = w
  <2>1. Len(v) = n + m /\ Len(w) = n + m
    BY <1>3, <1>7, <1>8
  <2>2. v \in Seq(Items) /\ w \in Seq(Items)
    BY <1>7, <1>8
  <2>3. Len(v) = Len(w) /\ \A i \in 1..Len(v) : v[i] = w[i]
    BY ONLY <1>9, <2>1
  <2> QED
    BY ONLY <2>2, <2>3, SeqEqual
<1> QED
  BY <1>2, <1>5, <1>10

(* A complete flow goes on with the next chunk,                                  *)
LEMMA CompleteGoesOn ==
  ASSUME NEW f \in Seq(Items), NEW last \in Int, Complete(f, last)
  PROVE  Complete(Append(f, Item(last + 1)), last + 1)
<1>1. PICK n, g, x : n = Len(f) /\ x = Item(last + 1) /\ g = Append(f, x)
  OBVIOUS
<1>2. x \in Items
  BY <1>1, ItemFacts
<1>3. n \in Nat /\ Len(g) = n + 1 /\ g[n + 1] = x /\ \A i \in 1..n : g[i] = f[i]
  BY <1>1, <1>2, AppendFacts
<1>4. n = last + 1 /\ \A i \in 1..n : f[i] = Item(i - 1)
  BY <1>1 DEF Complete
<1>5. \A i \in 1..(n + 1) : g[i] = Item(i - 1)
  <2> TAKE i \in 1..(n + 1)
  <2>1. CASE i \in 1..n
    BY <1>3, <1>4, <2>1
  <2>2. CASE i = n + 1
    <3>1. i - 1 = last + 1
      BY <1>4, <2>2
    <3> QED
      BY <1>1, <1>3, <2>2, <3>1
  <2> QED
    BY <1>3, <2>1, <2>2
<1>6. Complete(g, last + 1)
  BY <1>3, <1>4, <1>5 DEF Complete
<1> QED
  BY <1>1, <1>6

(* with a later one, or with its end.                                            *)
LEMMA CompleteEnds ==
  ASSUME NEW f \in Seq(Items), NEW last \in Int, Complete(f, last),
         NEW x \in Items, x.item = "chunk" => x.seq > last
  PROVE  InShape(Append(f, x))
<1>1. PICK n, g : n = Len(f) /\ g = Append(f, x)
  OBVIOUS
<1>2. n \in Nat /\ Len(g) = n + 1 /\ g[n + 1] = x /\ \A i \in 1..n : g[i] = f[i]
  BY <1>1, AppendFacts
<1>3. n = last + 1 /\ \A i \in 1..n : g[i] = Item(i - 1) /\ g[i].item = "chunk" /\ g[i].seq = i - 1
  BY <1>1, <1>2, ItemKinds DEF Complete
<1>4. x.seq \in Int
  BY DEF Items
<1>5. \A i \in 1..(n + 1) : g[i].item = "chunk" => g[i].seq >= i - 1
  BY <1>2, <1>3, <1>4
<1>6. \A i \in 1..(n + 1) : i < n + 1 => i \in 1..n
  BY <1>2
<1>7. InShape(g)
  BY <1>2, <1>3, <1>5, <1>6 DEF InShape
<1> QED
  BY <1>1, <1>7

(* A flow of chunks may end.                                                    *)
LEMMA ShapeEnds ==
  ASSUME NEW f \in Seq(Items), InShape(f), \A i \in 1..Len(f) : f[i].item = "chunk",
         NEW x \in Items, x.item # "chunk"
  PROVE  InShape(Append(f, x))
<1>1. PICK n, g : n = Len(f) /\ g = Append(f, x)
  OBVIOUS
<1>2. n \in Nat /\ Len(g) = n + 1 /\ g[n + 1] = x /\ \A i \in 1..n : g[i] = f[i]
  BY <1>1, AppendFacts
<1>3. \A i \in 1..(n + 1) : i = n + 1 \/ (i \in 1..n /\ i < n + 1)
  BY <1>2
<1>4. \A i \in 1..(n + 1) : g[i].item = "chunk" => g[i].seq >= i - 1
  BY <1>1, <1>2, <1>3 DEF InShape
<1>5. \A i \in 1..(n + 1) : i < n + 1 => g[i].item = "chunk"
  BY <1>1, <1>2, <1>3
<1>6. \A i \in 1..(n + 1) : i < n + 1 /\ g[i + 1].item = "chunk" => g[i] = Item(i - 1)
  <2> SUFFICES ASSUME NEW i \in 1..(n + 1), i < n + 1, g[i + 1].item = "chunk" PROVE g[i] = Item(i - 1)
    OBVIOUS
  <2>1. i \in 1..n /\ i + 1 # n + 1
    BY <1>2
  <2>2. i < n /\ i + 1 \in 1..n
    BY <1>2, <2>1
  <2> QED
    BY <1>1, <1>2, <2>1, <2>2 DEF InShape
<1>7. InShape(g)
  BY <1>2, <1>4, <1>5, <1>6 DEF InShape
<1> QED
  BY <1>1, <1>7

(* So far told, a flow is in order.                                             *)
LEMMA ShapeOfTold ==
  ASSUME NEW g \in Seq(Items), NEW b \in Seq(Items), InShape(g \o b)
  PROVE  InShape(g)
<1>1. PICK n, m, w : n = Len(g) /\ m = Len(b) /\ w = g \o b
  OBVIOUS
<1>2. n \in Nat /\ m \in Nat /\ Len(w) = n + m /\ \A i \in 1..n : w[i] = g[i] /\ i \in 1..(n + m)
  BY <1>1
<1>3. \A i \in 1..n : i < n => i < n + m /\ i + 1 \in 1..n
  BY <1>2
<1>4. InShape(w)
  BY <1>1
<1> QED
  BY <1>1, <1>2, <1>3, <1>4 DEF InShape

(* A stream that was left, waits or is watched is in order.                        *)
Orderly(s) ==
  /\ s.waiting => s.buffer = <<>> /\ ~s.done /\ ~s.closed
  /\ s.closed => s.done /\ s.buffer = <<>>
  /\ s.stall # 0 => ~s.done /\ Len(s.buffer) >= BufferLimit

Full(s) == ~s.done /\ Len(s.buffer) >= BufferLimit
Guarded(s) == StallTimeout > 0 /\ Full(s) => s.stall # 0

(* All that came for a reader: what was told, then what is buffered.               *)
FlowOf(g, s) == g \o s.buffer

(* Whose chunks anybody hears of.                                              *)
TakesChunks(c) == c \in Streams \union Chunked

(* While JavaScript listens, nothing was left out so far.                        *)
Heeds(r, g, c) ==
  c \in r.listening /\ TakesChunks(c) /\ ~r.streams[c].closed =>
    ~r.streams[c].done /\ Complete(FlowOf(g, r.streams[c]), r.lastSeq[c])

Flowing(r, g, c) ==
  /\ g \in Seq(Items)
  /\ c \notin Streams => r.streams[c] = IdleStream
  /\ ~TakesChunks(c) => g = <<>>
  /\ Orderly(r.streams[c]) /\ InShape(FlowOf(g, r.streams[c]))
  /\ IsActive(r, c) => Guarded(r.streams[c])
  /\ Heeds(r, g, c)

(* What a stream tells its reader of an item.                                     *)
HeardOf(s, item) == IF s.waiting /\ ~s.closed THEN <<item>> ELSE <<>>

(* What an item makes of a stream and its flow.                                  *)
TakesIn(s, t, f, v, item, final) ==
  /\ Orderly(t) /\ Guarded(t) /\ t.closed = s.closed
  /\ InShape(v)
  /\ ~s.closed => v = Append(f, item) /\ (~final => ~t.done)

LEMMA StreamTakes ==
  ASSUME NEW s \in StreamRec, NEW t \in StreamRec, NEW item \in Items, NEW final \in BOOLEAN,
         Joins(s, t, item, final), final \/ s.closed \/ s.waiting \/ Watches(s, t),
         NEW g \in Seq(Items), NEW h, h = g \o HeardOf(s, item), NEW last \in Int,
         Orderly(s), InShape(FlowOf(g, s)),
         ~s.closed => ~s.done /\ Complete(FlowOf(g, s), last),
         item.item = "chunk" => item.seq > last
  PROVE  h \in Seq(Items) /\ TakesIn(s, t, FlowOf(g, s), FlowOf(h, t), item, final)
<1>1. StreamFields(s) /\ StreamFields(t)
  BY StreamForm
<1>2. PICK b, d : b = s.buffer /\ d = t.buffer /\ b \in Seq(Items) /\ d \in Seq(Items)
  BY <1>1 DEF StreamFields
<1>3. BufferLimit \in Nat /\ BufferLimit > 0 /\ Len(<<>>) = 0
  BY NodeRuntimeConstants
<1>4. CASE s.closed
  <2>1. t = s /\ h = g \o <<>>
    BY <1>4 DEF Joins, HeardOf
  <2>2. h = g
    BY <2>1, FlowJoins, <1>2
  <2>3. Guarded(t)
    BY <1>4, <2>1 DEF Orderly, Guarded, Full
  <2> QED
    BY <1>4, <2>1, <2>2, <2>3 DEF TakesIn
<1>5. CASE ~s.closed /\ s.waiting
  <2>1. /\ ~t.closed /\ ~t.waiting /\ (t.done <=> s.done \/ final) /\ d = b /\ t.stall = 0
    BY <1>2, <1>5 DEF Joins
  <2>2. b = <<>> /\ ~s.done
    BY <1>2, <1>5 DEF Orderly
  <2>3. h = Append(g, item) /\ h \in Seq(Items)
    <3>1. h = g \o <<item>>
      BY <1>5 DEF HeardOf
    <3>2. Append(g, item) \in Seq(Items)
      OBVIOUS
    <3> QED
      BY <2>2, <1>2, <3>1, <3>2, FlowJoins
  <2>4. FlowOf(h, t) = h /\ FlowOf(g, s) = g
    BY <1>2, <2>1, <2>2, <2>3, FlowJoins DEF FlowOf
  <2>5. InShape(h)
    BY <1>5, <2>3, <2>4, CompleteEnds
  <2>6. Orderly(t) /\ Guarded(t)
    BY <1>1, <1>2, <1>3, <2>1, <2>2 DEF Orderly, Guarded, Full
  <2> QED
    BY <1>1, <1>5, <2>1, <2>2, <2>3, <2>4, <2>5, <2>6 DEF TakesIn, StreamFields
<1>6. CASE ~s.closed /\ ~s.waiting
  <2>1. ~t.closed /\ ~t.waiting /\ (t.done <=> s.done \/ final) /\ d = Append(b, item)
    BY <1>2, <1>6 DEF Joins
  <2>2. h = g
    <3>1. h = g \o <<>>
      BY <1>6 DEF HeardOf
    <3> QED
      BY <1>2, <3>1, FlowJoins
  <2>3. FlowOf(h, t) = Append(FlowOf(g, s), item) /\ FlowOf(g, s) \in Seq(Items)
    BY <1>2, <2>1, <2>2, FlowJoins DEF FlowOf
  <2>4. InShape(FlowOf(h, t))
    BY <1>6, <2>3, CompleteEnds
  <2>5. Len(d) = Len(b) + 1 /\ Len(b) \in Nat
    BY <1>2, <2>1
  <2>6. Orderly(t) /\ Guarded(t)
    <3>1. CASE final
      <4>1. t.stall = 0 /\ t.done
        BY <1>6, <2>1, <3>1 DEF Joins
      <4> QED
        BY <2>1, <4>1 DEF Orderly, Guarded, Full
    <3>2. CASE ~final
      <4>1. /\ ~Full(t) => t.stall \in {s.stall, 0}
            /\ Full(t) /\ StallTimeout > 0 => t.stall # 0
        BY <1>6, <3>2 DEF Watches, Full
      <4>2. s.stall # 0 => Full(t)
        BY <1>2, <1>3, <1>6, <2>1, <2>5, <3>2 DEF Orderly, Full
      <4> QED
        BY <2>1, <4>1, <4>2 DEF Orderly, Guarded, Full
    <3> QED
      BY <3>1, <3>2
  <2> QED
    BY <1>1, <1>6, <2>1, <2>2, <2>3, <2>4, <2>6 DEF TakesIn, StreamFields
<1> QED
  BY <1>4, <1>5, <1>6

(* An item that comes after the last.                                           *)
LEMMA ItemOfFacts ==
  ASSUME NEW o \in AllOutcomes, o.type = "chunk"
  PROVE  /\ ItemOf(o) \in Items /\ o.seq \in Int /\ o.final \in BOOLEAN
         /\ ItemOf(o).item = "chunk" => ItemOf(o).seq = o.seq
         /\ ~o.final => ItemOf(o) = Item(o.seq)
<1>1. o.final \in BOOLEAN /\ o.null \in BOOLEAN /\ o.seq \in Int
  BY ChunkFacts, NodeRuntimeConstants
<1>2. ~o.final => ~o.null
  <2>1. o # Ok
    BY DEF Ok
  <2>2. o \notin Errors
    BY DEF Errors, Failed
  <2>3. o \in ChunkOutcomes
    BY <2>1, <2>2 DEF AllOutcomes
  <2>4. \A n, final : Chunk(n, final).null = FALSE
    BY DEF Chunk
  <2>5. \A n : Sentinel(n).final = TRUE
    BY DEF Sentinel
  <2> QED
    BY <2>3, <2>4, <2>5 DEF ChunkOutcomes
<1>3. ItemOf(o) \in Items
  BY <1>1, ItemFacts DEF ItemOf
<1>4. ItemOf(o).item = "chunk" => ItemOf(o).seq = o.seq
  BY ItemKinds DEF ItemOf
<1> QED
  BY <1>1, <1>2, <1>3, <1>4 DEF ItemOf

(* What is told of an outcome that JavaScript listens for.                       *)
LEMMA ToldOf ==
  ASSUME NEW r, NEW c, NEW o, ~Deaf(r, c)
  PROVE  /\ Breaks(r, c, o) => Tells(r, c, o) = IF c \in Streams THEN HeardOf(r.streams[c], Broken) ELSE <<>>
         /\ ~Breaks(r, c, o) /\ o.type = "ok" => Tells(r, c, o) = <<>>
         /\ ~Breaks(r, c, o) /\ o.type # "ok" =>
              /\ c \in Streams => Tells(r, c, o) = HeardOf(r.streams[c], ItemOf(o))
              /\ c \notin Streams /\ c \in Chunked => Tells(r, c, o) = <<ItemOf(o)>>
              /\ ~TakesChunks(c) => Tells(r, c, o) = <<>>
<1>1. Breaks(r, c, o) => o.type # "ok"
  BY DEF Breaks
<1>2. \A item : Heard(r, c, item) = HeardOf(r.streams[c], item)
  BY DEF Heard, HeardOf
<1>3. ~Breaks(r, c, o) /\ o.type # "ok" =>
        Tells(r, c, o) = CASE c \in Streams -> Heard(r, c, ItemOf(o))
                           [] c \in Chunked -> <<ItemOf(o)>>
                           [] OTHER -> <<>>
  BY DEF Tells, ItemOf
<1>4. c \in Streams => c \notin Chunked
  BY NodeRuntimeConstants
<1>5. Breaks(r, c, o) => Tells(r, c, o) = IF c \in Streams THEN HeardOf(r.streams[c], Broken) ELSE <<>>
  BY <1>1, <1>2 DEF Tells
<1>6. ~Breaks(r, c, o) /\ o.type = "ok" => Tells(r, c, o) = <<>>
  BY DEF Tells
<1>7. PICK item, heard : item = ItemOf(o) /\ heard = Heard(r, c, item)
  OBVIOUS
<1>8. ~Breaks(r, c, o) /\ o.type # "ok" =>
        /\ c \in Streams => Tells(r, c, o) = heard
        /\ c \notin Streams /\ c \in Chunked => Tells(r, c, o) = <<item>>
        /\ ~TakesChunks(c) => Tells(r, c, o) = <<>>
  BY <1>3, <1>4, <1>7 DEF TakesChunks
<1> QED
  BY <1>2, <1>5, <1>6, <1>7, <1>8

(* The flow of a call whose outcome is delivered: it goes on in order.           *)
LEMMA DeliverFlows ==
  ASSUME NEW r, Sound(r), NEW c \in Calls, NEW o \in AllOutcomes, NEW q, Sound(q),
         Handed(r, q, c, o), Hears(r, q, c, o), NEW g, Flowing(r, g, c),
         Partial(o) /\ ~Deaf(r, c) /\ TakesChunks(c) => o.seq = r.lastSeq[c] + 1,
         NEW h, h = g \o Tells(r, c, o)
  PROVE  Flowing(q, h, c)
<1>1. /\ g \in Seq(Items) /\ Orderly(r.streams[c]) /\ InShape(FlowOf(g, r.streams[c]))
      /\ c \notin Streams => r.streams[c] = IdleStream
      /\ ~TakesChunks(c) => g = <<>>
      /\ IsActive(r, c) => Guarded(r.streams[c])
      /\ Heeds(r, g, c)
  BY DEF Flowing
<1>2. /\ r.streams[c] \in StreamRec /\ q.streams[c] \in StreamRec /\ r.lastSeq[c] \in Int
      /\ r.listening \subseteq Calls /\ r.streams[c].buffer \in Seq(Items)
  <2>1. RtTypes(r)
    BY RtInvParts DEF Sound
  <2>2. r.lastSeq[c] \in -1..(MaxChunks + 1) /\ r.listening \subseteq Calls
    BY <2>1 DEF RtTypes
  <2>3. r.lastSeq[c] \in Int
    BY <2>2, NodeRuntimeConstants
  <2> QED
    BY <2>2, <2>3, SoundStreams DEF StreamFields
<1>3. IsActive(q, c) <=> IsActive(r, c)
  BY DEF Hears, Beside, IsActive
<1>4. g \o <<>> = g
  BY <1>1, <1>2, FlowJoins
<1>5. CASE Deaf(r, c)
  <2>1. h = g
    BY <1>4, <1>5 DEF Tells
  <2>2. q.listening = r.listening /\ q.streams = r.streams /\ q.lastSeq = r.lastSeq
    BY <1>5 DEF Hears, Unheard
  <2> QED
    BY <1>1, <1>3, <2>1, <2>2 DEF Flowing, Heeds
<1>6. CASE ~Deaf(r, c) /\ Breaks(r, c, o)
  <2>1. c \notin q.listening
    BY <1>6 DEF Hears
  <2>2. CASE c \in Streams
    <3>1. Joins(r.streams[c], q.streams[c], Broken, TRUE) /\ h = g \o HeardOf(r.streams[c], Broken)
      BY <1>6, <2>2, ToldOf DEF Hears
    <3>2. ~r.streams[c].closed => ~r.streams[c].done /\ Complete(FlowOf(g, r.streams[c]), r.lastSeq[c])
      BY <1>1, <1>6, <2>2 DEF Heeds, Deaf, TakesChunks
    <3>3. /\ h \in Seq(Items)
          /\ TakesIn(r.streams[c], q.streams[c], FlowOf(g, r.streams[c]), FlowOf(h, q.streams[c]), Broken, TRUE)
      BY <1>1, <1>2, <3>1, <3>2, StreamTakes, ItemFacts, ItemKinds
    <3> QED
      BY <2>1, <2>2, <3>3 DEF Flowing, TakesIn, Heeds, TakesChunks
  <2>3. CASE c \notin Streams
    <3>1. h = g /\ q.streams[c] = r.streams[c]
      BY <1>4, <1>6, <2>3, ToldOf DEF Hears
    <3> QED
      BY <1>1, <1>3, <2>1, <3>1 DEF Flowing, Heeds
  <2> QED
    BY <2>2, <2>3
<1>7. CASE ~Deaf(r, c) /\ ~Breaks(r, c, o) /\ o.type = "ok"
  <2>1. c \notin q.listening /\ q.streams[c] = r.streams[c]
    BY <1>7 DEF Hears
  <2>2. h = g
    BY <1>4, <1>7, ToldOf
  <2> QED
    BY <1>1, <1>3, <2>1, <2>2 DEF Flowing, Heeds
<1>8. CASE ~Deaf(r, c) /\ ~Breaks(r, c, o) /\ o.type # "ok"
  <2>1. o.type = "chunk" /\ InSequence(r, c, o)
    BY <1>8, ChunkFacts DEF Breaks
  <2>2. PICK item : item = ItemOf(o)
    OBVIOUS
  <2>3. /\ item \in Items /\ o.seq \in Int /\ o.final \in BOOLEAN
        /\ item.item = "chunk" => item.seq = o.seq
        /\ ~o.final => item = Item(o.seq)
    BY <2>1, <2>2, ItemOfFacts
  <2>4. o.seq > r.lastSeq[c] /\ (Partial(o) <=> ~o.final)
    BY <1>2, <2>1, <2>3 DEF InSequence, Partial
  <2>5. q.listening = (IF o.final THEN r.listening \ {c} ELSE r.listening) /\ q.lastSeq[c] = o.seq
    BY <1>8 DEF Hears
  <2>6. CASE c \in Streams
    <3>1. /\ Joins(r.streams[c], q.streams[c], item, o.final) /\ h = g \o HeardOf(r.streams[c], item)
          /\ ~r.streams[c].closed /\ ~r.streams[c].waiting => Watches(r.streams[c], q.streams[c])
      BY <1>8, <2>2, <2>6, ToldOf DEF Hears
    <3>2. ~r.streams[c].closed => ~r.streams[c].done /\ Complete(FlowOf(g, r.streams[c]), r.lastSeq[c])
      BY <1>1, <1>8, <2>6 DEF Heeds, Deaf, TakesChunks
    <3>3. r.streams[c].closed \in BOOLEAN /\ r.streams[c].waiting \in BOOLEAN
      BY <1>2, StreamForm DEF StreamFields
    <3>4. /\ h \in Seq(Items)
          /\ TakesIn(r.streams[c], q.streams[c], FlowOf(g, r.streams[c]), FlowOf(h, q.streams[c]), item, o.final)
      <4>1. PICK s, t, final, last :
              s = r.streams[c] /\ t = q.streams[c] /\ final = o.final /\ last = r.lastSeq[c]
        OBVIOUS
      <4>2. /\ s \in StreamRec /\ t \in StreamRec /\ item \in Items /\ final \in BOOLEAN
            /\ last \in Int /\ g \in Seq(Items)
        BY <1>1, <1>2, <2>3, <4>1
      <4>3. Joins(s, t, item, final) /\ h = g \o HeardOf(s, item)
        BY <3>1, <4>1
      <4>4. final \/ s.closed \/ s.waiting \/ Watches(s, t)
        BY <3>1, <4>1
      <4>5. Orderly(s) /\ InShape(FlowOf(g, s)) /\ (~s.closed => ~s.done /\ Complete(FlowOf(g, s), last))
        BY <1>1, <3>2, <4>1
      <4>6. item.item = "chunk" => item.seq > last
        BY <2>3, <2>4, <4>1
      <4>7. h \in Seq(Items) /\ TakesIn(s, t, FlowOf(g, s), FlowOf(h, t), item, final)
        BY ONLY <4>2, <4>3, <4>4, <4>5, <4>6, StreamTakes
      <4> QED
        BY ONLY <4>1, <4>7
    <3>5. Heeds(q, h, c)
      <4> SUFFICES ASSUME c \in q.listening, ~q.streams[c].closed
                   PROVE  ~q.streams[c].done /\ Complete(FlowOf(h, q.streams[c]), q.lastSeq[c])
        BY DEF Heeds
      <4>1. ~o.final
        BY <2>3, <2>5
      <4>2. ~r.streams[c].closed /\ ~q.streams[c].done
            /\ FlowOf(h, q.streams[c]) = Append(FlowOf(g, r.streams[c]), item)
        BY <3>3, <3>4, <4>1 DEF TakesIn
      <4>3. o.seq = r.lastSeq[c] + 1
        BY <1>8, <2>4, <2>6, <4>1 DEF TakesChunks
      <4>4. FlowOf(g, r.streams[c]) \in Seq(Items)
        BY <1>1, <1>2, FlowJoins DEF FlowOf
      <4>5. Complete(Append(FlowOf(g, r.streams[c]), Item(r.lastSeq[c] + 1)), r.lastSeq[c] + 1)
        BY <1>2, <3>2, <4>2, <4>4, CompleteGoesOn
      <4> QED
        BY <2>3, <2>5, <4>1, <4>2, <4>3, <4>5
    <3> QED
      BY <2>6, <3>4, <3>5 DEF Flowing, TakesIn, TakesChunks
  <2>7. CASE c \notin Streams /\ TakesChunks(c)
    <3>1. q.streams[c] = r.streams[c] /\ r.streams[c] = IdleStream /\ h = g \o <<item>>
      BY <1>1, <1>8, <2>2, <2>7, ToldOf DEF Hears, TakesChunks
    <3>2. IdleStream.buffer = <<>> /\ ~IdleStream.closed
      BY DEF IdleStream
    <3>3. Append(g, item) \in Seq(Items) /\ h = Append(g, item)
      <4>1. Append(g, item) \in Seq(Items)
        BY <1>1, <2>3
      <4> QED
        BY <1>1, <1>2, <2>3, <3>1, <4>1, FlowJoins
    <3>4. FlowOf(g, r.streams[c]) = g /\ FlowOf(h, q.streams[c]) = h
      BY <1>1, <1>2, <3>1, <3>2, <3>3, FlowJoins DEF FlowOf
    <3>5. ~r.streams[c].done /\ Complete(g, r.lastSeq[c])
      BY <1>1, <1>8, <2>7, <3>1, <3>2, <3>4 DEF Heeds, Deaf
    <3>6. InShape(h)
      BY <1>1, <1>2, <2>3, <2>4, <3>3, <3>5, CompleteEnds
    <3>7. Heeds(q, h, c)
      <4> SUFFICES ASSUME c \in q.listening
                   PROVE  Complete(h, q.lastSeq[c])
        BY <3>1, <3>4, <3>5 DEF Heeds
      <4>1. ~o.final
        BY <2>3, <2>5
      <4>2. o.seq = r.lastSeq[c] + 1
        BY <1>8, <2>4, <2>7, <4>1
      <4> QED
        BY <1>1, <1>2, <2>3, <2>5, <3>3, <3>5, <4>1, <4>2, CompleteGoesOn
    <3> QED
      BY <1>1, <1>3, <2>7, <3>1, <3>3, <3>4, <3>6, <3>7 DEF Flowing
  <2>8. CASE ~TakesChunks(c)
    <3>1. h = g /\ c \notin Streams
      BY <1>4, <1>8, <2>8, ToldOf DEF TakesChunks
    <3>2. q.streams[c] = r.streams[c]
      BY <1>8, <3>1 DEF Hears
    <3> QED
      BY <1>1, <1>3, <2>8, <3>1, <3>2 DEF Flowing, Heeds
  <2> QED
    BY <2>6, <2>7, <2>8 DEF TakesChunks
<1> QED
  BY <1>5, <1>6, <1>7, <1>8

(* A reader that asks for a chunk gets what comes first, or waits.               *)
LEMMA PullFlows ==
  ASSUME NEW r, Sound(r), NEW c \in Streams, c \in Calls, NEW q, Sound(q),
         NEW s, s = r.streams[c], NEW t, t = q.streams[c], Gives(s, t), Watches(s, t),
         q.listening = r.listening, q.lastSeq = r.lastSeq,
         NEW g, Flowing(r, g, c), ~s.waiting, ~s.closed,
         \A i \in 1..Len(g) : g[i].item = "chunk", NEW h, h = g \o Pulled(s)
  PROVE  Flowing(q, h, c)
<1>1. /\ g \in Seq(Items) /\ Orderly(s) /\ InShape(FlowOf(g, s)) /\ Heeds(r, g, c)
      /\ TakesChunks(c)
  BY DEF Flowing, TakesChunks
<1>2. StreamFields(s) /\ StreamFields(t)
  BY SoundStreams
<1>3. PICK b, d : b = s.buffer /\ d = t.buffer /\ b \in Seq(Items) /\ d \in Seq(Items)
  BY <1>2 DEF StreamFields
<1>4. BufferLimit \in Nat /\ BufferLimit > 0 /\ Len(<<>>) = 0
  BY NodeRuntimeConstants
<1>5. t.closed = s.closed /\ t.done = s.done
  BY DEF Gives
<1>6. Guarded(t)
  BY DEF Watches, Guarded, Full
<1>7. c \in r.listening => ~s.done /\ Complete(FlowOf(g, s), r.lastSeq[c])
  BY <1>1 DEF Heeds
<1>8. CASE b # <<>>
  <2>1. d = Tail(b) /\ ~t.waiting
    BY <1>3, <1>8 DEF Gives
  <2>2. h = g \o <<Head(b)>> /\ h \in Seq(Items)
    <3>1. h = g \o <<Head(b)>>
      BY <1>3, <1>8 DEF Pulled
    <3>2. Head(b) \in Items
      BY <1>3, <1>8
    <3> QED
      BY <1>1, <3>1, <3>2
  <2>3. FlowOf(h, t) = FlowOf(g, s)
    <3>1. FlowOf(h, t) = (g \o <<Head(b)>>) \o Tail(b)
      BY <1>3, <2>1, <2>2 DEF FlowOf
    <3> QED
      BY <1>1, <1>3, <1>8, <3>1, FlowMoves DEF FlowOf
  <2>4. Orderly(t)
    <3>1. t.stall # 0 => ~t.done /\ Len(d) >= BufferLimit
      <4>1. Len(d) \in Nat
        BY <1>3
      <4>2. s.done => t.stall = 0
        BY <1>1, <1>3, <1>8 DEF Gives, Orderly
      <4>3. ~s.done /\ Len(d) < BufferLimit => t.stall = 0
        BY <1>3, <1>8 DEF Gives
      <4> QED
        BY <1>2, <1>4, <1>5, <4>1, <4>2, <4>3 DEF StreamFields
    <3> QED
      BY <1>3, <1>5, <2>1, <3>1 DEF Orderly
  <2>5. Heeds(q, h, c)
    BY <1>5, <1>7, <2>3 DEF Heeds
  <2> QED
    BY <1>1, <1>6, <2>2, <2>3, <2>4, <2>5 DEF Flowing
<1>9. CASE b = <<>>
  <2>1. (t.waiting <=> ~s.done) /\ d = <<>> /\ t.stall = 0
    BY <1>2, <1>3, <1>9 DEF Gives, StreamFields
  <2>2. Orderly(t)
    BY <1>3, <1>5, <2>1 DEF Orderly
  <2>3. FlowOf(g, s) = g
    BY <1>1, <1>3, <1>9, FlowJoins DEF FlowOf
  <2>4. CASE s.done
    <3>1. h = Append(g, End) /\ h \in Seq(Items)
      <4>1. h = g \o <<End>>
        BY <1>3, <1>9, <2>4 DEF Pulled
      <4>2. Append(g, End) \in Seq(Items)
        BY <1>1, ItemFacts
      <4> QED
        BY <1>1, <1>3, <4>1, <4>2, ItemFacts, FlowJoins
    <3>2. FlowOf(h, t) = h
      BY <1>3, <2>1, <3>1, FlowJoins DEF FlowOf
    <3>3. InShape(h)
      BY <1>1, <2>3, <3>1, ShapeEnds, ItemFacts, ItemKinds
    <3>4. Heeds(q, h, c)
      BY <1>7, <2>4 DEF Heeds
    <3> QED
      BY <1>1, <1>6, <2>2, <3>1, <3>2, <3>3, <3>4 DEF Flowing
  <2>5. CASE ~s.done
    <3>1. h = g
      <4>1. h = g \o <<>>
        BY <1>3, <1>9, <2>5 DEF Pulled
      <4> QED
        BY <1>1, <1>3, <4>1, FlowJoins
    <3>2. FlowOf(h, t) = h
      BY <1>1, <1>3, <2>1, <3>1, FlowJoins DEF FlowOf
    <3>3. Heeds(q, h, c)
      BY <1>5, <1>7, <2>3, <3>1, <3>2 DEF Heeds
    <3> QED
      BY <1>1, <1>6, <2>2, <2>3, <3>1, <3>2, <3>3 DEF Flowing
  <2> QED
    BY <2>4, <2>5
<1> QED
  BY <1>8, <1>9

(* A stream that is left tells no more.                                          *)
LEMMA CloseFlows ==
  ASSUME NEW r, Sound(r), NEW c \in Streams, c \in Calls, NEW q, Closed(q.streams[c]),
         NEW g, Flowing(r, g, c)
  PROVE  Flowing(q, g, c)
<1>1. g \in Seq(Items) /\ InShape(FlowOf(g, r.streams[c])) /\ TakesChunks(c)
  BY DEF Flowing, TakesChunks
<1>2. r.streams[c].buffer \in Seq(Items)
  BY SoundStreams DEF StreamFields
<1>3. InShape(g)
  BY <1>1, <1>2, ShapeOfTold DEF FlowOf
<1>4. FlowOf(g, q.streams[c]) = g
  BY <1>1, <1>2, FlowJoins DEF FlowOf, Closed
<1>5. Orderly(q.streams[c]) /\ Guarded(q.streams[c]) /\ Heeds(q, g, c)
  BY DEF Orderly, Guarded, Full, Heeds, Closed
<1> QED
  BY <1>1, <1>3, <1>4, <1>5 DEF Flowing

(* A stream whose timer has fired need not be watched, or is called off.         *)
LEMMA StallFlows ==
  ASSUME NEW r, Sound(r), NEW c \in Streams, c \in Calls, NEW q,
         NEW s, s = r.streams[c], NEW t, t = q.streams[c], t = [s EXCEPT !.stall = 0],
         q.listening = r.listening, q.lastSeq = r.lastSeq,
         s.done \/ s.waiting \/ Len(s.buffer) < BufferLimit \/ ~IsActive(q, c),
         NEW g, Flowing(r, g, c)
  PROVE  Flowing(q, g, c)
<1>1. /\ g \in Seq(Items) /\ Orderly(s) /\ InShape(FlowOf(g, s)) /\ Heeds(r, g, c)
      /\ TakesChunks(c)
  BY DEF Flowing, TakesChunks
<1>2. s \in StreamRec /\ StreamFields(s)
  BY SoundStreams
<1>3. /\ t.buffer = s.buffer /\ t.done = s.done /\ t.waiting = s.waiting /\ t.closed = s.closed
      /\ t.stall = 0
  BY <1>2 DEF StreamRec
<1>4. FlowOf(g, t) = FlowOf(g, s)
  BY <1>3 DEF FlowOf
<1>5. Orderly(t)
  BY <1>1, <1>3 DEF Orderly
<1>6. IsActive(q, c) => Guarded(t)
  <2>1. s.waiting => Len(s.buffer) < BufferLimit
    <3>1. Len(<<>>) = 0
      OBVIOUS
    <3> QED
      BY <1>1, <3>1, NodeRuntimeConstants DEF Orderly
  <2>2. Len(s.buffer) \in Nat
    BY <1>2 DEF StreamFields
  <2> QED
    BY <1>3, <2>1, <2>2, NodeRuntimeConstants DEF Guarded, Full
<1>7. Heeds(q, g, c)
  BY <1>1, <1>3, <1>4 DEF Heeds
<1> QED
  BY <1>1, <1>4, <1>5, <1>6, <1>7 DEF Flowing

(* The chunks of a call that is listened for are in line, and a call that was not made *)
(* has none.                                                                   *)
Lined(r, h, c) ==
  TakesChunks(c) /\ (h.state = "new" \/ (c \in r.listening /\ IsActive(r, c))) =>
    InLine(r.scheduler.tasks, c, r.lastSeq[c], h.chunks)

Untouched(r, g, h, c) ==
  h.state = "new" => /\ r.streams[c] = IdleStream /\ g = <<>>
                     /\ r.lastSeq[c] = -1 /\ h.chunks = 0

CallInv(r, g, h, c) == Flowing(r, g, c) /\ Lined(r, h, c) /\ Untouched(r, g, h, c)

FlowInv ==
  /\ got \in [Calls -> Seq(Items)]
  /\ \A c \in Calls : CallInv(rt, got[c], host[c], c)

(* What a step leaves as it is for c.                                           *)
SameStream(r, q, c) ==
  /\ q.streams[c] = r.streams[c] /\ q.lastSeq[c] = r.lastSeq[c]
  /\ c \in q.listening => c \in r.listening
  /\ IsActive(q, c) => IsActive(r, c)
Aside(r, q, c) == SameStream(r, q, c) /\ LineStays(r.scheduler.tasks, q.scheduler.tasks, c)

(* The call's part of the invariant then holds on.                             *)
LEMMA FlowStays ==
  ASSUME NEW r, NEW q, NEW c, SameStream(r, q, c), NEW g, Flowing(r, g, c)
  PROVE  Flowing(q, g, c)
BY DEF SameStream, Flowing, Heeds

LEMMA CallStays ==
  ASSUME NEW r, NEW q, NEW c, Aside(r, q, c), r.lastSeq[c] \in Int,
         NEW g, NEW h, h.chunks \in Int, CallInv(r, g, h, c),
         NEW k, k.chunks = h.chunks, k.state = "new" => h.state = "new"
  PROVE  CallInv(q, g, k, c)
<1>1. Flowing(q, g, c)
  BY FlowStays DEF CallInv, Aside
<1>2. Lined(q, k, c)
  BY DEF CallInv, Aside, SameStream, Lined, LineStays
<1>3. Untouched(q, g, k, c)
  BY DEF CallInv, Aside, SameStream, Untouched
<1> QED
  BY <1>1, <1>2, <1>3 DEF CallInv

(* A task that is no chunk of c moves its line as little as none.              *)
LEMMA SameLine ==
  ASSUME NEW T, NEW c
  PROVE  LineStays(T, T, c)
BY DEF LineStays

LEMMA LineApart ==
  ASSUME NEW S, NEW T \in Seq(S), NEW x, NEW c, ~ChunkOf(x, c), NEW U, U = Append(T, x)
  PROVE  LineStays(T, U, c)
<1>1. PICK n : n = Len(T)
  OBVIOUS
<1>2. T \in Seq(S \union {x}) /\ x \in S \union {x}
  OBVIOUS
<1>3. n \in Nat /\ Len(U) = n + 1 /\ U[n + 1] = x /\ \A i \in 1..n : U[i] = T[i]
  BY <1>1, <1>2
<1>4. \A i \in 1..(n + 1) : i > n => i = n + 1
  BY <1>3
<1>5. Len(T) \in Nat /\ Len(U) \in Nat /\ Len(T) <= Len(U)
  BY <1>1, <1>3
<1>6. \A i \in 1..Len(T) : U[i] = T[i]
  BY <1>1, <1>3
<1>7. \A i \in 1..Len(U) : i > Len(T) => ~ChunkOf(U[i], c)
  BY <1>1, <1>3, <1>4
<1> QED
  BY ONLY <1>5, <1>6, <1>7, LineBeforeOthers

LEMMA TaskJoinsLine ==
  ASSUME NEW r, Sound(r), NEW q, NEW c, TaskJoins(r, q, c), NEW d, d # c
  PROVE  LineStays(r.scheduler.tasks, q.scheduler.tasks, d)
<1>1. PICK n, o : q.scheduler.tasks = Append(r.scheduler.tasks, Completion(n, c, o))
  BY DEF TaskJoins
<1>2. ~ChunkOf(Completion(n, c, o), d)
  BY TaskFacts DEF ChunkOf
<1>3. r.scheduler.tasks \in Seq(RtTasks)
  BY RtInvParts DEF Sound, Sched, Schedulers
<1> QED
  BY <1>1, <1>2, <1>3, LineApart

(* The types the lemmas ask for.                                               *)
LEMMA CallTypes ==
  ASSUME NodeInv, NEW c \in Calls
  PROVE  /\ rt.lastSeq[c] \in Int /\ host[c].chunks \in Int
         /\ host[c].state \in {"new", "sent", "dispatched", "answered"}
         /\ c \in rt.pending \union rt.listening => host[c].state # "new"
         /\ rt.scheduler.tasks \in Seq(RtTasks)
<1>1. RtTypes(rt)
  BY NowIsInt, RtInvParts DEF Sound
<1>2. rt.lastSeq[c] \in -1..(MaxChunks + 1)
  BY <1>1 DEF RtTypes
<1>3. rt.lastSeq[c] \in Int
  BY <1>2, NodeRuntimeConstants
<1>4. host[c].chunks \in Nat /\ host[c].state \in {"new", "sent", "dispatched", "answered"}
  BY HostFields
<1>5. c \in rt.pending \union rt.listening => host[c].state # "new"
  BY NowIsInt DEF HostInv, Made
<1>6. rt.scheduler.tasks \in Seq(RtTasks)
  BY NowIsInt, RtInvParts DEF Sound, Sched, Schedulers
<1> QED
  BY <1>3, <1>4, <1>5, <1>6

(* A step that concerns c, and no other call.                                  *)
LEMMA FlowStep ==
  ASSUME NodeInv, FlowInv, NEW c \in Calls, CallInv(rt', got'[c], host'[c], c),
         got' \in [Calls -> Seq(Items)],
         \A d \in Calls \ {c} : /\ Aside(rt, rt', d) /\ got'[d] = got[d]
                                /\ host'[d].chunks = host[d].chunks
                                /\ host'[d].state = "new" => host[d].state = "new"
  PROVE  FlowInv'
<1>1. \A d \in Calls \ {c} : CallInv(rt', got'[d], host'[d], d)
  <2> TAKE d \in Calls \ {c}
  <2>1. CallInv(rt, got[d], host[d], d) /\ rt.lastSeq[d] \in Int /\ host[d].chunks \in Int
    BY CallTypes DEF FlowInv
  <2>2. CallInv(rt', got[d], host'[d], d)
    BY <2>1, CallStays
  <2> QED
    BY <2>2
<1>2. \A d \in Calls : CallInv(rt', got'[d], host'[d], d)
  BY <1>1
<1> QED
  BY <1>2 DEF FlowInv

(* A step that concerns no call.                                               *)
LEMMA FlowHolds ==
  ASSUME NodeInv, FlowInv, got' = got,
         \A d \in Calls : /\ Aside(rt, rt', d) /\ host'[d].chunks = host[d].chunks
                          /\ host'[d].state = "new" => host[d].state = "new"
  PROVE  FlowInv'
<1>1. \A d \in Calls : CallInv(rt', got[d], host'[d], d)
  <2> TAKE d \in Calls
  <2>1. CallInv(rt, got[d], host[d], d) /\ rt.lastSeq[d] \in Int /\ host[d].chunks \in Int
    BY CallTypes DEF FlowInv
  <2> QED
    BY <2>1, CallStays
<1> QED
  BY <1>1 DEF FlowInv

(* A call called off is out of line, and disturbs no other.                      *)
LEMMA CalledOffLines ==
  ASSUME NEW r, Sound(r), NEW q, NEW c, Remains(r, q), CalledOff(r, q, c)
  PROVE  /\ \A d : d # c => Aside(r, q, d)
         /\ SameStream(r, q, c)
         /\ IsActive(q, c) => LineStays(r.scheduler.tasks, q.scheduler.tasks, c)
<1>1. /\ q.pending = r.pending /\ q.listening = r.listening /\ q.streams = r.streams
      /\ q.lastSeq = r.lastSeq
  BY DEF Remains, Unheard
<1>2. CASE q.cancelled = r.cancelled /\ q.scheduler.tasks = r.scheduler.tasks
  <2>1. \A d : LineStays(r.scheduler.tasks, q.scheduler.tasks, d)
    BY <1>2, SameLine
  <2>2. \A d : SameStream(r, q, d)
    BY <1>1, <1>2 DEF SameStream, IsActive
  <2> QED
    BY <2>1, <2>2 DEF Aside
<1>3. CASE q.cancelled = r.cancelled \union {c} /\ TaskJoins(r, q, c)
  <2>1. \A d : d # c => LineStays(r.scheduler.tasks, q.scheduler.tasks, d)
    BY <1>3, TaskJoinsLine
  <2>2. \A d : SameStream(r, q, d)
    BY <1>1, <1>3 DEF SameStream, IsActive
  <2>3. ~IsActive(q, c)
    BY <1>3 DEF IsActive
  <2> QED
    BY <2>1, <2>2, <2>3 DEF Aside
<1> QED
  BY <1>2, <1>3 DEF CalledOff

(* A call stays in line as long as it is listened for and waits.                  *)
LEMMA StaysInLine ==
  ASSUME NEW r, NEW q, NEW c, NEW h, Lined(r, h, c), r.lastSeq[c] \in Int, h.chunks \in Int,
         h.state # "new", q.lastSeq[c] = r.lastSeq[c],
         c \in q.listening => c \in r.listening,
         IsActive(q, c) => IsActive(r, c) /\ LineStays(r.scheduler.tasks, q.scheduler.tasks, c)
  PROVE  Lined(q, h, c)
BY DEF Lined, LineStays

(* Nothing was told yet of a call that is made.                                  *)
LEMMA IdleFlows ==
  ASSUME NEW r, NEW c, r.streams[c] = IdleStream, r.lastSeq[c] = -1
  PROVE  Flowing(r, <<>>, c)
<1>1. /\ IdleStream.buffer = <<>> /\ ~IdleStream.done /\ ~IdleStream.closed /\ ~IdleStream.waiting
      /\ IdleStream.stall = 0
  BY DEF IdleStream
<1>2. PICK e : e = <<>>
  OBVIOUS
<1>3. e \in Seq(Items) /\ Len(e) = 0 /\ e \o e = e
  BY <1>2
<1>4. FlowOf(e, r.streams[c]) = e
  BY <1>1, <1>2, <1>3 DEF FlowOf
<1>5. InShape(e) /\ Complete(e, -1)
  <2>1. 1..Len(e) = {}
    BY <1>3
  <2> QED
    BY <1>3, <2>1 DEF InShape, Complete
<1>6. Orderly(r.streams[c]) /\ Guarded(r.streams[c])
  BY <1>1, <1>2, <1>3, NodeRuntimeConstants DEF Orderly, Guarded, Full
<1>7. Heeds(r, e, c)
  BY <1>1, <1>4, <1>5 DEF Heeds
<1>8. Flowing(r, e, c)
  BY <1>2, <1>3, <1>4, <1>5, <1>6, <1>7 DEF Flowing
<1> QED
  BY <1>2, <1>8

(* A call is made.                                                             *)
LEMMA CallFlow ==
  ASSUME NodeInv, FlowInv, IdsSuffice, NEW c \in Calls, Call(c)
  PROVE  FlowInv'
<1>1. Accepted(c) /\ Sound(rt)
  BY CallHolds, NowIsInt
<1>2. host[c].state = "new" /\ host' = [host EXCEPT ![c].state = "sent"] /\ got' = got
  BY DEF Call
<1>3. PICK k : k = host'[c]
  OBVIOUS
<1>4. k.state = "sent" /\ k.chunks = host[c].chunks /\ \A d \in Calls \ {c} : host'[d] = host[d]
  BY <1>2, <1>3, HostFields DEF HostRec
<1>5. /\ rt'.streams = rt.streams /\ rt'.lastSeq = rt.lastSeq
      /\ rt'.listening = rt.listening \union ({c} \ Exits) /\ rt'.cancelled = rt.cancelled \ {c}
      /\ \/ rt'.pending = rt.pending \union {c} /\ rt'.scheduler.tasks = rt.scheduler.tasks
         \/ rt'.pending = rt.pending \ {c} /\ TaskJoins(rt, rt', c)
  BY <1>1 DEF Accepted
<1>6. ASSUME NEW d \in Calls \ {c} PROVE Aside(rt, rt', d)
  <2>1. SameStream(rt, rt', d)
    BY <1>5 DEF SameStream, IsActive
  <2>2. LineStays(rt.scheduler.tasks, rt'.scheduler.tasks, d)
    BY <1>1, <1>5, SameLine, TaskJoinsLine
  <2> QED
    BY <2>1, <2>2 DEF Aside
<1>7. CallInv(rt, got[c], host[c], c)
  BY DEF FlowInv
<1>8. /\ rt.streams[c] = IdleStream /\ got[c] = <<>> /\ rt.lastSeq[c] = -1
  BY <1>2, <1>7 DEF CallInv, Untouched
<1>9. Flowing(rt', got[c], c)
  BY <1>5, <1>8, IdleFlows
<1>10. Lined(rt', k, c)
  <2> SUFFICES ASSUME TakesChunks(c), IsActive(rt', c)
               PROVE  InLine(rt'.scheduler.tasks, c, rt'.lastSeq[c], k.chunks)
    BY <1>4 DEF Lined
  <2>1. rt'.scheduler.tasks = rt.scheduler.tasks
    BY <1>5 DEF IsActive
  <2>2. InLine(rt.scheduler.tasks, c, rt.lastSeq[c], host[c].chunks)
    BY <1>2, <1>7 DEF CallInv, Lined
  <2> QED
    BY <1>4, <1>5, <2>1, <2>2
<1>11. CallInv(rt', got'[c], host'[c], c)
  BY <1>2, <1>3, <1>4, <1>9, <1>10 DEF CallInv, Untouched
<1> QED
  BY <1>2, <1>4, <1>6, <1>11, FlowStep DEF FlowInv

(* A reader asks for a chunk,                                                   *)
LEMMA PullFlow ==
  ASSUME NodeInv, FlowInv, IdsSuffice, NEW c \in Streams, Pull(c)
  PROVE  FlowInv'
<1>1. c \in Calls /\ now \in Int /\ Sound(rt) /\ rt.scheduler.nextId < MaxTimerId
  BY NodeRuntimeConstants, NowIsInt DEF IdsSuffice
<1>2. /\ rt' = AfterPull(rt, c) /\ host' = host /\ got' = [got EXCEPT ![c] = @ \o Pulled(rt.streams[c])]
      /\ Made(c) /\ ~rt.streams[c].waiting /\ ~rt.streams[c].closed
      /\ \A i \in 1..Len(got[c]) : got[c][i].item = "chunk"
  BY DEF Pull
<1>3. /\ Pushed(rt, rt') /\ Apart(rt, rt', c) /\ Gives(rt.streams[c], rt'.streams[c])
      /\ Watches(rt.streams[c], rt'.streams[c])
  BY <1>1, <1>2, AfterPullKeeps
<1>4. /\ Sound(rt') /\ rt'.pending = rt.pending /\ rt'.cancelled = rt.cancelled
      /\ rt'.listening = rt.listening /\ rt'.scheduler.tasks = rt.scheduler.tasks
      /\ rt'.lastSeq = rt.lastSeq
  BY <1>3 DEF Pushed, Kept
<1>5. CallInv(rt, got[c], host[c], c) /\ got \in [Calls -> Seq(Items)]
  BY <1>1 DEF FlowInv
<1>6. PICK h : h = got[c] \o Pulled(rt.streams[c])
  OBVIOUS
<1>7. Flowing(rt', h, c)
  <2>1. PICK s, t, g : s = rt.streams[c] /\ t = rt'.streams[c] /\ g = got[c]
    OBVIOUS
  <2>2. /\ Gives(s, t) /\ Watches(s, t) /\ ~s.waiting /\ ~s.closed
        /\ \A i \in 1..Len(g) : g[i].item = "chunk"
    BY <1>2, <1>3, <2>1
  <2>3. Flowing(rt, g, c) /\ h = g \o Pulled(s)
    BY <1>5, <1>6, <2>1 DEF CallInv
  <2> QED
    BY ONLY c \in Streams, <1>1, <1>4, <2>1, <2>2, <2>3, PullFlows
<1>8. h \in Seq(Items)
  BY <1>7 DEF Flowing
<1>9. got'[c] = h /\ got' \in [Calls -> Seq(Items)] /\ \A d \in Calls \ {c} : got'[d] = got[d]
  <2>1. got' = [got EXCEPT ![c] = h]
    BY <1>2, <1>6
  <2> QED
    BY <1>1, <1>5, <1>8, <2>1
<1>10. \A d : LineStays(rt.scheduler.tasks, rt'.scheduler.tasks, d)
  BY <1>4, SameLine
<1>11. Lined(rt', host[c], c)
  BY <1>1, <1>2, <1>4, <1>5, <1>10, StaysInLine, CallTypes DEF CallInv, Made, IsActive
<1>12. CallInv(rt', got'[c], host'[c], c)
  BY <1>2, <1>7, <1>9, <1>11 DEF CallInv, Untouched, Made
<1>13. \A d \in Calls \ {c} : Aside(rt, rt', d)
  BY <1>3, <1>4, <1>10 DEF Aside, SameStream, Apart, IsActive
<1> QED
  BY <1>1, <1>2, <1>9, <1>12, <1>13, FlowStep

(* leaves its loop,                                                            *)
LEMMA ReturnFlow ==
  ASSUME NodeInv, FlowInv, NEW c \in Streams, Return(c)
  PROVE  FlowInv'
<1>1. c \in Calls /\ Sound(rt)
  BY NodeRuntimeConstants, NowIsInt
<1>2. host' = host /\ got' = got /\ Made(c)
  BY DEF Return
<1>3. PICK stopped : stopped = IF rt.streams[c].done THEN rt ELSE CancelHostcall(rt, c)
  OBVIOUS
<1>4. Sound(stopped) /\ Remains(rt, stopped) /\ CalledOff(rt, stopped, c)
  <2>1. CASE rt.streams[c].done
    BY <1>1, <1>3, <2>1 DEF Remains, Unheard, CalledOff
  <2>2. CASE ~rt.streams[c].done
    BY <1>1, <1>3, <2>2, CancelKeeps
  <2> QED
    BY <2>1, <2>2
<1>5. StreamStep(stopped, rt') /\ Apart(stopped, rt', c) /\ Closed(rt'.streams[c])
  <2>1. rt' = [ClearStall(stopped, c) EXCEPT
                 !.streams[c] = [@ EXCEPT !.closed = TRUE, !.done = TRUE,
                                          !.buffer = <<>>, !.waiting = FALSE]]
    BY <1>3 DEF Return
  <2> QED
    BY <1>1, <1>4, <2>1, Stopped
<1>6. /\ \A d : d # c => Aside(rt, stopped, d)
      /\ SameStream(rt, stopped, c)
      /\ IsActive(stopped, c) => LineStays(rt.scheduler.tasks, stopped.scheduler.tasks, c)
  BY <1>1, <1>4, CalledOffLines
<1>7. /\ rt'.pending = stopped.pending /\ rt'.cancelled = stopped.cancelled
      /\ rt'.listening = stopped.listening /\ rt'.scheduler.tasks = stopped.scheduler.tasks
      /\ rt'.lastSeq = stopped.lastSeq
  BY <1>5 DEF StreamStep, Kept
<1>8. CallInv(rt, got[c], host[c], c)
  BY <1>1 DEF FlowInv
<1>9. Flowing(rt', got[c], c)
  BY <1>1, <1>5, <1>8, CloseFlows DEF CallInv
<1>10. Lined(rt', host[c], c)
  BY <1>1, <1>2, <1>6, <1>7, <1>8, StaysInLine, CallTypes DEF CallInv, Made, IsActive, SameStream
<1>11. CallInv(rt', got'[c], host'[c], c)
  BY <1>2, <1>9, <1>10 DEF CallInv, Untouched, Made
<1>12. ASSUME NEW d \in Calls \ {c} PROVE Aside(rt, rt', d)
  BY <1>5, <1>6, <1>7 DEF Aside, SameStream, Apart, IsActive
<1> QED
  BY <1>1, <1>2, <1>11, <1>12, FlowStep DEF FlowInv

(* a call is cancelled,                                                         *)
LEMMA CancelFlow ==
  ASSUME NodeInv, FlowInv, NEW c \in Calls, Cancel(c)
  PROVE  FlowInv'
<1>1. Sound(rt) /\ rt' = CancelHostcall(rt, c) /\ host' = host /\ got' = got /\ Made(c)
  BY NowIsInt DEF Cancel
<1>2. /\ \A d : d # c => Aside(rt, rt', d)
      /\ SameStream(rt, rt', c)
      /\ IsActive(rt', c) => LineStays(rt.scheduler.tasks, rt'.scheduler.tasks, c)
  BY <1>1, CancelKeeps, CalledOffLines
<1>3. CallInv(rt, got[c], host[c], c)
  BY DEF FlowInv
<1>4. Flowing(rt', got[c], c)
  BY <1>2, <1>3, FlowStays DEF CallInv
<1>5. Lined(rt', host[c], c)
  BY <1>1, <1>2, <1>3, StaysInLine, CallTypes DEF CallInv, Made, SameStream
<1>6. CallInv(rt', got'[c], host'[c], c)
  BY <1>1, <1>4, <1>5 DEF CallInv, Untouched, Made
<1> QED
  BY <1>1, <1>2, <1>6, FlowStep DEF FlowInv

(* the program's own timers come and go,                                         *)
LEMMA UserTimerFlow ==
  ASSUME NodeInv, FlowInv, Kept(rt, rt'), Unheard(rt, rt'), host' = host, got' = got
  PROVE  FlowInv'
<1>1. \A d \in Calls : Aside(rt, rt', d)
  BY SameLine DEF Kept, Unheard, Aside, SameStream, IsActive
<1> QED
  BY <1>1, FlowHolds

(* the host takes the requests                                                  *)
LEMMA DrainFlow ==
  ASSUME NodeInv, FlowInv, DrainHostcallRequests
  PROVE  FlowInv'
<1>1. Drained /\ got' = got
  BY DrainHolds DEF DrainHostcallRequests
<1>2. \A d \in Calls : Aside(rt, rt', d)
  BY <1>1, SameLine DEF Drained, Outside, Aside, SameStream, IsActive
<1> QED
  BY <1>1, <1>2, FlowHolds DEF Drained

(* and sends outcomes, its chunks in order.                                      *)
LEMMA CompleteFlow ==
  ASSUME NodeInv, FlowInv, NEW c \in Calls, NEW o \in Outcomes(c), CompleteHostcall(c, o)
  PROVE  FlowInv'
<1>1. Sent(c, o) /\ got' = got /\ rt.scheduler.tasks \in Seq(RtTasks)
  BY CompleteHolds, CallTypes DEF CompleteHostcall
<1>2. PICK n \in Nat : rt'.scheduler.tasks = Append(rt.scheduler.tasks, Completion(n, c, o))
  BY <1>1 DEF Sent
<1>3. /\ Outside /\ o \in AllOutcomes /\ (o.type = "chunk" => o.seq = host[c].chunks)
      /\ host'[c].chunks = host[c].chunks + (IF o.type = "chunk" THEN 1 ELSE 0)
      /\ host[c].state # "new" /\ host'[c].state # "new"
      /\ \A d \in Calls \ {c} : host'[d] = host[d]
  BY <1>1 DEF Sent
<1>4. \A d : SameStream(rt, rt', d)
  BY <1>3 DEF Outside, SameStream, IsActive
<1>5. ASSUME NEW d, ~ChunkOf(Completion(n, c, o), d)
      PROVE  LineStays(rt.scheduler.tasks, rt'.scheduler.tasks, d)
  BY <1>1, <1>2, <1>5, LineApart
<1>6. PICK x : x = Completion(n, c, o)
  OBVIOUS
<1>7. x.kind = "hostcall" /\ x.call = c /\ x.outcome = o
  BY <1>6, TaskFacts
<1>8. ASSUME NEW d \in Calls \ {c} PROVE Aside(rt, rt', d)
  BY <1>4, <1>5, <1>6, <1>7 DEF Aside, ChunkOf
<1>9. CallInv(rt, got[c], host[c], c) /\ rt.lastSeq[c] \in Int /\ host[c].chunks \in Int
  BY CallTypes DEF FlowInv
<1>10. Flowing(rt', got[c], c)
  BY <1>4, <1>9, FlowStays DEF CallInv
<1>11. Lined(rt', host'[c], c)
  <2> SUFFICES ASSUME TakesChunks(c), c \in rt'.listening, IsActive(rt', c)
               PROVE  InLine(rt'.scheduler.tasks, c, rt'.lastSeq[c], host'[c].chunks)
    BY <1>3 DEF Lined
  <2>1. InLine(rt.scheduler.tasks, c, rt.lastSeq[c], host[c].chunks) /\ rt'.lastSeq[c] = rt.lastSeq[c]
    BY <1>4, <1>9 DEF CallInv, Lined, SameStream
  <2>2. CASE o.type # "chunk"
    <3>1. LineStays(rt.scheduler.tasks, rt'.scheduler.tasks, c) /\ host'[c].chunks = host[c].chunks
      BY <1>3, <1>5, <1>6, <1>7, <1>9, <2>2 DEF ChunkOf
    <3> QED
      BY <1>9, <2>1, <3>1 DEF LineStays
  <2>3. CASE o.type = "chunk"
    <3>1. ChunkOf(x, c) /\ x.outcome.seq = host[c].chunks /\ host'[c].chunks = host[c].chunks + 1
      BY <1>3, <1>7, <2>3 DEF ChunkOf
    <3>2. PICK S : S = RtTasks \union {x}
      OBVIOUS
    <3>3. rt.scheduler.tasks \in Seq(S) /\ x \in S
      BY <1>1, <3>2
    <3>4. InLine(Append(rt.scheduler.tasks, x), c, rt.lastSeq[c], host[c].chunks + 1)
      BY <1>9, <2>1, <3>1, <3>3, LineGoesOn
    <3> QED
      BY <1>2, <1>6, <2>1, <3>1, <3>4
  <2> QED
    BY <2>2, <2>3
<1>12. CallInv(rt', got'[c], host'[c], c)
  BY <1>1, <1>3, <1>10, <1>11 DEF CallInv, Untouched
<1> QED
  BY <1>1, <1>3, <1>8, <1>12, FlowStep DEF FlowInv

(* Two steps that leave a call alone are one.                                   *)
LEMMA AsideThen ==
  ASSUME NEW r, NEW u, NEW q, NEW d, Aside(r, u, d), Aside(u, q, d)
  PROVE  Aside(r, q, d)
BY DEF Aside, SameStream, LineStays

(* The outcome of a call that waits is delivered.                                *)
LEMMA DeliveredFlow ==
  ASSUME NodeInv, FlowInv, IdsSuffice, host' = host, NEW c \in Calls, c \in rt.pending,
         NEW o \in AllOutcomes, NEW before, Sound(before),
         before.scheduler.nextId = rt.scheduler.nextId,
         \A d \in Calls \ {c} : Aside(rt, before, d), SameStream(rt, before, c),
         before.listening = rt.listening,
         Partial(o) => LineMoves(rt.scheduler.tasks, before.scheduler.tasks, c, o.seq) /\ IsActive(rt, c),
         Delivered(before, c, o)
  PROVE  FlowInv'
<1>1. now \in Int /\ before.scheduler.nextId < MaxTimerId
  BY NowIsInt DEF IdsSuffice
<1>2. rt' = Deliver(before, c, o) /\ got' = [got EXCEPT ![c] = @ \o Tells(before, c, o)]
  BY DEF Delivered
<1>3. Handed(before, rt', c, o) /\ Hears(before, rt', c, o) /\ Sound(rt')
  BY <1>1, <1>2, DeliverKeeps DEF Handed
<1>4. /\ CallInv(rt, got[c], host[c], c) /\ got \in [Calls -> Seq(Items)]
      /\ rt.lastSeq[c] \in Int /\ host[c].chunks \in Int /\ host[c].state # "new"
  BY CallTypes DEF FlowInv
<1>5. Flowing(before, got[c], c)
  BY <1>4, FlowStays DEF CallInv
<1>6. ASSUME Partial(o), ~Deaf(before, c), TakesChunks(c)
      PROVE  /\ o.seq = before.lastSeq[c] + 1
             /\ InLine(before.scheduler.tasks, c, o.seq, host[c].chunks)
  <2>1. InLine(rt.scheduler.tasks, c, rt.lastSeq[c], host[c].chunks)
    BY <1>4, <1>6 DEF CallInv, Lined, Deaf
  <2>2. o.seq = rt.lastSeq[c] + 1 /\ InLine(before.scheduler.tasks, c, o.seq, host[c].chunks)
    BY <1>4, <1>6, <2>1 DEF LineMoves
  <2> QED
    BY <2>2 DEF SameStream
<1>7. PICK h, told : told = Tells(before, c, o) /\ h = got[c] \o told
  OBVIOUS
<1>8. Flowing(rt', h, c)
  <2>1. PICK g : g = got[c]
    OBVIOUS
  <2>2. Flowing(before, g, c) /\ h = g \o Tells(before, c, o)
    BY <1>5, <1>7, <2>1
  <2>3. Partial(o) /\ ~Deaf(before, c) /\ TakesChunks(c) => o.seq = before.lastSeq[c] + 1
    BY <1>6
  <2> QED
    BY <1>3, <2>2, <2>3, DeliverFlows
<1>9. h \in Seq(Items)
  BY <1>8 DEF Flowing
<1>10. got'[c] = h /\ got' \in [Calls -> Seq(Items)] /\ \A d \in Calls \ {c} : got'[d] = got[d]
  <2>1. got' = [got EXCEPT ![c] = h]
    BY <1>2, <1>7
  <2> QED
    BY <1>4, <1>9, <2>1
<1>11. Lined(rt', host[c], c)
  <2> SUFFICES ASSUME TakesChunks(c), c \in rt'.listening
               PROVE  InLine(rt'.scheduler.tasks, c, rt'.lastSeq[c], host[c].chunks)
    BY <1>4 DEF Lined
  <2>1. Partial(o)
    BY <1>3 DEF Handed
  <2>2. ~Deaf(before, c)
    BY <1>3 DEF Hears, Unheard, Deaf
  <2>3. ~Breaks(before, c, o) /\ o.type = "chunk"
    BY <1>3, <2>1, <2>2 DEF Hears, Partial
  <2>4. rt'.lastSeq[c] = o.seq /\ rt'.scheduler.tasks = before.scheduler.tasks
    BY <1>3, <2>2, <2>3 DEF Hears, Beside
  <2> QED
    BY <1>6, <2>1, <2>2, <2>4
<1>12. CallInv(rt', got'[c], host'[c], c)
  BY <1>4, <1>8, <1>10, <1>11 DEF CallInv, Untouched
<1>13. ASSUME NEW d \in Calls \ {c} PROVE Aside(rt, rt', d)
  <2>1. /\ rt'.streams[d] = before.streams[d] /\ rt'.lastSeq[d] = before.lastSeq[d]
        /\ rt'.cancelled = before.cancelled /\ rt'.pending = before.pending
        /\ rt'.scheduler.tasks = before.scheduler.tasks
    BY <1>3 DEF Hears, Beside, Apart
  <2>2. d \in rt'.listening => d \in before.listening
    BY <1>3 DEF Handed
  <2>3. Aside(before, rt', d)
    BY <2>1, <2>2, SameLine DEF Aside, SameStream, IsActive
  <2> QED
    BY <2>3, AsideThen
<1> QED
  BY <1>10, <1>12, <1>13, FlowStep

(* What a tick turned leaves every call alone but for the lines.                 *)
LEMMA TurnedAside ==
  ASSUME NEW r, Turned(r)
  PROVE  /\ \A d : SameStream(rt, r, d)
         /\ \A d : LineStays(rt.scheduler.tasks, r.scheduler.tasks, d) => Aside(rt, r, d)
BY DEF Turned, Unheard, Aside, SameStream, IsActive

(* A tick whose task is an outcome: delivered, or too late for anybody.          *)
LEMMA OutcomeFlow ==
  ASSUME NodeInv, FlowInv, IdsSuffice, host' = host, NEW c \in Calls, NEW o \in AllOutcomes,
         NEW r, Turned(r), HandsOut(r, c, o)
  PROVE  FlowInv'
<1>1. PICK n : HostcallComplete(r, Completion(n, c, o))
  BY DEF HandsOut
<1>2. PICK task : task = Completion(n, c, o)
  OBVIOUS
<1>3. task.call = c /\ task.outcome = o /\ HostcallComplete(r, task)
  BY <1>1, <1>2, TaskFacts
<1>4. /\ r.pending = rt.pending /\ r.cancelled = rt.cancelled /\ r.listening = rt.listening
      /\ r.scheduler.nextId = rt.scheduler.nextId /\ (IsActive(r, c) <=> IsActive(rt, c))
  BY DEF Turned, Unheard, IsActive
<1>5. /\ \A d : SameStream(rt, r, d)
      /\ \A d \in Calls \ {c} : Aside(rt, r, d)
  BY TurnedAside DEF HandsOut
<1>6. CASE Partial(o) /\ IsActive(r, c)
  <2>1. Delivered(r, c, o)
    BY <1>3, <1>6 DEF HostcallComplete, Partial
  <2>2. Sound(r) /\ LineMoves(rt.scheduler.tasks, r.scheduler.tasks, c, o.seq)
    BY <1>6 DEF HandsOut, Sound, Partial
  <2>3. c \in rt.pending
    BY <1>4, <1>6 DEF IsActive
  <2> QED
    BY <1>4, <1>5, <1>6, <2>1, <2>2, <2>3, DeliveredFlow
<1>7. CASE ~Partial(o) /\ c \in r.pending
  <2>1. PICK u : u = Completed(r, c)
    OBVIOUS
  <2>2. Delivered(u, c, o)
    BY <1>3, <1>7, <2>1 DEF HostcallComplete, Partial
  <2>3. Forgotten(r, u, c)
    BY <1>7, <2>1, CompletedKeeps DEF HandsOut
  <2>4. /\ Sound(u) /\ u.scheduler.nextId = rt.scheduler.nextId /\ u.listening = rt.listening
        /\ u.scheduler.tasks = r.scheduler.tasks
    BY <1>4, <2>3 DEF Forgotten, Unheard
  <2>5. \A d : SameStream(r, u, d)
    BY <2>3 DEF Forgotten, Unheard, SameStream, IsActive
  <2>6. SameStream(rt, u, c)
    BY <1>5, <2>5 DEF SameStream
  <2>7. \A d \in Calls \ {c} : Aside(rt, u, d)
    <3> TAKE d \in Calls \ {c}
    <3>1. Aside(r, u, d)
      BY <2>4, <2>5, SameLine DEF Aside
    <3> QED
      BY <1>5, <3>1, AsideThen
  <2> QED
    BY <1>4, <1>7, <2>2, <2>4, <2>6, <2>7, DeliveredFlow
<1>8. CASE \/ Partial(o) /\ ~IsActive(r, c)
           \/ ~Partial(o) /\ c \notin r.pending
  <2>1. rt' = r /\ got' = got
    BY <1>3, <1>8 DEF HostcallComplete, Partial
  <2>2. ~IsActive(rt, c)
    BY <1>4, <1>8 DEF IsActive
  <2>3. /\ CallInv(rt, got[c], host[c], c)
        /\ rt.lastSeq[c] \in Int /\ host[c].chunks \in Int
    BY CallTypes DEF FlowInv
  <2>4. Flowing(r, got[c], c)
    BY <1>5, <2>3, FlowStays DEF CallInv
  <2>5. Lined(r, host[c], c)
    <3> SUFFICES ASSUME TakesChunks(c), host[c].state = "new"
                 PROVE  InLine(r.scheduler.tasks, c, r.lastSeq[c], host[c].chunks)
      BY <1>4, <2>2 DEF Lined
    <3>1. InLine(rt.scheduler.tasks, c, rt.lastSeq[c], host[c].chunks)
      BY <2>3 DEF CallInv, Lined
    <3>2. rt.lastSeq[c] = -1 /\ host[c].chunks = 0
      BY <2>3 DEF CallInv, Untouched
    <3>3. o.type # "chunk"
      <4> SUFFICES ASSUME o.type = "chunk" PROVE FALSE
        OBVIOUS
      <4>1. LineMoves(rt.scheduler.tasks, r.scheduler.tasks, c, o.seq)
        BY DEF HandsOut
      <4>2. o.seq = rt.lastSeq[c] + 1 /\ o.seq < host[c].chunks
        BY <2>3, <3>1, <4>1 DEF LineMoves
      <4> QED
        BY <3>2, <4>2
    <3>4. LineStays(rt.scheduler.tasks, r.scheduler.tasks, c)
      BY <3>3 DEF HandsOut
    <3> QED
      BY <1>5, <2>3, <3>1, <3>4 DEF LineStays, SameStream
  <2>6. CallInv(rt', got'[c], host'[c], c)
    BY <1>5, <2>1, <2>3, <2>4, <2>5 DEF CallInv, Untouched, SameStream
  <2> QED
    BY <1>5, <2>1, <2>6, FlowStep DEF FlowInv
<1> QED
  BY <1>6, <1>7, <1>8

(* A tick whose task is a timer: of a call, of a stream, or the program's.         *)
LEMMA TimerFlow ==
  ASSUME NodeInv, FlowInv, IdsSuffice, host' = host, NEW id \in TimerIds,
         NEW r, Turned(r), Rings(r, id)
  PROVE  FlowInv'
<1>1. /\ RtInv(r, {id}, {}) /\ id \notin LiveIn(r.scheduler) /\ TimerFired(r, id)
      /\ \A d : LineStays(rt.scheduler.tasks, r.scheduler.tasks, d)
  BY DEF Rings
<1>2. /\ r.pending = rt.pending /\ r.cancelled = rt.cancelled /\ r.listening = rt.listening
      /\ r.streams = rt.streams /\ r.lastSeq = rt.lastSeq
      /\ r.scheduler.nextId = rt.scheduler.nextId
  BY DEF Turned, Unheard
<1>3. \A d : Aside(rt, r, d)
  BY <1>1, TurnedAside
<1>4. /\ r.timerCall[id] \in Calls \union {NoCall} /\ Timed(r) /\ Stalls(r)
      /\ r.streams \in [Calls -> StreamRec]
  BY <1>1, RtInvParts DEF RtTypes
<1>5. CASE r.timerCall[id] # NoCall
  <2>1. PICK c \in Calls : c = r.timerCall[id]
    BY <1>4, <1>5
  <2>2. PICK u, o : u = TimedOut(r, c) /\ o = Failed("timeout")
    OBVIOUS
  <2>3. /\ Sound(u) /\ u.scheduler.nextId = rt.scheduler.nextId /\ u.pending = r.pending \ {c}
        /\ u.cancelled = r.cancelled \ {c} /\ Unheard(r, u) /\ u.scheduler.tasks = r.scheduler.tasks
    <3>1. Rung(r, id) /\ r.timerCall[id] = c /\ u = TimedOut(r, c)
      BY <1>1, <2>1, <2>2 DEF Rung
    <3>2. Forgotten(r, u, c)
      BY ONLY id \in TimerIds, c \in Calls, <3>1, TimedOutKeeps
    <3> QED
      BY <1>2, <3>2 DEF Forgotten
  <2>4. o \in AllOutcomes /\ ~Partial(o) /\ Delivered(u, c, o)
    BY <1>1, <1>5, <2>1, <2>2, OutcomeFacts DEF TimerFired
  <2>5. c \in rt.pending
    BY <1>2, <1>4, <1>5, <2>1 DEF Timed, IsActive
  <2>6. \A d : Aside(r, u, d)
    BY <2>3, SameLine DEF Unheard, Aside, SameStream, IsActive
  <2>7. \A d : Aside(rt, u, d)
    BY <1>3, <2>6, AsideThen
  <2>8. SameStream(rt, u, c) /\ u.listening = rt.listening
    BY <1>2, <2>3, <2>7 DEF Aside, Unheard
  <2> QED
    BY <2>3, <2>4, <2>5, <2>7, <2>8, DeliveredFlow
<1>6. CASE r.timerCall[id] = NoCall
  <2>1. PICK fired : fired = [r EXCEPT !.callbacks[id] = "none"]
    OBVIOUS
  <2>2. /\ rt' = IF r.callbacks[id] \in Calls THEN StallCallback(fired, r.callbacks[id]) ELSE fired
        /\ got' = got
    BY <1>1, <1>6, <2>1 DEF TimerFired
  <2>3. CASE r.callbacks[id] \notin Calls
    <3>1. Taken(r, rt') /\ rt'.streams = r.streams
      <4>1. Rung(r, id) /\ NoCallback(r, rt', id)
        BY <1>1, <2>1, <2>2, <2>3 DEF Rung, NoCallback
      <4> QED
        BY <1>6, <2>3, <4>1, CallbackTaken
    <3>2. \A d : Aside(r, rt', d)
      BY <3>1, SameLine DEF Taken, Aside, SameStream, IsActive
    <3>3. \A d : Aside(rt, rt', d)
      BY <1>3, <3>2, AsideThen
    <3> QED
      BY <2>2, <3>3, FlowHolds
  <2>4. CASE r.callbacks[id] \in Calls
    <3>1. PICK c \in Calls : c = r.callbacks[id]
      BY <2>4
    <3>2. PICK off : off = [fired EXCEPT !.streams[c].stall = 0]
      OBVIOUS
    <3>3. Taken(r, off) /\ off.streams = [r.streams EXCEPT ![c].stall = 0]
      <4>1. Rung(r, id) /\ NoCallback(r, fired, id) /\ NoStall(fired, off, c)
        BY <1>1, <2>1, <3>2 DEF Rung, NoCallback, NoStall
      <4>2. StallTaken(r, off, c)
        BY <1>6, <3>1, <4>1, CallbackTaken
      <4> QED
        BY <4>2 DEF StallTaken
    <3>4. /\ Sound(off) /\ off.pending = r.pending /\ off.cancelled = r.cancelled
          /\ off.listening = r.listening /\ off.lastSeq = r.lastSeq /\ off.scheduler = r.scheduler
      BY <3>3 DEF Taken
    <3>5. PICK s : s = r.streams[c]
      OBVIOUS
    <3>6. off.streams[c] = [s EXCEPT !.stall = 0] /\ Apart(r, off, c)
      BY <1>4, <3>3, <3>5 DEF Apart
    <3>7. rt' = IF s.done \/ s.waiting \/ Len(s.buffer) < BufferLimit THEN off ELSE CancelHostcall(off, c)
      <4>1. fired.streams[c] = s
        <5>1. fired.streams = r.streams
          BY <1>1, <2>1, RtInvParts DEF Runtimes
        <5> QED
          BY <3>5, <5>1
      <4> QED
        BY <2>2, <2>4, <3>1, <3>2, <4>1 DEF StallCallback
    <3>8. /\ CallInv(rt, got[c], host[c], c) /\ rt.lastSeq[c] \in Int /\ host[c].chunks \in Int
      BY CallTypes DEF FlowInv
    <3>9. c \in Streams
      <4>1. s.stall # 0
        BY <1>4, <3>1, <3>5, IdsArePositive DEF Stalls
      <4> QED
        BY <1>2, <3>5, <3>8, <4>1 DEF CallInv, Flowing, IdleStream
    <3>10. /\ \A d : d # c => Aside(off, rt', d)
           /\ SameStream(off, rt', c)
           /\ IsActive(rt', c) => LineStays(off.scheduler.tasks, rt'.scheduler.tasks, c)
           /\ s.done \/ s.waiting \/ Len(s.buffer) < BufferLimit \/ ~IsActive(rt', c)
           /\ rt'.listening = off.listening /\ rt'.streams = off.streams /\ rt'.lastSeq = off.lastSeq
      <4>1. CASE s.done \/ s.waiting \/ Len(s.buffer) < BufferLimit
        BY <3>7, <4>1, SameLine DEF Aside, SameStream
      <4>2. CASE ~(s.done \/ s.waiting \/ Len(s.buffer) < BufferLimit)
        <5>1. rt' = CancelHostcall(off, c)
          BY <3>7, <4>2
        <5>2. Remains(off, rt') /\ CalledOff(off, rt', c) /\ ~IsActive(rt', c)
          BY <3>4, <5>1, CancelKeeps
        <5> QED
          BY <3>4, <5>2, CalledOffLines DEF Remains, Unheard
      <4> QED
        BY <4>1, <4>2
    <3>11. ASSUME NEW d \in Calls \ {c} PROVE Aside(rt, rt', d)
      <4>1. Aside(r, off, d)
        BY <3>4, <3>6, SameLine DEF Aside, SameStream, IsActive, Apart
      <4> QED
        BY <1>3, <3>10, <4>1, AsideThen
    <3>12. Flowing(rt', got[c], c)
      <4>1. rt'.listening = rt.listening /\ rt'.lastSeq = rt.lastSeq /\ rt'.streams[c] = [s EXCEPT !.stall = 0]
            /\ s = rt.streams[c]
        BY <1>2, <3>4, <3>5, <3>6, <3>10
      <4>2. Flowing(rt, got[c], c) /\ Sound(rt)
        BY <3>8, NowIsInt DEF CallInv
      <4> QED
        BY <3>9, <3>10, <4>1, <4>2, StallFlows
    <3>13. host[c].state # "new"
      <4>1. s.stall # 0
        BY <1>4, <3>1, <3>5, IdsArePositive DEF Stalls
      <4> QED
        BY <1>2, <3>5, <3>8, <4>1 DEF CallInv, Untouched, IdleStream
    <3>14. Lined(rt', host[c], c)
      <4>1. IsActive(rt', c) => IsActive(rt, c) /\ LineStays(rt.scheduler.tasks, rt'.scheduler.tasks, c)
        BY <1>1, <1>2, <3>4, <3>10 DEF SameStream, IsActive, LineStays
      <4>2. rt'.listening = rt.listening /\ rt'.lastSeq = rt.lastSeq
        BY <1>2, <3>4, <3>10
      <4> QED
        BY <3>8, <3>13, <4>1, <4>2, StaysInLine DEF CallInv
    <3>15. CallInv(rt', got'[c], host'[c], c)
      BY <2>2, <3>12, <3>13, <3>14 DEF CallInv, Untouched
    <3> QED
      BY <2>2, <3>11, <3>15, FlowStep DEF FlowInv
  <2> QED
    BY <2>3, <2>4
<1> QED
  BY <1>5, <1>6

(* Every tick.                                                                  *)
LEMMA TickFlow ==
  ASSUME NodeInv, FlowInv, IdsSuffice, TickRuntime
  PROVE  FlowInv'
<1>1. host' = host
  BY DEF TickRuntime
<1>2. PICK r : /\ Turned(r)
               /\ \/ Idles(r)
                  \/ \E c \in Calls : \E o \in AllOutcomes : HandsOut(r, c, o)
                  \/ \E id \in TimerIds : Rings(r, id)
  BY TickCases
<1>3. CASE Idles(r)
  <2>1. rt' = r /\ got' = got /\ \A d : LineStays(rt.scheduler.tasks, r.scheduler.tasks, d)
    BY <1>3 DEF Idles
  <2>2. \A d : Aside(rt, rt', d)
    BY <1>2, <2>1, TurnedAside
  <2> QED
    BY <1>1, <2>1, <2>2, FlowHolds
<1>4. CASE \E c \in Calls : \E o \in AllOutcomes : HandsOut(r, c, o)
  <2>1. PICK c \in Calls, o \in AllOutcomes : HandsOut(r, c, o)
    BY <1>4
  <2> QED
    BY <1>1, <1>2, <2>1, OutcomeFlow
<1>5. CASE \E id \in TimerIds : Rings(r, id)
  <2>1. PICK id \in TimerIds : Rings(r, id)
    BY <1>5
  <2> QED
    BY <1>1, <1>2, <2>1, TimerFlow
<1> QED
  BY <1>2, <1>3, <1>4, <1>5

(* The flows are in order at first,                                              *)
LEMMA FlowInit == Init => FlowInv
<1> SUFFICES ASSUME Init PROVE FlowInv
  OBVIOUS
<1>1. PICK e : e = <<>>
  OBVIOUS
<1>2. got = [c \in Calls |-> e] /\ e \in Seq(Items)
  BY <1>1 DEF Init
<1>3. ASSUME NEW c \in Calls PROVE CallInv(rt, got[c], host[c], c)
  <2>1. /\ rt.streams[c] = IdleStream /\ rt.lastSeq[c] = -1 /\ rt.listening = {}
        /\ rt.scheduler = EmptyScheduler
    BY DEF Init
  <2>2. host[c].state = "new" /\ host[c].chunks = 0
    BY DEF Init
  <2>3. got[c] = <<>>
    BY <1>1, <1>2
  <2>4. Flowing(rt, got[c], c)
    BY <2>1, <2>3, IdleFlows
  <2>5. InLine(rt.scheduler.tasks, c, rt.lastSeq[c], host[c].chunks)
    <3>1. rt.scheduler.tasks = <<>>
      BY <2>1 DEF EmptyScheduler
    <3>2. PICK T : T = rt.scheduler.tasks
      OBVIOUS
    <3>3. 1..Len(T) = {}
      BY <3>1, <3>2
    <3>4. (-1 + 1)..(0 - 1) = {} /\ -1 < 0
      OBVIOUS
    <3>5. InLine(T, c, -1, 0)
      BY <3>3, <3>4 DEF InLine
    <3> QED
      BY <2>1, <2>2, <3>2, <3>5
  <2> QED
    BY <2>1, <2>2, <2>3, <2>4, <2>5 DEF CallInv, Lined, Untouched
<1> QED
  BY <1>2, <1>3 DEF FlowInv

(* every step keeps them so,                                                     *)
LEMMA FlowNext == NodeInv /\ FlowInv /\ IdsSuffice /\ [Next]_vars => FlowInv'
<1> SUFFICES ASSUME NodeInv, FlowInv, IdsSuffice, [Next]_vars PROVE FlowInv'
  OBVIOUS
<1>1. now \in Int /\ Sound(rt) /\ rt.scheduler.nextId < MaxTimerId
  BY NowIsInt DEF IdsSuffice
<1>2. ASSUME NEW delay \in 0..1, SetUserTimer(delay) PROVE FlowInv'
  <2>1. delay \in Int
    OBVIOUS
  <2>2. rt' = SetTimer(rt, delay, "user") /\ host' = host /\ got' = got
    BY <1>2 DEF SetUserTimer
  <2> QED
    BY <1>1, <2>1, <2>2, UserTimerSet, UserTimerFlow
<1>3. ASSUME NEW id \in TimerIds, ClearUserTimer(id) PROVE FlowInv'
  <2>1. /\ rt.callbacks[id] = "user" /\ rt' = ClearTimer(rt, id)
        /\ host' = host /\ got' = got
    BY <1>3 DEF ClearUserTimer, UserTimers
  <2> QED
    BY <1>1, <2>1, UserTimerCleared, UserTimerFlow
<1>4. CASE Program
  BY <1>2, <1>3, <1>4, CallFlow, PullFlow, ReturnFlow, CancelFlow DEF Program
<1>5. CASE Host
  BY <1>5, DrainFlow, CompleteFlow DEF Host
<1>6. CASE TickRuntime
  BY <1>6, TickFlow
<1>7. CASE Clock \/ UNCHANGED vars
  <2>1. rt' = rt /\ host' = host /\ got' = got
    BY <1>7 DEF Clock, vars
  <2> QED
    BY <2>1 DEF FlowInv
<1> QED
  BY <1>4, <1>5, <1>6, <1>7 DEF Next

(* and they imply what the run checks.                                           *)
LEMMA FlowImplies == NodeInv /\ FlowInv => ChunksInOrder /\ FullStreamsAreWatched
<1> SUFFICES ASSUME NodeInv, FlowInv PROVE ChunksInOrder /\ FullStreamsAreWatched
  OBVIOUS
<1>1. ASSUME NEW c \in Calls PROVE Flowing(rt, got[c], c)
  BY DEF FlowInv, CallInv
<1>2. ASSUME NEW c \in Calls PROVE InShape(got[c])
  <2>1. StreamFields(rt.streams[c])
    BY NowIsInt, SoundStreams
  <2>2. rt.streams[c].buffer \in Seq(Items)
    BY <2>1 DEF StreamFields
  <2>3. got[c] \in Seq(Items) /\ InShape(got[c] \o rt.streams[c].buffer)
    BY <1>1 DEF Flowing, FlowOf
  <2> QED
    BY <2>2, <2>3, ShapeOfTold
<1>3. ChunksInOrder
  BY <1>2 DEF ChunksInOrder, InShape
<1>4. Stalls(rt)
  BY NowIsInt, RtInvParts DEF Sound
<1>5. ASSUME NEW c \in Calls
      PROVE  /\ StallTimeout > 0 /\ Full(rt.streams[c]) /\ IsActive(rt, c) => rt.streams[c].stall # 0
             /\ rt.streams[c].stall # 0 => Full(rt.streams[c]) /\ rt.callbacks[rt.streams[c].stall] = c
  BY <1>1, <1>4 DEF Flowing, Guarded, Orderly, Full, Stalls
<1>6. FullStreamsAreWatched
  BY <1>5 DEF FullStreamsAreWatched, Full
<1> QED
  BY <1>3, <1>6

(* A step that tells no cancelled call anything: CancelledIsQuiet of one step.     *)
Muted == \A c \in rt.cancelled : c \in rt'.cancelled => rt'.lastSeq[c] = rt.lastSeq[c]

(* An outcome is heard of a call that was not cancelled or is no longer.           *)
LEMMA DeliveredIsQuiet ==
  ASSUME NodeInv, IdsSuffice, NEW c \in Calls, NEW o \in AllOutcomes, NEW before, Sound(before),
         before.scheduler.nextId = rt.scheduler.nextId, before.lastSeq = rt.lastSeq,
         c \notin rt.cancelled \/ c \notin before.cancelled, Delivered(before, c, o)
  PROVE  Muted
<1>1. now \in Int /\ before.scheduler.nextId < MaxTimerId
  BY NowIsInt DEF IdsSuffice
<1>2. Hears(before, rt', c, o)
  BY <1>1, DeliverKeeps DEF Delivered
<1>3. /\ rt'.cancelled = before.cancelled
      /\ \A d \in Calls \ {c} : rt'.lastSeq[d] = rt.lastSeq[d]
  BY <1>2 DEF Hears, Beside
<1>4. rt.cancelled \subseteq Calls
  BY NowIsInt, RtInvParts DEF Sound, RtTypes
<1> QED
  BY <1>3, <1>4 DEF Muted

LEMMA TickIsQuiet ==
  ASSUME NodeInv, IdsSuffice, TickRuntime
  PROVE  Muted
<1>1. PICK r : /\ Turned(r)
               /\ \/ Idles(r)
                  \/ \E c \in Calls : \E o \in AllOutcomes : HandsOut(r, c, o)
                  \/ \E id \in TimerIds : Rings(r, id)
  BY TickCases
<1>2. r.lastSeq = rt.lastSeq /\ r.cancelled = rt.cancelled /\ r.scheduler.nextId = rt.scheduler.nextId
  BY <1>1 DEF Turned, Unheard
<1>3. CASE Idles(r)
  BY <1>2, <1>3 DEF Idles, Muted
<1>4. CASE \E c \in Calls : \E o \in AllOutcomes : HandsOut(r, c, o)
  <2>1. PICK c \in Calls, o \in AllOutcomes : HandsOut(r, c, o)
    BY <1>4
  <2>2. PICK n : HostcallComplete(r, Completion(n, c, o))
    BY <2>1 DEF HandsOut
  <2>3. PICK task : task = Completion(n, c, o)
    OBVIOUS
  <2>4. task.call = c /\ task.outcome = o /\ HostcallComplete(r, task)
    BY <2>2, <2>3, TaskFacts
  <2>5. CASE Partial(o) /\ IsActive(r, c)
    <3>1. Delivered(r, c, o)
      BY <2>4, <2>5 DEF HostcallComplete, Partial
    <3>2. Sound(r) /\ c \notin rt.cancelled
      BY <1>2, <2>1, <2>5 DEF HandsOut, Sound, IsActive
    <3> QED
      BY <1>2, <3>1, <3>2, DeliveredIsQuiet
  <2>6. CASE ~Partial(o) /\ c \in r.pending
    <3>1. PICK u : u = Completed(r, c)
      OBVIOUS
    <3>2. Delivered(u, c, o)
      BY <2>4, <2>6, <3>1 DEF HostcallComplete, Partial
    <3>3. Forgotten(r, u, c)
      BY <2>1, <2>6, <3>1, CompletedKeeps DEF HandsOut
    <3>4. /\ Sound(u) /\ u.scheduler.nextId = rt.scheduler.nextId /\ u.lastSeq = rt.lastSeq
          /\ c \notin u.cancelled
      BY <1>2, <3>3 DEF Forgotten, Unheard
    <3> QED
      BY <3>2, <3>4, DeliveredIsQuiet
  <2>7. CASE \/ Partial(o) /\ ~IsActive(r, c)
             \/ ~Partial(o) /\ c \notin r.pending
    <3>1. rt' = r
      BY <2>4, <2>7 DEF HostcallComplete, Partial
    <3> QED
      BY <1>2, <3>1 DEF Muted
  <2> QED
    BY <2>5, <2>6, <2>7
<1>5. CASE \E id \in TimerIds : Rings(r, id)
  <2>1. PICK id \in TimerIds : Rings(r, id)
    BY <1>5
  <2>2. Rung(r, id) /\ TimerFired(r, id)
    BY <2>1 DEF Rings, Rung
  <2>3. r.timerCall[id] \in Calls \union {NoCall} /\ r.callbacks[id] \in Calls \union NoOwner
    BY <2>2, RtInvParts DEF RtTypes, Rung
  <2>4. CASE r.timerCall[id] # NoCall
    <3>1. PICK c \in Calls : c = r.timerCall[id]
      BY <2>3, <2>4
    <3>2. PICK u : u = TimedOut(r, c)
      OBVIOUS
    <3>3. Forgotten(r, u, c)
      BY <2>2, <3>1, <3>2, TimedOutKeeps
    <3>4. /\ Sound(u) /\ u.scheduler.nextId = r.scheduler.nextId
          /\ u.cancelled = r.cancelled \ {c} /\ Unheard(r, u)
      BY <3>3 DEF Forgotten
    <3>5. Failed("timeout") \in AllOutcomes /\ Delivered(u, c, Failed("timeout"))
      BY <2>2, <2>4, <3>1, <3>2, OutcomeFacts DEF TimerFired
    <3> QED
      BY <1>2, <3>4, <3>5, DeliveredIsQuiet DEF Unheard
  <2>5. CASE r.timerCall[id] = NoCall
    <3>1. PICK fired : fired = [r EXCEPT !.callbacks[id] = "none"]
      OBVIOUS
    <3>2. rt' = IF r.callbacks[id] \in Calls THEN StallCallback(fired, r.callbacks[id]) ELSE fired
      BY <2>2, <2>5, <3>1 DEF TimerFired
    <3>3. NoCallback(r, fired, id)
      BY <3>1 DEF NoCallback
    <3>4. CASE r.callbacks[id] \notin Calls
      <4>1. Taken(r, fired)
        BY <2>2, <2>5, <3>3, <3>4, CallbackTaken
      <4> QED
        BY <1>2, <3>2, <3>4, <4>1 DEF Taken, Muted
    <3>5. CASE r.callbacks[id] \in Calls
      <4>1. PICK c \in Calls : c = r.callbacks[id]
        BY <3>5
      <4>2. PICK off : off = [fired EXCEPT !.streams[c].stall = 0]
        OBVIOUS
      <4>3. NoStall(fired, off, c)
        BY <4>2 DEF NoStall
      <4>4. Sound(off) /\ off.lastSeq = r.lastSeq
        <5>1. StallTaken(r, off, c)
          BY <2>2, <2>5, <3>3, <4>1, <4>3, CallbackTaken
        <5> QED
          BY <5>1 DEF StallTaken, Taken
      <4>5. rt' = off \/ rt' = CancelHostcall(off, c)
        BY <3>2, <3>5, <4>1, <4>2 DEF StallCallback
      <4>6. rt'.lastSeq = off.lastSeq
        BY <4>4, <4>5, CancelKeeps DEF Remains, Unheard
      <4> QED
        BY <1>2, <4>4, <4>6 DEF Muted
    <3> QED
      BY <3>4, <3>5
  <2> QED
    BY <2>4, <2>5
<1> QED
  BY <1>1, <1>3, <1>4, <1>5

(* No other step moves what was heard last.                                      *)
LEMMA StepsAreQuiet == NodeInv /\ IdsSuffice /\ [Next]_vars => [Muted]_vars
<1> SUFFICES ASSUME NodeInv, IdsSuffice, [Next]_vars PROVE Muted \/ UNCHANGED vars
  OBVIOUS
<1>1. now \in Int /\ Sound(rt) /\ rt.scheduler.nextId < MaxTimerId
  BY NowIsInt DEF IdsSuffice
<1>2. ASSUME rt'.lastSeq = rt.lastSeq PROVE Muted
  BY <1>2 DEF Muted
<1>3. ASSUME NEW c \in Calls, Call(c) PROVE Muted
  BY <1>2, <1>3, CallHolds DEF Accepted
<1>4. ASSUME NEW c \in Streams, Pull(c) PROVE Muted
  <2>1. c \in Calls /\ rt' = AfterPull(rt, c)
    BY <1>4, NodeRuntimeConstants DEF Pull
  <2> QED
    BY <1>1, <1>2, <2>1, AfterPullKeeps DEF Pushed
<1>5. ASSUME NEW c \in Streams, Return(c) PROVE Muted
  <2>1. c \in Calls
    BY NodeRuntimeConstants
  <2>2. PICK stopped : stopped = IF rt.streams[c].done THEN rt ELSE CancelHostcall(rt, c)
    OBVIOUS
  <2>3. Sound(stopped) /\ stopped.lastSeq = rt.lastSeq
    BY <1>1, <2>1, <2>2, CancelKeeps DEF Remains, Unheard
  <2>4. rt' = [ClearStall(stopped, c) EXCEPT
                 !.streams[c] = [@ EXCEPT !.closed = TRUE, !.done = TRUE,
                                          !.buffer = <<>>, !.waiting = FALSE]]
    BY <1>5, <2>2 DEF Return
  <2>5. StreamStep(stopped, rt')
    BY <2>1, <2>3, <2>4, Stopped
  <2> QED
    BY <1>2, <2>3, <2>5 DEF StreamStep
<1>6. ASSUME NEW c \in Calls, Cancel(c) PROVE Muted
  BY <1>1, <1>2, <1>6, CancelKeeps DEF Cancel, Remains, Unheard
<1>7. ASSUME NEW delay \in 0..1, SetUserTimer(delay) PROVE Muted
  <2>1. delay \in Int /\ rt' = SetTimer(rt, delay, "user")
    BY <1>7 DEF SetUserTimer
  <2> QED
    BY <1>1, <1>2, <2>1, UserTimerSet DEF Unheard
<1>8. ASSUME NEW id \in TimerIds, ClearUserTimer(id) PROVE Muted
  <2>1. rt.callbacks[id] = "user" /\ rt' = ClearTimer(rt, id)
    BY <1>8 DEF ClearUserTimer, UserTimers
  <2> QED
    BY <1>1, <1>2, <2>1, UserTimerCleared DEF Unheard
<1>9. CASE Program
  BY <1>3, <1>4, <1>5, <1>6, <1>7, <1>8, <1>9 DEF Program
<1>10. CASE Host
  BY <1>2, <1>10, DrainHolds, CompleteHolds DEF Host, Drained, Sent, Outside
<1>11. CASE TickRuntime
  BY <1>11, TickIsQuiet
<1>12. CASE Clock
  BY <1>2, <1>12 DEF Clock
<1> QED
  BY <1>9, <1>10, <1>11, <1>12 DEF Next

(* As long as the ids of timers are not used up, whatever is read, left, cancelled, *)
(* full or late: the reader of a stream is told its chunks in order and none twice, *)
(* one left out before its last chunk at most, and nothing after the end or the    *)
(* error; a call that stays cancelled is told nothing; and a full stream nobody    *)
(* reads has, unless such timers are off, the timer that will cancel it            *)
(* (is_stream_chunk, __pi_complete_hostcall, pushChunk, stallTimer).               *)
THEOREM StreamsSound == Spec /\ []IdsSuffice => StreamsAreSound
<1>1. Init => NodeInv /\ FlowInv
  BY NodeInit, FlowInit
<1>2. (NodeInv /\ FlowInv) /\ IdsSuffice /\ [Next]_vars => (NodeInv /\ FlowInv)'
  BY NodeNext, FlowNext
<1>3. NodeInv /\ FlowInv => ChunksInOrder /\ FullStreamsAreWatched
  BY FlowImplies
<1>4. NodeInv /\ IdsSuffice /\ [Next]_vars => [Muted]_vars
  BY StepsAreQuiet
<1>5. CancelledIsQuiet <=> [][Muted]_vars
  BY DEF CancelledIsQuiet, Muted
<1> QED
  BY <1>1, <1>2, <1>3, <1>4, <1>5, PTL DEF Spec, StreamsAreSound
=============================================================================
