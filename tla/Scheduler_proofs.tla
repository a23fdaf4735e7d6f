-------------------------- MODULE Scheduler_proofs --------------------------
(***************************************************************************)
(* Lemmas about Scheduler's operators, for any number of timer ids and any *)
(* kinds of task: what each method leaves of the timers, the ids and the   *)
(* tasks.  SchedulerLoop and NodeRuntime are proved from them.             *)
(***************************************************************************)
EXTENDS Scheduler, SequenceLemmas, SequenceTheorems

-----------------------------------------------------------------------------
(* The scheduler                                                             *)

Entries == [id : TimerIds, deadline : Int, seq : Nat]

(* Deadlines, and numbers among equal deadlines, order the entries of a heap.  *)
LEMMA EarlierIsOrder ==
  ASSUME NEW e \in Entries, NEW f \in Entries, NEW g \in Entries
  PROVE  /\ ~Earlier(e, e)
         /\ Earlier(e, f) => ~Earlier(f, e)
         /\ Earlier(e, f) /\ Earlier(f, g) => Earlier(e, g)
         /\ e.seq # f.seq => Earlier(e, f) \/ Earlier(f, e)
  BY DEF Earlier, Entries

(* InOrder lists each entry once, the earlier ones first.                       *)
LEMMA InOrderLists ==
  ASSUME NEW S \in SUBSET Entries, IsFiniteSet(S),
         \A e, f \in S : e.seq = f.seq => e = f
  PROVE  /\ Cardinality(S) \in Nat
         /\ InOrder(S) \in [1..Cardinality(S) -> S]
         /\ \A e \in S : \E i \in 1..Cardinality(S) : InOrder(S)[i] = e
         /\ \A i, j \in 1..Cardinality(S) : i < j => Earlier(InOrder(S)[i], InOrder(S)[j])
<1> DEFINE R == {e \in S \X S : Earlier(e[1], e[2])}
<1>1. \A e, f \in S : <<e, f>> \in R <=> Earlier(e, f)
  OBVIOUS
<1>2. OrderOn(R, S)
  <2>1. \A e, f \in S : e # f => e.seq # f.seq
    OBVIOUS
  <2>2. \A e, f \in S : e # f => Earlier(e, f) \/ Earlier(f, e)
    BY <2>1, EarlierIsOrder
  <2>3. \A e, f, g \in S : Earlier(e, f) /\ Earlier(f, g) => Earlier(e, g)
    BY EarlierIsOrder
  <2>4. \A e \in S : ~Earlier(e, e)
    BY EarlierIsOrder
  <2> HIDE DEF R
  <2> QED
    BY <1>1, <2>2, <2>3, <2>4 DEF OrderOn
<1>3. InOrder(S) = ListedBy(S, R)
  <2>1. ASSUME NEW e \in S PROVE {f \in S : Earlier(f, e)} = {f \in S : <<f, e>> \in R}
    BY <1>1
  <2> DEFINE ByOrder(i) == CHOOSE e \in S : Cardinality({f \in S : Earlier(f, e)}) = i - 1
             ByPairs(i) == CHOOSE e \in S : Cardinality({f \in S : <<f, e>> \in R}) = i - 1
  <2>2. \A i : ByOrder(i) = ByPairs(i)
    <3> TAKE i
    <3>1. \A e \in S : (Cardinality({f \in S : Earlier(f, e)}) = i - 1)
                         <=> (Cardinality({f \in S : <<f, e>> \in R}) = i - 1)
      BY <2>1
    <3> HIDE DEF R
    <3> QED
      BY <3>1, Zenon
  <2>3. /\ InOrder(S) = [i \in 1..Cardinality(S) |-> ByOrder(i)]
        /\ ListedBy(S, R) = [i \in 1..Cardinality(S) |-> ByPairs(i)]
    BY DEF InOrder, ListedBy
  <2> HIDE DEF ByOrder, ByPairs, R
  <2> QED
    BY <2>2, <2>3
<1>4. /\ Cardinality(S) \in Nat
      /\ InOrder(S) \in [1..Cardinality(S) -> S]
      /\ \A e \in S : \E i \in 1..Cardinality(S) : InOrder(S)[i] = e
      /\ \A i, j \in 1..Cardinality(S) : i < j => <<InOrder(S)[i], InOrder(S)[j]>> \in R
  <2> HIDE DEF R
  <2> QED
    BY <1>2, <1>3, OrderLists
<1>5. \A i \in 1..Cardinality(S) : InOrder(S)[i] \in S
  BY <1>4
<1> HIDE DEF R
<1> QED
  BY <1>1, <1>4, <1>5

(* The parts of a scheduler agree; T are its tasks.                             *)
TimerTask(n, id) == [seq |-> n, kind |-> "timer", id |-> id]
TimerTasks == {TimerTask(n, id) : n \in Nat, id \in TimerIds}
HasTimers(T) == TimerTasks \subseteq T /\ \A t \in T : t.seq \in Nat

Schedulers(T) ==
  [seq : Nat, tasks : Seq(T), heap : SUBSET Entries, ids : SUBSET TimerIds,
   cancelled : SUBSET TimerIds, nextId : TimerIds]

Sched(s, T) ==
  /\ s \in Schedulers(T)
  /\ IsFiniteSet(s.heap)
  /\ \A e, f \in s.heap : e.seq = f.seq => e = f
  /\ TasksInOrder(s)
  /\ IdsAgree(s)

(* The timers that are set, and those that have fired and wait to run.           *)
LiveIn(s)  == {e.id : e \in LiveTimers(s)}
FiredIn(s) == {t.id : t \in {u \in Range(s.tasks) : u.kind = "timer"}}

(* The live timers are those whose id is given out and not cancelled.          *)
LEMMA LiveIsNotCancelled ==
  ASSUME NEW T, NEW s, Sched(s, T)
  PROVE  LiveIn(s) = s.ids \ s.cancelled
  BY DEF LiveIn, LiveTimers, Sched, IdsAgree

(* A new scheduler is in order.                                                *)
LEMMA EmptyIsSched ==
  ASSUME NEW T
  PROVE  Sched(EmptyScheduler, T) /\ EmptyScheduler.nextId = 1
<1> DEFINE s == EmptyScheduler
<1>1. /\ s.seq = 0 /\ s.tasks = <<>> /\ s.heap = {} /\ s.ids = {} /\ s.cancelled = {} /\ s.nextId = 1
  BY DEF EmptyScheduler
<1>2. 1 \in TimerIds /\ <<>> \in Seq(T)
  BY MaxTimerIdAssumption DEF TimerIds
<1>3. s \in Schedulers(T)
  BY <1>1, <1>2 DEF EmptyScheduler, Schedulers
<1>4. TasksInOrder(s) /\ IdsAgree(s)
  <2> HIDE DEF s
  <2> QED
    BY <1>1 DEF TasksInOrder, IdsAgree
<1>5. IsFiniteSet(s.heap)
  BY <1>1, FS_EmptySet
<1> QED
  BY <1>1, <1>3, <1>4, <1>5 DEF Sched

LEMMA LeastOne ==
  ASSUME NEW S \in SUBSET Nat, S # {}
  PROVE  Min(S) \in S /\ \A n \in S : Min(S) <= n
BY LeastExists DEF Min

(* A new id is one that no timer has.                                          *)
LEMMA NewIsFree ==
  ASSUME NEW T, NEW s, Sched(s, T), FreeIds(s) # {}
  PROVE  NewTimerId(s) \in TimerIds \ s.ids
<1> DEFINE later == {id \in FreeIds(s) : id >= s.nextId}
<1>1. FreeIds(s) \in SUBSET Nat /\ later \in SUBSET Nat /\ FreeIds(s) = TimerIds \ s.ids
  BY MaxTimerIdAssumption DEF FreeIds, TimerIds
<1>2. CASE later # {}
  BY <1>1, <1>2, LeastOne DEF NewTimerId
<1>3. CASE later = {}
  BY <1>1, <1>3, LeastOne DEF NewTimerId
<1> QED
  BY <1>2, <1>3

(* Before ids wrap around the next one is the new one.                          *)
LEMMA NextIsNew ==
  ASSUME NEW T, NEW s, Sched(s, T), \A id \in s.ids : id < s.nextId
  PROVE  NewTimerId(s) = s.nextId /\ s.nextId \in FreeIds(s)
<1> DEFINE later == {id \in FreeIds(s) : id >= s.nextId}
<1>1. s.nextId \in TimerIds /\ TimerIds \in SUBSET Nat
  BY MaxTimerIdAssumption DEF Sched, Schedulers, TimerIds
<1>2. s.nextId \in later
  BY <1>1 DEF FreeIds
<1>3. later \in SUBSET Nat
  BY <1>1 DEF FreeIds
<1>4. Min(later) \in later /\ \A n \in later : Min(later) <= n
  BY <1>2, <1>3, LeastOne
<1>5. Min(later) = s.nextId
  BY <1>1, <1>2, <1>3, <1>4
<1> QED
  BY <1>2, <1>5 DEF NewTimerId

(* A timer that is set is alive under a free id; nothing else changes.         *)
LEMMA SetTimeoutKeeps ==
  ASSUME NEW T, HasTimers(T), NEW s, Sched(s, T), FreeIds(s) # {},
         NEW clock \in Int, NEW delay \in Int,
         NEW r, r = SetTimeout(s, clock, delay), NEW id, id = NewTimerId(s)
  PROVE  /\ Sched(r, T)
         /\ id \in TimerIds \ s.ids
         /\ LiveIn(r) = LiveIn(s) \union {id}
         /\ r.tasks = s.tasks
         /\ r.ids = s.ids \union {id} /\ r.nextId = After(id)
<1>1. id \in TimerIds \ s.ids
  BY NewIsFree
<1>2. After(id) \in TimerIds
  BY <1>1, MaxTimerIdAssumption DEF After, TimerIds
<1>3. PICK e : e = [id |-> id, deadline |-> clock + delay, seq |-> s.seq]
  OBVIOUS
<1>4. s \in Schedulers(T) /\ s.seq \in Nat
  BY DEF Sched, Schedulers
<1>5. e \in Entries /\ e.id = id /\ e.seq = s.seq
  BY <1>1, <1>3, <1>4 DEF Entries
<1>6. r = [seq |-> s.seq + 1, tasks |-> s.tasks, heap |-> s.heap \union {e},
           ids |-> s.ids \union {id}, cancelled |-> s.cancelled, nextId |-> After(id)]
  <2>1. r = [s EXCEPT !.seq = @ + 1, !.heap = @ \union {e}, !.ids = @ \union {id},
                      !.nextId = After(id)]
    BY <1>3 DEF SetTimeout
  <2> QED
    BY <1>4, <2>1 DEF Schedulers
<1>7. r \in Schedulers(T)
  BY <1>1, <1>2, <1>4, <1>5, <1>6 DEF Schedulers
<1>8. IsFiniteSet(r.heap)
  BY <1>6, FS_AddElement DEF Sched
<1>9. \A f \in s.heap : f.seq < s.seq /\ f.seq \in Nat
  BY <1>4 DEF Sched, TasksInOrder, Schedulers, Entries
<1>10. \A f, g \in r.heap : f.seq = g.seq => f = g
  BY <1>4, <1>5, <1>6, <1>9 DEF Sched
<1>11. TasksInOrder(r)
  <2>1. ASSUME NEW i \in 1..Len(s.tasks) PROVE s.tasks[i].seq < r.seq
    <3>1. s.tasks[i] \in T
      <4>1. s.tasks \in Seq(T)
        BY <1>4 DEF Schedulers
      <4> QED
        BY <4>1
    <3>2. s.tasks[i].seq < s.seq /\ s.tasks[i].seq \in Nat
      BY <3>1 DEF Sched, TasksInOrder, HasTimers
    <3> QED
      BY <3>2, <1>4, <1>6
  <2>2. \A f \in r.heap : f.seq < r.seq
    BY <1>4, <1>5, <1>6, <1>9
  <2> QED
    BY <1>6, <2>1, <2>2 DEF Sched, TasksInOrder
<1>12. IdsAgree(r)
  BY <1>1, <1>5, <1>6 DEF Sched, IdsAgree
<1>13. Sched(r, T)
  BY <1>7, <1>8, <1>10, <1>11, <1>12 DEF Sched
<1>14. id \notin s.cancelled
  BY <1>1 DEF Sched, IdsAgree
<1> QED
  BY <1>1, <1>6, <1>13, <1>14, LiveIsNotCancelled

(* A timer that is cleared is no longer alive; its entry stays in the heap.    *)
LEMMA ClearTimeoutKeeps ==
  ASSUME NEW T, NEW s, Sched(s, T), NEW id \in TimerIds,
         NEW r, r = ClearTimeout(s, id)
  PROVE  /\ Sched(r, T)
         /\ LiveIn(r) = LiveIn(s) \ {id}
         /\ r.tasks = s.tasks /\ r.ids = s.ids /\ r.nextId = s.nextId
         /\ r.heap = s.heap /\ r.seq = s.seq
<1>1. CASE ~CanClear(s, id)
  <2>1. r = s
    BY <1>1 DEF ClearTimeout
  <2>2. id \notin LiveIn(s)
    BY <1>1, LiveIsNotCancelled DEF CanClear
  <2> QED
    BY <2>1, <2>2
<1>2. CASE CanClear(s, id)
  <2>1. s \in Schedulers(T)
    BY DEF Sched
  <2>2. r = [seq |-> s.seq, tasks |-> s.tasks, heap |-> s.heap, ids |-> s.ids,
             cancelled |-> s.cancelled \union {id}, nextId |-> s.nextId]
    BY <1>2, <2>1 DEF ClearTimeout, Schedulers
  <2>3. r \in Schedulers(T)
    BY <2>1, <2>2 DEF Schedulers
  <2>4. /\ r.seq = s.seq /\ r.tasks = s.tasks /\ r.heap = s.heap /\ r.ids = s.ids
        /\ r.cancelled = s.cancelled \union {id} /\ r.nextId = s.nextId
    BY <2>2
  <2>5. Sched(r, T)
    BY <1>2, <2>3, <2>4 DEF Sched, TasksInOrder, IdsAgree, CanClear
  <2> QED
    BY <2>4, <2>5, LiveIsNotCancelled
<1> QED
  BY <1>1, <1>2

(* A macrotask joins the queue.                                                *)
Enqueued(s, task) == [s EXCEPT !.seq = @ + 1, !.tasks = Append(@, task)]

(* A macrotask with the next number joins the queue at its end.                *)
LEMMA EnqueueKeeps ==
  ASSUME NEW T, HasTimers(T), NEW s, Sched(s, T), NEW task \in T, task.seq = s.seq,
         NEW r, r = Enqueued(s, task)
  PROVE  /\ Sched(r, T)
         /\ LiveIn(r) = LiveIn(s)
         /\ r.tasks = Append(s.tasks, task)
         /\ r.ids = s.ids /\ r.nextId = s.nextId /\ r.heap = s.heap
<1>1. s \in Schedulers(T) /\ s.seq \in Nat /\ s.tasks \in Seq(T)
  BY DEF Sched, Schedulers
<1>2. r = [seq |-> s.seq + 1, tasks |-> Append(s.tasks, task), heap |-> s.heap,
           ids |-> s.ids, cancelled |-> s.cancelled, nextId |-> s.nextId]
  BY <1>1 DEF Schedulers, Enqueued
<1>3. /\ r.seq = s.seq + 1 /\ r.tasks = Append(s.tasks, task) /\ r.heap = s.heap
      /\ r.ids = s.ids /\ r.cancelled = s.cancelled /\ r.nextId = s.nextId
  BY <1>2
<1>4. Append(s.tasks, task) \in Seq(T)
  BY <1>1
<1>5. r \in Schedulers(T)
  BY <1>1, <1>2, <1>4 DEF Schedulers
<1>6. PICK q : q = Append(s.tasks, task)
  OBVIOUS
<1>7. /\ Len(s.tasks) \in Nat /\ Len(q) = Len(s.tasks) + 1 /\ q[Len(q)] = task
      /\ \A i \in 1..Len(s.tasks) : q[i] = s.tasks[i] /\ s.tasks[i] \in T
  BY <1>1, <1>6
<1>8. \A i \in 1..Len(s.tasks) : s.tasks[i].seq \in Nat /\ s.tasks[i].seq < s.seq
  BY <1>7 DEF Sched, TasksInOrder, HasTimers
<1>9. TasksInOrder(r)
  <2>1. ASSUME NEW i \in 1..Len(q), NEW j \in 1..Len(q), i < j
        PROVE  q[i].seq < q[j].seq
    <3>1. i \in 1..Len(s.tasks)
      BY <1>7, <2>1
    <3>2. CASE j = Len(q)
      BY <1>7, <1>8, <3>1, <3>2
    <3>3. CASE j # Len(q)
      <4>1. j \in 1..Len(s.tasks)
        BY <1>7, <3>3
      <4> QED
        BY <1>7, <2>1, <3>1, <4>1 DEF Sched, TasksInOrder
    <3> QED
      BY <3>2, <3>3
  <2>2. ASSUME NEW i \in 1..Len(q) PROVE q[i].seq < s.seq + 1
    <3>1. CASE i = Len(q)
      BY <1>1, <1>7, <3>1
    <3>2. CASE i # Len(q)
      <4>1. i \in 1..Len(s.tasks)
        BY <1>7, <3>2
      <4> QED
        BY <1>1, <1>7, <1>8, <4>1
    <3> QED
      BY <3>1, <3>2
  <2>3. \A e \in s.heap : e.seq \in Nat /\ e.seq < s.seq
    BY <1>1 DEF Sched, TasksInOrder, Schedulers, Entries
  <2>4. \A e \in r.heap : e.seq < r.seq
    BY <1>1, <1>3, <2>3
  <2> QED
    BY <1>3, <1>6, <2>1, <2>2, <2>4 DEF TasksInOrder
<1>10. IdsAgree(r)
  BY <1>3 DEF Sched, IdsAgree
<1>11. Sched(r, T)
  BY <1>3, <1>5, <1>9, <1>10 DEF Sched
<1> QED
  BY <1>3, <1>11, LiveIsNotCancelled

(* The due timers leave the heap; those that were not cancelled become tasks, in   *)
(* the order in which they fire.                                               *)
Moved(s, clock, r, n, fired) ==
  /\ Len(r.tasks) = Len(s.tasks) + n
  /\ r.seq = s.seq + n
  /\ \A i \in 1..Len(s.tasks) : r.tasks[i] = s.tasks[i]
  /\ \A i \in 1..n : r.tasks[Len(s.tasks) + i] = TimerTask(s.seq + i - 1, fired[i].id)
  /\ \A e \in Due(s, clock) \cap LiveTimers(s) : \E i \in 1..n : fired[i] = e
  /\ \A i, j \in 1..n : i < j => Earlier(fired[i], fired[j])

Moves(s, clock, r) ==
  \E n \in Nat : \E fired \in [1..n -> Due(s, clock) \cap LiveTimers(s)] : Moved(s, clock, r, n, fired)

(* The due timers leave the heap; the live ones among them become tasks.       *)
LEMMA MoveDueKeeps ==
  ASSUME NEW T, HasTimers(T), NEW s, Sched(s, T), NEW clock \in Int,
         NEW r, r = MoveDueTimers(s, clock)
  PROVE  /\ Sched(r, T)
         /\ r.ids \subseteq s.ids /\ r.nextId = s.nextId
         /\ r.heap = s.heap \ Due(s, clock) /\ r.cancelled = s.cancelled \cap r.ids
         /\ Moves(s, clock, r)
<1> DEFINE D == Due(s, clock)
           S == D \cap LiveTimers(s)
           gone == {e.id : e \in D}
<1>1. /\ s \in Schedulers(T) /\ s.seq \in Nat /\ s.tasks \in Seq(T) /\ s.heap \in SUBSET Entries
      /\ s.ids \in SUBSET TimerIds /\ s.cancelled \in SUBSET TimerIds /\ s.nextId \in TimerIds
  BY DEF Sched, Schedulers
<1>2. D \in SUBSET s.heap /\ S \in SUBSET s.heap
  BY DEF Due
<1>3. IsFiniteSet(S) /\ IsFiniteSet(s.heap \ D) /\ \A e, f \in S : e.seq = f.seq => e = f
  <2>1. IsFiniteSet(s.heap) /\ s.heap \ D \in SUBSET s.heap
    BY DEF Sched
  <2>2. IsFiniteSet(S) /\ IsFiniteSet(s.heap \ D)
    BY <1>2, <2>1, FS_Subset
  <2> QED
    BY <1>2, <2>2 DEF Sched
<1>4. PICK fired, n : fired = InOrder(S) /\ n = Cardinality(S)
  OBVIOUS
<1>5. /\ n \in Nat
      /\ fired \in [1..n -> S]
      /\ \A e \in S : \E i \in 1..n : fired[i] = e
      /\ \A i, j \in 1..n : i < j => Earlier(fired[i], fired[j])
  BY <1>1, <1>2, <1>3, <1>4, InOrderLists
<1>6. Len(fired) = n
  <2>1. fired \in Seq(S)
    BY <1>5
  <2> QED
    BY <1>5, <2>1
<1>7. PICK new : new = [i \in 1..n |-> TimerTask(s.seq + i - 1, fired[i].id)]
  OBVIOUS
<1>8. r = [seq |-> s.seq + n, tasks |-> s.tasks \o new, heap |-> s.heap \ D,
           ids |-> s.ids \ gone, cancelled |-> s.cancelled \ gone, nextId |-> s.nextId]
  BY <1>1, <1>4, <1>6, <1>7 DEF MoveDueTimers, Schedulers, TimerTask
<1>9. /\ r.seq = s.seq + n /\ r.tasks = s.tasks \o new /\ r.heap = s.heap \ D
      /\ r.ids = s.ids \ gone /\ r.cancelled = s.cancelled \ gone /\ r.nextId = s.nextId
  BY <1>8
<1>10. \A i \in 1..n : fired[i].id \in TimerIds /\ fired[i] \in S
  BY <1>1, <1>2, <1>5 DEF Entries
<1>11. new \in Seq(T) /\ Len(new) = n
  <2>1. ASSUME NEW i \in 1..n PROVE TimerTask(s.seq + i - 1, fired[i].id) \in T
    <3>1. s.seq + i - 1 \in Nat
      BY <1>1, <1>5
    <3> QED
      BY <1>10, <3>1 DEF HasTimers, TimerTasks
  <2>2. new \in [1..n -> T]
    BY <1>7, <2>1
  <2> QED
    BY <1>5, <2>2
<1>12. PICK q : q = s.tasks \o new
  OBVIOUS
<1>13. q \in Seq(T) /\ Len(q) = Len(s.tasks) + n /\ Len(s.tasks) \in Nat
  <2>1. s.tasks \in Seq(T) /\ Len(s.tasks) \in Nat
    BY <1>1
  <2>2. new \in Seq(T) /\ Len(new) = n
    BY <1>11
  <2>3. s.tasks \o new \in Seq(T) /\ Len(s.tasks \o new) = Len(s.tasks) + Len(new)
    BY <2>1, <2>2, ConcatProperties
  <2> QED
    BY <1>12, <2>1, <2>2, <2>3
<1>14. \A i \in 1..Len(s.tasks) : q[i] = s.tasks[i]
  BY <1>1, <1>11, <1>12
<1>15. \A i \in 1..n : q[Len(s.tasks) + i] = TimerTask(s.seq + i - 1, fired[i].id)
  <2>1. ASSUME NEW i \in 1..n PROVE q[Len(s.tasks) + i] = new[i]
    BY <1>1, <1>5, <1>11, <1>12
  <2> QED
    BY <1>7, <2>1
<1>16. r \in Schedulers(T)
  <2>1. s.heap \ D \in SUBSET Entries /\ s.ids \ gone \in SUBSET TimerIds
        /\ s.cancelled \ gone \in SUBSET TimerIds
    BY <1>1
  <2>2. s.seq + n \in Nat /\ s.tasks \o new \in Seq(T)
    BY <1>1, <1>5, <1>12, <1>13
  <2> HIDE DEF D, gone
  <2> QED
    BY <1>1, <1>8, <2>1, <2>2 DEF Schedulers
<1>17. \A i \in 1..Len(s.tasks) : s.tasks[i].seq \in Nat /\ s.tasks[i].seq < s.seq
  <2> TAKE i \in 1..Len(s.tasks)
  <2>1. s.tasks[i] \in T
    BY <1>1
  <2>2. s.tasks[i].seq \in Nat
    BY <2>1 DEF HasTimers
  <2>3. s.tasks[i].seq < s.seq
    BY DEF Sched, TasksInOrder
  <2> QED
    BY <2>2, <2>3
<1>18. \A i \in 1..n : q[Len(s.tasks) + i].seq = s.seq + i - 1
  <2>1. \A k, id : TimerTask(k, id).seq = k
    BY DEF TimerTask
  <2> QED
    BY <1>15, <2>1
<1>19. \A i \in 1..Len(q) : i \in 1..Len(s.tasks) \/ \E k \in 1..n : i = Len(s.tasks) + k
  <2> TAKE i \in 1..Len(q)
  <2>1. i > Len(s.tasks) => i - Len(s.tasks) \in 1..n /\ i = Len(s.tasks) + (i - Len(s.tasks))
    BY <1>5, <1>13
  <2> QED
    BY <1>13, <2>1
<1>20. TasksInOrder(r)
  <2>1. ASSUME NEW i \in 1..Len(q), NEW j \in 1..Len(q), i < j
        PROVE  q[i].seq < q[j].seq
    <3>1. CASE j \in 1..Len(s.tasks)
      <4>1. i \in 1..Len(s.tasks)
        BY <1>13, <2>1, <3>1
      <4> QED
        BY <1>14, <2>1, <3>1, <4>1 DEF Sched, TasksInOrder
    <3>2. CASE \E k \in 1..n : j = Len(s.tasks) + k
      <4>1. PICK k \in 1..n : j = Len(s.tasks) + k
        BY <3>2
      <4>2. CASE i \in 1..Len(s.tasks)
        <5>1. q[i].seq \in Nat /\ q[i].seq < s.seq
          BY <1>14, <1>17, <4>2
        <5>2. q[j].seq = s.seq + k - 1
          BY <1>18, <4>1
        <5> QED
          BY <1>1, <1>5, <5>1, <5>2
      <4>3. CASE \E l \in 1..n : i = Len(s.tasks) + l
        <5>1. PICK l \in 1..n : i = Len(s.tasks) + l
          BY <4>3
        <5>2. l < k
          BY <1>5, <1>13, <2>1, <4>1, <5>1
        <5>3. q[j].seq = s.seq + k - 1 /\ q[i].seq = s.seq + l - 1
          BY <1>18, <4>1, <5>1
        <5> QED
          BY <1>1, <1>5, <5>2, <5>3
      <4> QED
        BY <1>19, <4>2, <4>3
    <3> QED
      BY <1>19, <3>1, <3>2
  <2>2. ASSUME NEW i \in 1..Len(q) PROVE q[i].seq < s.seq + n
    <3>1. CASE i \in 1..Len(s.tasks)
      <4>1. q[i].seq \in Nat /\ q[i].seq < s.seq
        BY <1>14, <1>17, <3>1
      <4> QED
        BY <1>1, <1>5, <4>1
    <3>2. CASE \E k \in 1..n : i = Len(s.tasks) + k
      <4>1. PICK k \in 1..n : i = Len(s.tasks) + k
        BY <3>2
      <4>2. q[i].seq = s.seq + k - 1
        BY <1>18, <4>1
      <4> QED
        BY <1>1, <1>5, <4>2
    <3> QED
      BY <1>19, <3>1, <3>2
  <2>3. \A e \in s.heap : e.seq \in Nat /\ e.seq < s.seq
    BY <1>1 DEF Sched, TasksInOrder, Entries
  <2>4. \A e \in r.heap : e.seq < r.seq
    BY <1>1, <1>5, <1>9, <2>3
  <2> QED
    BY <1>9, <1>12, <2>1, <2>2, <2>4 DEF TasksInOrder
<1>21. IdsAgree(r) /\ r.ids \subseteq s.ids /\ r.cancelled = s.cancelled \cap r.ids
  <2>1. s.ids = {e.id : e \in s.heap} /\ (\A e, f \in s.heap : e.id = f.id => e = f)
        /\ s.cancelled \subseteq s.ids
    BY DEF Sched, IdsAgree
  <2>2. r.ids = {e.id : e \in r.heap}
    BY <1>2, <1>9, <2>1
  <2> QED
    BY <1>2, <1>9, <2>1, <2>2 DEF IdsAgree
<1>22. Sched(r, T)
  BY <1>3, <1>9, <1>16, <1>20, <1>21 DEF Sched
<1>23. /\ Len(r.tasks) = Len(s.tasks) + n
       /\ \A i \in 1..Len(s.tasks) : r.tasks[i] = s.tasks[i]
       /\ \A i \in 1..n : r.tasks[Len(s.tasks) + i] = TimerTask(s.seq + i - 1, fired[i].id)
  BY <1>9, <1>12, <1>13, <1>14, <1>15
<1>24. Moves(s, clock, r)
  <2>1. Moved(s, clock, r, n, fired)
    BY <1>5, <1>9, <1>23 DEF Moved
  <2> QED
    BY <1>5, <2>1 DEF Moves
<1> QED
  BY <1>5, <1>9, <1>21, <1>22, <1>24

(* One tick: what is ready is what was there and the due timers; the first task    *)
(* of it leaves the queue.                                                     *)
LEMMA TickKeeps ==
  ASSUME NEW T, HasTimers(T), NEW s, Sched(s, T), NEW clock \in Int,
         NEW r, r = AfterTick(s, clock), NEW m, m = MoveDueTimers(s, clock)
  PROVE  /\ Sched(r, T)
         /\ Ready(s, clock) = m.tasks
         /\ m.tasks \in Seq(T)
         /\ m.tasks = <<>> => r.tasks = <<>>
         /\ m.tasks # <<>> => r.tasks = Tail(m.tasks)
         /\ r.ids = m.ids /\ r.nextId = s.nextId /\ r.heap = m.heap
         /\ r.cancelled = m.cancelled /\ r.seq = m.seq
         /\ LiveIn(r) = LiveIn(m)
<1>1. Sched(m, T) /\ m.nextId = s.nextId
  BY MoveDueKeeps
<1>2. Ready(s, clock) = m.tasks
  BY DEF Ready
<1>3. m \in Schedulers(T) /\ m.tasks \in Seq(T)
  BY <1>1 DEF Sched, Schedulers
<1>4. CASE m.tasks = <<>>
  <2>1. r = m
    BY <1>4 DEF AfterTick
  <2> QED
    BY <1>1, <1>2, <1>3, <1>4, <2>1
<1>5. CASE m.tasks # <<>>
  <2>1. r = [seq |-> m.seq, tasks |-> Tail(m.tasks), heap |-> m.heap, ids |-> m.ids,
             cancelled |-> m.cancelled, nextId |-> m.nextId]
    BY <1>3, <1>5 DEF AfterTick, Schedulers
  <2>2. /\ r.seq = m.seq /\ r.tasks = Tail(m.tasks) /\ r.heap = m.heap /\ r.ids = m.ids
        /\ r.cancelled = m.cancelled /\ r.nextId = m.nextId
    BY <2>1
  <2>3. PICK q : q = Tail(m.tasks)
    OBVIOUS
  <2>4. q \in Seq(T) /\ Len(q) = Len(m.tasks) - 1 /\ Len(m.tasks) \in Nat
    BY <1>3, <1>5, <2>3
  <2>5. \A i \in 1..Len(q) : q[i] = m.tasks[i + 1] /\ i + 1 \in 1..Len(m.tasks)
    BY <1>3, <1>5, <2>3, <2>4
  <2>6. r \in Schedulers(T)
    <3>1. Tail(m.tasks) \in Seq(T)
      BY <2>3, <2>4
    <3> QED
      BY <1>3, <2>1, <3>1 DEF Schedulers
  <2>7. TasksInOrder(r)
    <3>1. ASSUME NEW i \in 1..Len(q), NEW j \in 1..Len(q), i < j
          PROVE  q[i].seq < q[j].seq
      <4>1. i + 1 < j + 1
        BY <3>1, <2>4
      <4> QED
        BY <1>1, <2>5, <4>1 DEF Sched, TasksInOrder
    <3>2. \A i \in 1..Len(q) : q[i].seq < m.seq
      BY <1>1, <2>5 DEF Sched, TasksInOrder
    <3>3. \A e \in m.heap : e.seq < m.seq
      BY <1>1 DEF Sched, TasksInOrder
    <3> QED
      BY <2>2, <2>3, <3>1, <3>2, <3>3 DEF TasksInOrder
  <2>8. IdsAgree(r)
    BY <1>1, <2>2 DEF Sched, IdsAgree
  <2>9. Sched(r, T)
    BY <1>1, <2>2, <2>6, <2>7, <2>8 DEF Sched
  <2>10. LiveIn(r) = LiveIn(m)
    BY <1>1, <2>2, <2>9, LiveIsNotCancelled
  <2> QED
    BY <1>1, <1>2, <1>3, <1>5, <2>2, <2>9, <2>10
<1> QED
  BY <1>4, <1>5

=============================================================================
