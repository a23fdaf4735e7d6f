----------------------------- MODULE NodeRuntime -----------------------------
(***************************************************************************)
(* Host calls, streams and timers of the JavaScript runtime.  JavaScript   *)
(* makes a call: Rust registers it, with a timer when calls time out, and  *)
(* queues the request.  A host drains the queue and completes calls, in    *)
(* chunks or at once; a completion is a macrotask of the scheduler, and a  *)
(* tick hands it to JavaScript if the call is still pending.  Calls may be *)
(* cancelled, may time out, and may be refused when the queue is full.     *)
(* Source: src/e-agent-node-runtime/src/runtime.rs.                        *)
(*                                                                         *)
(* One runtime is one thread: a step of JavaScript, a method of the host   *)
(* and a tick with the microtasks it leaves are each a single action.      *)
(* What the program is told is kept in result and got.                     *)
(***************************************************************************)
EXTENDS Scheduler

CONSTANTS
  Calls,          \* calls the program may make, each once
  NoCall,         \* no call: a timer that belongs to none
  Streams,        \* those that are made as an iterator over their chunks
  Chunked,        \* those with a promise and a callback for their chunks
  Exits,          \* those nobody listens to; the others have a promise
  HostcallTimeout,\* hostcall_timeout_ms, 0 when calls do not time out
  QueueLimit,     \* requests the queue holds before it refuses
  BufferLimit,    \* chunks a stream buffers before it is watched
  StallTimeout,   \* how long a full stream may stay unread
  MaxChunks,      \* bound: chunks a host sends before a stream's last; of others, one
  MaxUserTimers,  \* bound: ids given out before the program sets no more timers
  MaxTime         \* bound: the clock stops here

ASSUME NodeRuntimeConstants ==
  /\ NoCall \notin Calls /\ {"none", "user"} \cap Calls = {}   \* no call is an owner of timers
  /\ Streams \subseteq Calls
  /\ Streams \cap Chunked = {} /\ Streams \cap Exits = {} /\ Chunked \cap Exits = {}
  /\ HostcallTimeout \in Nat /\ StallTimeout \in Nat
  /\ QueueLimit \in Nat /\ MaxChunks \in Nat /\ MaxUserTimers \in Nat
  /\ BufferLimit \in Nat \ {0}
  /\ MaxTime \in Nat

VARIABLES
  rt,      \* the runtime: scheduler, HostcallTracker, queue, tables of JavaScript
  host,    \* host[c]: new, sent, dispatched or answered, and chunks sent
  now,     \* the clock
  result,  \* result[c]: how the promise of c settled
  got      \* got[c]: what the chunk callback or the stream's reader was given

vars == <<rt, host, now, result, got>>

(***************************************************************************)
(* Outcomes.                                                               *)
(***************************************************************************)
Ok == [type |-> "ok"]
Failed(code) == [type |-> "error", code |-> code]
Chunk(n, final) == [type |-> "chunk", seq |-> n, final |-> final, null |-> FALSE]
Sentinel(n) == [type |-> "chunk", seq |-> n, final |-> TRUE, null |-> TRUE]

\* What a reader of a stream is handed.
Item(n) == [item |-> "chunk", seq |-> n]
End == [item |-> "end", seq |-> -1]
Broken == [item |-> "error", seq |-> -1]

IdleStream == [buffer |-> <<>>, waiting |-> FALSE, done |-> FALSE,
               closed |-> FALSE, stall |-> 0]

Init ==
  /\ rt = [scheduler |-> EmptyScheduler,
           pending |-> {}, cancelled |-> {},
           callTimer |-> [c \in Calls |-> 0],
           timerCall |-> [t \in TimerIds |-> NoCall],
           streamSeq |-> [c \in Calls |-> -1],
           queue |-> <<>>,
           listening |-> {},
           lastSeq |-> [c \in Calls |-> -1],
           streams |-> [c \in Calls |-> IdleStream],
           callbacks |-> [t \in TimerIds |-> "none"]]
  /\ host = [c \in Calls |-> [state |-> "new", chunks |-> 0]]
  /\ now = 0
  /\ result = [c \in Calls |-> "open"]
  /\ got = [c \in Calls |-> <<>>]

(***************************************************************************)
(* Timers as JavaScript sees them: a callback here, an entry there.        *)
(***************************************************************************)
SetTimer(r, delay, owner) ==
  [r EXCEPT !.scheduler = SetTimeout(@, now, delay),
            !.callbacks[NewTimerId(r.scheduler)] = owner]

ClearTimer(r, id) ==
  [r EXCEPT !.scheduler = ClearTimeout(@, id), !.callbacks[id] = "none"]

ClearStall(r, c) ==
  LET id == r.streams[c].stall IN
    IF id = 0 THEN r ELSE [ClearTimer(r, id) EXCEPT !.streams[c].stall = 0]

ArmStall(r, c) ==
  LET cleared == ClearStall(r, c) IN
    IF StallTimeout = 0 THEN r
    ELSE [SetTimer(cleared, StallTimeout, c)
            EXCEPT !.streams[c].stall = NewTimerId(cleared.scheduler)]

(***************************************************************************)
(* The tracker.                                                            *)
(***************************************************************************)
WithoutTimer(r, c) ==
  IF r.callTimer[c] = 0 THEN r
  ELSE [r EXCEPT !.callTimer[c] = 0, !.timerCall[r.callTimer[c]] = NoCall]

Register(r, c, timeout) ==
  LET id == NewTimerId(r.scheduler)
      registered == [r EXCEPT !.pending = @ \union {c}, !.cancelled = @ \ {c},
                              !.streamSeq[c] = -1]
  IN IF timeout = 0 THEN registered
     ELSE [registered EXCEPT !.scheduler = SetTimeout(@, now, timeout),
                             !.callTimer[c] = id, !.timerCall[id] = c]

\* on_complete, and the clearing of the timer it hands back.
Completed(r, c) ==
  LET forgotten == [WithoutTimer(r, c) EXCEPT !.pending = @ \ {c},
                                              !.cancelled = @ \ {c},
                                              !.streamSeq[c] = -1]
  IN IF r.callTimer[c] = 0 THEN forgotten
     ELSE [forgotten EXCEPT !.scheduler = ClearTimeout(@, r.callTimer[c])]

Enqueue(r, c, outcome) ==
  [r EXCEPT !.scheduler = EnqueueHostcallComplete(@, c, outcome)]

IsActive(r, c) == c \in r.pending /\ c \notin r.cancelled

\* A cancelled call ends with an empty last chunk, behind those already sent.
CancelHostcall(r, c) ==
  IF ~IsActive(r, c) THEN r
  ELSE LET quiet == [WithoutTimer(r, c) EXCEPT !.cancelled = @ \union {c}]
           timer == r.callTimer[c]
       IN Enqueue(IF timer = 0 THEN quiet
                  ELSE [quiet EXCEPT !.scheduler = ClearTimeout(@, timer)],
                  c, Sentinel(r.streamSeq[c] + 1))

\* A full queue refuses: the call is forgotten first, then told so.
PushRequest(r, c) ==
  IF Len(r.queue) < QueueLimit THEN [r EXCEPT !.queue = Append(@, c)]
  ELSE Enqueue(Completed(r, c), c, Failed("overloaded"))

(***************************************************************************)
(* Streams.  Each operator gives the runtime after the method; Heard says  *)
(* what the reader is handed by it, nothing or one item.                   *)
(***************************************************************************)
\* Mutant: a stream is watched when it is over the limit, not at it.
PushChunkLate(r, c, outcome) ==
  LET s == r.streams[c]
      ended == IF outcome.final
               THEN [ClearStall(r, c) EXCEPT !.streams[c].done = TRUE] ELSE r
      item == IF outcome.null THEN End ELSE Item(outcome.seq)
      buffered == [ended EXCEPT !.streams[c].buffer = Append(@, item)]
  IN CASE s.closed -> r
       [] ~s.closed /\ s.waiting ->
            [ClearStall(ended, c) EXCEPT !.streams[c].waiting = FALSE]
       [] OTHER ->
            IF ~buffered.streams[c].done
               /\ Len(buffered.streams[c].buffer) > BufferLimit
            THEN ArmStall(buffered, c) ELSE buffered

PushChunk(r, c, outcome) ==
  LET s == r.streams[c]
      ended == IF outcome.final
               THEN [ClearStall(r, c) EXCEPT !.streams[c].done = TRUE] ELSE r
      item == IF outcome.null THEN End ELSE Item(outcome.seq)
      buffered == [ended EXCEPT !.streams[c].buffer = Append(@, item)]
  IN CASE s.closed -> r
       [] ~s.closed /\ s.waiting ->
            [ClearStall(ended, c) EXCEPT !.streams[c].waiting = FALSE]
       [] OTHER ->
            IF ~buffered.streams[c].done
               /\ Len(buffered.streams[c].buffer) >= BufferLimit
            THEN ArmStall(buffered, c) ELSE buffered

PushError(r, c) ==
  LET s == r.streams[c]
      ended == [ClearStall(r, c) EXCEPT !.streams[c].done = TRUE]
  IN CASE s.closed -> r
       [] ~s.closed /\ s.waiting -> [ended EXCEPT !.streams[c].waiting = FALSE]
       [] OTHER -> [ended EXCEPT !.streams[c].buffer = Append(@, Broken)]

Heard(r, c, item) ==
  IF r.streams[c].waiting /\ ~r.streams[c].closed THEN <<item>> ELSE <<>>

\* The item a reader that pulls now gets, if one is there.
Pulled(s) ==
  CASE s.buffer # <<>> -> <<Head(s.buffer)>>
    [] s.buffer = <<>> /\ s.done -> <<End>>
    [] OTHER -> <<>>

AfterPull(r, c) ==
  LET s == r.streams[c]
      shorter == [r EXCEPT !.streams[c].buffer = Tail(@)]
  IN CASE s.buffer # <<>> /\ s.done -> shorter
       [] s.buffer # <<>> /\ ~s.done ->
            IF Len(s.buffer) - 1 < BufferLimit
            THEN ClearStall(shorter, c) ELSE ArmStall(shorter, c)
       [] OTHER -> [ClearStall(r, c) EXCEPT !.streams[c].waiting = ~s.done]

(***************************************************************************)
(* __pi_complete_hostcall.  Deliver gives the runtime after it, Tells what *)
(* chunk the program is given, Settles how the promise settles.            *)
(***************************************************************************)
Deaf(r, c) == c \notin r.listening

\* Chunks count up from nought; a gap is allowed, after a cancellation.
InSequence(r, c, outcome) ==
  IF r.lastSeq[c] = -1 THEN outcome.seq = 0 ELSE outcome.seq > r.lastSeq[c]

Released(r, c) == [r EXCEPT !.listening = @ \ {c}]

Breaks(r, c, outcome) ==
  \/ outcome.type = "error"
  \/ outcome.type = "chunk" /\ ~InSequence(r, c, outcome)

Deliver(r, c, outcome) ==
  LET counted == [r EXCEPT !.lastSeq[c] = outcome.seq]
      pushed == IF c \in Streams THEN PushChunk(counted, c, outcome) ELSE counted
  IN CASE Deaf(r, c) -> r
       [] ~Deaf(r, c) /\ Breaks(r, c, outcome) ->
            Released(IF c \in Streams THEN PushError(r, c) ELSE r, c)
       [] ~Deaf(r, c) /\ outcome.type = "ok" -> Released(r, c)
       [] OTHER -> IF outcome.final THEN Released(pushed, c) ELSE pushed

Tells(r, c, outcome) ==
  CASE Deaf(r, c) -> <<>>
    [] ~Deaf(r, c) /\ Breaks(r, c, outcome) ->
         IF c \in Streams THEN Heard(r, c, Broken) ELSE <<>>
    [] ~Deaf(r, c) /\ outcome.type = "ok" -> <<>>
    [] OTHER ->
         LET item == IF outcome.null THEN End ELSE Item(outcome.seq) IN
           CASE c \in Streams -> Heard(r, c, item)
             [] c \in Chunked -> <<item>>
             [] OTHER -> <<>>

Settles(r, c, outcome) ==
  CASE Deaf(r, c) \/ c \in Streams -> result[c]
    [] ~Deaf(r, c) /\ Breaks(r, c, outcome) -> "rejected"
    [] ~Deaf(r, c) /\ outcome.type = "ok" -> "resolved"
    [] OTHER -> IF outcome.final THEN "resolved" ELSE result[c]

Delivered(before, c, outcome) ==
  /\ rt' = Deliver(before, c, outcome)
  /\ result' = [result EXCEPT ![c] = Settles(before, c, outcome)]
  /\ got' = [got EXCEPT ![c] = @ \o Tells(before, c, outcome)]

(***************************************************************************)
(* The program.                                                            *)
(***************************************************************************)
\* The native half registers and queues the call, then JavaScript listens.
Call(c) ==
  /\ host[c].state = "new"
  /\ now + HostcallTimeout <= MaxTime
  /\ LET registered == Register(rt, c, IF c \in Exits THEN 0 ELSE HostcallTimeout)
         pushed == PushRequest(registered, c)
     IN rt' = [pushed EXCEPT !.listening = @ \union ({c} \ Exits)]
  /\ host' = [host EXCEPT ![c].state = "sent"]
  /\ UNCHANGED <<now, result, got>>

Made(c) == host[c].state # "new"

\* The reader asks for the next chunk; it waits for one before it asks again.
Pull(c) ==
  /\ Made(c)
  /\ ~rt.streams[c].waiting /\ ~rt.streams[c].closed
  /\ \A i \in 1..Len(got[c]) : got[c][i].item = "chunk"
  /\ rt' = AfterPull(rt, c)
  /\ got' = [got EXCEPT ![c] = @ \o Pulled(rt.streams[c])]
  /\ UNCHANGED <<host, now, result>>

\* The reader leaves its loop.
Return(c) ==
  /\ Made(c) /\ ~rt.streams[c].closed
  /\ LET stopped == IF rt.streams[c].done THEN rt ELSE CancelHostcall(rt, c) IN
       rt' = [ClearStall(stopped, c)
                EXCEPT !.streams[c] = [@ EXCEPT !.closed = TRUE, !.done = TRUE,
                                                !.buffer = <<>>, !.waiting = FALSE]]
  /\ UNCHANGED <<host, now, result, got>>

\* A killed child process, or an aborted request.
Cancel(c) ==
  /\ Made(c) /\ c \notin Streams \union Exits
  /\ IsActive(rt, c)
  /\ rt' = CancelHostcall(rt, c)
  /\ UNCHANGED <<host, now, result, got>>

UserTimers == {t \in TimerIds : rt.callbacks[t] = "user"}

SetUserTimer(delay) ==
  /\ rt.scheduler.nextId <= MaxUserTimers
  /\ now + delay <= MaxTime
  /\ rt' = SetTimer(rt, delay, "user")
  /\ UNCHANGED <<host, now, result, got>>

ClearUserTimer(id) ==
  /\ id \in UserTimers
  /\ rt' = ClearTimer(rt, id)
  /\ UNCHANGED <<host, now, result, got>>

Program ==
  \/ \E c \in Calls : Call(c)
  \/ \E c \in Streams : Pull(c)
  \/ \E c \in Streams : Return(c)
  \/ \E c \in Calls : Cancel(c)
  \/ \E delay \in 0..1 : SetUserTimer(delay)
  \/ \E id \in TimerIds : ClearUserTimer(id)

(***************************************************************************)
(* The host.                                                               *)
(***************************************************************************)
DrainHostcallRequests ==
  /\ rt.queue # <<>>
  /\ rt' = [rt EXCEPT !.queue = <<>>]
  /\ host' = [c \in Calls |-> IF c \in Range(rt.queue)
                              THEN [host[c] EXCEPT !.state = "dispatched"] ELSE host[c]]
  /\ UNCHANGED <<now, result, got>>

\* Chunks are remembered by the tracker while the call is pending.
CompleteHostcall(c, outcome) ==
  /\ host[c].state = "dispatched"
  /\ LET recorded ==
           IF outcome.type = "chunk" /\ c \in rt.pending /\ outcome.seq > rt.streamSeq[c]
           THEN [rt EXCEPT !.streamSeq[c] = outcome.seq] ELSE rt
     IN rt' = Enqueue(recorded, c, outcome)
  /\ host' = [host EXCEPT ![c].chunks = @ + (IF outcome.type = "chunk" THEN 1 ELSE 0),
                          ![c].state = IF outcome.type = "chunk" /\ ~outcome.final
                                       THEN "dispatched" ELSE "answered"]
  /\ UNCHANGED <<now, result, got>>

ChunkLimit(c) ==
  CASE c \in Streams -> MaxChunks [] c \in Chunked -> 1 [] OTHER -> 0

\* Streams end with a last chunk, other calls with a result, all with an error.
Outcomes(c) ==
  {Failed("io")}
    \union (IF host[c].chunks < ChunkLimit(c)
            THEN {Chunk(host[c].chunks, FALSE)} ELSE {})
    \union (IF c \in Streams THEN {Chunk(host[c].chunks, TRUE)} ELSE {Ok})

Host ==
  \/ DrainHostcallRequests
  \/ \E c \in Calls : \E outcome \in Outcomes(c) : CompleteHostcall(c, outcome)

(***************************************************************************)
(* The event loop.                                                         *)
(***************************************************************************)
\* Mutant: chunks of a cancelled call get through.
HostcallCompleteAll(r, task) ==
  LET c == task.call
      partial == task.outcome.type = "chunk" /\ ~task.outcome.final
  IN IF c \in r.pending
     THEN Delivered(IF partial THEN r ELSE Completed(r, c), c, task.outcome)
     ELSE rt' = r /\ UNCHANGED <<result, got>>

HostcallComplete(r, task) ==
  LET c == task.call
      partial == task.outcome.type = "chunk" /\ ~task.outcome.final
  IN IF partial
     THEN IF IsActive(r, c) THEN Delivered(r, c, task.outcome)
          ELSE rt' = r /\ UNCHANGED <<result, got>>
     ELSE IF c \in r.pending THEN Delivered(Completed(r, c), c, task.outcome)
          ELSE rt' = r /\ UNCHANGED <<result, got>>

\* The timer of a call that still waits: the call fails.
TimedOut(r, c) ==
  [WithoutTimer(r, c) EXCEPT !.pending = @ \ {c}, !.cancelled = @ \ {c},
                             !.streamSeq[c] = -1]

\* A stream that is still full and unread is cancelled.
StallCallback(r, c) ==
  LET s == r.streams[c]
      off == [r EXCEPT !.streams[c].stall = 0]
  IN IF s.done \/ s.waiting \/ Len(s.buffer) < BufferLimit THEN off
     ELSE CancelHostcall(off, c)

\* Mutant: the timer is taken from the call, and the call not from the tracker.
TimerFiredOnly(r, id) ==
  LET c == r.timerCall[id]
      owner == r.callbacks[id]
      fired == [r EXCEPT !.callbacks[id] = "none"]
  IN /\ rt' = CASE c # NoCall -> WithoutTimer(r, c)
                [] c = NoCall /\ owner \in Calls -> StallCallback(fired, owner)
                [] OTHER -> fired
     /\ UNCHANGED <<result, got>>

TimerFired(r, id) ==
  LET c == r.timerCall[id]
      owner == r.callbacks[id]
      fired == [r EXCEPT !.callbacks[id] = "none"]
  IN IF c # NoCall THEN Delivered(TimedOut(r, c), c, Failed("timeout"))
     ELSE /\ rt' = IF owner \in Calls THEN StallCallback(fired, owner) ELSE fired
          /\ UNCHANGED <<result, got>>

\* Which listeners hear an event is not modelled: none of them matters here.
TickRuntime ==
  /\ LET ready == Ready(rt.scheduler, now)
         r == [rt EXCEPT !.scheduler = AfterTick(@, now)]
     IN IF ready = <<>> THEN rt' = r /\ UNCHANGED <<result, got>>
        ELSE LET task == Head(ready) IN
               CASE task.kind = "hostcall" -> HostcallComplete(r, task)
                 [] task.kind = "timer" -> TimerFired(r, task.id)
  /\ UNCHANGED <<host, now>>

Clock ==
  /\ now < MaxTime
  /\ now' = now + 1
  /\ UNCHANGED <<rt, host, result, got>>

Next == Program \/ Host \/ TickRuntime \/ Clock

Spec == Init /\ [][Next]_vars

(***************************************************************************)
(* Properties.                                                             *)
(***************************************************************************)
TypeOK ==
  /\ rt.pending \subseteq Calls /\ rt.cancelled \subseteq Calls
  /\ rt.listening \subseteq Calls
  /\ rt.callTimer \in [Calls -> TimerIds \union {0}]
  /\ rt.timerCall \in [TimerIds -> Calls \union {NoCall}]
  /\ rt.streamSeq \in [Calls -> -1..(MaxChunks + 1)]
  /\ rt.lastSeq \in [Calls -> -1..(MaxChunks + 1)]
  /\ rt.queue \in Seq(Calls) /\ Len(rt.queue) <= QueueLimit
  /\ \A c \in Calls : rt.streams[c].stall \in TimerIds \union {0}
  /\ now \in 0..MaxTime
  /\ result \in [Calls -> {"open", "resolved", "rejected"}]

\* The two tables of timed calls are inverse to each other, and only calls
\* that wait and were not cancelled are in them.
TrackerAgrees ==
  /\ \A c \in Calls : rt.callTimer[c] # 0 => rt.timerCall[rt.callTimer[c]] = c
  /\ \A t \in TimerIds : rt.timerCall[t] # NoCall =>
       /\ rt.callTimer[rt.timerCall[t]] = t
       /\ IsActive(rt, rt.timerCall[t])
  /\ rt.cancelled \subseteq rt.pending

LiveIds == {e.id : e \in LiveTimers(rt.scheduler)}
FiredIds == {t.id : t \in {u \in Range(rt.scheduler.tasks) : u.kind = "timer"}}
Owned(id) == rt.timerCall[id] # NoCall \/ rt.callbacks[id] # "none"

\* Whoever waits for a timer has one that is set or has just fired, and a timer
\* that nobody waits for is cleared: it would keep the runtime pending.
TimersHaveOwners ==
  /\ \A id \in TimerIds : Owned(id) => id \in LiveIds \union FiredIds
  /\ \A id \in LiveIds : Owned(id)
  /\ \A id \in TimerIds : rt.timerCall[id] = NoCall \/ rt.callbacks[id] = "none"

\* A refused call: never dispatched, and no longer in the queue.
Refused(c) == host[c].state = "sent" /\ c \notin Range(rt.queue)

\* JavaScript listens only for calls that Rust still tracks, so that their
\* outcome gets through; those refused by a full queue are left out, because
\* their outcome comes after the tracker has forgotten them and is ignored.
ListenersAreTracked ==
  \A c \in rt.listening : c \in rt.pending \/ Refused(c)

\* A call is in every table it should be in, and in no other, whichever of its
\* answer, its timeout, its cancellation and its refusal comes first.
CallTablesAgree == TypeOK /\ TrackerAgrees /\ TimersHaveOwners /\ ListenersAreTracked

\* The program gets the chunks of a call one by one in the order they were
\* sent, none twice; only the last may leave some out, when the call was
\* cancelled, and nothing follows an end.
ChunksInOrder ==
  \A c \in Calls : \A i \in 1..Len(got[c]) :
    /\ got[c][i].item = "chunk" => got[c][i].seq >= i - 1
    /\ i < Len(got[c]) => got[c][i].item = "chunk"
    /\ i < Len(got[c]) /\ got[c][i + 1].item = "chunk" => got[c][i] = Item(i - 1)

\* A stream that is full and unread has a timer that will cancel it, unless such
\* timers are off, and it has one only then.
FullStreamsAreWatched ==
  \A c \in Calls :
    LET s == rt.streams[c]
        full == ~s.done /\ Len(s.buffer) >= BufferLimit
    IN /\ StallTimeout > 0 /\ full /\ IsActive(rt, c) => s.stall # 0
       /\ s.stall # 0 => full /\ rt.callbacks[s.stall] = c

\* A cancelled call tells the program nothing but its end.
CancelledIsQuiet ==
  [][\A c \in rt.cancelled : c \in rt'.cancelled => rt'.lastSeq[c] = rt.lastSeq[c]]_vars

\* A stream's reader is told the truth in order, nothing after a cancel, and a
\* stream that has no reader is given up.
StreamsAreSound == [](ChunksInOrder /\ FullStreamsAreWatched) /\ CancelledIsQuiet

\* An outcome that ends c and that its listener will hear is on its way.
EndIsComing(c) ==
  \E i \in DOMAIN rt.scheduler.tasks :
    LET task == rt.scheduler.tasks[i] IN
      /\ task.kind = "hostcall" /\ task.call = c
      /\ task.outcome.type = "chunk" => task.outcome.final

\* Every call the queue took comes to an end though no host may answer: a timer
\* that will fail it is set or has just fired, or its end is on its way.  With
\* an event loop that ticks, no promise or reader of one waits for ever.
CallsWillEnd ==
  \A c \in rt.listening :
    \/ Refused(c) \/ EndIsComing(c)
    \/ HostcallTimeout > 0 => rt.callTimer[c] \in LiveIds \union FiredIds

\* Hostcalls as a whole: every table agrees about a call, and each call is on
\* its way to an end.
CallsAreSound == CallTablesAgree /\ CallsWillEnd
=============================================================================
