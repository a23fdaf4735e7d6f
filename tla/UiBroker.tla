------------------------------ MODULE UiBroker ------------------------------
(* The broker of e-agent-tui/src/broker.rs between extension code, which asks *)
(* the terminal UI for dialogs, keys and updates, and the event loop of       *)
(* e-agent-tui/src/lib.rs, which serves it: the broker's tables under their   *)
(* lock, the bounded channel of envelopes, the part of the reducer that       *)
(* answers them, and the start and the shutdown of the program around it.    *)
EXTENDS Naturals, Sequences, FiniteSets, SequencesExt, Selection

CONSTANTS Callers,        \* tasks that call request_until; the program has one, the JS runtime
          Extensions,
          Keys,           \* what keyed updates are about
          Operations,     \* what is asked for, out of OperationKinds
          Deadlines,      \* may a request have a deadline, may it have none?
          QueueCapacity,  \* QUEUE_CAPACITY
          NotificationCapacity, \* how many notifications the UI keeps
          MaxRequests,    \* bound: requests ever made
          Unloads         \* are extensions unloaded?

OperationKinds == {"dialog", "set", "editor", "notify", "poll"}

ASSUME UiBrokerAssumption ==
    /\ Operations \subseteq OperationKinds
    /\ Deadlines \subseteq BOOLEAN
    /\ QueueCapacity \in Nat \ {0} /\ NotificationCapacity \in Nat \ {0}
    /\ MaxRequests \in Nat
    /\ Unloads \in BOOLEAN

VARIABLES
    requests,                                 \* every envelope made; its index is its id
    answers,                                  \* what each was answered with, or "none"
    pending, modal, owned, coalesced, polls,  \* BrokerState
    closed,
    channel,                                  \* the mpsc of envelopes
    caller,                                   \* where each caller is in request_until
    script,                                   \* is the session waiting for extension code?
    phase,                                    \* of the program
    dialog, editor, notifications, shown      \* UiState: dialog, custom_editor, notifications,
                                              \* contributions and frames

tables == <<answers, pending, modal, owned, coalesced, polls>>
screen == <<dialog, editor, notifications, shown>>
vars   == <<requests, tables, closed, channel, caller, script, phase, screen>>

Ids     == 1..MaxRequests
NoId    == 0
Request == [extension : Extensions, op : OperationKinds, key : Keys,
            flag : BOOLEAN,        \* notify: is its level Error?  editor: is there content?
            deadline : BOOLEAN]
Answers == {"none", "dialog", "ack", "input", "cancelled"}
Phases  == {"starting", "running", "closing", "gone"}
Slots   == Extensions \X (Keys \cup {"custom-editor"})
Idle    == [at |-> "idle", id |-> NoId]

Init ==
    /\ requests = <<>> /\ answers = <<>>
    /\ pending = {} /\ modal = {} /\ owned = [e \in Extensions |-> {}]
    /\ coalesced = [x \in Slots |-> NoId] /\ polls = <<>>
    /\ closed = FALSE /\ channel = <<>>
    /\ caller = [c \in Callers |-> Idle]
    /\ script = FALSE /\ phase = "starting"
    /\ dialog = NoId /\ editor = NoId /\ notifications = <<>>
    /\ shown = [x \in Extensions \X Keys |-> NoId]

-----------------------------------------------------------------------------
(* complete_locked, cancel_locked                                            *)

(* Mutant: the extension keeps its modal slot.                               *)
CompleteKeepingSlot(ids, answer) ==
    LET done == ids \cap pending
    IN  /\ answers' = [i \in DOMAIN answers |-> IF i \in done THEN answer ELSE answers[i]]
        /\ pending' = pending \ done
        /\ owned' = [e \in Extensions |-> owned[e] \ done]
        /\ coalesced' = [x \in Slots |->
                           IF coalesced[x] \in done THEN NoId ELSE coalesced[x]]
        /\ polls' = Without(polls, done)
        /\ UNCHANGED modal

(* Those of `ids` that are pending leave every table and get their answer; the *)
(* others were answered before and nothing happens to them.                  *)
Complete(ids, answer) ==
    LET done == ids \cap pending
    IN  /\ answers' = [i \in DOMAIN answers |-> IF i \in done THEN answer ELSE answers[i]]
        /\ pending' = pending \ done
        /\ modal' = modal \ {requests[i].extension : i \in {j \in done : requests[j].op = "dialog"}}
        /\ owned' = [e \in Extensions |-> owned[e] \ done]
        /\ coalesced' = [x \in Slots |->
                           IF coalesced[x] \in done THEN NoId ELSE coalesced[x]]
        /\ polls' = Without(polls, done)

-----------------------------------------------------------------------------
(* request_until                                                             *)

(* coalesce_key, with the extension.                                         *)
Coalescible(r) == r.op \in {"set", "editor"}
Slot(r) == <<r.extension, IF r.op = "editor" THEN "custom-editor" ELSE r.key>>

(* Under the lock: a second dialog of an extension is Busy, a keyed update     *)
(* cancels the one pending under its key, and the request is entered.        *)
Register(c, r) ==
    LET id  == Len(requests) + 1
        old == IF Coalescible(r) THEN {coalesced[Slot(r)]} \cap pending ELSE {}
    IN  /\ script /\ caller[c] = Idle
        /\ Len(requests) < MaxRequests
        /\ ~closed
        /\ r.op = "dialog" => r.extension \notin modal
        /\ requests' = Append(requests, r)
        /\ answers' = Append([i \in DOMAIN answers |-> IF i \in old THEN "cancelled" ELSE answers[i]],
                             "none")
        /\ pending' = (pending \ old) \cup {id}
        /\ modal' = IF r.op = "dialog" THEN modal \cup {r.extension} ELSE modal
        /\ owned' = [owned EXCEPT ![r.extension] = (@ \ old) \cup {id}]
        /\ coalesced' = IF Coalescible(r) THEN [coalesced EXCEPT ![Slot(r)] = id] ELSE coalesced
        /\ caller' = [caller EXCEPT ![c] = [at |-> "sending", id |-> id]]
        /\ UNCHANGED <<polls, closed, channel, script, phase, screen>>

(* try_send, outside the lock; without room or receiver the request is cancelled. *)
Send(c) ==
    /\ caller[c].at = "sending"
    /\ IF phase # "gone" /\ Len(channel) < QueueCapacity
       THEN /\ channel' = Append(channel, caller[c].id)
            /\ caller' = [caller EXCEPT ![c].at = "waiting"]
            /\ UNCHANGED tables
       ELSE /\ Complete({caller[c].id}, "cancelled")
            /\ caller' = [caller EXCEPT ![c] = Idle]
            /\ UNCHANGED channel
    /\ UNCHANGED <<requests, closed, script, phase, screen>>

Answered(c) ==
    /\ caller[c].at = "waiting"
    /\ answers[caller[c].id] # "none"
    /\ caller' = [caller EXCEPT ![c] = Idle]
    /\ UNCHANGED <<requests, tables, closed, channel, script, phase, screen>>

(* Mutant: the deadline is not looked at.                                    *)
ExpireNever(c) ==
    /\ FALSE
    /\ caller[c].at = "waiting"
    /\ caller' = [caller EXCEPT ![c].at = "expired"]
    /\ UNCHANGED <<requests, tables, closed, channel, script, phase, screen>>

(* The deadline passes; an answer may still come before the request is cancelled. *)
Expire(c) ==
    /\ caller[c].at = "waiting"
    /\ requests[caller[c].id].deadline
    /\ answers[caller[c].id] = "none"
    /\ caller' = [caller EXCEPT ![c].at = "expired"]
    /\ UNCHANGED <<requests, tables, closed, channel, script, phase, screen>>

CancelExpired(c) ==
    /\ caller[c].at = "expired"
    /\ Complete({caller[c].id}, "cancelled")
    /\ caller' = [caller EXCEPT ![c] = Idle]
    /\ UNCHANGED <<requests, closed, channel, script, phase, screen>>

Unload(e) ==
    /\ Unloads /\ owned[e] # {}
    /\ Complete(owned[e], "cancelled")
    /\ UNCHANGED <<requests, closed, channel, caller, script, phase, screen>>

-----------------------------------------------------------------------------
(* The event loop                                                            *)

(* Only the newest notifications are kept.                                   *)
Newest(ns) == IF Len(ns) > NotificationCapacity THEN Tail(ns) ELSE ns

(* Apply an envelope to the UI, whether its request is still pending or not.  *)
Serve(id) ==
    LET r == requests[id]
    IN  CASE r.op = "poll" ->
               /\ polls' = IF id \in pending /\ ~Contains(polls, id) THEN Append(polls, id) ELSE polls
               /\ UNCHANGED <<answers, pending, modal, owned, coalesced, screen>>
          [] r.op = "dialog" ->
               /\ dialog' = id
               /\ UNCHANGED <<tables, editor, notifications, shown>>
          [] r.op = "set" ->
               /\ shown' = [shown EXCEPT ![<<r.extension, r.key>>] = id]
               /\ Complete({id}, "ack")
               /\ UNCHANGED <<dialog, editor, notifications>>
          [] r.op = "editor" ->
               /\ editor' = IF r.flag THEN id ELSE NoId
               /\ Complete({id}, "ack")
               /\ UNCHANGED <<dialog, notifications, shown>>
          [] r.op = "notify" ->
               /\ notifications' = Newest(Append(notifications, id))
               /\ Complete({id}, "ack")
               /\ UNCHANGED <<dialog, editor, shown>>

Receive ==
    /\ phase = "running" /\ channel # <<>>
    /\ channel' = Tail(channel)
    /\ Serve(Head(channel))
    /\ UNCHANGED <<requests, closed, caller, script, phase>>

(* reply_input: the poll queued last gets the key.                           *)
KeyToPoll ==
    /\ phase = "running" /\ polls # <<>>
    /\ Complete({Last(polls)}, "input")
    /\ UNCHANGED <<requests, closed, channel, caller, script, phase, screen>>

(* Mutant: Escape closes the dialog and answers nobody.                      *)
KeyDismissesDialog ==
    /\ phase = "running" /\ polls = <<>> /\ editor = NoId /\ dialog # NoId
    /\ dialog' = NoId
    /\ UNCHANGED <<requests, tables, closed, channel, caller, script, phase, editor, notifications,
                   shown>>

(* A key that decides the dialog on the screen.  A custom editor takes every   *)
(* key before the reducer sees it.                                           *)
KeyToDialog ==
    /\ phase = "running" /\ polls = <<>> /\ editor = NoId /\ dialog # NoId
    /\ dialog' = NoId
    /\ Complete({dialog}, "dialog")
    /\ UNCHANGED <<requests, closed, channel, caller, script, phase, editor, notifications, shown>>

(* Escape, when nothing takes it; or the terminal's input or the session's     *)
(* events end.  The loop is left for abort and close of the session.         *)
Exit ==
    /\ phase = "running"
    /\ phase' = "closing"
    /\ UNCHANGED <<requests, tables, closed, channel, caller, script, screen>>

(* Drop for UiBrokerServer.                                                  *)
DropServer ==
    /\ phase' = "gone"
    /\ closed' = TRUE
    /\ channel' = <<>>
    /\ Complete(pending, "cancelled")
    /\ UNCHANGED <<requests, caller, script, screen>>

(* close() is answered once the session waits for no extension any more.      *)
FinishClose == phase = "closing" /\ ~script /\ DropServer

(* The terminal cannot be drawn on, or resume_pending fails: no close.        *)
Fail == phase \in {"starting", "running"} /\ (phase = "starting" => ~script) /\ DropServer

-----------------------------------------------------------------------------
(* The session and the extension code it waits for                           *)

(* resume_pending returned: the event loop starts.                           *)
Attach ==
    /\ phase = "starting" /\ ~script
    /\ phase' = "running"
    /\ UNCHANGED <<requests, tables, closed, channel, caller, script, screen>>

StartScript ==
    /\ ~script /\ phase # "gone"
    /\ script' = TRUE
    /\ UNCHANGED <<requests, tables, closed, channel, caller, phase, screen>>

EndScript ==
    /\ script /\ \A c \in Callers : caller[c] = Idle
    /\ script' = FALSE
    /\ UNCHANGED <<requests, tables, closed, channel, caller, phase, screen>>

Caller(c) == Send(c) \/ Answered(c) \/ CancelExpired(c)

Next ==
    \/ \E c \in Callers, r \in Request :
           /\ r.op \in Operations /\ r.deadline \in Deadlines /\ (r.flag => r.op \in {"notify", "editor"})
           /\ Register(c, r)
    \/ \E c \in Callers : Caller(c) \/ Expire(c)
    \/ \E e \in Extensions : Unload(e)
    \/ Receive \/ KeyToPoll \/ KeyToDialog \/ Exit \/ FinishClose \/ Fail
    \/ Attach \/ StartScript \/ EndScript

Spec == Init /\ [][Next]_vars

(* Threads run, clocks advance, extension code that is not waiting returns,    *)
(* and a session that gets to its next hook again and again gets to its end.  *)
Fairness ==
    /\ \A c \in Callers : WF_vars(Caller(c)) /\ WF_vars(Expire(c))
    /\ WF_vars(EndScript)
    /\ WF_vars(Receive)
    /\ SF_vars(Attach \/ FinishClose)

FairSpec == Spec /\ Fairness

-----------------------------------------------------------------------------
(* Properties                                                                *)

(* The variables hold values of their types.                                 *)
TypeOK ==
    /\ requests \in Seq(Request) /\ Len(requests) <= MaxRequests
    /\ answers \in Seq(Answers) /\ Len(answers) = Len(requests)
    /\ pending \subseteq DOMAIN requests
    /\ modal \subseteq Extensions
    /\ owned \in [Extensions -> SUBSET Ids]
    /\ coalesced \in [Slots -> Ids \cup {NoId}]
    /\ polls \in Seq(Ids) /\ channel \in Seq(Ids)
    /\ closed \in BOOLEAN /\ script \in BOOLEAN /\ phase \in Phases
    /\ caller \in [Callers -> [at : {"idle", "sending", "waiting", "expired"}, id : Ids \cup {NoId}]]
    /\ dialog \in Ids \cup {NoId} /\ editor \in Ids \cup {NoId} /\ notifications \in Seq(Ids)
    /\ shown \in [Extensions \X Keys -> Ids \cup {NoId}]

(* The five tables tell the same story after every registration, answer,       *)
(* timeout, unload and shutdown: a request is pending as long as it has no     *)
(* answer; an extension is refused dialogs exactly while one of its dialogs is *)
(* pending, of which there is one; a key names the only pending update of that *)
(* key; and keys are handed only to polls that still wait (request_until,     *)
(* complete_locked, queue_input_poll).                                       *)
TablesAgree ==
    /\ pending = {i \in DOMAIN requests : answers[i] = "none"}
    /\ \A e \in Extensions :
         LET dialogs == {i \in pending : requests[i].op = "dialog" /\ requests[i].extension = e}
         IN  /\ Cardinality(dialogs) <= 1
             /\ e \in modal <=> dialogs # {}
             /\ owned[e] = {i \in pending : requests[i].extension = e}
    /\ \A x \in Slots :
         {i \in pending : Coalescible(requests[i]) /\ Slot(requests[i]) = x}
             = {coalesced[x]} \ {NoId}
    /\ \A i \in 1..Len(polls) : polls[i] \in pending /\ \A j \in 1..(i - 1) : polls[i] # polls[j]

(* Once the server is dropped nobody waits for it: every caller has its answer *)
(* or is about to be refused (Drop, request_until).                          *)
NobodyWaitsInVain ==
    closed => /\ pending = {}
              /\ \A c \in Callers : caller[c].at = "waiting" => answers[caller[c].id] # "none"

(* The broker's state as a whole, under two callers of two extensions.         *)
BrokerIsSound == TypeOK /\ TablesAgree /\ NobodyWaitsInVain

(* Whoever still waits for an answer can be given one: its envelope is in the  *)
(* channel, its dialog is on the screen or its poll is queued.  With the one   *)
(* JS runtime of the program no timeout, late envelope or refused request      *)
(* leaves a caller behind that no event can answer (reduce_ui, reduce_input,  *)
(* queue_input_poll).                                                        *)
WaitersCanBeAnswered ==
    \A c \in Callers :
        caller[c].at = "waiting" /\ answers[caller[c].id] = "none" =>
            \/ Contains(channel, caller[c].id)
            \/ dialog = caller[c].id
            \/ Contains(polls, caller[c].id)

(* An update that was acknowledged is on the screen or has been replaced by a  *)
(* later one, also when updates that timed out are still in the channel.     *)
AcknowledgedIsShown ==
    \A i \in DOMAIN requests :
        requests[i].op = "set" /\ answers[i] = "ack"
            => shown[<<requests[i].extension, requests[i].key>>] >= i

(* What the program's user interface promises: an answer, and that it shows    *)
(* what it acknowledged.                                                     *)
ScreenIsFaithful == WaitersCanBeAnswered /\ AcknowledgedIsShown

Untimed(c) == caller[c].at = "waiting" /\ ~requests[caller[c].id].deadline

(* Every call of request_until that has a deadline returns, whether its        *)
(* envelope is in the channel, served, late, or never looked at (the timeout   *)
(* of request_until).                                                        *)
TimedRequestsReturn ==
    \A c \in Callers :
        caller[c] # Idle /\ requests[caller[c].id].deadline ~> caller[c] = Idle

(* Leaving the user interface ends the program, or extension code is waiting   *)
(* for a request without a deadline: nothing else can hold up the close of the *)
(* session (Shutdown: abort and close, then the drop of the server).         *)
ExitWaitsOnlyForUntimed ==
    phase = "closing" ~> phase = "gone" \/ \E c \in Callers : Untimed(c)

(* What waits at the user interface comes to an end, of a call and of the exit. *)
WaitsAtTheScreenEnd == TimedRequestsReturn /\ ExitWaitsOnlyForUntimed
=============================================================================
