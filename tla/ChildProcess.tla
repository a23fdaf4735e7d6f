---------------------------- MODULE ChildProcess ----------------------------
(***************************************************************************)
(* Child processes as JavaScript sees them: a child is a host call with a  *)
(* callback for its chunks, a pid in a registry, and events.  exec and     *)
(* execFile gather the output for a callback and kill a child that writes  *)
(* too much.  The synchronous variants keep no state.                      *)
(* Source: src/e-agent-node-runtime/src/runtime.rs (node:child_process).   *)
(***************************************************************************)
EXTENDS NodeRuntime

CONSTANT Children   \* the calls that are made for a child

ASSUME ChildrenAreChunked == Children \subseteq Chunked /\ Children \subseteq Calls

VARIABLES
  children,   \* __pi_child_process_state.children: the registry
  child,      \* child[c]: how it was made, what it emitted, its callback
  emitting    \* the chunk JavaScript is emitting, a part after the other

childVars == <<children, child, emitting>>

ChildKinds == {"spawn", "exec"}
NoChild == [kind |-> "none", done |-> FALSE, killed |-> FALSE, heard |-> <<>>,
            over |-> FALSE, called |-> <<>>]
Silence == [call |-> NoCall, parts |-> <<>>]

ChildInit ==
  /\ children = {}
  /\ child = [c \in Calls |-> NoChild]
  /\ emitting = Silence

(***************************************************************************)
(* Events and the callback of exec, which is called once.                  *)
(***************************************************************************)
Emits(k, event) == [k EXCEPT !.heard = Append(@, event)]

\* Mutant: the callback is called for every end.
CallBackAgain(k, outcome) ==
  IF k.kind = "spawn" THEN k ELSE [k EXCEPT !.called = Append(@, outcome)]

CallBack(k, outcome) ==
  IF k.kind = "spawn" \/ k.called # <<>> THEN k ELSE [k EXCEPT !.called = <<outcome>>]

\* What the listener of close says: nothing of a child that wrote too much.
OnClose(k, code) ==
  CASE k.over -> k
    [] ~k.over /\ code = "failed" -> CallBack(k, "failed")
    [] ~k.over /\ code # "failed" /\ k.killed -> CallBack(k, "killed")
    [] OTHER -> CallBack(k, "ok")

EmitCloseOnce(k, code) ==
  IF k.done THEN k
  ELSE OnClose([Emits(Emits(k, "exit"), "close") EXCEPT !.done = TRUE], code)

Closes(c, k, code) ==
  /\ child' = [child EXCEPT ![c] = EmitCloseOnce(k, code)]
  /\ children' = children \ {c}

(***************************************************************************)
(* The program.                                                            *)
(***************************************************************************)
Spawn(c, kind) ==
  /\ Call(c)
  /\ child' = [child EXCEPT ![c].kind = kind]
  /\ children' = children \union {c}
  /\ UNCHANGED emitting

\* child.kill and process.kill: the call is cancelled, and the child is closed without
\* waiting for it.  If the call cannot be cancelled any more nothing happens.
KillChild(c) ==
  /\ ~child[c].done
  /\ Cancel(c)
  /\ Closes(c, [child[c] EXCEPT !.killed = TRUE], "killed")

Kill(c) == KillChild(c) /\ UNCHANGED emitting

(***************************************************************************)
(* What a tick brings.                                                     *)
(***************************************************************************)
GotChunk(c) == got'[c] # got[c] /\ got'[c][Len(got'[c])].item = "chunk"

\* A chunk for a child that is done is dropped; another is emitted, its output before
\* its errors, each if it is not empty.
Chunks(c) ==
  /\ GotChunk(c) /\ ~child[c].done
  /\ \E parts \in {<<>>, <<"stdout">>, <<"stderr">>, <<"stdout", "stderr">>} :
       emitting' = IF parts = <<>> THEN Silence ELSE [call |-> c, parts |-> parts]
  /\ UNCHANGED <<children, child>>

\* A result closes the child with its code, a failed call with an error.  No host of
\* the repository says that it killed the process.
SettleChild(c) ==
  /\ result'[c] # result[c] /\ ~child[c].done
  /\ \/ /\ result'[c] = "resolved"
        /\ \E code \in {"ok", "failed"} : Closes(c, child[c], code)
     \/ /\ result'[c] = "rejected"
        /\ Closes(c, CallBack(Emits(child[c], "error"), "failed"), "failed")
  /\ UNCHANGED emitting

Unmoved(c) == child[c].done \/ (~GotChunk(c) /\ result'[c] = result[c])

TickChildren ==
  /\ TickRuntime
  /\ \/ \E c \in Children : Chunks(c) \/ SettleChild(c)
     \/ (\A c \in Children : Unmoved(c)) /\ UNCHANGED childVars

Rest == [emitting EXCEPT !.parts = Tail(@)]
AfterPart == IF Len(emitting.parts) > 1 THEN Rest ELSE Silence

\* A listener of the program hears a part of the chunk, and may kill the child.
EmitPart(c) ==
  /\ child[c].kind = "spawn"
  /\ LET k == Emits(child[c], Head(emitting.parts)) IN
       \/ /\ child' = [child EXCEPT ![c] = k]
          /\ UNCHANGED <<vars, children>>
       \/ /\ ~k.done /\ Cancel(c)
          /\ Closes(c, [k EXCEPT !.killed = TRUE], "killed")
  /\ emitting' = AfterPart

\* exec gathers the part.  The first that is too long kills the child, whose call is
\* tracked as long as it gets chunks, and the callback is called with an error.
GatherPart(c) ==
  /\ child[c].kind = "exec"
  /\ LET k == Emits(child[c], Head(emitting.parts))
         over == [k EXCEPT !.over = TRUE]
     IN \/ /\ child' = [child EXCEPT ![c] = k]
           /\ UNCHANGED <<vars, children>>
        \/ /\ ~k.over /\ ~k.done /\ Cancel(c)
           /\ child' = [child EXCEPT
                ![c] = CallBack(EmitCloseOnce([over EXCEPT !.killed = TRUE], "killed"), "too long")]
           /\ children' = children \ {c}
  /\ emitting' = AfterPart

Emit ==
  /\ emitting # Silence
  /\ EmitPart(emitting.call) \/ GatherPart(emitting.call)

(***************************************************************************)
(* JavaScript emits a chunk to the end before anything else happens.       *)
(***************************************************************************)
ChildNext ==
  \/ Emit
  \/ /\ emitting = Silence
     /\ \/ \E c \in Children : (\E kind \in ChildKinds : Spawn(c, kind)) \/ Kill(c)
        \/ TickChildren
        \/ (Host \/ Clock) /\ UNCHANGED childVars

ChildSpec == Init /\ ChildInit /\ [][ChildNext]_<<vars, childVars>>

(***************************************************************************)
(* Properties.                                                             *)
(***************************************************************************)
ChildTypeOK ==
  /\ children \subseteq Children
  /\ \A c \in Calls : child[c].kind \in ChildKinds \union {"none"}
  /\ emitting # Silence => emitting.call \in Children /\ emitting.parts # <<>>

\* A pid can be looked up, and its process killed, exactly until its child is closed.
RegistryIsOfTheLiving ==
  \A c \in Children : c \in children <=> child[c].kind # "none" /\ ~child[c].done

Outputs == {"stdout", "stderr"}
EventSet(c) == Range(child[c].heard)
At(c, event) == {i \in DOMAIN child[c].heard : child[c].heard[i] = event}

\* A child exits and closes once, one right after the other, an error comes right before,
\* and output before all of them; only the errors of the chunk that made a listener kill
\* the child come after it was closed (onChunk looks at __pi_done once for both).
EventsAreInOrder ==
  \A c \in Children :
    /\ \A event \in {"error", "exit", "close"} : Cardinality(At(c, event)) <= 1
    /\ At(c, "close") = {i + 1 : i \in At(c, "exit")}
    /\ \A i \in At(c, "error") : i + 1 \in At(c, "exit")
    /\ child[c].done <=> At(c, "close") # {}
    /\ \A i \in At(c, "close") : \A j \in DOMAIN child[c].heard :
         j > i => j = i + 1 /\ child[c].heard[j] = "stderr" /\ child[c].killed

\* The callback of exec has been called, once, exactly when its child is closed; with
\* success only if nobody killed the child, and never after too much output.
CallbackIsCalledOnce ==
  \A c \in Children :
    child[c].kind = "exec" =>
      /\ Len(child[c].called) = (IF child[c].done THEN 1 ELSE 0)
      /\ child[c].called = <<"ok">> => ~child[c].killed /\ ~child[c].over
      /\ child[c].over => child[c].called = <<"too long">>

\* A child that is not closed will be: its call is still tracked and its end on its way
\* or timed, unless the queue refused it (execPromise, __pi_cancel_hostcall_native).
ChildrenWillClose ==
  \A c \in children :
    \/ Refused(c)
    \/ c \in rt.listening /\ (EndIsComing(c) \/ IsActive(rt, c))

ChildrenAreSound ==
  /\ ChildTypeOK
  /\ RegistryIsOfTheLiving
  /\ EventsAreInOrder
  /\ CallbackIsCalledOnce
  /\ ChildrenWillClose
=============================================================================
