---------------------------- MODULE SessionStore ----------------------------
(* JsonlSessionStore of e-agent-core/src/session/store.rs: the session file,  *)
(* one JSON entry a line, and the messages in memory; the process that writes *)
(* it as agent_loop does, dies at any point and reopens the same path.        *)
EXTENDS Naturals, Sequences, SequencesExt, Selection

CONSTANTS MaxEntries,    \* bound: entries ever written
          MaxCalls,      \* bound: tool uses in one assistant message
          Goals,         \* may an extension keep a goal in the session?
          PartialWrites  \* can a write stop half way?  (each a set of answers)

ASSUME SessionStoreAssumption ==
    /\ MaxEntries \in Nat /\ MaxCalls \in Nat
    /\ Goals \subseteq BOOLEAN /\ PartialWrites \subseteq BOOLEAN

VARIABLES
    lines,     \* the lines of the file: entries, or Bad
    newline,   \* is the last line terminated?
    messages,  \* SessionStore::messages()
    phase,     \* of the process
    todo,      \* tool uses open() still has to answer
    pending,   \* tool uses of the last assistant message still to be executed
    asking,    \* is a turn on its way to the provider, with `messages`?
    made,      \* how many entries anybody tried to write
    ended,     \* history: the messages message_end was published for
    goals,     \* the answers for this behaviour
    tearing

storeVars == <<lines, newline, messages, phase, todo, pending, asking, made, ended, goals, tearing>>

-----------------------------------------------------------------------------
(* Entries.  A message carries a number of its own; a tool use is named by its *)
(* assistant message and its place in it.                                    *)
NoUse    == <<0, 0>>
ToolUses == (1..MaxEntries) \X (1..MaxCalls)
Entry    == [kind   : {"user", "assistant", "result", "goal"},
             id     : 1..MaxEntries,
             calls  : 0..MaxCalls,            \* assistant: how many tool uses
             of     : ToolUses \cup {NoUse},  \* result: the tool use it answers
             active : BOOLEAN]                \* goal-state: is there a goal?
Bad      == [kind |-> "bad", id |-> 0, calls |-> 0, of |-> NoUse, active |-> FALSE]
Phases   == {"down", "repairing", "up", "fatal", "unusable"}

Blank(kind)  == [kind |-> kind, id |-> made + 1, calls |-> 0, of |-> NoUse, active |-> FALSE]
User         == Blank("user")
Assistant(n) == [Blank("assistant") EXCEPT !.calls = n]
Result(use)  == [Blank("result") EXCEPT !.of = use]
Goal(on)     == [Blank("goal") EXCEPT !.active = on]

UsesOf(e) == [p \in 1..e.calls |-> <<e.id, p>>]
Uses(s)   == Joined([i \in 1..Len(s) |-> UsesOf(s[i])])
Answered(s) == {s[i].of : i \in {j \in 1..Len(s) : s[j].kind = "result"}}

(* Mutant: the first unanswered tool use counts for all.                     *)
DanglingFirst(s) ==
    LET open == Without(Uses(s), Answered(s))
    IN  IF open = <<>> THEN <<>> ELSE <<Head(open)>>

(* The tool uses of a history that have no result, in order.                 *)
Dangling(s) == Without(Uses(s), Answered(s))

(* The last goal-state entry decides.                                        *)
GoalActive(s) ==
    \E i \in 1..Len(s) : /\ s[i].kind = "goal" /\ s[i].active
                         /\ \A j \in (i + 1)..Len(s) : s[j].kind # "goal"

(* What open leaves out of memory: goal-state entries and, under an active     *)
(* goal, tool results and the assistant messages that use tools.             *)
Hidden(s) ==
    {e \in {s[i] : i \in 1..Len(s)} :
        \/ e.kind = "goal"
        \/ GoalActive(s) /\ (e.kind = "result" \/ e.calls # 0)}

(* What it keeps.                                                            *)
Loaded(s) == Without(s, Hidden(s))

-----------------------------------------------------------------------------
(* append                                                                    *)

(* A write is done, does nothing, leaves a part of the entry or lacks its newline. *)
Outcomes == {"written", "nothing"} \cup (IF tearing THEN {"part", "noNewline"} ELSE {})

(* Mutant: the file is truncated, not appended to.                           *)
WriteLineTruncating(e, outcome) ==
    /\ made < MaxEntries /\ made' = made + 1
    /\ IF outcome = "nothing"
       THEN UNCHANGED <<lines, newline>>
       ELSE /\ newline' = (outcome = "written")
            /\ lines' = <<IF outcome = "part" THEN Bad ELSE e>>

(* The file after it.  What follows an unterminated line continues that line,  *)
(* which is no JSON then.                                                    *)
WriteLine(e, outcome) ==
    /\ made < MaxEntries /\ made' = made + 1
    /\ IF outcome = "nothing"
       THEN UNCHANGED <<lines, newline>>
       ELSE /\ newline' = (outcome = "written")
            /\ lines' = IF newline
                        THEN Append(lines, IF outcome = "part" THEN Bad ELSE e)
                        ELSE [lines EXCEPT ![Len(lines)] = Bad]

Dead ==
    /\ phase' = "down"
    /\ messages' = <<>> /\ todo' = <<>> /\ pending' = <<>> /\ asking' = FALSE

(* append_message, and what persist does with its result: message_end, or the  *)
(* end of the session.  The process may die at any point of it.              *)
AppendMessage(e, uses, asks) ==
    \E outcome \in Outcomes :
        /\ WriteLine(e, outcome)
        /\ \/ Dead /\ UNCHANGED ended
           \/ /\ outcome = "written"
              /\ messages' = Append(messages, e)
              /\ ended' = ended \cup {e}
              /\ pending' = uses /\ asking' = asks
              /\ UNCHANGED <<phase, todo>>
           \/ /\ outcome # "written"
              /\ phase' = "fatal" /\ pending' = <<>> /\ asking' = FALSE
              /\ UNCHANGED <<messages, todo, ended>>

-----------------------------------------------------------------------------
(* open                                                                      *)

StoreInit ==
    /\ lines = <<>> /\ newline = TRUE
    /\ phase = "down" /\ messages = <<>> /\ todo = <<>> /\ pending = <<>> /\ asking = FALSE
    /\ made = 0 /\ ended = {}
    /\ goals \in Goals /\ tearing \in PartialWrites

Open ==
    /\ phase = "down"
    /\ IF \E i \in 1..Len(lines) : lines[i] = Bad
       THEN phase' = "unusable" /\ UNCHANGED <<messages, todo>>
       ELSE /\ messages' = Loaded(lines)
            /\ todo' = Dangling(Loaded(lines))
            /\ phase' = IF todo' = <<>> THEN "up" ELSE "repairing"
    /\ UNCHANGED <<lines, newline, pending, asking, made, ended>>

(* A tool use the last process left unanswered gets an error result; when that *)
(* cannot be written open fails.                                             *)
Repair ==
    /\ phase = "repairing"
    /\ \E outcome \in Outcomes :
          /\ WriteLine(Result(Head(todo)), outcome)
          /\ \/ Dead
             \/ /\ outcome = "written"
                /\ messages' = Append(messages, Result(Head(todo)))
                /\ todo' = Tail(todo)
                /\ phase' = IF todo' = <<>> THEN "up" ELSE "repairing"
                /\ UNCHANGED <<pending, asking>>
    /\ UNCHANGED ended

-----------------------------------------------------------------------------
(* The session that writes the store, in the order of agent_loop               *)

Prompt ==
    /\ phase = "up" /\ pending = <<>> /\ ~asking
    /\ AppendMessage(User, <<>>, TRUE)

(* Without tool uses the run is over; with some they are executed in order.   *)
Reply ==
    /\ phase = "up" /\ asking
    /\ \E n \in 0..MaxCalls : AppendMessage(Assistant(n), UsesOf(Assistant(n)), FALSE)

(* The next turn starts when every tool use has its result.                  *)
ToolResult ==
    /\ phase = "up" /\ pending # <<>>
    /\ AppendMessage(Result(Head(pending)), Tail(pending), Tail(pending) = <<>>)

(* A steer is stored right after a tool result.                              *)
Steer ==
    /\ phase = "up"
    /\ messages # <<>> /\ Last(messages).kind = "result" /\ (pending # <<>> \/ asking)
    /\ AppendMessage(User, pending, asking)

(* append_custom, for an extension's goal: its failure is only reported.      *)
SetGoal ==
    /\ goals /\ phase = "up"
    /\ \E on \in BOOLEAN, outcome \in Outcomes :
          /\ WriteLine(Goal(on), outcome)
          /\ Dead \/ UNCHANGED <<phase, messages, todo, pending, asking>>
    /\ UNCHANGED ended

Exit ==
    /\ phase \in {"repairing", "up", "fatal"}
    /\ Dead
    /\ UNCHANGED <<lines, newline, made, ended>>

StoreNext ==
    /\ Open \/ Repair \/ Prompt \/ Reply \/ ToolResult \/ Steer \/ SetGoal \/ Exit
    /\ UNCHANGED <<goals, tearing>>

StoreSpec == StoreInit /\ [][StoreNext]_storeVars

-----------------------------------------------------------------------------
(* Properties                                                                *)

(* The variables hold values of their types.                                 *)
StoreTypeOK ==
    /\ lines \in Seq(Entry \cup {Bad}) /\ newline \in BOOLEAN
    /\ messages \in Seq(Entry)
    /\ phase \in Phases
    /\ todo \in Seq(ToolUses) /\ pending \in Seq(ToolUses)
    /\ asking \in BOOLEAN
    /\ made \in 0..MaxEntries
    /\ ended \subseteq Entry
    /\ goals \in BOOLEAN /\ tearing \in BOOLEAN

Readable == \A i \in 1..Len(lines) : lines[i] # Bad
OnFile   == {lines[i] : i \in 1..Len(lines)}

(* "message_end therefore means the corresponding message is recoverable from  *)
(* the Session store" (docs/e-agent-event-driven-architecture.md:105-107): a   *)
(* process that opens the file now finds it well-formed and every message      *)
(* that was announced in it (append, persist).                               *)
AnnouncedIsRecoverable == ended # {} => Readable /\ ended \subseteq OnFile

(* It holds as long as no write stops half way.                              *)
MessageEndRecoverable == ~tearing => AnnouncedIsRecoverable

(* What was readable stays readable, in its place: no step, crash or write     *)
(* that fails as a whole changes or loses what the file held (append).       *)
FileOnlyGrows == [][~tearing => IsPrefix(lines, lines')]_storeVars

(* Whenever the provider is asked to continue the history, each tool use in it *)
(* has exactly one result, after it - across any number of crashes, of the     *)
(* repair too, restarts and goals (open, agent_loop).                        *)
EveryUseAnswered ==
    asking => \A a \in 1..Len(messages), p \in 1..MaxCalls :
                 p <= messages[a].calls =>
                    /\ \E r \in (a + 1)..Len(messages) : messages[r].of = <<messages[a].id, p>>
                    /\ \A r, q \in 1..Len(messages) :
                          messages[r].of = <<messages[a].id, p>> /\ messages[q].of = messages[r].of
                              => r = q

(* ... and no other assistant message stands between them, which providers     *)
(* require of a history; with goals, whose filter hides messages of which     *)
(* others are kept, only the answer itself is sure.                          *)
ResultsFollowTheirUse ==
    asking /\ ~goals => \A a, b, r \in 1..Len(messages) :
                 (a < b /\ b < r /\ messages[b].kind = "assistant")
                     => messages[r].of[1] # messages[a].id

(* The history the provider is asked to continue is the one a restart at that  *)
(* moment would load: memory never runs ahead of the file nor behind it (a      *)
(* goal set meanwhile changes what would be loaded).                         *)
MemoryIsOnFile == asking /\ ~goals /\ ~tearing => messages = Loaded(lines)

(* What was announced can be read by the next process; what the provider is     *)
(* given is what a restart would give it, and a history it accepts.          *)
HistoryIsSound ==
    /\ StoreTypeOK
    /\ MessageEndRecoverable
    /\ MemoryIsOnFile
    /\ EveryUseAnswered
    /\ ResultsFollowTheirUse
=============================================================================
