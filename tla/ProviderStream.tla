--------------------------- MODULE ProviderStream ---------------------------
(* A turn as seen from the model's side: the OpenAI provider turns the events *)
(* of a Responses stream into provider events (openai/mod.rs, stream), the    *)
(* session assembles them into the assistant message (session/mod.rs,         *)
(* run_turns, merge_delta), and the next request flattens the history into     *)
(* the API's input items again (to_input_items).                             *)
(*                                                                         *)
(* A piece of text is a number that no other piece of text or call has.  The   *)
(* server (external) streams its output items one after the other.            *)
EXTENDS Naturals, Sequences, Functions, Selection

CONSTANTS MaxPieces,   \* bound: pieces of text and calls in the conversation
          MaxItems     \* bound: output items of one response

ASSUME StreamAssumption == MaxPieces \in Nat /\ MaxItems \in Nat

VARIABLES
    turnAt,      \* "prompt", "ask", "stream" or "tools"
    output,      \* the server's items so far: [kind, text, done]
    hadContent,  \* a content delta was yielded
    blocks,      \* the session's blocks, by output index
    ending,      \* how the last response ended on the wire
    stopReason,  \* stop reason of the last assistant message
    history,     \* the messages of the session
    pieces       \* pieces given out

streamVars == <<turnAt, output, hadContent, blocks, ending, stopReason, history, pieces>>

TextKinds == {"message", "reasoning"}
ToolKinds == {"function", "custom"}
NoBlock == [kind |-> "none", text |-> <<>>]
BlockKind(kind) ==
    CASE kind = "message" -> "text" [] kind = "reasoning" -> "thinking" [] OTHER -> kind

CallItem(use) == [type |-> "call", id |-> use.text[1], custom |-> use.kind = "custom"]

Content == Without(blocks, {NoBlock})
IsToolUse(b) == b.kind \in ToolKinds

-----------------------------------------------------------------------------
(* to_input_items                                                            *)
FlushText(acc, role) ==
    IF acc.text = <<>> THEN acc
    ELSE [items |-> Append(acc.items, [type |-> "message", role |-> role, text |-> acc.text]),
          text |-> <<>>]

AddBlock(acc, role, b) ==
    CASE b.kind = "text" -> [items |-> acc.items, text |-> acc.text \o b.text]
      [] IsToolUse(b) ->
           [items |-> Append(FlushText(acc, role).items, CallItem(b)), text |-> <<>>]
      [] OTHER -> acc

Gathered(role, content) ==
    LET gathered[n \in 0..Len(content)] ==
            IF n = 0 THEN [items |-> <<>>, text |-> <<>>]
            ELSE AddBlock(gathered[n - 1], role, content[n])
    IN  gathered[Len(content)]

MessageItems(m) ==
    IF m.role = "tool" THEN <<[type |-> "output", id |-> m.id, custom |-> m.custom]>>
    ELSE FlushText(Gathered(m.role, m.content), m.role).items

ToInputItems(messages) == Joined([i \in DOMAIN messages |-> MessageItems(messages[i])])

-----------------------------------------------------------------------------
StreamInit ==
    /\ turnAt = "prompt" /\ output = <<>> /\ hadContent = FALSE /\ blocks = <<>>
    /\ ending = "none" /\ stopReason = "none" /\ history = <<>> /\ pieces = 0

Prompt ==
    /\ turnAt = "prompt" /\ pieces < MaxPieces
    /\ history' = Append(history, [role |-> "user",
                                   content |-> <<[kind |-> "text", text |-> <<pieces + 1>>]>>])
    /\ pieces' = pieces + 1 /\ turnAt' = "ask"
    /\ UNCHANGED <<output, hadContent, blocks, ending, stopReason>>

Ask ==
    /\ turnAt = "ask"
    /\ turnAt' = "stream" /\ output' = <<>> /\ hadContent' = FALSE /\ blocks' = <<>>
    /\ ending' = "none" /\ stopReason' = "none"
    /\ UNCHANGED <<history, pieces>>

(* merge_delta: text goes on, everything else takes the block's place.       *)
Merged(index, delta) ==
    [i \in 1..(IF index > Len(blocks) THEN index ELSE Len(blocks)) |->
        IF i # index THEN IF i <= Len(blocks) THEN blocks[i] ELSE NoBlock
        ELSE IF i <= Len(blocks) /\ blocks[i].kind = delta.kind /\ ~IsToolUse(delta)
             THEN [delta EXCEPT !.text = blocks[i].text \o delta.text]
             ELSE delta]

Yield(index, delta) == hadContent' = TRUE /\ blocks' = Merged(index, delta)

Open(i) == i \in DOMAIN output /\ ~output[i].done

(* The item is announced; the provider passes nothing on.                    *)
StartItem(kind) ==
    /\ turnAt = "stream" /\ Len(output) < MaxItems /\ ~Open(Len(output))
    /\ kind \in TextKinds \/ pieces < MaxPieces
    /\ output' = Append(output, [kind |-> kind, text |-> <<>>, done |-> FALSE])
    /\ UNCHANGED <<turnAt, hadContent, blocks, ending, stopReason, history, pieces>>

(* Text, refusal and reasoning summary deltas.                               *)
ReceiveText ==
    /\ turnAt = "stream" /\ Open(Len(output)) /\ pieces < MaxPieces
    /\ LET i == Len(output) IN
       /\ output[i].kind \in TextKinds
       /\ output' = [output EXCEPT ![i].text = Append(@, pieces + 1)]
       /\ Yield(i, [kind |-> BlockKind(output[i].kind), text |-> <<pieces + 1>>])
    /\ pieces' = pieces + 1
    /\ UNCHANGED <<turnAt, ending, stopReason, history>>

(* ResponseOutputItemDone: a call is passed on as a whole, its argument deltas *)
(* were not; for other items the deltas were all.                            *)
FinishTextItem ==
    /\ turnAt = "stream" /\ Open(Len(output)) /\ output[Len(output)].kind \in TextKinds
    /\ output' = [output EXCEPT ![Len(output)].done = TRUE]
    /\ UNCHANGED <<turnAt, hadContent, blocks, ending, stopReason, history, pieces>>

FinishCall ==
    /\ turnAt = "stream" /\ Open(Len(output)) /\ pieces < MaxPieces
    /\ LET i == Len(output) IN
       /\ output[i].kind \in ToolKinds
       /\ output' = [output EXCEPT ![i].text = <<pieces + 1>>, ![i].done = TRUE]
       /\ Yield(i, [kind |-> output[i].kind, text |-> <<pieces + 1>>])
    /\ pieces' = pieces + 1
    /\ UNCHANGED <<turnAt, ending, stopReason, history>>

(* Mutant: tools are not run after an error or an abort.                      *)
EndTurnSkippingTools(how, reason) ==
    LET uses == \E b \in Range(blocks) : IsToolUse(b) IN
    /\ ending' = how
    /\ stopReason' = IF uses /\ reason \notin {"error", "aborted"} THEN "tool_use" ELSE reason
    /\ history' = Append(history, [role |-> "assistant", content |-> Content])
    /\ turnAt' = IF uses /\ reason \notin {"error", "aborted"} THEN "tools" ELSE "prompt"
    /\ UNCHANGED <<output, hadContent, blocks, pieces>>

(* The session's end of a turn: with tool uses a normal stop is a tool_use,    *)
(* and the tools are run whatever the stop reason.                           *)
EndTurn(how, reason) ==
    LET uses == \E b \in Range(blocks) : IsToolUse(b) IN
    /\ ending' = how
    /\ stopReason' = IF uses /\ reason \notin {"error", "aborted"} THEN "tool_use" ELSE reason
    /\ history' = Append(history, [role |-> "assistant", content |-> Content])
    /\ turnAt' = IF uses THEN "tools" ELSE "prompt"
    /\ UNCHANGED <<output, hadContent, blocks, pieces>>

(* Every end of the stream in the provider's loop and behind it.             *)
ResponseCompleted == turnAt = "stream" /\ ~Open(Len(output)) /\ EndTurn("completed", "stop")
ResponseIncomplete == turnAt = "stream" /\ EndTurn("incomplete", "length")
ResponseFailed == turnAt = "stream" /\ EndTurn("failed", "error")
ConnectionLost == turnAt = "stream" /\ EndTurn("lost", IF hadContent THEN "stop" ELSE "error")
ClosedEarly == turnAt = "stream" /\ EndTurn("closed", IF hadContent THEN "stop" ELSE "error")
CancelledByUser == turnAt = "stream" /\ EndTurn("cancelled", "aborted")

(* The next result of the last assistant message's calls, in their order.    *)
HasResult(use) == \E m \in Range(history) : m.role = "tool" /\ m.id = use.text[1]
Unanswered == Without(Content, {b \in Range(Content) : ~IsToolUse(b) \/ HasResult(b)})

RunTool ==
    /\ turnAt = "tools"
    /\ LET use == Unanswered[1] IN
       history' = Append(history, [role |-> "tool", id |-> use.text[1],
                                   custom |-> use.kind = "custom"])
    /\ turnAt' = IF Len(Unanswered) > 1 THEN "tools"
                 ELSE IF stopReason = "tool_use" THEN "ask" ELSE "prompt"
    /\ UNCHANGED <<output, hadContent, blocks, ending, stopReason, pieces>>

StreamNext ==
    \/ Prompt \/ Ask \/ RunTool
    \/ \E kind \in TextKinds \cup ToolKinds : StartItem(kind)
    \/ ReceiveText \/ FinishTextItem \/ FinishCall
    \/ ResponseCompleted \/ ResponseIncomplete \/ ResponseFailed
    \/ ConnectionLost \/ ClosedEarly \/ CancelledByUser

StreamSpec == StreamInit /\ [][StreamNext]_streamVars

-----------------------------------------------------------------------------
(* The session's message holds what the server sent and nothing else: each     *)
(* item's text whole and in order, each finished call, no unfinished one.      *)
Streamed == [i \in DOMAIN output |-> [kind |-> BlockKind(output[i].kind), text |-> output[i].text]]
AnswerIsWhatWasStreamed ==
    turnAt # "prompt" => Content = Without(Streamed, {b \in Range(Streamed) : b.text = <<>>})

(* "stop" and "tool_use" are reported only for an answer that the server       *)
(* completed, for one that was cut off after some content had arrived, or for   *)
(* calls that arrived whole; a cut-off answer without calls is "length".       *)
StopReasonsAreHonest ==
    /\ stopReason = "stop" =>
         \/ ending = "completed"
         \/ ending \in {"lost", "closed"} /\ Content # <<>>
    /\ stopReason = "tool_use" => \E b \in Range(Content) : IsToolUse(b)
    /\ ending = "failed" => stopReason = "error"

(* What a list of messages, or of input items, says, piece by piece in order.  *)
BlockSays(b) == IF b.kind = "thinking" THEN <<>> ELSE b.text
MessageSays(m) ==
    IF m.role = "tool" THEN <<>>
    ELSE Joined([i \in DOMAIN m.content |-> BlockSays(m.content[i])])
ItemSays(item) ==
    CASE item.type = "message" -> item.text
      [] item.type = "call" -> <<item.id>>
      [] OTHER -> <<>>
Said(items) == Joined([i \in DOMAIN items |-> ItemSays(items[i])])

(* The next request repeats the conversation: nothing but reasoning is left     *)
(* out, the order of text and calls survives, and no item is empty.           *)
ReplayKeepsOrder ==
    LET items == ToInputItems(history) IN
    /\ Said(items) = Joined([i \in DOMAIN history |-> MessageSays(history[i])])
    /\ \A i \in DOMAIN items : items[i].type = "message" => items[i].text # <<>>

(* When the provider is asked, every call of the request has exactly one output *)
(* of its own kind behind it, also after turns that failed or were aborted.     *)
CallsHaveOutputs ==
    turnAt \in {"ask", "stream", "prompt"} =>
        LET items == ToInputItems(history) IN
        \A i \in DOMAIN items : items[i].type = "call" =>
            \E j \in (i + 1)..Len(items) :
                /\ items[j] = [type |-> "output", id |-> items[i].id, custom |-> items[i].custom]
                /\ \A k \in DOMAIN items \ {i, j} :
                     items[k].type = "message" \/ items[k].id # items[i].id

(* From the server's stream through the session's history to the next request   *)
(* nothing is lost, invented or reordered, however the stream ends.           *)
TurnsAreFaithful ==
    /\ AnswerIsWhatWasStreamed
    /\ StopReasonsAreHonest
    /\ ReplayKeepsOrder
    /\ CallsHaveOutputs
=============================================================================
