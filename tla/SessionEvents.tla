--------------------------- MODULE SessionEvents ---------------------------
(* What a subscriber of the EventBus is promised about the order of events    *)
(* (docs/e-agent-event-driven-architecture.md, sections 8 and 9): scopes open  *)
(* and close in order, message_end follows the store, a store failure ends     *)
(* every open scope, and session_shutdown is the last event.                 *)
EXTENDS Naturals, Sequences, SequencesExt

VARIABLES scope,      \* the innermost scope open on the bus
          stored,     \* how many messages the store holds
          published   \* the events of the last step

Scopes == {"unstarted", "ready", "agent", "turn", "message", "tool", "ran", "failing",
           "fatal", "down", "illegal"}

(* <<scope, event, scope after it>>                                          *)
Grammar ==
    { <<"unstarted", "SessionStart", "ready">>,
      <<"ready", "AgentStart", "agent">>,
      <<"agent", "TurnStart", "turn">>,
      <<"turn", "MessageStart", "message">>,
      <<"message", "MessageUpdate", "message">>,
      <<"message", "MessageEnd", "turn">>,
      <<"turn", "ToolStart", "tool">>,
      <<"tool", "ToolEnd", "turn">>,
      <<"turn", "TurnEnd", "agent">>,
      <<"agent", "AgentEnd", "ran">>,
      <<"ran", "AgentSettled", "ready">>,
      <<"message", "PersistenceError", "failing">>,
      <<"failing", "SessionFatal", "fatal">>,
      <<"fatal", "SessionShutdown", "down">>,
      <<"ready", "SessionShutdown", "down">> }

After(s, event) ==
    IF event \in {"HookError", "QueueUpdate"} /\ s # "down" THEN s
    ELSE IF \E t \in Scopes : <<s, event, t>> \in Grammar
         THEN CHOOSE t \in Scopes : <<s, event, t>> \in Grammar
         ELSE "illegal"

Ends(events) == Len(SelectSeq(events, LAMBDA e : e = "MessageEnd"))

Init == scope \in {"unstarted", "ready"} /\ stored = 0 /\ published = <<>>

Next ==
    /\ scope' = FoldLeft(After, scope, published')
    /\ scope' # "illegal"
    /\ stored' = stored + Ends(published')

Spec == Init /\ [][Next]_<<scope, stored, published>>
=============================================================================
