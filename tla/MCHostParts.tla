---------------------------- MODULE MCHostParts ----------------------------
(* The loops, threads and tasks around the session that share no state with    *)
(* one another, one after the other in a single run: an initial state picks    *)
(* the part, and only that part takes steps.                                 *)
EXTENDS NodePump, ChildProcess, PiRuntime, ExtensionScopes, ExtensionCalls,
        ProviderStream, TerminalModes, NodeStream

VARIABLE subject

Subjects == {"pump", "children", "pi", "scopes", "extension", "stream",
             "terminal", "pipeline"}

HostInit ==
    /\ subject \in Subjects
    /\ PumpInit /\ ChildInit /\ PiInit /\ ScopesInit /\ ExtInit /\ StreamInit
    /\ TerminalInit /\ NodeStreamInit
    /\ (pump = "none") = (subject # "pump")
    /\ subject # "terminal" => screenMode = "Main"

HostNext ==
    \/ /\ subject = "pump" /\ PumpNext
       /\ UNCHANGED <<subject, childVars, piVars, scopeVars, extVars, streamVars,
                      terminalVars, nodeStreamVars>>
    \/ /\ subject = "children" /\ ChildNext
       /\ UNCHANGED <<subject, pumpVars, piVars, scopeVars, extVars, streamVars,
                      terminalVars, nodeStreamVars>>
    \/ /\ subject = "pi" /\ PiNext
       /\ UNCHANGED <<subject, allVars, childVars, scopeVars, extVars,
                      streamVars, terminalVars, nodeStreamVars>>
    \/ /\ subject = "scopes" /\ ScopesNext
       /\ UNCHANGED <<subject, allVars, childVars, piVars, extVars, streamVars,
                      terminalVars, nodeStreamVars>>
    \/ /\ subject = "extension" /\ ExtNext
       /\ UNCHANGED <<subject, allVars, childVars, piVars, scopeVars, streamVars,
                      terminalVars, nodeStreamVars>>
    \/ /\ subject = "stream" /\ StreamNext
       /\ UNCHANGED <<subject, allVars, childVars, piVars, scopeVars, extVars,
                      terminalVars, nodeStreamVars>>
    \/ /\ subject = "terminal" /\ TerminalNext
       /\ UNCHANGED <<subject, allVars, childVars, piVars, scopeVars, extVars,
                      streamVars, nodeStreamVars>>
    \/ /\ subject = "pipeline" /\ NodeStreamNext
       /\ UNCHANGED <<subject, allVars, childVars, piVars, scopeVars, extVars,
                      streamVars, terminalVars>>

(* The fairness of the parts: none of it asks for a step of a part that was    *)
(* not picked, in whose first state nothing of it is enabled.                *)
HostSpec == /\ HostInit
            /\ [][HostNext]_<<subject, allVars, childVars, piVars, scopeVars,
                             extVars, streamVars, terminalVars, nodeStreamVars>>
            /\ WF_allVars(Loop) /\ PiFairness /\ ScopesFairness /\ NodeStreamFairness
=============================================================================
