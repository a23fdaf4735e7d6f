--------------------------- MODULE ExtensionRegistry ---------------------------
(***************************************************************************)
(* What Pi extensions register, twice: in the tables of each extension and *)
(* in the indexes over all of them, by which the JavaScript runtime finds  *)
(* them; and what the host took down of it when it loaded an extension, by *)
(* which it offers tools to the provider and routes its calls.             *)
(* Source: src/e-agent-node-runtime/src/runtime.rs,                        *)
(* src/e-agent-pi-compat/src/lib.rs.                                       *)
(***************************************************************************)
EXTENDS Naturals, Sequences, FiniteSets, SequencesExt

CONSTANTS
  Modules,           \* extensions, by the name of their module
  NoModule,
  Names,             \* of tools, commands, providers, servers, types; keys
  Functions,         \* what can be subscribed to an event
  MaxRecords,        \* bound: registrations and subscriptions
  MaxLoads           \* bound: attempts to load an extension

ASSUME RegistryConstants ==
  /\ NoModule \notin Modules
  /\ MaxRecords \in Nat /\ MaxLoads \in Nat

RecordKinds == {"tool", "command", "provider", "server", "shortcut", "message", "entry"}
Lists == {"hooks", "bus"}

VARIABLES
  own,         \* the tables of each extension: the number of its record, 0 for none
  index,       \* __pi_tool_index and its like
  records,     \* registrations and subscriptions so far, which numbers them
  handlersOf,  \* ext.hooks and ext.eventBusHooks, for one event
  hookIndex,   \* __pi_hook_index and __pi_event_bus_index
  agenda,      \* the handlers a dispatch has still to call
  active,      \* whose code runs, and as what
  listed,      \* js_extensions: the extensions loaded, with their tools
  jsCommands,  \* js_commands
  loads,       \* attempts so far
  failed       \* history: whose load ever failed

registryVars == <<own, index, records, handlersOf, hookIndex, agenda, active, listed,
                  jsCommands, loads, failed>>

NoRecord == [module |-> NoModule, number |-> 0]
NobodyRuns == [module |-> NoModule, as |-> "nothing"]

RegistryInit ==
  /\ own = [k \in RecordKinds |-> [m \in Modules |-> [n \in Names |-> 0]]]
  /\ index = [k \in RecordKinds |-> [n \in Names |-> NoRecord]]
  /\ records = 0
  /\ handlersOf = [l \in Lists |-> [m \in Modules |-> <<>>]]
  /\ hookIndex = [l \in Lists |-> <<>>]
  /\ agenda = <<>> /\ active = NobodyRuns
  /\ listed = <<>> /\ jsCommands = {} /\ loads = 0 /\ failed = {}

(***************************************************************************)
(* Registrations, by the code that runs.  One that is refused throws and   *)
(* changes nothing.                                                        *)
(***************************************************************************)

\* The record goes into the extension's own table, and, if asked to, in the index.
AddRecord(kind, n, indexed) ==
  /\ active # NobodyRuns /\ records < MaxRecords
  /\ records' = records + 1
  /\ own' = [own EXCEPT ![kind][active.module][n] = records + 1]
  /\ index' = IF indexed
              THEN [index EXCEPT ![kind][n] = [module |-> active.module, number |-> records + 1]]
              ELSE index
  /\ UNCHANGED <<handlersOf, hookIndex, agenda, active, listed, jsCommands, loads, failed>>

\* Mutant: a tool registered again replaces the one before.
RegisterToolAgain(n) == AddRecord("tool", n, index["tool"][n] = NoRecord)

\* No two tools of one extension; over all of them the first one is indexed.
RegisterTool(n) ==
  /\ active.module # NoModule /\ own["tool"][active.module][n] = 0
  /\ AddRecord("tool", n, index["tool"][n] = NoRecord)

\* A name that is another extension's is refused, one's own replaced.
IsFreeOrOwn(kind, n) == index[kind][n].module \in {NoModule, active.module}

RegisterCommand(n)   == IsFreeOrOwn("command", n) /\ AddRecord("command", n, TRUE)
RegisterProvider(n)  == IsFreeOrOwn("provider", n) /\ AddRecord("provider", n, TRUE)
RegisterMcpServer(n) == IsFreeOrOwn("server", n) /\ AddRecord("server", n, TRUE)

\* Whoever comes last has the key, or the type.
RegisterShortcut(n)        == AddRecord("shortcut", n, TRUE)
RegisterMessageRenderer(n) == AddRecord("message", n, TRUE)
RegisterEntryRenderer(n)   == AddRecord("entry", n, TRUE)

\* pi.on and pi.events.on.
AddHandler(list, function) ==
  /\ active # NobodyRuns /\ records < MaxRecords
  /\ records' = records + 1
  /\ handlersOf' = [handlersOf EXCEPT ![list][active.module] = Append(@, function)]
  /\ hookIndex' = [hookIndex EXCEPT ![list] =
       Append(@, [module |-> active.module, function |-> function, number |-> records + 1])]
  /\ UNCHANGED <<own, index, agenda, active, listed, jsCommands, loads, failed>>

FirstOf(function, s) == SelectInSeq(s, LAMBDA f : f = function)

\* Its first occurrence goes from the extension's list, itself from the index.
RemoveHandler(list, i) ==
  LET entry == hookIndex[list][i] IN
    /\ entry.module = active.module
    /\ handlersOf' = [handlersOf EXCEPT ![list][entry.module] =
                        RemoveAt(@, FirstOf(entry.function, @))]
    /\ hookIndex' = [hookIndex EXCEPT ![list] = RemoveAt(@, i)]
    /\ UNCHANGED <<own, index, records, agenda, active, listed, jsCommands, loads, failed>>

(***************************************************************************)
(* Loading.  The host has nothing else on the thread meanwhile.            *)
(***************************************************************************)
ThreadIsFree == active = NobodyRuns /\ agenda = <<>>
IsListed(m) == \E i \in DOMAIN listed : listed[i].module = m

Run(m, as) == active' = [module |-> m, as |-> as]

\* A module that is loaded already is refused; the extension's factory runs.
LoadExtension(m) ==
  /\ ThreadIsFree /\ ~IsListed(m) /\ loads < MaxLoads
  /\ loads' = loads + 1
  /\ Run(m, "factory")
  /\ UNCHANGED <<own, index, records, handlersOf, hookIndex, agenda, listed,
                 jsCommands, failed>>

ToolsOf(m) == {n \in Names : own["tool"][m][n] # 0}

\* The tools are taken down, and everybody's commands.
FinishLoad ==
  /\ active.as = "factory"
  /\ active' = NobodyRuns
  /\ LET m == active.module IN
       listed' = Append(listed, [module |-> m, tools |-> [n \in ToolsOf(m) |-> own["tool"][m][n]]])
  /\ jsCommands' = {n \in Names : \E m \in Modules : own["command"][m][n] # 0}
  /\ UNCHANGED <<own, index, records, handlersOf, hookIndex, agenda, loads, failed>>

\* The factory throws, or validate_js_tools refuses its tools: the extension is not
\* listed, and nothing it registered is taken back.
FailLoad ==
  /\ active.as = "factory"
  /\ active' = NobodyRuns
  /\ failed' = failed \union {active.module}
  /\ UNCHANGED <<own, index, records, handlersOf, hookIndex, agenda, listed,
                 jsCommands, loads>>

(***************************************************************************)
(* Calls.                                                                  *)
(***************************************************************************)
Offers(n) == {i \in DOMAIN listed : n \in DOMAIN listed[i].tools}

\* tool_defs: of tools with one name the first one loaded is offered, and called.
Offered(n) == CHOOSE i \in Offers(n) : \A j \in Offers(n) : i <= j

CallTool(n) ==
  /\ ThreadIsFree /\ Offers(n) # {}
  /\ Run(listed[Offered(n)].module, "call")
  /\ UNCHANGED <<own, index, records, handlersOf, hookIndex, agenda, listed,
                 jsCommands, loads, failed>>

\* From a program, by module and name.
CallModuleTool(i, n) ==
  /\ ThreadIsFree /\ i \in Offers(n)
  /\ Run(listed[i].module, "call")
  /\ UNCHANGED <<own, index, records, handlersOf, hookIndex, agenda, listed,
                 jsCommands, loads, failed>>

CallIndexed(kind, n) ==
  /\ ThreadIsFree /\ index[kind][n] # NoRecord
  /\ Run(index[kind][n].module, "call")
  /\ UNCHANGED <<own, index, records, handlersOf, hookIndex, agenda, listed,
                 jsCommands, loads, failed>>

ExecuteCommand(n)  == n \in jsCommands /\ CallIndexed("command", n)
ExecuteShortcut(n) == CallIndexed("shortcut", n)

\* The handlers are those subscribed now, to the event first and then to its name on
\* the bus; what they change of it the next dispatch sees.
DispatchEvent ==
  /\ ThreadIsFree
  /\ agenda' = hookIndex["hooks"] \o hookIndex["bus"]
  /\ UNCHANGED <<own, index, records, handlersOf, hookIndex, active, listed,
                 jsCommands, loads, failed>>

CallHandler ==
  /\ active = NobodyRuns /\ agenda # <<>>
  /\ Run(Head(agenda).module, "call")
  /\ agenda' = Tail(agenda)
  /\ UNCHANGED <<own, index, records, handlersOf, hookIndex, listed, jsCommands,
                 loads, failed>>

\* The tool, command, shortcut or handler ends, which may end the dispatch.
EndCode ==
  /\ active.as = "call"
  /\ active' = NobodyRuns
  /\ agenda' \in {agenda, <<>>}
  /\ UNCHANGED <<own, index, records, handlersOf, hookIndex, listed, jsCommands,
                 loads, failed>>

RegistryNext ==
  \/ \E n \in Names :
       \/ RegisterTool(n) \/ RegisterCommand(n) \/ RegisterProvider(n) \/ RegisterMcpServer(n)
       \/ RegisterShortcut(n) \/ RegisterMessageRenderer(n) \/ RegisterEntryRenderer(n)
       \/ CallTool(n) \/ ExecuteCommand(n) \/ ExecuteShortcut(n)
       \/ \E i \in DOMAIN listed : CallModuleTool(i, n)
  \/ \E l \in Lists :
       \/ \E function \in Functions : AddHandler(l, function)
       \/ \E i \in DOMAIN hookIndex[l] : RemoveHandler(l, i)
  \/ \E m \in Modules : LoadExtension(m)
  \/ FinishLoad \/ FailLoad \/ DispatchEvent \/ CallHandler \/ EndCode

RegistrySpec == RegistryInit /\ [][RegistryNext]_registryVars

(***************************************************************************)
(* Properties.                                                             *)
(***************************************************************************)
Records == [module : Modules \union {NoModule}, number : 0..MaxRecords]

RegistryTypeOK ==
  /\ own \in [RecordKinds -> [Modules -> [Names -> 0..MaxRecords]]]
  /\ index \in [RecordKinds -> [Names -> Records]]
  /\ records \in 0..MaxRecords /\ loads \in 0..MaxLoads
  /\ \A l \in Lists, m \in Modules : handlersOf[l][m] \in Seq(Functions)
  /\ active.module \in Modules \union {NoModule}
  /\ jsCommands \subseteq Names /\ failed \subseteq Modules

\* Whoever has a record under the name.
Registrants(kind, n) == {m \in Modules : own[kind][m][n] # 0}

\* What an index finds is what its extension would find, and what anybody registered
\* is found; of several the first tool, the last shortcut and renderer, whatever order
\* the extensions were loaded in, and of commands, providers and servers there are
\* not several (the __pi_register_* functions).
IndexesAgree ==
  \A kind \in RecordKinds, n \in Names :
    LET found == index[kind][n]
        all == Registrants(kind, n)
    IN  /\ found = NoRecord <=> all = {}
        /\ found # NoRecord => own[kind][found.module][n] = found.number
        /\ \A m \in all :
             CASE kind = "tool" -> found.number <= own[kind][m][n]
               [] kind \in {"shortcut", "message", "entry"} -> own[kind][m][n] <= found.number
               [] OTHER -> m = found.module

\* A tool that was offered when its extension was loaded is there as long as the
\* program runs, and is the same one (tool_defs against __pi_execute_extension_tool).
OfferedToolsStay ==
  \A i \in DOMAIN listed : \A n \in DOMAIN listed[i].tools :
    own["tool"][listed[i].module][n] = listed[i].tools[n]

\* A command the host lists can be executed (load_extension against
\* __pi_execute_command).
ListedCommandsAreFound == \A n \in jsCommands : index["command"][n] # NoRecord

\* The tool that is called is drawn by its own renderer, unless an extension that has
\* a tool of that name registered it in a load that failed, or after its load
\* (render_tool_event against __pi_render_tool_component).
RendererIsItsOwn ==
  \A n \in Names : Offers(n) # {} =>
    LET drawn == index["tool"][n].module IN
      \/ drawn = listed[Offered(n)].module
      \/ drawn \in failed
      \/ \A i \in Offers(n) : listed[i].module # drawn

\* The index has an extension's handlers as often as the extension has them, in the
\* order of subscription, over any number of subscriptions and their ends
\* (__pi_register_hook, __pi_register_event_bus_hook).
Times(function, s) == Cardinality({i \in DOMAIN s : s[i] = function})
HooksAgree ==
  \A l \in Lists :
    /\ \A m \in Modules, function \in Functions :
         Times(function, handlersOf[l][m])
           = Cardinality({i \in DOMAIN hookIndex[l] : /\ hookIndex[l][i].module = m
                                                      /\ hookIndex[l][i].function = function})
    /\ \A i, j \in DOMAIN hookIndex[l] : i < j => hookIndex[l][i].number < hookIndex[l][j].number

RegistryIsSound ==
  /\ RegistryTypeOK
  /\ IndexesAgree
  /\ OfferedToolsStay
  /\ ListedCommandsAreFound
  /\ RendererIsItsOwn
  /\ HooksAgree
=============================================================================
