------------------------------ MODULE McpCatalog -----------------------------
(***************************************************************************)
(* The process-wide catalog of MCP servers (xoxo-core mcp/catalog.rs,        *)
(* mcp/client.rs) as the agents' tools call it (tooling/mcp_tools.rs).       *)
(* Several agents call at a time; a server's client is built from            *)
(* config.toml when it is first wanted, started when it is first used, and   *)
(* its list of tools is asked for once.                                      *)
(*                                                                          *)
(* The client (rust_mcp_sdk) is external: a handshake and a request succeed  *)
(* or fail, and a server that dies answers nothing more.                     *)
(***************************************************************************)
EXTENDS Integers, Sequences, FiniteSets

CONSTANTS
    Callers,        \* agents that may call a tool at the same time
    Servers,        \* names of servers
    Settings,       \* what config.toml may say of a server
    Tools,          \* names of tools
    MaxClients,     \* bound: clients built
    MaxChanges      \* bound: edits of config.toml, new tool lists, servers that die

(* What can be wrong with a server's setting, in the order it is looked at. *)
Faults == <<"ServerNotFound", "DisabledServer", "UnsupportedAuthentication",
            "UnsupportedTransportKind", "MissingTransportConfig", "MissingRequiredValue",
            "UnsupportedTransportOption">>
Setting == [kind : {"stdio", "http", "sse", "other"}, wrong : SUBSET DOMAIN Faults]

Nobody == "nobody"
Nothing == "nothing"

ASSUME CatalogAssumption ==
    /\ Settings \subseteq Setting
    /\ Nobody \notin Callers
    /\ MaxClients \in Nat /\ MaxChanges \in Nat

Unset == {Nothing}                  \* no list of tools
Jobs == [op : {"list", "describe", "invoke"}, server : Servers, tool : Tools, object : BOOLEAN]

VARIABLES
    config,         \* config.toml
    offers,         \* the tools a server offers now
    changes,        \* counts MaxChanges
    sessions,       \* server -> its client (0: none yet)
    cache,          \* server -> its tools
    clients,        \* the clients built, each with its server
    started,        \* the clients whose flag is set
    holder,         \* client -> who holds its `started` mutex
    link,           \* client -> the connection: new, up or dead
    at, job,        \* caller -> where it is, and what it was asked for
    aim,            \* caller -> what it wants a client for: version, tools or invoke
    mine,           \* caller -> the client it has got (0: none)
    list,           \* caller -> the tools it was told
    answer          \* caller -> what its last call returned

world == <<config, offers, changes>>
shared == <<sessions, cache>>
connections == <<clients, started, holder, link>>
callers == <<at, job, aim, mine, list, answer>>
vars == <<world, shared, connections, callers>>

NoJob == [op |-> Nothing]

Init ==
    /\ config \in [Servers -> Settings] /\ offers \in [Servers -> {Tools}] /\ changes = 0
    /\ sessions = [s \in Servers |-> 0] /\ cache = [s \in Servers |-> Unset]
    /\ clients = <<>> /\ started = {} /\ holder = <<>> /\ link = <<>>
    /\ at = [c \in Callers |-> "idle"] /\ job = [c \in Callers |-> NoJob]
    /\ aim = [c \in Callers |-> Nothing] /\ mine = [c \in Callers |-> 0]
    /\ list = [c \in Callers |-> Unset] /\ answer = [c \in Callers |-> Nothing]

Goto(c, place) == at' = [at EXCEPT ![c] = place]
Server(c) == job[c].server

(* The tool returns: an error of the caller's making is InvalidInput, one of *)
(* the connection ExecutionFailed.                                           *)
ToolErrorOf(e) ==
    IF e \in {"ServerNotFound", "ToolNotFound", "UnsupportedTransportKind",
              "MissingTransportConfig", "MissingRequiredValue", "DisabledServer",
              "UnsupportedAuthentication", "UnsupportedTransportOption"}
    THEN "InvalidInput" ELSE "ExecutionFailed"
Return(c, value) ==
    /\ Goto(c, "idle")
    /\ answer' = [answer EXCEPT ![c] = value]
    /\ job' = [job EXCEPT ![c] = NoJob] /\ aim' = [aim EXCEPT ![c] = Nothing]
    /\ mine' = [mine EXCEPT ![c] = 0] /\ list' = [list EXCEPT ![c] = Unset]
Fail(c, e) == Return(c, ToolErrorOf(e))

Want(c, purpose) ==
    /\ Goto(c, "session")
    /\ aim' = [aim EXCEPT ![c] = purpose] /\ mine' = [mine EXCEPT ![c] = 0]

-----------------------------------------------------------------------------
(* The tools.  list_mcp_server_tools connects for the version before it      *)
(* looks at the cache; the others begin where they say.                      *)

Call(c, j) ==
    /\ at[c] = "idle"
    /\ UNCHANGED <<world, shared, connections>>
    /\ IF j.op = "invoke" /\ ~j.object
       THEN answer' = [answer EXCEPT ![c] = "InvalidInput"]
            /\ UNCHANGED <<at, job, aim, mine, list>>
       ELSE /\ job' = [job EXCEPT ![c] = j]
            /\ answer' = [answer EXCEPT ![c] = Nothing] /\ UNCHANGED list
            /\ CASE j.op = "list" -> Want(c, "version")
                 [] j.op = "invoke" -> Want(c, "invoke")
                 [] j.op = "describe" -> Goto(c, "cache") /\ UNCHANGED <<aim, mine>>

(* describe_tool looks for its tool in the list.                            *)
ReturnTools(c, tools) ==
    IF job[c].op = "describe" /\ job[c].tool \notin tools THEN Fail(c, "ToolNotFound")
    ELSE Return(c, "tools")

ReadCache(c) ==
    /\ at[c] = "cache"
    /\ UNCHANGED <<world, shared, connections>>
    /\ IF cache[Server(c)] # Unset THEN ReturnTools(c, cache[Server(c)])
       ELSE Want(c, "tools") /\ UNCHANGED <<job, list, answer>>

-----------------------------------------------------------------------------
(* session(): the map is read, the client built without a lock, and the map  *)
(* written; in between another caller may have done the same.                *)

FindSession(c) ==
    /\ at[c] = "session"
    /\ UNCHANGED <<world, shared, connections, job, aim, list, answer>>
    /\ mine' = [mine EXCEPT ![c] = sessions[Server(c)]]
    /\ Goto(c, IF sessions[Server(c)] # 0 THEN "connect" ELSE "build")

Refusal(s) ==
    IF s.wrong = {} THEN Nothing
    ELSE Faults[CHOOSE f \in s.wrong : \A g \in s.wrong : f <= g]

BuildClient(c) ==
    /\ at[c] = "build" /\ Len(clients) < MaxClients
    /\ UNCHANGED <<world, shared>>
    /\ LET e == Refusal(config[Server(c)]) IN
       \/ e # Nothing /\ Fail(c, e) /\ UNCHANGED connections
       \/ /\ e = Nothing /\ config[Server(c)].kind \in {"stdio", "sse"}
          /\ Fail(c, "Transport") /\ UNCHANGED connections
       \/ /\ e = Nothing
          /\ clients' = Append(clients, Server(c)) /\ UNCHANGED started
          /\ holder' = Append(holder, Nobody) /\ link' = Append(link, "new")
          /\ mine' = [mine EXCEPT ![c] = Len(clients) + 1]
          /\ Goto(c, "adopt") /\ UNCHANGED <<job, aim, list, answer>>

(* Mutant: the later insert replaces the earlier one.                       *)
AdoptMine(c) ==
    /\ at[c] = "adopt"
    /\ UNCHANGED <<world, cache, connections, job, aim, list, answer, mine>>
    /\ sessions' = [sessions EXCEPT ![Server(c)] = mine[c]]
    /\ Goto(c, "connect")

(* entry().or_insert_with(): whoever was first stays, and everybody takes it *)
(* (its own client is dropped, never started).                               *)
Adopt(c) ==
    /\ at[c] = "adopt"
    /\ UNCHANGED <<world, cache, connections, job, aim, list, answer>>
    /\ LET first == IF sessions[Server(c)] = 0 THEN mine[c] ELSE sessions[Server(c)]
       IN /\ sessions' = [sessions EXCEPT ![Server(c)] = first]
          /\ mine' = [mine EXCEPT ![c] = first]
    /\ Goto(c, "connect")

-----------------------------------------------------------------------------
(* connect(): whoever gets the mutex of `started` first shakes hands.       *)

(* Where a connected caller goes on.                                        *)
Proceed(c) ==
    IF aim[c] = "version" THEN Goto(c, "cache") ELSE Goto(c, "ask")

(* Mutant: the flag is looked at before the mutex is taken.                 *)
LockUnchecked(c) ==
    /\ at[c] = "connect" /\ holder[mine[c]] = Nobody
    /\ UNCHANGED <<world, shared, clients, started, link, job, aim, mine, list, answer>>
    /\ holder' = [holder EXCEPT ![mine[c]] = c]
    /\ Goto(c, "start")

Lock(c) ==
    /\ at[c] = "connect" /\ holder[mine[c]] = Nobody
    /\ UNCHANGED <<world, shared, clients, started, link, job, aim, mine, list, answer>>
    /\ IF mine[c] \in started THEN Proceed(c) /\ UNCHANGED holder
       ELSE holder' = [holder EXCEPT ![mine[c]] = c] /\ Goto(c, "start")

Unlock(c) == holder' = [holder EXCEPT ![mine[c]] = Nobody]

Started(c) ==
    /\ at[c] = "start"
    /\ UNCHANGED <<world, shared, clients, job, aim, mine, list, answer>>
    /\ link' = [link EXCEPT ![mine[c]] = "up"]
    /\ started' = started \cup {mine[c]}
    /\ Unlock(c) /\ Proceed(c)

(* A handshake that fails leaves the flag, and the next caller tries again. *)
StartFailed(c) ==
    /\ at[c] = "start"
    /\ UNCHANGED <<world, shared, clients, started, link>>
    /\ Unlock(c) /\ Fail(c, "Sdk")

-----------------------------------------------------------------------------
(* The request.                                                             *)

Answered(c) ==
    /\ at[c] = "ask" /\ link[mine[c]] = "up"
    /\ UNCHANGED <<world, shared, connections>>
    /\ IF aim[c] = "invoke" THEN Return(c, "result")
       ELSE /\ list' = [list EXCEPT ![c] = offers[Server(c)]]
            /\ Goto(c, "store") /\ UNCHANGED <<job, aim, mine, answer>>

(* The tool fails, the server is dead, or it says something unreadable.     *)
AskFailed(c) ==
    /\ at[c] = "ask"
    /\ UNCHANGED <<world, shared, connections>>
    /\ \/ Fail(c, "Sdk")
       \/ aim[c] = "tools" /\ Fail(c, "MissingRequiredValue")

(* The list is cached for good, over what another caller may have cached.   *)
Store(c) ==
    /\ at[c] = "store"
    /\ UNCHANGED <<world, sessions, connections>>
    /\ cache' = [cache EXCEPT ![Server(c)] = list[c]]
    /\ ReturnTools(c, list[c])

-----------------------------------------------------------------------------
(* What changes around the catalog.                                         *)

Change == changes < MaxChanges /\ changes' = changes + 1
Reconfigure(s, setting) ==
    /\ Change /\ setting # config[s]
    /\ config' = [config EXCEPT ![s] = setting]
    /\ UNCHANGED <<offers, shared, connections, callers>>
Reoffer(s, tools) ==
    /\ Change /\ tools # offers[s]
    /\ offers' = [offers EXCEPT ![s] = tools]
    /\ UNCHANGED <<config, shared, connections, callers>>
Die(k) ==
    /\ Change /\ link[k] = "up"
    /\ link' = [link EXCEPT ![k] = "dead"]
    /\ UNCHANGED <<config, offers, shared, clients, started, holder, callers>>

Step(c) ==
    \/ ReadCache(c) \/ FindSession(c) \/ BuildClient(c) \/ Adopt(c)
    \/ Lock(c) \/ Started(c) \/ StartFailed(c) \/ Answered(c) \/ AskFailed(c) \/ Store(c)
Next ==
    \/ \E c \in Callers : Step(c) \/ \E j \in Jobs : Call(c, j)
    \/ \E s \in Servers : \/ \E setting \in Settings : Reconfigure(s, setting)
                          \/ \E tools \in SUBSET Tools : Reoffer(s, tools)
    \/ \E k \in DOMAIN clients : Die(k)

Spec == Init /\ [][Next]_vars

-----------------------------------------------------------------------------
TypeOK ==
    /\ clients \in Seq(Servers) /\ started \subseteq DOMAIN clients
    /\ holder \in Seq(Callers \cup {Nobody}) /\ link \in Seq({"new", "up", "dead"})
    /\ Len(holder) = Len(clients) /\ Len(link) = Len(clients)
    /\ sessions \in [Servers -> 0..Len(clients)]
    /\ mine \in [Callers -> 0..Len(clients)]
    /\ at \in [Callers -> {"idle", "cache", "session", "build", "adopt", "connect", "start",
                           "ask", "store"}]
    /\ job \in [Callers -> Jobs \cup {NoJob}]
    /\ aim \in [Callers -> {Nothing, "version", "tools", "invoke"}]

Connecting(c) == at[c] \in {"connect", "start", "ask", "store"}

(* Whatever races to be first: all callers of a server use the same client,  *)
(* and no other of its clients was ever started (McpCatalog::session; a      *)
(* second one would be a second child process of a stdio server, and nobody  *)
(* would end the first).                                                     *)
OneClientPerServer ==
    /\ \A c \in Callers : Connecting(c) => mine[c] # 0 /\ mine[c] = sessions[Server(c)]
    /\ \A k \in DOMAIN clients :
          k \in started \/ holder[k] # Nobody \/ link[k] # "new" => sessions[clients[k]] = k

(* A client shakes hands once, with one caller, and is asked nothing before  *)
(* it has, however callers overlap and handshakes fail                       *)
(* (McpClientSession::connect).                                              *)
HandshakeComesFirst ==
    \A c \in Callers :
        /\ at[c] = "ask" => link[mine[c]] # "new"
        /\ at[c] = "start" =>
              /\ link[mine[c]] = "new"
              /\ \A d \in Callers : at[d] = "start" /\ mine[d] = mine[c] => d = c

=============================================================================
