-------------------------- MODULE ProviderRouting --------------------------
(***************************************************************************)
(* Which provider a message goes to.  The client takes a line typed into it  *)
(* (TerminalInput) and sends it with the chat it shows; the daemon (xoxo     *)
(* daemon.rs) reads config.toml anew, which the settings (SettingsModal) may *)
(* have rewritten since, and gives the chat's runner a provider; the facade  *)
(* (llm/facade, backends/selector.rs, rig_stream.rs) chooses the client that *)
(* the runner's requests go out by, or refuses them.                         *)
(*                                                                          *)
(* Chats are followed from when they are first used; those of an earlier run *)
(* of the program are in storage without a runner.  That the first event of  *)
(* a reply makes its chat the active one is a part of the daemon's step      *)
(* here; TerminalSession has the two apart.                                  *)
(***************************************************************************)
EXTENDS TerminalInput

CONSTANTS
    KeyInEnvironment,   \* OPENROUTER_API_KEY is set
    StoredModels,       \* providers that chats of earlier sessions name
    MaxChats,           \* bound: chats followed
    MaxFollowUp         \* bound: symbols in a line that is no command, once the settings or a
                        \* chat have been used

(* The registry (llm/providers/mod.rs), by what can serve the provider.     *)
RigNative ==
    {"openai", "anthropic", "gemini", "cohere", "xai", "azure", "deepseek", "ollama",
     "openrouter", "groq", "hyperbolic", "together", "galadriel", "mira"}
RigCompatible == {"perplexity", "moonshot"}
AiLibOnly ==
    {"qwen", "huggingface", "replicate", "ai21", "baidu_ernie", "tencent_hunyuan",
     "iflytek_spark", "z.ai", "minimax"}
Registered == RigNative \cup RigCompatible \cup AiLibOnly

ASSUME RoutingAssumption ==
    /\ KeyInEnvironment \in BOOLEAN
    /\ {MaxChats, MaxFollowUp} \subseteq Nat
    /\ BuiltInIds \subseteq Registered /\ Strangers \cap Registered = {}

VARIABLES
    chats,      \* chats followed: the provider stored with each, and the runner's, if any
    active,     \* active_chat_id: a place in chats, or NoChat
    commands    \* SubmitUserMessage on its way to the daemon: the active_chat_id in it

routingVars == <<chats, active, commands, vars>>

NoChat == 0
NoRunner == [kind |-> "none"]
Dormant(name) == [stored |-> name, runs |-> NoRunner]
Live(name, provider) == [stored |-> name, runs |-> provider]

RoutingInit ==
    /\ Init
    /\ commands = <<>>
    /\ \/ chats = <<>> /\ active = NoChat
       \/ \E name \in StoredModels : chats = <<Dormant(name)>> /\ active = 1

-----------------------------------------------------------------------------
(* The facade.                                                              *)

Refused == "refused"

(* AiLibBackendAdapter::supports_provider, of the ids that come to it.      *)
AiLibAdapts(id) ==
    id \in {"qwen", "huggingface", "replicate", "ai21", "baidu_ernie", "tencent_hunyuan",
            "iflytek_spark", "z.ai", "minimax"}

(* select_registered_backend prefers rig; a custom provider is always rig's. *)
Backend(p) ==
    CASE p.kind = "other" -> "rig"
      [] p.name \in RigNative \cup RigCompatible -> "rig"
      [] p.name \in AiLibOnly /\ AiLibAdapts(p.name) -> "ai_lib"
      [] OTHER -> "custom"

(* Mutant: the stream does not look whose configuration it was given.       *)
StreamUnguarded(p) == "openrouter"

(* The stream's client is OpenRouter's, whatever the configuration is: only  *)
(* the guard keeps other providers' requests, and keys, from going there.    *)
Stream(p) == IF p.kind = "built_in" /\ p.name = "openrouter" THEN "openrouter" ELSE Refused

AiLib(p) ==
    IF p.kind = "built_in" /\ p.name \in {"openrouter", "minimax", "deepseek", "qwen", "gemini"}
    THEN p.name ELSE Refused

Resolves(p) == p.kind = "other" \/ p.name \in Registered

(* Where complete_streaming sends the requests of a runner.                 *)
Destination(p) ==
    CASE ~Resolves(p) -> Refused
      [] Backend(p) = "rig" -> Stream(p)
      [] Backend(p) = "ai_lib" -> AiLib(p)
      [] Backend(p) = "custom" -> Refused

-----------------------------------------------------------------------------
(* The client.                                                              *)

(* Bounds.  Where a save has failed, no chat is followed: what is said of    *)
(* chats below is said of faultless saves.  A chat beyond MaxChats is not    *)
(* followed either.                                                         *)
Untouched == chats = <<>> /\ disk \in Found /\ faults = 0
FollowsNoChat == chats = <<>> /\ commands = <<>>
WithinBounds(line) ==
    Len(line) <= (IF line # <<>> /\ line[1] = "/" THEN MaxFollowUp + 1 ELSE MaxFollowUp)

KeysOnly ==
    /\ Key /\ (Untouched \/ WithinBounds(input')) /\ (faults' > 0 => FollowsNoChat)
    /\ UNCHANGED <<chats, active, commands>>

StartsNewChat == Meant # {} /\ Commands[FirstOf(Meant)] \in {"clear", "new"}
EnterLine ==
    /\ Enter
    /\ active' = IF StartsNewChat THEN NoChat ELSE active
    /\ UNCHANGED <<chats, commands>>

(* The session chosen is a chat followed, or one of an earlier run.         *)
ChooseSession ==
    /\ MenuEnter /\ UNCHANGED commands
    /\ IF pick >= Stored \/ faults > 0 THEN UNCHANGED <<chats, active>>
       ELSE \/ \E c \in DOMAIN chats : active' = c /\ UNCHANGED chats
            \/ /\ Len(chats) < MaxChats
               /\ \E name \in StoredModels : chats' = Append(chats, Dormant(name))
               /\ active' = Len(chats) + 1

Submit ==
    /\ TakeSubmission
    /\ UNCHANGED <<chats, active>>
    /\ commands = <<>>
    /\ commands' = IF faults > 0 \/ (active = NoChat /\ Len(chats) = MaxChats) THEN <<>>
                   ELSE <<active>>

-----------------------------------------------------------------------------
(* The daemon.                                                              *)

(* config.provider compares ids only, which a custom provider does not have. *)
EntriesFor(name) ==
    {k \in DOMAIN disk.providers :
        disk.providers[k].kind = "built_in" /\ disk.providers[k].name = name}
CurrentProviders ==
    LET name == disk.current IN
    IF EntriesFor(name) # {} THEN {BuiltIn(name)}
    ELSE IF name = "openrouter" /\ KeyInEnvironment THEN {BuiltIn(name)}
    ELSE {}

(* The error is published under the nil chat, which becomes the active one   *)
(* and which the daemon will not find either.                                *)
Refuse ==
    /\ CurrentProviders = {}
    /\ active' = NoChat /\ UNCHANGED chats

(* A chat with a runner keeps that one's provider, one without gets the      *)
(* current provider, and so does a new one.                                  *)
Deliver(c) ==
    \E p \in CurrentProviders :
        IF c = NoChat
        THEN /\ Len(chats) < MaxChats
             /\ chats' = Append(chats, Live(p.name, p)) /\ active' = Len(chats) + 1
        ELSE /\ chats' = IF chats[c].runs = NoRunner
                         THEN [chats EXCEPT ![c].runs = p] ELSE chats
             /\ active' = c

HandleSubmit ==
    /\ commands # <<>> /\ commands' = <<>>
    /\ Refuse \/ Deliver(Head(commands))
    /\ UNCHANGED vars

RoutingNext == KeysOnly \/ EnterLine \/ ChooseSession \/ Submit \/ HandleSubmit

RoutingSpec == RoutingInit /\ [][RoutingNext]_routingVars

-----------------------------------------------------------------------------
(* However the providers were connected, edited, replaced and made current,  *)
(* and whenever the daemon gets to it: a message that starts a chat or takes *)
(* one up again goes to the provider in the header at that time, or nowhere, *)
(* unless a save has failed ("Current configured provider shown in the       *)
(* header", app.rs:66).  When it was typed the header may have shown another. *)
MessagesGoWhereShown ==
    [][\A c \in DOMAIN chats' :
          /\ chats'[c].runs # NoRunner
          /\ c \in DOMAIN chats => chats[c].runs = NoRunner
          /\ faults = 0
          => Destination(chats'[c].runs) \in {header, Refused}]_routingVars

(* "Current provider selection used for new root chats"                      *)
(* (config/structs.rs:288): an older chat stays with the provider its model  *)
(* is stored with.                                                           *)
ChatsKeepTheirProvider ==
    \A c \in DOMAIN chats : chats[c].runs # NoRunner => chats[c].runs.name = chats[c].stored

=============================================================================
