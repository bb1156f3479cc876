----------------------------- MODULE AgentTree -----------------------------
(***************************************************************************)
(* What keeps an agent alive, and what it works in: the daemon's map of     *)
(* root handles, the spawner's registry of handles and its map of execution *)
(* contexts (one bash session per chat tree), and the agents' tasks         *)
(* (xoxo-core/src/agents/spawner.rs, bin/xoxo/src/daemon.rs).               *)
(*                                                                         *)
(* Every lock is taken for one access to a map, so the daemon opening a     *)
(* chat, a root spawning a subagent and a task cleaning up after itself     *)
(* interleave between those accesses.  What an agent does in a turn is the  *)
(* subject of AgentRunner; here a turn begins, may spawn, and ends.         *)
(*                                                                         *)
(* Chats, tasks and contexts are numbered as they come up; 0 is none.       *)
(***************************************************************************)
EXTENDS Naturals

CONSTANTS
    MaxTasks,    \* bound: agent tasks started
    MaxChats,    \* bound: chat ids in use
    OldChats,    \* root chats in storage when the process starts: 1..OldChats
    MaxFaults    \* bound: failures to store the last-used pointer

ASSUME TreeAssumption ==
    /\ MaxTasks \in Nat /\ MaxChats \in Nat /\ MaxFaults \in Nat
    /\ OldChats \in 0..MaxChats

Task == 1..MaxTasks
ChatId == 1..MaxChats

VARIABLES
    stage,      \* stage[i]: where task i is in its life
    rootOf,     \* the path of task i: the root's chat, and its own
    chatOf,
    ctxOf,      \* the execution context task i was given
    started,    \* tasks started
    asked,      \* tasks with a user message in their channel
    told,       \* tasks with a Shutdown in their channel
    kept,       \* subagents whose handle the caller of spawn still has
    spawning,   \* roots that have read the context for a subagent: root -> context
    waits,      \* the subagent whose handoff a root's turn awaits
    registry,   \* HandleRegistry: chat -> the task its handle sends to
    contexts,   \* tree_execution_contexts: root chat -> context
    shut,       \* contexts whose bash has been killed
    made,       \* contexts created
    chats,      \* chat ids in use
    stored,     \* root chats in storage
    held,       \* run_daemon's root_handles: chat -> task
    daemon,     \* the call the daemon is in
    faults

agents == <<stage, rootOf, chatOf, ctxOf, started, asked, told, kept, spawning, waits>>
shared == <<registry, contexts, shut, made>>
outside == <<chats, stored, held, daemon, faults>>
vars   == <<agents, shared, outside>>

Stages == {"unborn", "recv", "turn", "returned", "saved", "last", "shut", "gone"}
Live(i) == stage[i] \in {"recv", "turn"}
IsRoot(i) == rootOf[i] = chatOf[i]
Idle == [at |-> "idle", chat |-> 0, ctx |-> 0, task |-> 0, fresh |-> FALSE]

-----------------------------------------------------------------------------
(* A task starts: its shell is saved, its handle registered *)

(* HandleRegistry::insert: a handle already there for the chat is dropped. *)
KeyOfTree(root, chat) == root               \* mutant: one handle for a tree
Key(root, chat) == chat

StartTask(root, chat, ctx) ==
    LET i == started + 1
    IN  /\ started < MaxTasks
        /\ started' = i
        /\ stage' = [stage EXCEPT ![i] = "recv"]
        /\ rootOf' = [rootOf EXCEPT ![i] = root]
        /\ chatOf' = [chatOf EXCEPT ![i] = chat]
        /\ ctxOf' = [ctxOf EXCEPT ![i] = ctx]
        /\ registry' = [registry EXCEPT ![Key(root, chat)] = i]

-----------------------------------------------------------------------------
(* The daemon: one SubmitUserMessage at a time *)

Holds(c) == held[c] # 0

(* root_handles has the chat: the message goes to that task, or the         *)
(* channel is closed and the client reads an error.                        *)
SubmitToHeld(c) ==
    /\ daemon = Idle /\ Holds(c)
    /\ asked' = IF Live(held[c]) THEN asked \cup {held[c]} ELSE asked
    /\ UNCHANGED <<stage, rootOf, chatOf, ctxOf, started, told, kept, spawning,
                   waits, shared, outside>>

(* restore_root of a stored chat, or spawn_root of a fresh one, as far as   *)
(* ensure_root_execution_context's first look at the map.                  *)
Open(c, fresh) ==
    daemon' = [at |-> IF contexts[c] = 0 THEN "creating" ELSE "ready",
               chat |-> c, ctx |-> contexts[c], task |-> 0, fresh |-> fresh]

OpenStored(c) ==
    /\ daemon = Idle /\ c \in stored /\ ~Holds(c)
    /\ Open(c, FALSE)
    /\ UNCHANGED <<agents, shared, chats, stored, held, faults>>

OpenNew ==
    /\ daemon = Idle /\ chats < MaxChats
    /\ chats' = chats + 1
    /\ Open(chats + 1, TRUE)
    /\ UNCHANGED <<agents, shared, stored, held, faults>>

(* The bash session is spawned without the lock; then the map decides.     *)
CreateContext ==
    /\ daemon.at = "creating"
    /\ made' = made + 1
    /\ LET ctx == IF contexts[daemon.chat] = 0 THEN made + 1 ELSE contexts[daemon.chat]
       IN  /\ contexts' = [contexts EXCEPT ![daemon.chat] = ctx]
           /\ daemon' = [daemon EXCEPT !.at = "ready", !.ctx = ctx]
    /\ UNCHANGED <<agents, registry, shut, chats, stored, held, faults>>

(* bash does not start, or a stored chat allows a tool that is no longer    *)
(* there: the client reads an error; a context already made stays behind.  *)
OpenFails ==
    /\ daemon.at = "creating" \/ (daemon.at = "ready" /\ ~daemon.fresh)
    /\ daemon' = Idle
    /\ UNCHANGED <<agents, shared, chats, stored, held, faults>>

(* The rest of spawn_root and restore_root.  spawn_root's first message     *)
(* follows at once: nobody else can have closed the channel.               *)
StartRoot ==
    /\ daemon.at = "ready"
    /\ StartTask(daemon.chat, daemon.chat, daemon.ctx)
    /\ stored' = stored \cup {daemon.chat}
    /\ asked' = IF daemon.fresh THEN asked \cup {started + 1} ELSE asked
    /\ daemon' = [daemon EXCEPT !.at = "started", !.task = started + 1]
    /\ UNCHANGED <<told, kept, spawning, waits, contexts, shut, made, chats, held, faults>>

(* set_last_used_chat_id, then root_handles and a restored chat's message;  *)
(* when storing the pointer fails the handle is dropped with the message.  *)
ForgetsHandle(c, i) == held                 \* mutant: the handle is not kept
KeepHandle(c, i) == [held EXCEPT ![c] = i]

Settle ==
    /\ daemon.at = "started"
    /\ daemon' = Idle
    /\ \/ /\ held' = KeepHandle(daemon.chat, daemon.task)
          /\ asked' = asked \cup {daemon.task}
          /\ UNCHANGED faults
       \/ /\ faults < MaxFaults
          /\ faults' = faults + 1
          /\ UNCHANGED <<held, asked>>
    /\ UNCHANGED <<stage, rootOf, chatOf, ctxOf, started, told, kept, spawning,
                   waits, shared, chats, stored>>

-----------------------------------------------------------------------------
(* A root spawns a subagent in its turn: only it has a provider, so only   *)
(* its completions call tools.                                             *)

TreeContext(i) == contexts[rootOf[i]]

ReadContext(i) ==
    /\ stage[i] = "turn" /\ IsRoot(i) /\ waits[i] = 0
    /\ i \notin DOMAIN spawning
    /\ chats < MaxChats /\ chats' = chats + 1
    /\ spawning' = [j \in DOMAIN spawning \cup {i} |->
                        IF j = i THEN [ctx |-> TreeContext(i), chat |-> chats + 1]
                                 ELSE spawning[j]]
    /\ UNCHANGED <<stage, rootOf, chatOf, ctxOf, started, asked, told, kept, waits,
                   shared, stored, held, daemon, faults>>

(* Spawner::spawn hands its caller the handle; spawn_and_await drops it and *)
(* waits for the handoff.  The first prompt is already in the channel.     *)
StartSubagent(i) ==
    /\ i \in DOMAIN spawning
    /\ StartTask(rootOf[i], spawning[i].chat, spawning[i].ctx)
    /\ spawning' = [j \in DOMAIN spawning \ {i} |-> spawning[j]]
    /\ asked' = asked \cup {started + 1}
    /\ \/ kept' = kept \cup {started + 1} /\ UNCHANGED waits
       \/ waits' = [waits EXCEPT ![i] = started + 1] /\ UNCHANGED kept
    /\ UNCHANGED <<told, contexts, shut, made, outside>>

(* AgentHandle::shutdown, by whoever has the handle; the registry is        *)
(* private to the spawner, which never calls it.                           *)
Shutdown(i) ==
    /\ Live(i) /\ (i \in kept \/ held[chatOf[i]] = i)
    /\ told' = told \cup {i}
    /\ UNCHANGED <<stage, rootOf, chatOf, ctxOf, started, asked, kept, spawning,
                   waits, shared, outside>>

-----------------------------------------------------------------------------
(* A task's life *)

BeginTurn(i) ==
    /\ stage[i] = "recv" /\ i \in asked
    /\ stage' = [stage EXCEPT ![i] = "turn"]
    /\ asked' = asked \ {i}
    /\ UNCHANGED <<rootOf, chatOf, ctxOf, started, told, kept, spawning, waits,
                   shared, outside>>

EndTurn(i) ==
    /\ stage[i] = "turn" /\ i \notin DOMAIN spawning /\ waits[i] = 0
    /\ stage' = [stage EXCEPT ![i] = "recv"]
    /\ UNCHANGED <<rootOf, chatOf, ctxOf, started, asked, told, kept, spawning,
                   waits, shared, outside>>

(* recv() returns None once no sender is left.                             *)
Senderless(i) ==
    /\ registry[chatOf[i]] # i /\ held[chatOf[i]] # i
    /\ i \notin kept /\ daemon.task # i

(* The loop ends; the handoff answers a root that awaits it.               *)
Return(i) ==
    /\ stage[i] = "recv"
    /\ i \in told \/ (i \notin asked /\ Senderless(i))
    /\ stage' = [stage EXCEPT ![i] = "returned"]
    /\ waits' = [j \in Task |-> IF waits[j] = i THEN 0 ELSE waits[j]]
    /\ UNCHANGED <<rootOf, chatOf, ctxOf, started, asked, told, kept, spawning,
                   shared, outside>>

(* cleanup_after_runner: the final save...                                 *)
SaveFinal(i) ==
    /\ stage[i] = "returned"
    /\ stage' = [stage EXCEPT ![i] = "saved"]
    /\ UNCHANGED <<rootOf, chatOf, ctxOf, started, asked, told, kept, spawning,
                   waits, shared, outside>>

(* ... the registry, under one lock...                                     *)
ChildrenOf(reg, i) ==                       \* mutant: the siblings do not count
    {c \in ChatId : reg[c] # 0 /\ rootOf[reg[c]] = chatOf[i]}
Subtree(reg, i) == {c \in ChatId : reg[c] # 0 /\ rootOf[reg[c]] = rootOf[i]}
RemoveHandle(i) == [registry EXCEPT ![chatOf[i]] = 0]
LastBefore(i) == Subtree(registry, i) = {}  \* mutant: looks before it removes
LastOfTree(i) == Subtree(RemoveHandle(i), i) = {}

Unregister(i) ==
    /\ stage[i] = "saved"
    /\ registry' = RemoveHandle(i)
    /\ stage' = [stage EXCEPT ![i] = IF LastOfTree(i) THEN "last" ELSE "gone"]
    /\ UNCHANGED <<rootOf, chatOf, ctxOf, started, asked, told, kept, spawning,
                   waits, contexts, shut, made, outside>>

(* ... and for the last of the tree the context, then its place in the map. *)
ShutContext(i) ==
    /\ stage[i] = "last"
    /\ stage' = [stage EXCEPT ![i] = "shut"]
    /\ shut' = shut \cup ({ctxOf[i]} \ {0})
    /\ UNCHANGED <<rootOf, chatOf, ctxOf, started, asked, told, kept, spawning,
                   waits, registry, contexts, made, outside>>

ForgetContext(i) ==
    /\ stage[i] = "shut"
    /\ stage' = [stage EXCEPT ![i] = "gone"]
    /\ contexts' = [contexts EXCEPT ![rootOf[i]] = 0]
    /\ UNCHANGED <<rootOf, chatOf, ctxOf, started, asked, told, kept, spawning,
                   waits, registry, shut, made, outside>>

-----------------------------------------------------------------------------
Init ==
    /\ stage = [i \in Task |-> "unborn"]
    /\ rootOf = [i \in Task |-> 0] /\ chatOf = [i \in Task |-> 0]
    /\ ctxOf = [i \in Task |-> 0]
    /\ started = 0 /\ asked = {} /\ told = {} /\ kept = {}
    /\ spawning = <<>> /\ waits = [i \in Task |-> 0]
    /\ registry = [c \in ChatId |-> 0] /\ contexts = [c \in ChatId |-> 0]
    /\ shut = {} /\ made = 0
    /\ chats = OldChats /\ stored = 1..OldChats
    /\ held = [c \in ChatId |-> 0] /\ daemon = Idle /\ faults = 0

Daemon == \/ \E c \in ChatId : SubmitToHeld(c) \/ OpenStored(c)
          \/ OpenNew \/ CreateContext \/ OpenFails \/ StartRoot \/ Settle

Cleanup(i) == SaveFinal(i) \/ Unregister(i) \/ ShutContext(i) \/ ForgetContext(i)
Runner(i) == BeginTurn(i) \/ EndTurn(i) \/ Return(i) \/ Cleanup(i)

Next == \/ Daemon
        \/ \E i \in Task : Runner(i) \/ ReadContext(i) \/ StartSubagent(i) \/ Shutdown(i)

Spec == Init /\ [][Next]_vars

(* tokio runs a task that is ready; a turn that awaits nothing ends.       *)
FairSpec == Spec /\ \A i \in Task : WF_vars(Runner(i)) /\ WF_vars(StartSubagent(i))

-----------------------------------------------------------------------------
(* Registry and root_handles hold a task under its own chat.               *)
WellKeyed(map) == \A c \in ChatId : map[c] # 0 => chatOf[map[c]] = c

TypeOK ==
    /\ stage \in [Task -> Stages]
    /\ rootOf \in [Task -> 0..MaxChats] /\ chatOf \in [Task -> 0..MaxChats]
    /\ ctxOf \in [Task -> Nat] /\ made \in Nat /\ shut \subseteq 1..made
    /\ started \in 0..MaxTasks
    /\ asked \subseteq 1..started /\ told \subseteq 1..started /\ kept \subseteq 1..started
    /\ DOMAIN spawning \subseteq 1..started
    /\ spawning \in [DOMAIN spawning -> [ctx : 0..made, chat : ChatId]]
    /\ waits \in [Task -> 0..MaxTasks]
    /\ registry \in [ChatId -> 0..MaxTasks] /\ held \in [ChatId -> 0..MaxTasks]
    /\ WellKeyed(registry) /\ WellKeyed(held)
    /\ contexts \in [ChatId -> 0..made]
    /\ chats \in OldChats..MaxChats /\ stored \subseteq ChatId
    /\ daemon \in [at : {"idle", "creating", "ready", "started"}, chat : 0..MaxChats,
                   ctx : 0..made, task : 0..MaxTasks, fresh : BOOLEAN]
    /\ faults \in 0..MaxFaults

(* The bash session of a tree is never killed while an agent of the tree    *)
(* runs, however the exits of its agents, their cleanups, new subagents     *)
(* and the daemon's opening of other chats interleave                       *)
(* (cleanup_after_runner; ADR 0001, section 9).                             *)
ContextOutlivesAgents == \A i \in Task : Live(i) => ctxOf[i] \notin shut

(* The agents of a tree have the one context of that tree, and no two trees  *)
(* share one.                                                                *)
OneContextPerTree ==
    \A i, j \in Task : Live(i) /\ Live(j) =>
        /\ ctxOf[i] # 0
        /\ (ctxOf[i] = ctxOf[j]) <=> (rootOf[i] = rootOf[j])

(* From its start to its final save a task is the only one of its chat.     *)
OneWriterPerChat ==
    \A i, j \in Task :
        /\ i # j /\ chatOf[i] = chatOf[j]
        /\ Live(i) \/ stage[i] = "returned"
        => ~(Live(j) \/ stage[j] = "returned")

(* An exit elsewhere in its tree never takes an agent out of the registry.  *)
LiveAreRegistered == \A i \in Task : Live(i) => registry[chatOf[i]] = i

(* While an agent runs it has its registry entry, its tree's context and its *)
(* chat's snapshot, and no other agent has them, however spawns, restores,   *)
(* exits and cleanups interleave (HandleRegistry, do_spawn_with_handoff,     *)
(* ensure_root_execution_context, handle_submit_user_message).               *)
AgentsKeepTheirOwn == OneContextPerTree /\ OneWriterPerChat /\ LiveAreRegistered

(* Once the agents of a tree have all returned, its bash is killed and its  *)
(* place in the map freed: no context outlives the last of its agents       *)
(* (cleanup_after_runner).                                                  *)
UsersOf(c) == {i \in Task : ctxOf[i] = c}
TreesAreReleased ==
    \A c \in 1..MaxChats :
        (UsersOf(c) # {} /\ \A i \in UsersOf(c) : ~Live(i))
            ~> (c \in shut /\ \A r \in ChatId : contexts[r] # c)
=============================================================================
