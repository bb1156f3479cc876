--------------------------- MODULE AgentTreeProofs ---------------------------
(***************************************************************************)
(* For any number of chats and tasks: while an agent runs it has its        *)
(* registry entry, its tree's context, and its chat, and nobody kills the    *)
(* context; this lasts until storing the pointer to the chat last used      *)
(* fails (MCPointerFault shows what that does).                              *)
(*                                                                         *)
(* Until then the daemon never forgets a chat it has opened, so a chat has   *)
(* one task ever: that is where the argument starts.  The types at the end    *)
(* hold whatever fails.                                                      *)
(***************************************************************************)
EXTENDS AgentTree, TLAPS

(* The task a submission starts is known to the daemon until it is held.     *)
Started == 1..started
Opened(c) == held[c] # 0 \/ (daemon.at = "started" /\ daemon.chat = c)

Typed ==
    /\ started \in 0..MaxTasks /\ made \in Nat /\ chats \in 0..MaxChats
    /\ stage \in [Task -> Stages]
    /\ rootOf \in [Task -> 0..MaxChats] /\ chatOf \in [Task -> 0..MaxChats]
    /\ ctxOf \in [Task -> Nat]
    /\ registry \in [ChatId -> 0..MaxTasks] /\ held \in [ChatId -> 0..MaxTasks]
    /\ contexts \in [ChatId -> Nat] /\ \A c \in ChatId : contexts[c] <= made
    /\ shut \subseteq 1..made /\ stored \subseteq 1..chats

(* What the daemon has in hand: a chat that is not open yet, and its context. *)
Opening ==
    /\ daemon \in [at : {"idle", "creating", "ready", "started"}, chat : 0..MaxChats, ctx : Nat,
                   task : 0..MaxTasks, fresh : BOOLEAN]
    /\ \A c \in ChatId : held[c] # 0 => c \in stored
    /\ daemon.at # "idle" => daemon.chat \in 1..chats
    /\ daemon.at \in {"creating", "ready"} => held[daemon.chat] = 0
    /\ daemon.at = "ready" => daemon.ctx # 0 /\ daemon.ctx = contexts[daemon.chat]
    /\ daemon.at = "started" => daemon.chat \in stored /\ daemon.task # 0

(* The chats of roots, open or not, are never those of subagents.            *)
RootChat(c) == c \in stored \/ (daemon.at # "idle" /\ daemon.chat = c)

Placed ==
    /\ \A i \in Task \ Started : stage[i] = "unborn"
    /\ \A i \in Started :
        /\ stage[i] # "unborn"
        /\ rootOf[i] \in stored /\ chatOf[i] \in 1..chats
        /\ Opened(rootOf[i])
        /\ chatOf[i] # rootOf[i] => ~RootChat(chatOf[i])

OwnChat == \A i, j \in Started : chatOf[i] = chatOf[j] => i = j

(* A task is registered from its start until it unregisters itself.          *)
Running == {"recv", "turn", "returned", "saved"}
Registered == \A i \in Started : stage[i] \in Running => registry[chatOf[i]] = i

(* Until a tree is forgotten its agents have its context, which is alive      *)
(* until the last of them shuts it.                                         *)
InContext ==
    /\ \A i \in Started : stage[i] # "gone" => ctxOf[i] # 0 /\ ctxOf[i] = contexts[rootOf[i]]
    /\ \A i \in Started : stage[i] \in Running \cup {"last"} => ctxOf[i] \notin shut
    /\ \A c, d \in ChatId : contexts[c] = contexts[d] /\ contexts[c] # 0 => c = d
    /\ \A c \in ChatId : contexts[c] # 0 /\ contexts[c] \in shut => Opened(c)

LastOne ==
    \A i, j \in Started :
        i # j /\ rootOf[i] = rootOf[j] /\ stage[i] \in {"last", "shut"} => stage[j] = "gone"

(* A root between looking for its context and starting the subagent is in     *)
(* its turn; the chat it has made is nobody's yet.                           *)
Pending ==
    \A i \in DOMAIN spawning :
        /\ i \in Started /\ stage[i] = "turn" /\ rootOf[i] = chatOf[i]
        /\ spawning[i].ctx = ctxOf[i] /\ spawning[i].chat \in 1..chats
        /\ ~RootChat(spawning[i].chat)
        /\ \A j \in Started : chatOf[j] # spawning[i].chat
        /\ \A j \in DOMAIN spawning : j # i => spawning[j].chat # spawning[i].chat

IInv == Typed /\ Opening /\ Placed /\ OwnChat /\ Registered /\ InContext /\ LastOne /\ Pending

LEMMA Initially == Init => IInv
<1> SUFFICES ASSUME Init PROVE IInv
    OBVIOUS
<1>1. Typed
    <2>1. MaxTasks \in Nat /\ MaxChats \in Nat /\ OldChats \in 0..MaxChats
        BY TreeAssumption
    <2> QED
        BY <2>1 DEF Init, Typed, Stages
<1>2. Opening
    BY TreeAssumption DEF Init, Opening, Idle
<1>3. Started = {} /\ DOMAIN spawning = {}
    BY DEF Init, Started
<1>4. Placed /\ OwnChat /\ Registered /\ LastOne /\ Pending
    BY <1>3 DEF Init, Placed, OwnChat, Registered, LastOne, Pending
<1>5. InContext
    BY <1>3 DEF Init, InContext
<1> QED
    BY <1>1, <1>2, <1>4, <1>5 DEF IInv

(* What the invariant speaks of.                                            *)
map == <<registry, held, contexts, shut, made>>
who == <<rootOf, chatOf, ctxOf, started>>

(* Tasks and chats are within their bounds, and whoever is born has started.  *)
LEMMA Ranges ==
    ASSUME IInv
    PROVE  /\ Started \subseteq Task /\ 0 \notin Started
           /\ \A c \in 1..chats : c \in ChatId
           /\ \A i \in Started : rootOf[i] \in ChatId /\ chatOf[i] \in ChatId
           /\ \A i \in Task : stage[i] # "unborn" => i \in Started
           /\ \A i \in DOMAIN spawning : i \in Started /\ stage[i] = "turn"
<1>1. MaxTasks \in Nat /\ MaxChats \in Nat /\ started \in 0..MaxTasks /\ chats \in 0..MaxChats
    BY TreeAssumption DEF IInv, Typed
<1>2. Started \subseteq Task /\ 0 \notin Started /\ \A c \in 1..chats : c \in ChatId
    BY <1>1 DEF Started, Task, ChatId
<1>3. stored \subseteq 1..chats
    BY DEF IInv, Typed
<1>4. \A i \in Started : rootOf[i] \in stored /\ chatOf[i] \in 1..chats
    BY DEF IInv, Placed
<1>5. \A i \in Task : stage[i] # "unborn" => i \in Started
    BY DEF IInv, Placed
<1>6. \A i \in DOMAIN spawning : i \in Started /\ stage[i] = "turn"
    BY DEF IInv, Pending
<1> QED
    BY <1>2, <1>3, <1>4, <1>5, <1>6

(* Senders and messages do not matter to it.                                *)
LEMMA Unaffected ==
    ASSUME IInv, UNCHANGED <<stage, who, map, spawning, chats, stored, daemon>>
    PROVE  IInv'
<1>1. Typed' /\ Opening' /\ Placed'
    BY DEF IInv, Typed, Opening, Placed, Opened, RootChat, Started, map, who
<1>2. OwnChat' /\ Registered' /\ LastOne' /\ InContext'
    BY DEF IInv, OwnChat, Registered, LastOne, InContext, Opened, Started, map, who
<1>3. Pending'
    BY DEF IInv, Pending, RootChat, Started, who
<1> QED
    BY <1>1, <1>2, <1>3 DEF IInv

(* A task goes on, and is still registered.                                  *)
LEMMA StageKeeps ==
    ASSUME IInv, NEW i \in Task, NEW s \in Running, stage[i] \in Running,
           i \in DOMAIN spawning => s = "turn",
           stage' = [stage EXCEPT ![i] = s],
           UNCHANGED <<who, map, spawning, chats, stored, daemon>>
    PROVE  IInv'
<1>1. stage \in [Task -> Stages] /\ stage' \in [Task -> Stages]
    BY DEF IInv, Typed, Running, Stages
<1>2. \A j \in Task : /\ stage'[j] = stage[j] \/ (j = i /\ stage'[j] = s)
                      /\ stage[j] \in Running <=> stage'[j] \in Running
                      /\ \A t \in {"unborn", "last", "shut", "gone"} : stage[j] = t <=> stage'[j] = t
    BY <1>1 DEF Running
<1>3. Started \subseteq Task /\ Started' = Started
    BY Ranges DEF Started, who
<1>4. Typed' /\ Opening'
    BY <1>1 DEF IInv, Typed, Opening, map, who
<1>5. Placed' /\ OwnChat' /\ Registered'
    BY <1>2, <1>3 DEF IInv, Placed, OwnChat, Registered, Opened, RootChat, map, who
<1>6. InContext' /\ LastOne'
    BY <1>2, <1>3 DEF IInv, InContext, LastOne, Opened, map, who
<1>7. Pending'
    BY <1>2, <1>3 DEF IInv, Pending, RootChat, who
<1> QED
    BY <1>4, <1>5, <1>6, <1>7 DEF IInv

LEMMA RunnerKeeps ==
    ASSUME IInv, NEW i \in Task, BeginTurn(i) \/ EndTurn(i) \/ Return(i) \/ SaveFinal(i)
    PROVE  IInv'
<1>1. i \in DOMAIN spawning => stage[i] = "turn"
    BY DEF IInv, Pending
<1>2. UNCHANGED <<who, map, spawning, chats, stored, daemon>>
    BY DEF BeginTurn, EndTurn, Return, SaveFinal, who, map, shared, outside
<1>3. PICK s \in {"turn", "recv", "returned", "saved"} :
          /\ stage[i] \in Running /\ stage' = [stage EXCEPT ![i] = s]
          /\ stage[i] = "turn" => i \notin DOMAIN spawning
    BY DEF BeginTurn, EndTurn, Return, SaveFinal, Running
<1> QED
    BY <1>1, <1>2, <1>3, StageKeeps DEF Running

(* The last of a tree looks at the registry and finds nobody: the others have *)
(* all gone, since until then each of them is in it.                         *)
LEMMA UnregisterKeeps == ASSUME IInv, NEW i \in Task, Unregister(i) PROVE IInv'
<1>1. /\ stage[i] = "saved" /\ registry' = [registry EXCEPT ![chatOf[i]] = 0]
      /\ stage' = [stage EXCEPT ![i] = IF LastOfTree(i) THEN "last" ELSE "gone"]
      /\ UNCHANGED <<who, held, contexts, shut, made, spawning, chats, stored, daemon>>
    BY DEF Unregister, RemoveHandle, who, outside
<1>2. i \in Started /\ Started \subseteq Task /\ Started' = Started /\ i \notin DOMAIN spawning
    BY <1>1, Ranges DEF Started, who
<1>3. /\ stage'[i] \in {"last", "gone"}
      /\ \A j \in Task : j # i => stage'[j] = stage[j]
      /\ stage' \in [Task -> Stages]
    BY <1>1 DEF IInv, Typed, Stages
<1>4. \A j \in Started : j # i => chatOf[j] \in ChatId /\ chatOf[j] # chatOf[i]
    BY <1>2, Ranges DEF IInv, OwnChat
<1>5. /\ registry' \in [ChatId -> 0..MaxTasks]
      /\ \A j \in Started : j # i => registry'[chatOf[j]] = registry[chatOf[j]]
    <2>1. registry \in [ChatId -> 0..MaxTasks] /\ 0 \in 0..MaxTasks
        BY TreeAssumption DEF IInv, Typed
    <2> QED
        BY <1>1, <1>4, <2>1
<1>6. LastOfTree(i) => \A j \in Started : j # i /\ rootOf[j] = rootOf[i] => stage[j] = "gone"
    <2> SUFFICES ASSUME LastOfTree(i), NEW j \in Started, j # i, rootOf[j] = rootOf[i]
                 PROVE  stage[j] = "gone"
        OBVIOUS
    <2>1. stage[j] \notin {"last", "shut"}
        BY <1>1, <1>2 DEF IInv, LastOne
    <2>2. stage[j] \notin Running
        <3> SUFFICES ASSUME stage[j] \in Running PROVE FALSE
            OBVIOUS
        <3>1. registry'[chatOf[j]] = j /\ j # 0
            BY <1>5 DEF IInv, Registered, Started
        <3>2. chatOf[j] \in Subtree(registry', i)
            BY <1>4, <3>1 DEF Subtree
        <3> QED
            BY <1>1, <3>2 DEF LastOfTree, RemoveHandle
    <2> QED
        BY <1>2, <2>1, <2>2 DEF IInv, Typed, Placed, Stages, Running
<1>7. Typed' /\ Opening' /\ Placed' /\ OwnChat'
    BY <1>1, <1>2, <1>3, <1>5 DEF IInv, Typed, Opening, Placed, OwnChat, Opened, RootChat, who
<1>8. Registered'
    BY <1>1, <1>2, <1>3, <1>5 DEF IInv, Registered, Running, who
<1>9. InContext'
    BY <1>1, <1>2, <1>3 DEF IInv, InContext, Running, Opened, who
<1>10. LastOne'
    BY <1>1, <1>2, <1>3, <1>6 DEF IInv, LastOne, who
<1>11. Pending'
    BY <1>1, <1>2, <1>3 DEF IInv, Pending, RootChat, Started, Task, who
<1> QED
    BY <1>7, <1>8, <1>9, <1>10, <1>11 DEF IInv

LEMMA ShutContextKeeps == ASSUME IInv, NEW i \in Task, ShutContext(i) PROVE IInv'
<1>1. /\ stage[i] = "last" /\ stage' = [stage EXCEPT ![i] = "shut"]
      /\ shut' = shut \cup ({ctxOf[i]} \ {0})
      /\ UNCHANGED <<who, registry, held, contexts, made, spawning, chats, stored, daemon>>
    BY DEF ShutContext, who, outside
<1>2. i \in Started /\ Started \subseteq Task /\ Started' = Started /\ i \notin DOMAIN spawning
    BY <1>1, Ranges DEF Started, who
<1>3. /\ stage'[i] = "shut" /\ \A j \in Task : j # i => stage'[j] = stage[j]
      /\ stage' \in [Task -> Stages]
    BY <1>1 DEF IInv, Typed, Stages
<1>4. /\ ctxOf[i] # 0 /\ ctxOf[i] = contexts[rootOf[i]] /\ rootOf[i] \in ChatId /\ Opened(rootOf[i])
      /\ ctxOf[i] \in 1..made
    <2>1. ctxOf[i] # 0 /\ ctxOf[i] = contexts[rootOf[i]] /\ rootOf[i] \in stored /\ Opened(rootOf[i])
        BY <1>1, <1>2 DEF IInv, InContext, Placed
    <2>2. rootOf[i] \in ChatId
        BY <1>2, Ranges
    <2>3. contexts[rootOf[i]] \in Nat /\ contexts[rootOf[i]] <= made /\ made \in Nat
        BY <2>2 DEF IInv, Typed
    <2> QED
        BY <2>1, <2>2, <2>3
<1>5. \A j \in Started : j # i /\ stage[j] \in Running \cup {"last"} => ctxOf[j] # ctxOf[i]
    <2> SUFFICES ASSUME NEW j \in Started, j # i, stage[j] \in Running \cup {"last"}, ctxOf[j] = ctxOf[i]
                 PROVE  FALSE
        OBVIOUS
    <2>1. stage[j] # "gone"
        BY DEF Running
    <2>2. ctxOf[j] = contexts[rootOf[j]] /\ rootOf[j] \in ChatId
        BY <2>1, Ranges DEF IInv, InContext
    <2>3. rootOf[j] = rootOf[i]
        BY <1>4, <2>2 DEF IInv, InContext
    <2> QED
        BY <1>1, <1>2, <2>1, <2>3 DEF IInv, LastOne
<1>6. Opening' /\ Placed' /\ OwnChat' /\ Registered' /\ LastOne'
    BY <1>1, <1>2, <1>3
       DEF IInv, Opening, Placed, OwnChat, Registered, LastOne, Running, Opened, RootChat, who
<1>9. Typed'
    BY <1>1, <1>3, <1>4 DEF IInv, Typed, who
<1>7. InContext'
    <2>1. /\ \A j \in Started : stage'[j] # "gone" => ctxOf[j] # 0 /\ ctxOf[j] = contexts[rootOf[j]]
          /\ \A c, d \in ChatId : contexts[c] = contexts[d] /\ contexts[c] # 0 => c = d
        BY <1>1, <1>2, <1>3 DEF IInv, InContext
    <2>2. \A j \in Started : stage'[j] \in Running \cup {"last"} => ctxOf[j] \notin shut'
        BY <1>1, <1>2, <1>3, <1>5 DEF IInv, InContext, Running
    <2>3. \A c \in ChatId : contexts[c] # 0 /\ contexts[c] \in shut' => Opened(c)
        BY <1>1, <1>4 DEF IInv, InContext
    <2> QED
        BY <1>1, <1>2, <2>1, <2>2, <2>3 DEF InContext, Opened, who
<1>8. Pending'
    BY <1>1, <1>2, <1>3 DEF IInv, Pending, RootChat, Started, Task, who
<1> QED
    BY <1>6, <1>7, <1>8, <1>9 DEF IInv

LEMMA ForgetContextKeeps == ASSUME IInv, NEW i \in Task, ForgetContext(i) PROVE IInv'
<1>1. /\ stage[i] = "shut" /\ stage' = [stage EXCEPT ![i] = "gone"]
      /\ contexts' = [contexts EXCEPT ![rootOf[i]] = 0]
      /\ UNCHANGED <<who, registry, held, shut, made, spawning, chats, stored, daemon>>
    BY DEF ForgetContext, who, outside
<1>2. i \in Started /\ Started \subseteq Task /\ Started' = Started /\ i \notin DOMAIN spawning
    BY <1>1, Ranges DEF Started, who
<1>3. /\ stage'[i] = "gone" /\ \A j \in Task : j # i => stage'[j] = stage[j]
      /\ stage' \in [Task -> Stages]
    BY <1>1 DEF IInv, Typed, Stages
<1>4. rootOf[i] \in ChatId /\ Opened(rootOf[i])
    BY <1>2, Ranges DEF IInv, Placed
<1>5. /\ contexts' \in [ChatId -> Nat]
      /\ \A c \in ChatId : contexts'[c] = IF c = rootOf[i] THEN 0 ELSE contexts[c]
    BY <1>1, <1>4 DEF IInv, Typed
<1>6. Typed' /\ Placed' /\ OwnChat' /\ Registered' /\ LastOne'
    BY <1>1, <1>2, <1>3, <1>5
       DEF IInv, Typed, Placed, OwnChat, Registered, LastOne, Running, Opened, RootChat, who
<1>7. Opening'
    <2>1. daemon.at = "ready" => daemon.chat # rootOf[i] /\ daemon.chat \in ChatId
        BY <1>4, Ranges DEF IInv, Opening, Opened
    <2> QED
        BY <1>1, <1>5, <2>1 DEF IInv, Opening
<1>8. InContext'
    <2>1. \A j \in Started : stage'[j] # "gone" => ctxOf[j] # 0 /\ ctxOf[j] = contexts'[rootOf[j]]
        <3> SUFFICES ASSUME NEW j \in Started, stage'[j] # "gone"
                     PROVE  ctxOf[j] # 0 /\ ctxOf[j] = contexts'[rootOf[j]]
            OBVIOUS
        <3>1. j # i /\ stage[j] # "gone" /\ rootOf[j] # rootOf[i]
            BY <1>1, <1>2, <1>3 DEF IInv, LastOne
        <3>2. rootOf[j] \in ChatId
            BY Ranges
        <3> QED
            BY <1>5, <3>1, <3>2 DEF IInv, InContext
    <2>2. \A j \in Started : stage'[j] \in Running \cup {"last"} => ctxOf[j] \notin shut
        BY <1>2, <1>3 DEF IInv, InContext, Running
    <2>3. \A c, d \in ChatId : contexts'[c] = contexts'[d] /\ contexts'[c] # 0 => c = d
        BY <1>5 DEF IInv, InContext
    <2>4. \A c \in ChatId : contexts'[c] # 0 /\ contexts'[c] \in shut => Opened(c)
        BY <1>5 DEF IInv, InContext
    <2> QED
        BY <1>1, <1>2, <2>1, <2>2, <2>3, <2>4 DEF InContext, Opened, who
<1>9. Pending'
    BY <1>1, <1>2, <1>3 DEF IInv, Pending, RootChat, Started, Task, who
<1> QED
    BY <1>6, <1>7, <1>8, <1>9 DEF IInv

-----------------------------------------------------------------------------
(* The daemon looks at a chat that is not open: a stored one or a new one.   *)
LEMMA OpenKeeps ==
    ASSUME IInv, daemon = Idle, NEW n \in 0..MaxChats, chats <= n, chats' = n,
           NEW c \in 1..n, held[c] = 0, c \in stored \/ c > chats,
           NEW fresh \in BOOLEAN, Open(c, fresh),
           UNCHANGED <<stage, who, map, spawning, stored>>
    PROVE  IInv'
<1>1. chats \in Nat /\ MaxChats \in Nat /\ c \in ChatId /\ daemon.at = "idle"
    BY TreeAssumption DEF IInv, Typed, ChatId, Idle
<1>2. contexts[c] \in Nat
    BY <1>1 DEF IInv, Typed
<1>3. /\ daemon'.at = IF contexts[c] = 0 THEN "creating" ELSE "ready"
      /\ daemon'.chat = c /\ daemon'.ctx = contexts[c]
      /\ daemon' \in [at : {"idle", "creating", "ready", "started"}, chat : 0..MaxChats,
                      ctx : Nat, task : 0..MaxTasks, fresh : BOOLEAN]
    BY <1>1, <1>2, TreeAssumption DEF Open, ChatId
<1>4. Typed' /\ OwnChat' /\ Registered' /\ LastOne'
    BY <1>1 DEF IInv, Typed, OwnChat, Registered, LastOne, Started, who, map
<1>5. Opening'
    BY <1>1, <1>3 DEF IInv, Opening, Typed, map
<1>6. \A d : Opened(d)' <=> Opened(d)
    BY <1>1, <1>3 DEF Opened, map
<1>7. \A d \in 1..chats : RootChat(d)' <=> RootChat(d)
    BY <1>1, <1>3 DEF IInv, Typed, RootChat
<1>8. Placed'
    BY <1>1, <1>6, <1>7 DEF IInv, Placed, Started, who
<1>9. InContext'
    BY <1>6 DEF IInv, InContext, Started, who, map
<1>10. Pending'
    BY <1>1, <1>7 DEF IInv, Pending, Started, who
<1> QED
    BY <1>4, <1>5, <1>8, <1>9, <1>10 DEF IInv

LEMMA OpeningKeeps ==
    ASSUME IInv, OpenNew \/ \E c \in ChatId : OpenStored(c)
    PROVE  IInv'
<1>0. chats \in 0..MaxChats /\ MaxChats \in Nat /\ stored \subseteq 1..chats
    BY TreeAssumption DEF IInv, Typed
<1>1. CASE OpenNew
    <2>1. held[chats + 1] = 0
        BY <1>0, <1>1 DEF OpenNew, IInv, Opening, ChatId
    <2>2. UNCHANGED <<stage, who, map, spawning, stored>>
        BY <1>1 DEF OpenNew, agents, shared, who, map
    <2>3. daemon = Idle /\ chats' = chats + 1 /\ Open(chats + 1, TRUE)
        BY <1>1 DEF OpenNew
    <2>4. /\ chats + 1 \in 0..MaxChats /\ chats <= chats + 1 /\ chats + 1 \in 1..(chats + 1)
          /\ chats + 1 > chats /\ TRUE \in BOOLEAN
        BY <1>0, <1>1 DEF OpenNew
    <2> QED
        BY <2>1, <2>2, <2>3, <2>4, OpenKeeps, Zenon
<1>2. ASSUME NEW c \in ChatId, OpenStored(c) PROVE IInv'
    <2>1. UNCHANGED <<stage, who, map, spawning, stored>> /\ chats' = chats
        BY <1>2 DEF OpenStored, agents, shared, who, map
    <2>2. daemon = Idle /\ Open(c, FALSE) /\ held[c] = 0 /\ c \in stored
        BY <1>2 DEF OpenStored, Holds
    <2>3. chats <= chats /\ c \in 1..chats /\ FALSE \in BOOLEAN
        BY <1>0, <2>2
    <2> QED
        BY <1>0, <2>1, <2>2, <2>3, OpenKeeps, Zenon
<1> QED
    BY <1>1, <1>2

(* A context is made for a chat whose tree has no task, or was there before. *)
LEMMA CreateContextKeeps == ASSUME IInv, CreateContext PROVE IInv'
<1> DEFINE c == daemon.chat
           x == IF contexts[c] = 0 THEN made + 1 ELSE contexts[c]
<1>1. /\ daemon.at = "creating" /\ made' = made + 1
      /\ contexts' = [contexts EXCEPT ![c] = x]
      /\ daemon' = [daemon EXCEPT !.at = "ready", !.ctx = x]
      /\ UNCHANGED <<stage, who, registry, shut, held, spawning, chats, stored>>
    BY DEF CreateContext, agents, who
<1>2. c \in ChatId /\ held[c] = 0 /\ ~Opened(c) /\ made \in Nat /\ x \in Nat /\ x # 0
    BY <1>1, Ranges DEF IInv, Opening, Opened, Typed
<1>3. /\ daemon'.at = "ready" /\ daemon'.chat = c /\ daemon'.ctx = x
      /\ daemon' \in [at : {"idle", "creating", "ready", "started"}, chat : 0..MaxChats,
                      ctx : Nat, task : 0..MaxTasks, fresh : BOOLEAN]
    BY <1>1, <1>2 DEF IInv, Opening
<1>4. /\ contexts' \in [ChatId -> Nat] /\ contexts'[c] = x
      /\ \A d \in ChatId : d # c => contexts'[d] = contexts[d]
      /\ \A d \in ChatId : contexts[d] \in Nat /\ contexts[d] <= made
    BY <1>1, <1>2 DEF IInv, Typed
<1>5. \A d : (Opened(d)' <=> Opened(d)) /\ (RootChat(d)' <=> RootChat(d))
    BY <1>1, <1>3 DEF Opened, RootChat
<1>6. Typed' /\ Opening'
    BY <1>1, <1>2, <1>3, <1>4 DEF IInv, Typed, Opening, who
<1>7. Placed' /\ OwnChat' /\ Registered' /\ LastOne' /\ Pending'
    BY <1>1, <1>5 DEF IInv, Placed, OwnChat, Registered, LastOne, Pending, Started, who
<1>8. InContext'
    <2>1. \A j \in Started : rootOf[j] # c /\ rootOf[j] \in ChatId
        BY <1>2, Ranges DEF IInv, Placed
    <2>2. \A d, e \in ChatId : contexts'[d] = contexts'[e] /\ contexts'[d] # 0 => d = e
        BY <1>2, <1>4 DEF IInv, InContext
    <2>3. x \notin shut
        BY <1>2 DEF IInv, InContext, Typed
    <2>4. \A d \in ChatId : contexts'[d] # 0 /\ contexts'[d] \in shut => Opened(d)
        BY <1>4, <2>3 DEF IInv, InContext
    <2>5. \A j \in Started : stage[j] # "gone" => ctxOf[j] # 0 /\ ctxOf[j] = contexts'[rootOf[j]]
        BY <1>4, <2>1 DEF IInv, InContext
    <2>6. \A j \in Started : stage[j] \in Running \cup {"last"} => ctxOf[j] \notin shut
        BY DEF IInv, InContext
    <2> QED
        BY <1>1, <1>5, <2>2, <2>4, <2>5, <2>6 DEF InContext, Started, who
<1> QED
    BY <1>6, <1>7, <1>8 DEF IInv

LEMMA OpenFailsKeeps == ASSUME IInv, OpenFails PROVE IInv'
<1>1. /\ daemon.at \in {"creating", "ready"} /\ daemon' = Idle
      /\ UNCHANGED <<stage, who, map, spawning, chats, stored>>
    BY DEF OpenFails, agents, shared, who, map
<1>2. \A d : (Opened(d)' <=> Opened(d)) /\ (RootChat(d)' => RootChat(d))
    BY <1>1 DEF Opened, RootChat, Idle, map
<1>3. Typed' /\ Opening'
    BY <1>1, TreeAssumption DEF IInv, Typed, Opening, Idle, who, map
<1>4. Placed' /\ OwnChat' /\ Registered' /\ LastOne' /\ InContext' /\ Pending'
    BY <1>1, <1>2 DEF IInv, Placed, OwnChat, Registered, LastOne, InContext, Pending, Started, who, map
<1> QED
    BY <1>3, <1>4 DEF IInv

(* The pointer is stored, and the daemon holds on to what it has opened.     *)
LEMMA SettleKeeps ==
    ASSUME IInv, Settle, faults' = faults, faults \in Nat
    PROVE  IInv'
<1>1. /\ daemon.at = "started" /\ daemon' = Idle
      /\ held' = [held EXCEPT ![daemon.chat] = daemon.task]
      /\ UNCHANGED <<stage, who, registry, contexts, shut, made, spawning, chats, stored>>
    BY DEF Settle, KeepHandle, shared, who
<1>2. /\ daemon.chat \in ChatId /\ daemon.chat \in stored
      /\ daemon.task \in 0..MaxTasks /\ daemon.task # 0
    BY <1>1, Ranges DEF IInv, Opening
<1>3. /\ held' \in [ChatId -> 0..MaxTasks] /\ held'[daemon.chat] # 0
      /\ \A d \in ChatId : d # daemon.chat => held'[d] = held[d]
    BY <1>1, <1>2 DEF IInv, Typed
<1>4. /\ \A d \in ChatId : Opened(d) => Opened(d)'
      /\ \A d : RootChat(d)' => RootChat(d)
    BY <1>1, <1>3 DEF Opened, RootChat, Idle
<1>5. Typed' /\ Opening'
    BY <1>1, <1>2, <1>3, TreeAssumption DEF IInv, Typed, Opening, Idle, who
<1>6. Placed' /\ OwnChat' /\ Registered' /\ LastOne' /\ InContext' /\ Pending'
    BY <1>1, <1>4, Ranges
       DEF IInv, Placed, OwnChat, Registered, LastOne, InContext, Pending, Started, who
<1> QED
    BY <1>5, <1>6 DEF IInv

-----------------------------------------------------------------------------
(* A new task is the one after those that have started.                      *)
LEMMA Starting ==
    ASSUME IInv, NEW root \in ChatId, NEW chat \in ChatId, NEW ctx \in Nat,
           StartTask(root, chat, ctx)
    PROVE  /\ started + 1 \in Task /\ started + 1 \notin Started
           /\ Started' = Started \cup {started + 1} /\ started' \in 0..MaxTasks
           /\ stage'[started + 1] = "recv" /\ rootOf'[started + 1] = root
           /\ chatOf'[started + 1] = chat /\ ctxOf'[started + 1] = ctx
           /\ \A j \in Task \ {started + 1} :
                /\ stage'[j] = stage[j] /\ rootOf'[j] = rootOf[j]
                /\ chatOf'[j] = chatOf[j] /\ ctxOf'[j] = ctxOf[j]
           /\ registry'[chat] = started + 1
           /\ \A c \in ChatId \ {chat} : registry'[c] = registry[c]
           /\ stage' \in [Task -> Stages] /\ ctxOf' \in [Task -> Nat]
           /\ rootOf' \in [Task -> 0..MaxChats] /\ chatOf' \in [Task -> 0..MaxChats]
           /\ registry' \in [ChatId -> 0..MaxTasks]
<1>1. /\ started < MaxTasks /\ started' = started + 1
      /\ stage' = [stage EXCEPT ![started + 1] = "recv"]
      /\ rootOf' = [rootOf EXCEPT ![started + 1] = root]
      /\ chatOf' = [chatOf EXCEPT ![started + 1] = chat]
      /\ ctxOf' = [ctxOf EXCEPT ![started + 1] = ctx]
      /\ registry' = [registry EXCEPT ![chat] = started + 1]
    BY DEF StartTask, Key
<1>2. started \in 0..MaxTasks /\ MaxTasks \in Nat /\ MaxChats \in Nat
    BY TreeAssumption DEF IInv, Typed
<1>3. /\ started + 1 \in Task /\ started + 1 \notin Started /\ started + 1 \in 0..MaxTasks
      /\ Started' = Started \cup {started + 1} /\ started' \in 0..MaxTasks
    BY <1>1, <1>2 DEF Task, Started
<1>4. /\ stage \in [Task -> Stages] /\ ctxOf \in [Task -> Nat]
      /\ rootOf \in [Task -> 0..MaxChats] /\ chatOf \in [Task -> 0..MaxChats]
      /\ registry \in [ChatId -> 0..MaxTasks]
    BY DEF IInv, Typed
<1>5. "recv" \in Stages /\ root \in 0..MaxChats /\ chat \in 0..MaxChats
    BY <1>2 DEF Stages, ChatId
<1> QED
    BY <1>1, <1>3, <1>4, <1>5

(* What a new task must bring: a chat nobody has, and the context of its      *)
(* tree, which is open and none of whose agents is the last.                  *)
LEMMA StartKeeps ==
    ASSUME IInv, NEW root \in ChatId, NEW chat \in ChatId, NEW ctx \in Nat,
           StartTask(root, chat, ctx),
           chat \in 1..chats, \A j \in Started : chatOf[j] # chat,
           ctx # 0, ctx = contexts[root], ctx \notin shut,
           \A j \in Started : rootOf[j] = root => stage[j] \notin {"last", "shut"},
           root \in stored', Opened(root)', stored \subseteq stored', stored' \subseteq 1..chats,
           \A c \in ChatId : Opened(c) => Opened(c)',
           \A c : RootChat(c)' => RootChat(c),
           chat # root => ~RootChat(chat)',
           Opening',
           \A i \in DOMAIN spawning' :
                /\ i \in DOMAIN spawning /\ spawning'[i] = spawning[i]
                /\ spawning[i].chat # chat,
           UNCHANGED <<contexts, shut, made, held, chats>>
    PROVE  IInv'
<1> DEFINE n == started + 1
<1>1. /\ n \in Task /\ n \notin Started /\ Started' = Started \cup {n} /\ started' \in 0..MaxTasks
      /\ stage'[n] = "recv" /\ rootOf'[n] = root /\ chatOf'[n] = chat /\ ctxOf'[n] = ctx
      /\ \A j \in Task \ {n} :
            /\ stage'[j] = stage[j] /\ rootOf'[j] = rootOf[j]
            /\ chatOf'[j] = chatOf[j] /\ ctxOf'[j] = ctxOf[j]
      /\ registry'[chat] = n
      /\ \A c \in ChatId \ {chat} : registry'[c] = registry[c]
      /\ stage' \in [Task -> Stages] /\ ctxOf' \in [Task -> Nat]
      /\ rootOf' \in [Task -> 0..MaxChats] /\ chatOf' \in [Task -> 0..MaxChats]
      /\ registry' \in [ChatId -> 0..MaxTasks]
    BY Starting
<1> HIDE DEF n
<1>2. Typed'
    BY <1>1 DEF IInv, Typed
<1>3. \A j \in Started : /\ j \in Task /\ j # n /\ j \in Started'
                         /\ rootOf[j] \in ChatId /\ chatOf[j] \in ChatId
    BY <1>1, Ranges
<1>4. Placed'
    BY <1>1, <1>3 DEF IInv, Placed
<1>5. OwnChat'
    BY <1>1, <1>3 DEF IInv, OwnChat
<1>6. Registered'
    BY <1>1, <1>3 DEF IInv, Registered
<1>7. InContext'
    <2>1. \A j \in Started' : stage'[j] # "gone" => ctxOf'[j] # 0 /\ ctxOf'[j] = contexts'[rootOf'[j]]
        BY <1>1, <1>3 DEF IInv, InContext
    <2>2. \A j \in Started' : stage'[j] \in Running \cup {"last"} => ctxOf'[j] \notin shut'
        BY <1>1, <1>3 DEF IInv, InContext
    <2> QED
        BY <2>1, <2>2 DEF IInv, InContext
<1>8. LastOne'
    <2> SUFFICES ASSUME NEW i \in Started', NEW j \in Started', i # j,
                        rootOf'[i] = rootOf'[j], stage'[i] \in {"last", "shut"}
                 PROVE  stage'[j] = "gone"
        BY DEF LastOne
    <2>1. i \in Started /\ rootOf[i] = rootOf'[i] /\ stage[i] = stage'[i]
        BY <1>1, <1>3
    <2>2. j # n
        BY <1>1, <2>1
    <2> QED
        BY <1>1, <1>3, <2>1, <2>2 DEF IInv, LastOne
<1>9. Pending'
    <2> SUFFICES ASSUME NEW i \in DOMAIN spawning'
                 PROVE  /\ i \in Started' /\ stage'[i] = "turn" /\ rootOf'[i] = chatOf'[i]
                        /\ spawning'[i].ctx = ctxOf'[i] /\ spawning'[i].chat \in 1..chats'
                        /\ ~RootChat(spawning[i].chat)'
                        /\ \A j \in Started' : chatOf'[j] # spawning'[i].chat
                        /\ \A j \in DOMAIN spawning' : j # i => spawning'[j].chat # spawning'[i].chat
        BY DEF Pending
    <2>1. i \in DOMAIN spawning /\ spawning'[i] = spawning[i] /\ spawning[i].chat # chat
        OBVIOUS
    <2>2. /\ i \in Started /\ stage[i] = "turn" /\ rootOf[i] = chatOf[i]
          /\ spawning[i].ctx = ctxOf[i] /\ spawning[i].chat \in 1..chats
          /\ ~RootChat(spawning[i].chat)
          /\ \A j \in Started : chatOf[j] # spawning[i].chat
          /\ \A j \in DOMAIN spawning : j # i => spawning[j].chat # spawning[i].chat
        BY <2>1 DEF IInv, Pending
    <2>3. ~RootChat(spawning[i].chat)'
        BY <2>1, <2>2 DEF RootChat
    <2> QED
        BY <1>1, <1>3, <2>1, <2>2, <2>3
<1> QED
    BY <1>2, <1>4, <1>5, <1>6, <1>7, <1>8, <1>9 DEF IInv

LEMMA StartRootKeeps == ASSUME IInv, StartRoot PROVE IInv'
<1> DEFINE c == daemon.chat
<1>1. /\ daemon.at = "ready" /\ StartTask(c, c, daemon.ctx) /\ stored' = stored \cup {c}
      /\ daemon' = [daemon EXCEPT !.at = "started", !.task = started + 1]
      /\ UNCHANGED <<contexts, shut, made, held, chats, spawning>>
    BY DEF StartRoot
<1>2. /\ c \in 1..chats /\ c \in ChatId /\ held[c] = 0 /\ ~Opened(c)
      /\ daemon.ctx \in Nat /\ daemon.ctx # 0 /\ daemon.ctx = contexts[c]
    BY <1>1, Ranges DEF IInv, Opening, Opened
<1>3. \A j \in Started : chatOf[j] # c /\ rootOf[j] # c
    BY <1>1, <1>2 DEF IInv, Placed, RootChat
<1>4. daemon.ctx \notin shut
    BY <1>2 DEF IInv, InContext
<1>5. started + 1 \in 1..MaxTasks
    BY <1>1, <1>2, Starting DEF Task
<1>6. /\ daemon'.at = "started" /\ daemon'.chat = c /\ daemon'.task = started + 1
      /\ daemon' \in [at : {"idle", "creating", "ready", "started"}, chat : 0..MaxChats,
                      ctx : Nat, task : 0..MaxTasks, fresh : BOOLEAN]
    <2>1. daemon \in [at : {"idle", "creating", "ready", "started"}, chat : 0..MaxChats, ctx : Nat,
                      task : 0..MaxTasks, fresh : BOOLEAN]
        BY DEF IInv, Opening
    <2>2. started + 1 \in 0..MaxTasks
        BY <1>5
    <2> QED
        BY <1>1, <2>1, <2>2
<1>7. /\ \A d : Opened(d) => Opened(d)'
      /\ \A d : RootChat(d)' => RootChat(d)
      /\ Opened(c)'
    BY <1>1, <1>6 DEF Opened, RootChat
<1>8. Opening'
    BY <1>1, <1>2, <1>5, <1>6 DEF IInv, Opening
<1>9. stored' \subseteq 1..chats /\ stored \subseteq stored' /\ c \in stored'
    BY <1>1, <1>2 DEF IInv, Typed
<1>10. \A i \in DOMAIN spawning : spawning[i].chat # c
    BY <1>1 DEF IInv, Pending, RootChat
<1> QED
    BY <1>1, <1>2, <1>3, <1>4, <1>7, <1>8, <1>9, <1>10, StartKeeps

(* A root in its turn has not unregistered, so no agent of its tree is the    *)
(* last one.                                                                *)
LEMMA StartSubagentKeeps == ASSUME IInv, NEW i \in Task, StartSubagent(i) PROVE IInv'
<1> DEFINE chat == spawning[i].chat
           root == rootOf[i]
<1>1. /\ i \in DOMAIN spawning /\ StartTask(root, chat, spawning[i].ctx)
      /\ spawning' = [j \in DOMAIN spawning \ {i} |-> spawning[j]]
      /\ UNCHANGED <<contexts, shut, made, chats, stored, held, daemon>>
    BY DEF StartSubagent, outside
<1>2. /\ i \in Started /\ stage[i] = "turn" /\ root = chatOf[i]
      /\ spawning[i].ctx = ctxOf[i] /\ chat \in 1..chats /\ ~RootChat(chat)
      /\ \A j \in Started : chatOf[j] # chat
      /\ \A j \in DOMAIN spawning : j # i => spawning[j].chat # chat
    BY <1>1 DEF IInv, Pending
<1>3. chat \in ChatId /\ root \in ChatId /\ root \in stored /\ Opened(root) /\ stored \subseteq 1..chats
    BY <1>2, Ranges DEF IInv, Placed, Typed
<1>4. /\ ctxOf[i] # 0 /\ ctxOf[i] = contexts[root] /\ ctxOf[i] \notin shut /\ ctxOf[i] \in Nat
    BY <1>2 DEF IInv, InContext, Running, Typed
<1>5. \A j \in Started : rootOf[j] = root => stage[j] \notin {"last", "shut"}
    BY <1>2 DEF IInv, LastOne
<1>6. \A d : (Opened(d) <=> Opened(d)') /\ (RootChat(d)' <=> RootChat(d))
    BY <1>1 DEF Opened, RootChat
<1>7. Opening'
    BY <1>1 DEF IInv, Opening
<1>8. \A j \in DOMAIN spawning' : /\ j \in DOMAIN spawning /\ spawning'[j] = spawning[j]
                                  /\ spawning[j].chat # chat
    BY <1>1, <1>2
<1> QED
    BY <1>1, <1>2, <1>3, <1>4, <1>5, <1>6, <1>7, <1>8, StartKeeps

LEMMA ReadContextKeeps == ASSUME IInv, NEW i \in Task, ReadContext(i) PROVE IInv'
<1>1. /\ stage[i] = "turn" /\ rootOf[i] = chatOf[i] /\ i \notin DOMAIN spawning
      /\ chats < MaxChats /\ chats' = chats + 1
      /\ spawning' = [j \in DOMAIN spawning \cup {i} |->
                          IF j = i THEN [ctx |-> contexts[rootOf[i]], chat |-> chats + 1]
                                   ELSE spawning[j]]
      /\ UNCHANGED <<stage, who, map, stored, held, daemon>>
    BY DEF ReadContext, IsRoot, TreeContext, shared, who, map
<1>2. chats \in Nat /\ MaxChats \in Nat /\ chats' \in 0..MaxChats
    BY <1>1, TreeAssumption DEF IInv, Typed
<1>3. i \in Started /\ ctxOf[i] = contexts[rootOf[i]]
    BY <1>1, Ranges DEF IInv, InContext
<1>4. \A d : (Opened(d) <=> Opened(d)') /\ (RootChat(d)' <=> RootChat(d))
    BY <1>1 DEF Opened, RootChat
<1>5. ~RootChat(chats + 1) /\ \A j \in Started : chatOf[j] # chats + 1
    BY <1>2 DEF IInv, Placed, RootChat, Typed, Opening
<1>6. Typed' /\ Opening'
    BY <1>1, <1>2 DEF IInv, Typed, Opening, who, map
<1>7. Placed' /\ OwnChat' /\ Registered' /\ LastOne' /\ InContext'
    BY <1>1, <1>2, <1>4 DEF IInv, Placed, OwnChat, Registered, LastOne, InContext, Started, who, map
<1>8. Pending'
    <2>1. \A j \in DOMAIN spawning : spawning'[j] = spawning[j] /\ spawning[j].chat \in 1..chats
        BY <1>1 DEF IInv, Pending
    <2>2. DOMAIN spawning' = DOMAIN spawning \cup {i}
        BY <1>1
    <2>3. spawning'[i].ctx = contexts[rootOf[i]] /\ spawning'[i].chat = chats + 1
        BY <1>1
    <2> QED
        BY <1>1, <1>2, <1>3, <1>4, <1>5, <2>1, <2>2, <2>3 DEF IInv, Pending, Started, who
<1> QED
    BY <1>6, <1>7, <1>8 DEF IInv

-----------------------------------------------------------------------------
(* The invariant lasts until storing the pointer fails.                      *)
SoFar == faults \in Nat /\ (faults = 0 => IInv)

LEMMA StepKeeps == ASSUME IInv, faults = 0, Next, faults' = 0 PROVE IInv'
<1>1. CASE Daemon
    <2>1. CASE \E c \in ChatId : SubmitToHeld(c)
        <3>1. UNCHANGED <<stage, who, map, spawning, chats, stored, daemon>>
            BY <2>1 DEF SubmitToHeld, shared, outside, who, map
        <3> QED
            BY <3>1, Unaffected
    <2> QED
        BY <1>1, <2>1, OpeningKeeps, CreateContextKeeps, OpenFailsKeeps, StartRootKeeps, SettleKeeps
           DEF Daemon
<1>2. ASSUME NEW i \in Task, Runner(i) \/ ReadContext(i) \/ StartSubagent(i) \/ Shutdown(i)
      PROVE  IInv'
    <2>1. CASE Shutdown(i)
        <3>1. UNCHANGED <<stage, who, map, spawning, chats, stored, daemon>>
            BY <2>1 DEF Shutdown, shared, outside, who, map
        <3> QED
            BY <3>1, Unaffected
    <2> QED
        BY <1>2, <2>1, RunnerKeeps, UnregisterKeeps, ShutContextKeeps, ForgetContextKeeps,
           ReadContextKeeps, StartSubagentKeeps DEF Runner, Cleanup
<1> QED
    BY <1>1, <1>2 DEF Next

(* Only storing the pointer fails, and it does not become undone.            *)
LEMMA FaultsStay == ASSUME Next, faults \in Nat PROVE faults' \in Nat /\ faults' >= faults
<1>1. CASE Settle
    BY <1>1 DEF Settle
<1>2. CASE faults' = faults
    BY <1>2
<1>3. Settle \/ faults' = faults
    <2>1. Daemon => Settle \/ faults' = faults
        BY DEF Daemon, SubmitToHeld, OpenStored, OpenNew, CreateContext, OpenFails, StartRoot, outside
    <2>2. \A i \in Task : Runner(i) \/ ReadContext(i) \/ StartSubagent(i) \/ Shutdown(i)
                          => faults' = faults
        BY DEF Runner, Cleanup, BeginTurn, EndTurn, Return, SaveFinal, Unregister, ShutContext,
               ForgetContext, ReadContext, StartSubagent, Shutdown, outside
    <2> QED
        BY <2>1, <2>2 DEF Next
<1> QED
    BY <1>1, <1>2, <1>3

LEMMA Preserved == SoFar /\ [Next]_vars => SoFar'
<1> SUFFICES ASSUME SoFar, [Next]_vars PROVE SoFar'
    OBVIOUS
<1>1. CASE UNCHANGED vars
    <2>1. UNCHANGED <<stage, who, map, spawning, chats, stored, daemon, faults>>
        BY <1>1 DEF vars, agents, shared, outside, who, map
    <2> QED
        BY <2>1, Unaffected DEF SoFar
<1>2. CASE Next
    <2>1. faults \in Nat /\ faults' \in Nat /\ faults' >= faults
        BY <1>2, FaultsStay DEF SoFar
    <2> QED
        BY <1>2, <2>1, StepKeeps DEF SoFar
<1> QED
    BY <1>1, <1>2

(* Chats, contexts and registry entries have one owner in every reachable     *)
(* state up to the first failure.                                           *)
THEOREM Invariance == Spec => [](faults = 0 => IInv)
<1>1. Init => SoFar
    BY Initially DEF Init, SoFar
<1>2. SoFar => (faults = 0 => IInv)
    BY DEF SoFar
<1> QED
    BY <1>1, <1>2, Preserved, PTL DEF Spec

(* The shell of a tree is never killed while an agent of the tree runs.       *)
THEOREM ShellsOutliveAgents == Spec => [](faults = 0 => ContextOutlivesAgents)
<1>1. IInv => ContextOutlivesAgents
    <2> SUFFICES ASSUME IInv, NEW i \in Task, stage[i] \in {"recv", "turn"}
                 PROVE  ctxOf[i] \notin shut
        BY DEF ContextOutlivesAgents, Live
    <2>1. i \in Started /\ stage[i] \in Running
        BY Ranges DEF Running
    <2> QED
        BY <2>1 DEF IInv, InContext
<1> QED
    BY <1>1, Invariance, PTL

(* While an agent runs, its context is its tree's alone, its chat has no other *)
(* task, and the registry finds it.                                         *)
THEOREM NothingIsSharedByMistake == Spec => [](faults = 0 => AgentsKeepTheirOwn)
<1>1. IInv => AgentsKeepTheirOwn
    <2> SUFFICES ASSUME IInv PROVE OneContextPerTree /\ OneWriterPerChat /\ LiveAreRegistered
        BY DEF AgentsKeepTheirOwn
    <2>1. \A i \in Task : Live(i) \/ stage[i] = "returned" => i \in Started /\ stage[i] \in Running
        BY Ranges DEF Live, Running
    <2>2. OneContextPerTree
        <3> SUFFICES ASSUME NEW i \in Task, NEW j \in Task, Live(i), Live(j)
                     PROVE  ctxOf[i] # 0 /\ ((ctxOf[i] = ctxOf[j]) <=> (rootOf[i] = rootOf[j]))
            BY DEF OneContextPerTree
        <3>1. i \in Started /\ j \in Started /\ rootOf[i] \in ChatId /\ rootOf[j] \in ChatId
            BY <2>1, Ranges
        <3>2. stage[i] # "gone" /\ stage[j] # "gone"
            BY DEF Live
        <3>3. /\ ctxOf[i] # 0 /\ ctxOf[i] = contexts[rootOf[i]]
              /\ ctxOf[j] # 0 /\ ctxOf[j] = contexts[rootOf[j]]
            BY <3>1, <3>2 DEF IInv, InContext
        <3> QED
            BY <3>1, <3>3 DEF IInv, InContext
    <2>3. OneWriterPerChat
        BY <2>1 DEF IInv, OwnChat, OneWriterPerChat
    <2>4. LiveAreRegistered
        BY <2>1 DEF IInv, Registered, LiveAreRegistered
    <2> QED
        BY <2>2, <2>3, <2>4
<1> QED
    BY <1>1, Invariance, PTL

-----------------------------------------------------------------------------
(* The types, which need no faultless daemon.  A task that is born is among   *)
(* the started ones, and nothing names one that is not.                      *)

TasksTyped ==
    /\ started \in 0..MaxTasks /\ stage \in [Task -> Stages]
    /\ rootOf \in [Task -> 0..MaxChats] /\ chatOf \in [Task -> 0..MaxChats]
    /\ ctxOf \in [Task -> 0..made]
    /\ \A i \in Task : stage[i] # "unborn" => i \in Started
    /\ \A i \in Started : i \in Task /\ rootOf[i] \in ChatId /\ chatOf[i] \in ChatId
MailTyped ==
    /\ asked \subseteq Started /\ told \subseteq Started /\ kept \subseteq Started
    /\ waits \in [Task -> 0..MaxTasks]
SpawnsTyped ==
    /\ DOMAIN spawning \subseteq Started
    /\ spawning \in [DOMAIN spawning -> [ctx : 0..made, chat : ChatId]]
MapsTyped ==
    /\ made \in Nat /\ shut \subseteq 1..made /\ contexts \in [ChatId -> 0..made]
    /\ registry \in [ChatId -> 0..started] /\ held \in [ChatId -> 0..started]
    /\ WellKeyed(registry) /\ WellKeyed(held)
DaemonTyped ==
    /\ chats \in OldChats..MaxChats /\ stored \subseteq ChatId /\ faults \in 0..MaxFaults
    /\ daemon \in [at : {"idle", "creating", "ready", "started"}, chat : 0..MaxChats,
                   ctx : 0..made, task : 0..MaxTasks, fresh : BOOLEAN]
    /\ daemon.at # "idle" => daemon.chat \in ChatId
    /\ daemon.at = "started" => daemon.task \in Started /\ chatOf[daemon.task] = daemon.chat
TypeInv == TasksTyped /\ MailTyped /\ SpawnsTyped /\ MapsTyped /\ DaemonTyped

LEMMA TreeBounds ==
    MaxTasks \in Nat /\ MaxChats \in Nat /\ MaxFaults \in Nat /\ OldChats \in 0..MaxChats
BY TreeAssumption

LEMMA TypeInvIsTyped == TypeInv => TypeOK
<1> SUFFICES ASSUME TypeInv PROVE TypeOK
    OBVIOUS
<1>1. ctxOf \in [Task -> Nat]
    BY DEF TypeInv, TasksTyped, MapsTyped
<1>2. registry \in [ChatId -> 0..MaxTasks] /\ held \in [ChatId -> 0..MaxTasks]
    <2>1. 0..started \subseteq 0..MaxTasks
        BY TreeBounds DEF TypeInv, TasksTyped
    <2> QED
        BY <2>1 DEF TypeInv, MapsTyped
<1> QED
    BY <1>1, <1>2 DEF TypeInv, TasksTyped, MailTyped, SpawnsTyped, MapsTyped, DaemonTyped, TypeOK, Started

LEMMA TypesAtFirst == Init => TypeInv
<1> SUFFICES ASSUME Init PROVE TypeInv
    OBVIOUS
<1>0. Started = {} /\ DOMAIN spawning = {}
    BY DEF Init, Started
<1>1. TasksTyped
    BY <1>0, TreeBounds DEF Init, TasksTyped, Stages
<1>2. MailTyped
    BY <1>0, TreeBounds DEF Init, MailTyped
<1>3. SpawnsTyped
    BY <1>0 DEF Init, SpawnsTyped
<1>4. MapsTyped
    BY DEF Init, MapsTyped, WellKeyed
<1>5. DaemonTyped
    BY TreeBounds DEF Init, DaemonTyped, Idle, ChatId
<1> QED
    BY <1>1, <1>2, <1>3, <1>4, <1>5 DEF TypeInv

-----------------------------------------------------------------------------
(* The parts, and what they depend on.                                       *)
LEMMA TasksStay ==
    ASSUME TasksTyped, UNCHANGED <<started, stage, rootOf, chatOf, ctxOf, made>> PROVE TasksTyped'
BY DEF TasksTyped, Started
LEMMA MailStays ==
    ASSUME MailTyped, UNCHANGED <<started, asked, told, kept, waits>> PROVE MailTyped'
BY DEF MailTyped, Started
LEMMA SpawnsStay ==
    ASSUME SpawnsTyped, UNCHANGED <<started, spawning, made>> PROVE SpawnsTyped'
BY DEF SpawnsTyped, Started
LEMMA MapsStay ==
    ASSUME MapsTyped, UNCHANGED <<started, made, shut, contexts, registry, held, chatOf>> PROVE MapsTyped'
BY DEF MapsTyped, WellKeyed
LEMMA DaemonStays ==
    ASSUME DaemonTyped, UNCHANGED <<started, made, chats, stored, faults, daemon, chatOf>> PROVE DaemonTyped'
BY DEF DaemonTyped, Started

LEMMA StageTyped ==
    ASSUME TasksTyped, NEW i \in Task, NEW s \in Stages, stage[i] # "unborn",
           stage' = [stage EXCEPT ![i] = s], UNCHANGED <<started, rootOf, chatOf, ctxOf, made>>
    PROVE  TasksTyped'
<1>1. stage' \in [Task -> Stages] /\ \A j \in Task : stage'[j] # "unborn" => j \in Started
    BY DEF TasksTyped
<1> QED
    BY <1>1 DEF TasksTyped, Started

(* Steps of a task's life.                                                   *)
LEMMA RunnerTyped == ASSUME TypeInv, NEW i \in Task, Runner(i) PROVE TypeInv'
<1>0. TasksTyped /\ MailTyped /\ SpawnsTyped /\ MapsTyped /\ DaemonTyped
    BY DEF TypeInv
<1>1. TasksTyped'
    <2>1. \E s \in Stages : stage' = [stage EXCEPT ![i] = s]
        BY DEF Runner, Cleanup, BeginTurn, EndTurn, Return, SaveFinal, Unregister, ShutContext, ForgetContext, Stages
    <2>2. stage[i] # "unborn" /\ UNCHANGED <<started, rootOf, chatOf, ctxOf, made>>
        BY DEF Runner, Cleanup, BeginTurn, EndTurn, Return, SaveFinal, Unregister, ShutContext, ForgetContext, shared
    <2> QED
        BY <1>0, <2>1, <2>2, StageTyped
<1>2. i \in Started /\ rootOf[i] \in ChatId /\ chatOf[i] \in ChatId
    BY <1>0 DEF TasksTyped, Runner, Cleanup, BeginTurn, EndTurn, Return, SaveFinal, Unregister, ShutContext, ForgetContext
<1>3. UNCHANGED <<started, spawning, made, chats, stored, faults, daemon, held, chatOf>>
    BY DEF Runner, Cleanup, BeginTurn, EndTurn, Return, SaveFinal, Unregister, ShutContext, ForgetContext, shared, outside
<1>4. SpawnsTyped' /\ DaemonTyped'
    BY <1>0, <1>3, SpawnsStay, DaemonStays
<1>5. MailTyped'
    <2>1. CASE BeginTurn(i)
        BY <1>0, <2>1 DEF BeginTurn, MailTyped, Started
    <2>2. CASE Return(i)
        BY <1>0, <2>2, TreeBounds DEF Return, MailTyped, Started
    <2>3. CASE EndTurn(i) \/ Cleanup(i)
        BY <1>0, <2>3, MailStays DEF EndTurn, Cleanup, SaveFinal, Unregister, ShutContext, ForgetContext
    <2> QED
        BY <2>1, <2>2, <2>3 DEF Runner
<1>6. MapsTyped'
    <2>1. CASE Unregister(i)
        <3>1. registry' = [registry EXCEPT ![chatOf[i]] = 0] /\ UNCHANGED <<contexts, shut>>
            BY <2>1 DEF Unregister, RemoveHandle
        <3>0. 0 \in 0..started
            BY <1>0, TreeBounds DEF TasksTyped
        <3>2. registry' \in [ChatId -> 0..started]
            BY <1>0, <3>0, <3>1 DEF MapsTyped
        <3>3. WellKeyed(registry)'
            BY <1>0, <1>3, <3>1 DEF MapsTyped, WellKeyed
        <3> QED
            BY <1>0, <1>3, <3>1, <3>2, <3>3 DEF MapsTyped, WellKeyed
    <2>2. CASE ShutContext(i)
        <3>1. ctxOf[i] \in 0..made /\ made \in Nat
            BY <1>0 DEF TasksTyped, MapsTyped
        <3>2. {ctxOf[i]} \ {0} \subseteq 1..made
            BY <3>1
        <3> QED
            BY <1>0, <1>3, <2>2, <3>2 DEF ShutContext, MapsTyped, WellKeyed
    <2>3. CASE ForgetContext(i)
        <3>1. contexts' = [contexts EXCEPT ![rootOf[i]] = 0] /\ UNCHANGED <<registry, shut>>
            BY <2>3 DEF ForgetContext
        <3>0. 0 \in 0..made
            BY <1>0 DEF MapsTyped
        <3>2. contexts' \in [ChatId -> 0..made]
            BY <1>0, <3>0, <3>1 DEF MapsTyped
        <3> QED
            BY <1>0, <1>3, <3>1, <3>2 DEF MapsTyped, WellKeyed
    <2>4. CASE BeginTurn(i) \/ EndTurn(i) \/ Return(i) \/ SaveFinal(i)
        BY <1>0, <1>3, <2>4, MapsStay DEF BeginTurn, EndTurn, Return, SaveFinal, shared
    <2> QED
        BY <2>1, <2>2, <2>3, <2>4 DEF Runner, Cleanup
<1> QED
    BY <1>1, <1>4, <1>5, <1>6 DEF TypeInv

(* A new task.                                                               *)
LEMMA NewTaskTyped ==
    ASSUME TypeInv, NEW root \in ChatId, NEW chat \in ChatId, NEW ctx \in 0..made,
           StartTask(root, chat, ctx), UNCHANGED <<made, held, contexts, shut>>
    PROVE  /\ TasksTyped' /\ MapsTyped'
           /\ Started' = Started \cup {started + 1} /\ started' = started + 1
           /\ started + 1 \in Task /\ chatOf'[started + 1] = chat
           /\ \A i \in Started : chatOf'[i] = chatOf[i]
<1> DEFINE n == started + 1
<1>0. TasksTyped /\ MapsTyped
    BY DEF TypeInv
<1>1. /\ started \in Nat /\ started < MaxTasks /\ started' = n /\ n \in Task /\ n \notin Started
      /\ Started' = Started \cup {n}
    BY <1>0, TreeBounds DEF StartTask, TasksTyped, Task, Started
<1>2. /\ stage' = [stage EXCEPT ![n] = "recv"] /\ rootOf' = [rootOf EXCEPT ![n] = root]
      /\ chatOf' = [chatOf EXCEPT ![n] = chat] /\ ctxOf' = [ctxOf EXCEPT ![n] = ctx]
      /\ registry' = [registry EXCEPT ![chat] = n]
    BY DEF StartTask, Key
<1>3. root \in 0..MaxChats /\ chat \in 0..MaxChats
    BY TreeBounds DEF ChatId
<1> HIDE DEF n
<1>4. TasksTyped'
    <2>1. /\ stage' \in [Task -> Stages] /\ rootOf' \in [Task -> 0..MaxChats]
          /\ chatOf' \in [Task -> 0..MaxChats] /\ ctxOf' \in [Task -> 0..made]
        BY <1>0, <1>2, <1>3 DEF TasksTyped, Stages
    <2>2. \A i \in Task : stage'[i] # "unborn" => i \in Started'
        BY <1>0, <1>1, <1>2 DEF TasksTyped
    <2>3. \A i \in Started' : i \in Task /\ rootOf'[i] \in ChatId /\ chatOf'[i] \in ChatId
        BY <1>0, <1>1, <1>2 DEF TasksTyped
    <2>4. started' \in 0..MaxTasks
        BY <1>1, TreeBounds DEF Task
    <2> QED
        BY <2>1, <2>2, <2>3, <2>4 DEF TasksTyped
<1>5. chatOf'[n] = chat /\ \A i \in Started : chatOf'[i] = chatOf[i]
    BY <1>0, <1>1, <1>2 DEF TasksTyped
<1>6. MapsTyped'
    <2>1. 0..started \subseteq 0..started' /\ n \in 0..started'
        BY <1>1 DEF n
    <2>2. registry' \in [ChatId -> 0..started'] /\ held' \in [ChatId -> 0..started']
        BY <1>0, <1>2, <2>1 DEF MapsTyped
    <2>3. \A c \in ChatId : /\ registry[c] # 0 => registry[c] \in Started
                            /\ held[c] # 0 => held[c] \in Started
        BY <1>0, <1>1 DEF MapsTyped, Started
    <2>4. WellKeyed(registry)'
        <3> SUFFICES ASSUME NEW c \in ChatId, registry'[c] # 0 PROVE chatOf'[registry'[c]] = c
            BY DEF WellKeyed
        <3>1. CASE c = chat
            BY <1>0, <1>2, <1>5, <3>1 DEF MapsTyped
        <3>2. CASE c # chat
            BY <1>0, <1>2, <1>5, <2>3, <3>2 DEF MapsTyped, WellKeyed
        <3> QED
            BY <3>1, <3>2
    <2>5. WellKeyed(held)'
        BY <1>0, <1>5, <2>3 DEF MapsTyped, WellKeyed
    <2> QED
        BY <1>0, <2>2, <2>4, <2>5 DEF MapsTyped
<1> QED
    BY <1>1, <1>4, <1>5, <1>6 DEF n

LEMMA StartRootTyped == ASSUME TypeInv, StartRoot PROVE TypeInv'
<1>0. TasksTyped /\ MailTyped /\ SpawnsTyped /\ MapsTyped /\ DaemonTyped
    BY DEF TypeInv
<1>1. /\ daemon.chat \in ChatId /\ daemon.ctx \in 0..made
      /\ StartTask(daemon.chat, daemon.chat, daemon.ctx) /\ UNCHANGED <<made, held, contexts, shut>>
    BY <1>0 DEF StartRoot, DaemonTyped
<1>2. /\ TasksTyped' /\ MapsTyped' /\ Started' = Started \cup {started + 1}
      /\ started + 1 \in Task /\ chatOf'[started + 1] = daemon.chat
    BY <1>1, NewTaskTyped
<1>3. MailTyped'
    BY <1>0, <1>2 DEF MailTyped, StartRoot
<1>4. SpawnsTyped'
    BY <1>0, <1>2 DEF SpawnsTyped, StartRoot
<1>5. DaemonTyped'
    <2>1. daemon' = [daemon EXCEPT !.at = "started", !.task = started + 1]
        BY DEF StartRoot
    <2>2. started + 1 \in 0..MaxTasks
        BY <1>2, TreeBounds DEF Task
    <2>3. daemon' \in [at : {"idle", "creating", "ready", "started"}, chat : 0..MaxChats,
                       ctx : 0..made, task : 0..MaxTasks, fresh : BOOLEAN]
        BY <1>0, <2>1, <2>2 DEF DaemonTyped
    <2>4. daemon'.chat = daemon.chat /\ daemon'.task = started + 1
        BY <1>0, <2>1 DEF DaemonTyped
    <2> QED
        BY <1>0, <1>1, <1>2, <2>3, <2>4 DEF DaemonTyped, StartRoot
<1> QED
    BY <1>2, <1>3, <1>4, <1>5 DEF TypeInv

LEMMA StartSubagentTyped == ASSUME TypeInv, NEW i \in Task, StartSubagent(i) PROVE TypeInv'
<1>0. TasksTyped /\ MailTyped /\ SpawnsTyped /\ MapsTyped /\ DaemonTyped
    BY DEF TypeInv
<1>1. i \in DOMAIN spawning /\ i \in Started /\ rootOf[i] \in ChatId
    BY <1>0 DEF StartSubagent, SpawnsTyped, TasksTyped
<1>2. /\ spawning[i].chat \in ChatId /\ spawning[i].ctx \in 0..made
      /\ StartTask(rootOf[i], spawning[i].chat, spawning[i].ctx)
      /\ UNCHANGED <<made, contexts, shut, chats, stored, held, daemon, faults>>
    BY <1>0, <1>1 DEF StartSubagent, SpawnsTyped, outside
<1>3. /\ TasksTyped' /\ MapsTyped' /\ Started' = Started \cup {started + 1}
      /\ started + 1 \in Task /\ \A j \in Started : chatOf'[j] = chatOf[j]
    <2> DEFINE root == rootOf[i]
               chat == spawning[i].chat
               ctx  == spawning[i].ctx
    <2>1. /\ root \in ChatId /\ chat \in ChatId /\ ctx \in 0..made
          /\ StartTask(root, chat, ctx) /\ UNCHANGED <<made, held, contexts, shut>>
        BY <1>1, <1>2
    <2> HIDE DEF root, chat, ctx
    <2> QED
        BY <2>1, NewTaskTyped
<1>4. MailTyped'
    <2>1. started + 1 \in 0..MaxTasks
        BY <1>3, TreeBounds DEF Task
    <2>2. waits' \in [Task -> 0..MaxTasks]
        BY <1>0, <2>1 DEF StartSubagent, MailTyped
    <2>3. asked' \subseteq Started' /\ told' \subseteq Started' /\ kept' \subseteq Started'
        BY <1>0, <1>3 DEF StartSubagent, MailTyped
    <2> QED
        BY <2>2, <2>3 DEF MailTyped
<1>5. SpawnsTyped'
    <2>1. spawning' = [j \in DOMAIN spawning \ {i} |-> spawning[j]]
        BY DEF StartSubagent
    <2>2. DOMAIN spawning' = DOMAIN spawning \ {i}
        BY <2>1
    <2>3. \A j \in DOMAIN spawning' : spawning'[j] \in [ctx : 0..made, chat : ChatId]
        BY <1>0, <2>1, <2>2 DEF SpawnsTyped
    <2>4. spawning' \in [DOMAIN spawning' -> [ctx : 0..made, chat : ChatId]]
        BY <2>1, <2>2, <2>3
    <2> QED
        BY <1>0, <1>2, <1>3, <2>2, <2>4 DEF SpawnsTyped
<1>6. DaemonTyped'
    BY <1>0, <1>2, <1>3 DEF DaemonTyped
<1> QED
    BY <1>3, <1>4, <1>5, <1>6 DEF TypeInv

LEMMA ReadContextTyped == ASSUME TypeInv, NEW i \in Task, ReadContext(i) PROVE TypeInv'
<1>0. TasksTyped /\ MailTyped /\ SpawnsTyped /\ MapsTyped /\ DaemonTyped
    BY DEF TypeInv
<1>1. /\ i \in Started /\ rootOf[i] \in ChatId /\ chats < MaxChats /\ chats' = chats + 1
      /\ UNCHANGED <<stage, rootOf, chatOf, ctxOf, started, asked, told, kept, waits,
                     shared, stored, held, daemon, faults>>
    BY <1>0 DEF ReadContext, TasksTyped
<1>2. TasksTyped' /\ MailTyped' /\ MapsTyped'
    BY <1>0, <1>1, TasksStay, MailStays, MapsStay DEF shared
<1>3. chats + 1 \in ChatId /\ chats' \in OldChats..MaxChats
    BY <1>0, <1>1, TreeBounds DEF DaemonTyped, ChatId
<1>4. DaemonTyped'
    BY <1>0, <1>1, <1>3 DEF DaemonTyped, Started, shared
<1>5. SpawnsTyped'
    <2> DEFINE D == DOMAIN spawning \cup {i}
               new == [ctx |-> TreeContext(i), chat |-> chats + 1]
    <2>1. spawning' = [j \in D |-> IF j = i THEN new ELSE spawning[j]]
        BY DEF ReadContext
    <2>2. new \in [ctx : 0..made, chat : ChatId]
        BY <1>0, <1>1, <1>3 DEF TreeContext, MapsTyped
    <2> HIDE DEF new
    <2>3. \A j \in D : spawning'[j] \in [ctx : 0..made, chat : ChatId]
        BY <1>0, <2>1, <2>2 DEF SpawnsTyped
    <2>4. DOMAIN spawning' = D /\ spawning' \in [D -> [ctx : 0..made, chat : ChatId]]
        BY <2>1, <2>3
    <2> QED
        BY <1>0, <1>1, <2>4 DEF SpawnsTyped, Started, shared
<1> QED
    BY <1>2, <1>4, <1>5 DEF TypeInv

LEMMA DaemonStepTyped ==
    ASSUME TypeInv,
           OpenNew \/ CreateContext \/ OpenFails \/ Settle
             \/ \E c \in ChatId : SubmitToHeld(c) \/ OpenStored(c)
    PROVE  TypeInv'
<1>0. TasksTyped /\ MailTyped /\ SpawnsTyped /\ MapsTyped /\ DaemonTyped
    BY DEF TypeInv
<1>o. ASSUME NEW c \in ChatId, NEW fresh \in BOOLEAN, Open(c, fresh), UNCHANGED <<agents, shared, held, faults, stored>>,
             chats' \in OldChats..MaxChats
      PROVE  TypeInv'
    <2>1. TasksTyped' /\ MailTyped' /\ SpawnsTyped' /\ MapsTyped'
        BY <1>0, <1>o, TasksStay, MailStays, SpawnsStay, MapsStay DEF agents, shared
    <2>2. daemon' \in [at : {"idle", "creating", "ready", "started"}, chat : 0..MaxChats,
                       ctx : 0..made, task : 0..MaxTasks, fresh : BOOLEAN]
        BY <1>0, <1>o, TreeBounds DEF Open, MapsTyped, ChatId
    <2>3. daemon'.chat = c /\ daemon'.at # "started"
        BY <1>o DEF Open
    <2>4. DaemonTyped'
        BY <1>0, <1>o, <2>2, <2>3 DEF DaemonTyped, shared
    <2> QED
        BY <2>1, <2>4 DEF TypeInv
<1>1. CASE OpenNew
    <2>1. chats + 1 \in ChatId /\ chats' \in OldChats..MaxChats
        BY <1>0, <1>1, TreeBounds DEF OpenNew, DaemonTyped, ChatId
    <2> QED
        BY <1>1, <1>o, <2>1 DEF OpenNew
<1>2. ASSUME NEW c \in ChatId, OpenStored(c) PROVE TypeInv'
    <2>1. chats' \in OldChats..MaxChats
        BY <1>0, <1>2 DEF OpenStored, DaemonTyped
    <2> QED
        BY <1>2, <1>o, <2>1 DEF OpenStored
<1>3. ASSUME NEW c \in ChatId, SubmitToHeld(c) PROVE TypeInv'
    <2>1. TasksTyped' /\ SpawnsTyped' /\ MapsTyped' /\ DaemonTyped'
        BY <1>0, <1>3, TasksStay, SpawnsStay, MapsStay, DaemonStays DEF SubmitToHeld, shared, outside
    <2>2. held[c] \in 0..started /\ held[c] # 0
        BY <1>0, <1>3 DEF SubmitToHeld, Holds, MapsTyped
    <2>3. held[c] \in Started
        BY <1>0, <2>2 DEF Started, TasksTyped
    <2>4. MailTyped'
        BY <1>0, <1>3, <2>3 DEF SubmitToHeld, MailTyped, Started
    <2> QED
        BY <2>1, <2>4 DEF TypeInv
<1>4. CASE CreateContext
    <2> DEFINE ctx == IF contexts[daemon.chat] = 0 THEN made + 1 ELSE contexts[daemon.chat]
    <2>1. /\ made' = made + 1 /\ contexts' = [contexts EXCEPT ![daemon.chat] = ctx]
          /\ daemon' = [daemon EXCEPT !.at = "ready", !.ctx = ctx]
          /\ UNCHANGED <<agents, registry, shut, chats, stored, held, faults>>
        BY <1>4 DEF CreateContext
    <2>2. daemon.chat \in ChatId /\ made \in Nat
        BY <1>0, <1>4 DEF CreateContext, DaemonTyped, MapsTyped
    <2>3. 0..made \subseteq 0..made' /\ 1..made \subseteq 1..made' /\ made + 1 \in 0..made'
        BY <2>1, <2>2
    <2>4. ctx \in 0..made'
        BY <1>0, <2>2, <2>3 DEF MapsTyped
    <2> HIDE DEF ctx
    <2>5. TasksTyped'
        BY <1>0, <2>1, <2>3 DEF TasksTyped, agents, Started
    <2>6. MailTyped'
        BY <1>0, <2>1, MailStays DEF agents
    <2>7. SpawnsTyped'
        <3>1. \A j \in DOMAIN spawning : spawning[j] \in [ctx : 0..made', chat : ChatId]
            BY <1>0, <2>3 DEF SpawnsTyped
        <3>2. spawning \in [DOMAIN spawning -> [ctx : 0..made', chat : ChatId]]
            BY <1>0, <3>1 DEF SpawnsTyped
        <3> QED
            BY <1>0, <2>1, <3>2 DEF SpawnsTyped, Started, agents
    <2>8. MapsTyped'
        <3>1. contexts' \in [ChatId -> 0..made']
            BY <1>0, <2>1, <2>3, <2>4 DEF MapsTyped
        <3> QED
            BY <1>0, <2>1, <2>2, <2>3, <3>1 DEF MapsTyped, WellKeyed, agents
    <2>9. DaemonTyped'
        <3>1. daemon' \in [at : {"idle", "creating", "ready", "started"}, chat : 0..MaxChats,
                           ctx : 0..made', task : 0..MaxTasks, fresh : BOOLEAN]
            BY <1>0, <2>1, <2>4 DEF DaemonTyped
        <3>2. daemon'.chat = daemon.chat /\ daemon'.at = "ready"
            BY <1>0, <2>1 DEF DaemonTyped
        <3> QED
            BY <1>0, <2>1, <2>2, <3>1, <3>2 DEF DaemonTyped
    <2> QED
        BY <2>5, <2>6, <2>7, <2>8, <2>9 DEF TypeInv
<1>5. CASE OpenFails
    <2>1. TasksTyped' /\ MailTyped' /\ SpawnsTyped' /\ MapsTyped'
        BY <1>0, <1>5, TasksStay, MailStays, SpawnsStay, MapsStay DEF OpenFails, agents, shared
    <2>2. daemon' = Idle /\ UNCHANGED <<made, chats, stored, faults>> /\ made \in Nat
        BY <1>0, <1>5 DEF OpenFails, shared, MapsTyped
    <2>3. DaemonTyped'
        BY <1>0, <2>2, TreeBounds DEF DaemonTyped, Idle
    <2> QED
        BY <2>1, <2>3 DEF TypeInv
<1>6. CASE Settle
    <2>1. /\ daemon.chat \in ChatId /\ daemon.task \in Started /\ chatOf[daemon.task] = daemon.chat
          /\ daemon' = Idle
          /\ UNCHANGED <<stage, rootOf, chatOf, ctxOf, started, told, kept, spawning, waits,
                         shared, chats, stored>>
        BY <1>0, <1>6 DEF Settle, DaemonTyped
    <2>2. TasksTyped' /\ SpawnsTyped'
        BY <1>0, <2>1, TasksStay, SpawnsStay DEF shared
    <2>3. \/ held' = [held EXCEPT ![daemon.chat] = daemon.task] /\ asked' = asked \cup {daemon.task}
             /\ faults' = faults
          \/ faults < MaxFaults /\ faults' = faults + 1 /\ UNCHANGED <<held, asked>>
        BY <1>6 DEF Settle, KeepHandle
    <2>4. MailTyped'
        BY <1>0, <2>1, <2>3 DEF MailTyped, Started
    <2>5. MapsTyped'
        <3>1. daemon.task \in 0..started
            BY <1>0, <2>1 DEF TasksTyped, Started
        <3>2. held' \in [ChatId -> 0..started]
            BY <1>0, <2>3, <3>1 DEF MapsTyped
        <3>3. WellKeyed(held)'
            BY <1>0, <2>1, <2>3 DEF MapsTyped, WellKeyed
        <3> QED
            BY <1>0, <2>1, <3>2, <3>3 DEF MapsTyped, WellKeyed, shared
    <2>6. DaemonTyped'
        <3>1. faults' \in 0..MaxFaults
            BY <1>0, <2>3, TreeBounds DEF DaemonTyped
        <3>2. made' = made /\ made \in Nat
            BY <1>0, <2>1 DEF shared, MapsTyped
        <3> QED
            BY <1>0, <2>1, <3>1, <3>2, TreeBounds DEF DaemonTyped, Idle
    <2> QED
        BY <2>2, <2>4, <2>5, <2>6 DEF TypeInv
<1> QED
    BY <1>1, <1>2, <1>3, <1>4, <1>5, <1>6

LEMMA TypesKept == TypeInv /\ [Next]_vars => TypeInv'
<1> SUFFICES ASSUME TypeInv, [Next]_vars PROVE TypeInv'
    OBVIOUS
<1>1. CASE UNCHANGED vars
    BY <1>1, TasksStay, MailStays, SpawnsStay, MapsStay, DaemonStays
       DEF TypeInv, vars, agents, shared, outside
<1>2. CASE Daemon
    BY <1>2, DaemonStepTyped, StartRootTyped DEF Daemon
<1>3. ASSUME NEW i \in Task, Runner(i) PROVE TypeInv'
    BY <1>3, RunnerTyped
<1>4. ASSUME NEW i \in Task, ReadContext(i) \/ StartSubagent(i) PROVE TypeInv'
    BY <1>4, ReadContextTyped, StartSubagentTyped
<1>5. ASSUME NEW i \in Task, Shutdown(i) PROVE TypeInv'
    <2>1. TasksTyped' /\ SpawnsTyped' /\ MapsTyped' /\ DaemonTyped'
        BY <1>5, TasksStay, SpawnsStay, MapsStay, DaemonStays DEF TypeInv, Shutdown, shared, outside
    <2>2. i \in Started
        BY <1>5 DEF TypeInv, TasksTyped, Shutdown, Live
    <2>3. MailTyped'
        BY <1>5, <2>2 DEF TypeInv, MailTyped, Shutdown, Started
    <2> QED
        BY <2>1, <2>3 DEF TypeInv
<1> QED
    BY <1>1, <1>2, <1>3, <1>4, <1>5 DEF Next

(* The types hold whatever fails: every map holds a task under its own chat.  *)
THEOREM TypeCorrect == Spec => []TypeOK
    BY TypesAtFirst, TypesKept, TypeInvIsTyped, PTL DEF Spec

=============================================================================
