---------------------------- MODULE AgentRunner ----------------------------
(***************************************************************************)
(* One agent: the task that AgentSpawner starts for a chat, its command    *)
(* channel, the transcript it keeps in memory, the snapshot of it in       *)
(* storage, and what it publishes on the bus                               *)
(* (xoxo-core/src/agents/runner.rs, with the parts of spawner.rs that start *)
(* it, restore it and clean up after it).                                  *)
(*                                                                         *)
(* The grain of the steps is the code's: pushing an event onto the history *)
(* and saving the snapshot is one synchronous call, publishing on the bus  *)
(* is the next one, and every `await` separates steps.  The process may    *)
(* die between any two of them; only storage survives.                     *)
(*                                                                         *)
(* A chat is its list of events and the head of its one branch.  A message *)
(* is a number: user message m is the m-th one accepted.  Event ids, UUIDs *)
(* in the code, are drawn from a counter that survives a crash.            *)
(***************************************************************************)
EXTENDS Naturals, Sequences, FiniteSets, Selections

CONSTANTS
    Subagent,     \* TRUE: depth > 0, no provider (stub completions), a handoff
    MailboxCap,   \* capacity of the command channel (64 in the code)
    MaxMessages,  \* bound: user messages accepted in a behaviour
    MaxRounds,    \* bound: tool rounds the model asks for in a turn
    MaxCalls,     \* bound: tool calls in one completion
    MaxCrashes,   \* bound: process deaths
    MaxFaults     \* bound: storage writes that fail

ASSUME RunnerAssumption ==
    /\ Subagent \in BOOLEAN
    /\ MailboxCap \in Nat \ {0}
    /\ MaxMessages \in Nat \ {0}
    /\ MaxRounds \in Nat
    /\ MaxCalls \in Nat
    /\ MaxCrashes \in Nat
    /\ MaxFaults \in Nat

VARIABLES
    pc,        \* where the runner task is
    mailbox,   \* commands in the channel, oldest first
    chat,      \* AgentRunner::history, lost with the process
    calls,     \* tool calls of the last completion not yet dispatched
    call,      \* the tool call being executed, 0 when none is
    rounds,    \* tool rounds of the current turn (bound by MaxRounds)
    bus,       \* what this process has published for the agent, in order
    handoff,   \* what the spawning parent received
    disk,      \* the snapshot in storage
    stored,    \* storage has a snapshot of the chat
    lastUsed,  \* storage's last-used pointer names the root of this agent's tree
    nextId,    \* supply of event ids
    sent,      \* user messages accepted so far
    cuts,      \* transcript lengths at which a restart resumed (history variable)
    crashes, faults

volatile == <<pc, mailbox, chat, calls, call, rounds, bus, handoff>>
durable  == <<disk, stored, lastUsed>>
observed == <<nextId, sent, cuts, crashes, faults>>
vars     == <<volatile, durable, observed>>

-----------------------------------------------------------------------------
(* Data *)

(* The code persists "user" and "results" alike as messages of role User,  *)
(* and "agent" and "error" as messages of role Agent: a tool round's       *)
(* results go back to the model as a user message nobody typed, and a      *)
(* completion that fails leaves its error text as the agent's reply.       *)
Kinds == {"user", "results", "agent", "error",
          "started", "completed", "failed"}
ToolKinds == {"started", "completed", "failed"}
Outcomes  == {"completed", "failed"}
UserRole  == {"user", "results"}
AgentRole == {"agent", "error"}

(* ref: of a user event the message, of an agent event the number of tool  *)
(* calls that came with it, of a tool event the tool call id.              *)
Event == [id: Nat, parent: Nat, kind: Kinds, ref: Nat]
Chat  == [events: Seq(Event), head: Nat]
NoEvents == [events |-> <<>>, head |-> 0]

(* ref: the event a Message or ToolCall envelope announces, else 0.        *)
Envelope == [type: {"message", "tool", "turnStarted", "turnFinished",
                    "thinking", "error", "shutdown"}, ref: Nat]
Env(type, ref) == [type |-> type, ref |-> ref]

Shutdown == 0        \* Command::Shutdown; m > 0 is SendUserMessage m

Last(s) == s[Len(s)]
LastId(s) == IF s = <<>> THEN 0 ELSE Last(s).id

-----------------------------------------------------------------------------
(* Pushing an event and saving the snapshot *)

(* One Error envelope for each write that failed.                          *)
FailuresKept(okChat, okPointer) == <<>>     \* mutant: failures are swallowed
Failures(okChat, okPointer) ==
    (IF okChat THEN <<>> ELSE <<Env("error", 0)>>)
        \o (IF okPointer THEN <<>> ELSE <<Env("error", 0)>>)

(* persist_history_snapshot: two independent storage writes; each failure  *)
(* is published and the runner carries on.                                 *)
Persist(c, okChat, okPointer) ==
    /\ faults' = faults + (IF okChat THEN 0 ELSE 1) + (IF okPointer THEN 0 ELSE 1)
    /\ faults' <= MaxFaults
    /\ disk' = IF okChat THEN c ELSE disk
    /\ stored' = (stored \/ okChat)
    /\ lastUsed' = (lastUsed \/ okPointer)
    /\ bus' = bus \o Failures(okChat, okPointer)

ParentOf(c) == LastId(c.events)

Pushed(c, kind, ref) ==
    [events |-> Append(c.events, [id |-> nextId, parent |-> ParentOf(c),
                                  kind |-> kind, ref |-> ref]),
     head   |-> nextId]

(* push_message_event, push_tool_call_event                                *)
Push(kind, ref) ==
    /\ chat' = Pushed(chat, kind, ref)
    /\ nextId' = nextId + 1
    /\ \E okChat, okPointer \in BOOLEAN :
           Persist(Pushed(chat, kind, ref), okChat, okPointer)

(* Saves whose failure the spawner ignores.                                *)
SaveQuietly(c, okChat) ==
    /\ faults' = faults + (IF okChat THEN 0 ELSE 1)
    /\ faults' <= MaxFaults
    /\ disk' = IF okChat THEN c ELSE disk
    /\ stored' = (stored \/ okChat)

(* broadcast::Sender::send: never waits for a subscriber.                  *)
PublishWaiting(envelopes) ==                \* mutant: a bounded channel nobody reads
    Len(bus) < 4 /\ bus' = bus \o envelopes
Publish(envelopes) == bus' = bus \o envelopes

Goto(from, to) == pc = from /\ pc' = to

-----------------------------------------------------------------------------
(* The holders of a handle *)

Receiving == {"recv", "accepted", "completing", "replied", "dispatching",
              "started", "executing", "finished", "closing"}

(* spawn_root, do_spawn_with_handoff: the shell of the chat is saved, the  *)
(* pointer is set for a root only, and the task starts; the handle is in   *)
(* the registry before the first message is in the channel.                *)
Spawn ==
    /\ Goto("unborn", "recv")
    /\ \E okChat, okPointer \in BOOLEAN :
           /\ SaveQuietly(NoEvents, okChat)
           /\ lastUsed' = (okPointer /\ ~Subagent)
    /\ UNCHANGED <<mailbox, chat, calls, call, rounds, bus, handoff,
                   nextId, sent, cuts, crashes>>

(* LocalAgentHandle::send: refused below the root, where only the          *)
(* spawner's own first message, put straight into the channel, arrives;    *)
(* waits for room; the receiver accepts commands until run() has returned, *)
(* also when it will read none of them any more.                           *)
Send ==
    /\ Subagent => sent = 0
    /\ pc \in Receiving
    /\ Len(mailbox) < MailboxCap
    /\ sent < MaxMessages
    /\ mailbox' = Append(mailbox, sent + 1)
    /\ sent' = sent + 1
    /\ UNCHANGED <<pc, chat, calls, call, rounds, bus, handoff, durable,
                   nextId, cuts, crashes, faults>>

(* LocalAgentHandle::shutdown; bound: one request in the channel at a time. *)
SendShutdown ==
    /\ pc \in Receiving \ {"closing"}
    /\ Len(mailbox) < MailboxCap
    /\ \A i \in DOMAIN mailbox : mailbox[i] # Shutdown
    /\ mailbox' = Append(mailbox, Shutdown)
    /\ UNCHANGED <<pc, chat, calls, call, rounds, bus, handoff, durable, observed>>

-----------------------------------------------------------------------------
(* AgentRunner::run *)

(* recv().await is polled between turns only, and takes one command.       *)
ListeningMidTurn == pc \in {"recv", "completing", "dispatching"}  \* mutant
Listening == pc = "recv"
ReadyInPairs == Len(mailbox) > 1            \* mutant: the last one waits
Ready == mailbox # <<>>
PeekOne(box) == box                         \* mutant: the command stays
TakeAll(box) == <<>>                        \* mutant: later commands are dropped
TakeOne(box) == Tail(box)

RecvUser ==
    /\ Listening /\ Ready /\ Head(mailbox) # Shutdown
    /\ pc' = "accepted"
    /\ mailbox' = TakeOne(mailbox)
    /\ Push("user", Head(mailbox))
    /\ UNCHANGED <<calls, call, rounds, handoff, sent, cuts, crashes>>

PublishUser ==
    /\ Goto("accepted", "completing")
    /\ Publish(<<Env("message", Last(chat.events).id), Env("turnStarted", 0)>>)
    /\ rounds' = 0
    /\ UNCHANGED <<mailbox, chat, calls, call, handoff, durable, observed>>

(* The thinking that a completion streams before its final response counts *)
(* as one envelope.  Its text deltas are left out: on the bus they delay    *)
(* nothing, and no history keeps them.                                     *)
StreamDelta ==
    /\ ~Subagent
    /\ pc = "completing"
    /\ bus # <<>> /\ Last(bus).type # "thinking"
    /\ Publish(<<Env("thinking", 0)>>)
    /\ UNCHANGED <<pc, mailbox, chat, calls, call, rounds, handoff, durable, observed>>

(* complete: a final response that stops or asks for n tool calls, or a    *)
(* stream that fails or ends without one, which reads as an agent message  *)
(* with the error's text and stops.  Without a provider the stub stops.    *)
Reply(kind, n) ==
    /\ Goto("completing", "replied")
    /\ calls' = n
    /\ Push(kind, n)
    /\ UNCHANGED <<mailbox, call, rounds, handoff, sent, cuts, crashes>>

CompleteStop  == Reply("agent", 0)
CompleteError == ~Subagent /\ Reply("error", 0)
CompleteTools == /\ ~Subagent
                 /\ rounds < MaxRounds
                 /\ \E n \in 1..MaxCalls : Reply("agent", n)

PublishReply ==
    /\ pc = "replied"
    /\ IF calls = 0
       THEN /\ pc' = "recv"
            /\ Publish(<<Env("message", Last(chat.events).id), Env("turnFinished", 0)>>)
       ELSE /\ pc' = "dispatching"
            /\ Publish(<<Env("message", Last(chat.events).id)>>)
    /\ UNCHANGED <<mailbox, chat, calls, call, rounds, handoff, durable, observed>>

(* dispatch_tool_calls: the calls one after the other, whatever comes of    *)
(* them.  A tool call id and the id of the event that starts it are drawn  *)
(* together.                                                               *)
OneCallTooMany == calls < 0                 \* mutant
FailureEndsRound == calls = 0 \/ Last(chat.events).kind = "failed"  \* mutant
RoundDone == calls = 0

StartCall ==
    /\ Goto("dispatching", "started")
    /\ ~RoundDone
    /\ call' = nextId
    /\ Push("started", nextId)
    /\ UNCHANGED <<mailbox, calls, rounds, handoff, sent, cuts, crashes>>

PublishStarted ==
    /\ Goto("started", "executing")
    /\ Publish(<<Env("tool", Last(chat.events).id)>>)
    /\ UNCHANGED <<mailbox, chat, calls, call, rounds, handoff, durable, observed>>

(* The tool returned, failed, or is not one the agent has.                 *)
FinishCall ==
    /\ Goto("executing", "finished")
    /\ \E kind \in Outcomes : Push(kind, call)
    /\ UNCHANGED <<mailbox, calls, call, rounds, handoff, sent, cuts, crashes>>

AnnounceCompleted(e) ==                     \* mutant: failures go unannounced
    IF e.kind = "failed" THEN <<>> ELSE <<Env("tool", e.id)>>
AnnounceOutcome(e) == <<Env("tool", e.id)>>

PublishOutcome ==
    /\ Goto("finished", "dispatching")
    /\ Publish(AnnounceOutcome(Last(chat.events)))
    /\ calls' = calls - 1
    /\ call' = 0
    /\ UNCHANGED <<mailbox, chat, rounds, handoff, durable, observed>>

(* All calls are done: their rendered results become a user message, which *)
(* is persisted and not published.                                         *)
PushResults ==
    /\ Goto("dispatching", "completing")
    /\ RoundDone
    /\ rounds' = rounds + 1
    /\ Push("results", 0)
    /\ UNCHANGED <<mailbox, calls, call, handoff, sent, cuts, crashes>>

RecvShutdown ==
    /\ Listening /\ Ready /\ Head(mailbox) = Shutdown
    /\ pc' = "closing"
    /\ mailbox' = TakeOne(mailbox)
    /\ Publish(<<Env("shutdown", 0)>>)
    /\ UNCHANGED <<chat, calls, call, rounds, handoff, durable, observed>>

(* The newest Agent-role message, 0 when there is none.                    *)
Summary(s) ==
    LET replies == {i \in DOMAIN s : s[i].kind \in AgentRole}
    IN  IF replies = {} THEN 0
        ELSE s[CHOOSE i \in replies : \A j \in replies : j <= i].id

(* After the loop: the handoff, run() returns (the channel and whatever is *)
(* in it go), cleanup_after_runner saves the final chat.                   *)
Close ==
    /\ Goto("closing", "exited")
    /\ handoff' = IF Subagent THEN [sent |-> TRUE, summary |-> Summary(chat.events)]
                              ELSE handoff
    /\ mailbox' = <<>>
    /\ \E okChat \in BOOLEAN : SaveQuietly(chat, okChat)
    /\ UNCHANGED <<chat, calls, call, rounds, bus, lastUsed, nextId, sent, cuts, crashes>>

-----------------------------------------------------------------------------
(* The process *)

Crash ==
    /\ pc \notin {"unborn", "down"}
    /\ crashes < MaxCrashes
    /\ crashes' = crashes + 1
    /\ pc' = "down"
    /\ mailbox' = <<>> /\ chat' = NoEvents /\ bus' = <<>>
    /\ calls' = 0 /\ call' = 0 /\ rounds' = 0
    /\ UNCHANGED <<handoff, durable, nextId, sent, cuts, faults>>

EmptyChat == NoEvents                       \* mutant: the id of a fresh chat reused
LoadedChat == disk

(* restore_root: the stored chat becomes the history, unchanged; nothing   *)
(* to restore when the shell never reached storage; subagent chats are not *)
(* restored.  The snapshot is saved again.                                 *)
Restore ==
    /\ ~Subagent
    /\ stored
    /\ Goto("down", "recv")
    /\ chat' = LoadedChat
    /\ cuts' = cuts \cup {Len(LoadedChat.events)}
    /\ \E okChat, okPointer \in BOOLEAN :
           /\ SaveQuietly(LoadedChat, okChat)
           /\ lastUsed' = (lastUsed \/ okPointer)
    /\ UNCHANGED <<mailbox, calls, call, rounds, bus, handoff, nextId, sent, crashes>>

-----------------------------------------------------------------------------
Init ==
    /\ pc = "unborn"
    /\ mailbox = <<>> /\ chat = NoEvents /\ bus = <<>>
    /\ calls = 0 /\ call = 0 /\ rounds = 0
    /\ handoff = [sent |-> FALSE, summary |-> 0]
    /\ disk = NoEvents /\ stored = FALSE /\ lastUsed = FALSE
    /\ nextId = 1 /\ sent = 0 /\ cuts = {} /\ crashes = 0 /\ faults = 0

Complete == CompleteStop \/ CompleteError \/ CompleteTools

Run == \/ RecvUser \/ PublishUser \/ StreamDelta \/ Complete \/ PublishReply
       \/ StartCall \/ PublishStarted \/ FinishCall \/ PublishOutcome
       \/ PushResults \/ RecvShutdown \/ Close

Next == Spawn \/ Send \/ SendShutdown \/ Run \/ Crash \/ Restore

Spec == Init /\ [][Next]_vars

(* The runtime keeps polling the task, the provider ends every stream and  *)
(* every tool returns (neither has a time limit in runner.rs).             *)
FairSpec == Spec /\ WF_vars(Run)
-----------------------------------------------------------------------------
(* What the agent promises *)

TypeOK ==
    /\ pc \in {"unborn", "exited", "down"} \cup Receiving
    /\ mailbox \in Seq(0..MaxMessages)
    /\ chat \in Chat
    /\ calls \in 0..MaxCalls
    /\ call \in Nat
    /\ rounds \in 0..MaxRounds
    /\ bus \in Seq(Envelope)
    /\ handoff \in [sent: BOOLEAN, summary: Nat]
    /\ disk \in Chat
    /\ stored \in BOOLEAN
    /\ lastUsed \in BOOLEAN
    /\ nextId \in Nat \ {0}
    /\ sent \in 0..MaxMessages
    /\ cuts \in SUBSET Nat
    /\ crashes \in 0..MaxCrashes
    /\ faults \in 0..MaxFaults

OrderedUsers(s) ==
    \A i, j \in DOMAIN s :
        i < j /\ s[i].kind = "user" /\ s[j].kind = "user" => s[i].ref < s[j].ref

(* User messages enter the transcript in the order in which the channel    *)
(* accepted them and at most once each, also across a restart, and those   *)
(* still in the channel are newer than those in the transcript.            *)
InOrderOnce ==
    /\ OrderedUsers(chat.events)
    /\ \A i \in DOMAIN chat.events, j \in DOMAIN mailbox :
           chat.events[i].kind = "user" /\ mailbox[j] # Shutdown
           => chat.events[i].ref < mailbox[j]

(* Which event may follow which while no process dies.                     *)
TurnSteps ==
    {<<"user", "agent">>, <<"user", "error">>,
     <<"results", "agent">>, <<"results", "error">>,
     <<"agent", "user">>, <<"agent", "started">>, <<"error", "user">>,
     <<"started", "completed">>, <<"started", "failed">>,
     <<"completed", "started">>, <<"failed", "started">>,
     <<"completed", "results">>, <<"failed", "results">>}

MayFollow(a, b) ==
    /\ <<a.kind, b.kind>> \in TurnSteps
    /\ a.kind = "started" => b.ref = a.ref
    /\ a.kind = "agent" => (a.ref > 0 <=> b.kind = "started")

Grammatical(s) ==
    /\ s # <<>> => s[1].kind = "user"
    /\ \A i \in 1..(Len(s) - 1) :
           MayFollow(s[i], s[i + 1]) \/ (s[i + 1].kind = "user" /\ i \in cuts)

(* The transcript is a succession of turns: no reply without a question,   *)
(* no tool call outside a tool round, each start followed by its own       *)
(* outcome.  A turn that breaks off does so where a restart resumed, and   *)
(* the next event there is a new user message.                             *)
TurnGrammar == Grammatical(chat.events)

(* The results given back to the model are those of all n calls it asked   *)
(* for: the n starts and outcomes lie between the request and the results. *)
Covered(s) ==
    \A i \in DOMAIN s : s[i].kind = "results" =>
        \E r \in 1..(i - 1) :
            /\ s[r].kind = "agent"
            /\ i = r + 2 * s[r].ref + 1
            /\ \A k \in (r + 1)..(i - 1) : s[k].kind \in ToolKinds
ResultsCoverTheCalls == Covered(chat.events)

Extends(t, s) == Len(s) <= Len(t) /\ \A i \in 1..Len(s) : t[i] = s[i]

(* Storage never loses an event it has acknowledged: every snapshot        *)
(* extends the one before it, through crashes, restarts and failed writes. *)
SnapshotsOnlyGrow == [][Extends(disk'.events, disk.events)]_vars

Announces(env) == env.type \in {"message", "tool"}

(* Whatever an observer has seen of the transcript is in storage, so that  *)
(* it can be reloaded on sight, unless the observer was told before that a *)
(* write had failed.                                                       *)
ObservedIsDurable ==
    \A i \in DOMAIN bus : Announces(bus[i]) =>
        \/ \E k \in DOMAIN disk.events : disk.events[k].id = bus[i].ref
        \/ \E j \in 1..(i - 1) : bus[j].type = "error"

Resumed == IF cuts = {} THEN 0 ELSE CHOOSE n \in cuts : \A m \in cuts : m <= n

(* The events an observer of this process ought to know of: those since    *)
(* the process resumed, but for tool results and the one that is just      *)
(* about to be announced.                                                  *)
Pending == pc \in {"accepted", "replied", "started", "finished"}
Public(s, from, pending) ==
    {k \in (from + 1)..Len(s) : s[k].kind # "results" /\ (pending => k # Len(s))}

Announced(b) == {i \in DOMAIN b : Announces(b[i])}
IdsCountUp(s) == \A l \in DOMAIN s : \A k \in 1..(l - 1) : s[k].id < s[l].id
RefsCountUp(b) == \A i, j \in Announced(b) : i < j => b[i].ref < b[j].ref

(* What an observer of this process has seen is the transcript since the   *)
(* process resumed it, without gaps, each event once and in the order of   *)
(* the transcript (the order of its ids), but for the tool results and the *)
(* event that is just about to be announced.                               *)
BusFollowsTranscript ==
    /\ {bus[i].ref : i \in Announced(bus)}
         = {chat.events[k].id : k \in Public(chat.events, Resumed, Pending)}
    /\ RefsCountUp(bus)
    /\ IdsCountUp(chat.events)

(* completion_messages: the messages of the transcript, without the tool   *)
(* events (the system prompt before them is the same every time).          *)
ContextTyped(s) ==                          \* mutant: tool results are left out
    Picked(s, {i \in DOMAIN s : s[i].kind \notin ToolKinds \cup {"results"}})
Context(s) == Picked(s, {i \in DOMAIN s : s[i].kind \notin ToolKinds})

(* The model is asked to reply to a user message, never to itself, and     *)
(* sees two user messages in a row no more often than restarts cut a turn. *)
ContextAlternates ==
    pc = "completing" =>
        LET context == Context(chat.events)
            same(role) == {i \in 1..(Len(context) - 1) :
                               context[i].kind \in role /\ context[i + 1].kind \in role}
        IN  /\ Last(context).kind \in UserRole
            /\ same(AgentRole) = {}
            /\ Cardinality(same(UserRole)) <= Cardinality(cuts)

(* An accepted message is taken up, and every turn ends, unless the        *)
(* process dies or the agent is shut down first.                           *)
TakenUp ==
    \A m \in 1..MaxMessages :
        (\E i \in DOMAIN mailbox : mailbox[i] = m)
            ~> \/ \E i \in DOMAIN chat.events :
                      chat.events[i].kind = "user" /\ chat.events[i].ref = m
               \/ pc \in {"exited", "down"}
TurnsEnd == pc = "accepted" ~> pc \in {"recv", "closing", "exited", "down"}

-----------------------------------------------------------------------------
(* The inductive invariant behind the safety properties *)

(* The last event of the transcript tells where the runner stands.         *)
Standing ==
    LET s == chat.events
        stopped == \/ Last(s).kind = "agent" /\ Last(s).ref = 0
                   \/ Last(s).kind = "error"
    IN  /\ s = <<>> => pc \in {"unborn", "down", "recv", "closing", "exited"}
        /\ s # <<>> =>
            /\ pc # "unborn" /\ pc # "down"
            /\ pc = "recv" => stopped \/ Len(s) \in cuts
            /\ pc = "accepted" => Last(s).kind = "user"
            /\ pc = "completing" => Last(s).kind \in UserRole
            /\ pc = "replied" => \/ Last(s).kind = "agent" /\ Last(s).ref = calls
                                 \/ Last(s).kind = "error" /\ calls = 0
            /\ pc = "dispatching" => \/ Last(s).kind \in Outcomes
                                     \/ /\ Last(s).kind = "agent"
                                        /\ Last(s).ref = calls /\ calls > 0
            /\ pc \in {"started", "executing"} =>
                   Last(s).kind = "started" /\ Last(s).ref = call
            /\ pc = "finished" => Last(s).kind \in Outcomes

InToolRound == pc \in {"dispatching", "started", "executing", "finished"}
                  \/ (pc = "replied" /\ calls > 0)
Counting ==
    /\ pc \in {"started", "executing", "finished"} => calls > 0
    /\ InToolRound => rounds < MaxRounds

(* Storage holds a beginning of the transcript, all of it unless an        *)
(* observer has been told of a failed write.                               *)
Durability ==
    /\ pc # "down" => Extends(chat.events, disk.events)
    /\ pc # "down" => disk.events = chat.events \/ \E j \in DOMAIN bus : bus[j].type = "error"

(* Message numbers grow from storage through the transcript and the        *)
(* channel to the last one accepted.                                       *)
Numbering ==
    /\ pc \in {"unborn", "down"} => mailbox = <<>>
    /\ OrderedUsers(disk.events)
    /\ \A i \in DOMAIN disk.events :
           disk.events[i].kind = "user" => disk.events[i].ref <= sent
    /\ \A i \in DOMAIN chat.events :
           chat.events[i].kind = "user" => chat.events[i].ref <= sent
    /\ \A i \in DOMAIN mailbox : mailbox[i] <= sent
    /\ \A i, j \in DOMAIN mailbox :
           i < j /\ mailbox[i] # Shutdown /\ mailbox[j] # Shutdown
           => mailbox[i] < mailbox[j]

IInv ==
    /\ TypeOK
    /\ Standing
    /\ Counting
    /\ Durability
    /\ Numbering
    /\ InOrderOnce
    /\ TurnGrammar
    /\ Grammatical(disk.events)
    /\ ObservedIsDurable

(* How far the tool round at the end of the transcript has got: the model  *)
(* asked for some calls, two events tell of each one that is done, and     *)
(* `under' events of one under way; `left' calls are not done yet.         *)
RoundAt(s, left, under) ==
    \E r \in DOMAIN s :
        /\ s[r].kind = "agent"
        /\ Len(s) + 2 * left = r + 2 * s[r].ref + under
        /\ \A k \in (r + 1)..Len(s) : s[k].kind \in ToolKinds

RoundStands ==
    /\ pc = "replied" /\ calls > 0 => RoundAt(chat.events, calls, 0)
    /\ pc = "dispatching" => RoundAt(chat.events, calls, 0)
    /\ pc \in {"started", "executing"} => RoundAt(chat.events, calls, 1)
    /\ pc = "finished" => RoundAt(chat.events, calls, 2)

RoundInv == RoundStands /\ Covered(chat.events) /\ Covered(disk.events)

(* Ids come from the supply and count up, and each event has the one       *)
(* before it as its parent.                                                *)
Linked(s, supply) ==
    /\ IdsCountUp(s)
    /\ \A k \in DOMAIN s :
           /\ s[k].id \in 1..(supply - 1)
           /\ s[k].parent = IF k = 1 THEN 0 ELSE s[k - 1].id

BusInv ==
    /\ Linked(chat.events, nextId) /\ Linked(disk.events, nextId)
    /\ \A n \in cuts : n <= Len(disk.events)
    /\ Pending => Resumed < Len(chat.events)
    /\ pc = "down" => bus = <<>>
    /\ BusFollowsTranscript

=============================================================================
