-------------------------- MODULE TerminalSession --------------------------
(***************************************************************************)
(* The terminal client, the bus and the daemon: how a typed message reaches *)
(* the agent of a chat, and what the client makes of the events that come   *)
(* back (bin/xoxo/src/main.rs, daemon.rs, xoxo-tui/src/app.rs, app/sync.rs, *)
(* app/events/mod.rs, xoxo-core/src/bus.rs).                                *)
(*                                                                         *)
(* Commands go through a bounded channel whose senders wait; events come    *)
(* through a ring whose reader loses the oldest ones when it lags.  The     *)
(* client's loop handles one key, submits, drains the ring, and draws.      *)
(* An agent is its mailbox and its turn; what a turn does is AgentRunner's. *)
(*                                                                         *)
(* A conversation is what the user means: started by /new, continued by     *)
(* typing, come back to by /sessions.  The program does not know it.        *)
(***************************************************************************)
EXTENDS Naturals, Sequences, FiniteSets

CONSTANTS
    MaxMessages,    \* bound: messages typed
    MaxChats,       \* chat ids: one for each message that may open a chat
    OldChats,       \* 1: a last-used chat is restored at startup; 0: none
    CommandsCap,    \* COMMANDS_CAPACITY (64)
    MailboxCap,     \* an agent's channel (64)
    RingCap,        \* EVENTS_CAPACITY (256)
    MaxNews,        \* bound: /new and /clear
    MaxLoads,       \* bound: sessions picked from /sessions
    MaxErrors       \* bound: submissions the daemon fails to handle

ASSUME SessionAssumption ==
    /\ {MaxMessages, MaxChats, OldChats, MaxNews, MaxLoads, MaxErrors} \subseteq Nat
    /\ {CommandsCap, MailboxCap} \subseteq Nat \ {0} /\ RingCap \in Nat \ {0, 1}
    /\ OldChats \in {0, 1} /\ OldChats + MaxMessages <= MaxChats

ChatId  == 1..MaxChats
Message == 1..MaxMessages

(* A chat's agent has the number of the chat; the one restored after the    *)
(* daemon let go of the first, which goes on, has another.                 *)
AgentId == 1..(2 * MaxChats)
Second(c) == c + MaxChats
ChatOf(a) == IF a \in ChatId THEN a ELSE a - MaxChats

None == 0                    \* active_chat_id = None
Nil  == MaxChats + 1         \* Uuid::nil(), the path of the daemon's own errors

VARIABLES
    tui,        \* where the client's loop is
    pending,    \* pending_submission
    active,     \* active_chat_id
    busy,       \* turn_in_progress
    commands,   \* the command channel
    unread,     \* events in the ring the client has not read
    lagged,     \* it has lost some and not been told yet
    hand,       \* the message the daemon is delivering, and to which agent
    chats, held,      \* chats in storage (1..chats), those in root_handles
    strayed,    \* chats whose first agent the daemon has let go of
    mailbox, turn,    \* of each agent; turn: the message being answered
    typed, taken, refused,   \* messages typed; taken up by an agent; failed
    home,       \* the agent each message was routed to
    aim,        \* the conversation the user is in           (history variables)
    convs, convOf, convOfChat,
    hasty,      \* the user has touched a key before all was quiet   (history)
    loads, errors

client == <<tui, pending, active, busy>>
bus    == <<commands, unread, lagged>>
server == <<hand, chats, held, strayed, mailbox, turn>>
fate   == <<taken, refused, home>>
meant  == <<aim, convs, convOf, convOfChat, hasty>>
bounds == <<loads, errors>>
vars   == <<client, bus, server, typed, fate, meant, bounds>>

NoHand == [msg |-> 0, to |-> 0]
Event == [chat : ChatId \cup {Nil}, kind : {"message", "started", "progress", "finished", "error"}]
Ev(c, kind) == [chat |-> c, kind |-> kind]

(* Nothing is under way anywhere.                                          *)
Quiet ==
    /\ tui = "poll" /\ commands = <<>> /\ hand = NoHand
    /\ unread = <<>> /\ ~lagged
    /\ \A a \in AgentId : mailbox[a] = <<>> /\ turn[a] = 0

-----------------------------------------------------------------------------
(* broadcast::Sender::send: when the ring is full the oldest event goes.    *)
Ring(s) == IF Len(s) <= RingCap THEN s ELSE SubSeq(s, Len(s) - RingCap + 1, Len(s))

PublishWaiting(s) ==                        \* mutant: a bounded channel
    Len(unread \o s) <= RingCap /\ unread' = unread \o s /\ UNCHANGED lagged
Publish(s) ==
    /\ unread' = Ring(unread \o s)
    /\ lagged' = (lagged \/ Len(unread \o s) > RingCap)

-----------------------------------------------------------------------------
(* The client: run_tui, App::handle_event, App::handle_bus_event *)

Key == tui = "poll" /\ hasty' = (hasty \/ ~Quiet)

(* A line and Enter.                                                       *)
Type ==
    /\ Key /\ typed < MaxMessages
    /\ typed' = typed + 1
    /\ pending' = typed + 1
    /\ convOf' = [convOf EXCEPT ![typed + 1] = aim]
    /\ tui' = "submit"
    /\ UNCHANGED <<active, busy, bus, server, fate, aim, convs, convOfChat, bounds>>

KeptActive == active                        \* mutant: only the screen is cleared
ResetActive == None

(* /new, /clear: reset_for_new_chat.                                       *)
New ==
    /\ Key /\ convs < MaxNews + 1
    /\ active' = ResetActive /\ pending' = 0 /\ busy' = FALSE
    /\ tui' = "drain"
    /\ convs' = convs + 1 /\ aim' = convs + 1
    /\ UNCHANGED <<bus, server, typed, fate, convOf, convOfChat, bounds>>

(* /sessions, Enter: load_chat_session.                                    *)
Load(c) ==
    /\ Key /\ loads < MaxLoads /\ c <= chats
    /\ loads' = loads + 1
    /\ active' = c /\ pending' = 0 /\ busy' = FALSE
    /\ tui' = "drain"
    /\ aim' = convOfChat[c]
    /\ UNCHANGED <<bus, server, typed, fate, convs, convOf, convOfChat, errors>>

(* The poll times out.                                                     *)
Tick == /\ tui = "poll"
        /\ tui' = "drain"
        /\ UNCHANGED <<pending, active, busy, bus, server, typed, fate, meant, bounds>>

(* take_submitted_message, send_command: waits for room.                   *)
Submit ==
    /\ tui = "submit" /\ Len(commands) < CommandsCap
    /\ commands' = Append(commands, [active |-> active, msg |-> pending])
    /\ pending' = 0
    /\ tui' = "drain"
    /\ UNCHANGED <<active, busy, unread, lagged, server, typed, fate, meant, bounds>>

(* The drain ends at an empty ring, and at a Lagged error.                 *)
DrainEnds ==
    /\ tui = "drain" /\ (unread = <<>> \/ lagged)
    /\ lagged' = FALSE
    /\ tui' = "poll"
    /\ UNCHANGED <<pending, active, busy, commands, unread, server, typed, fate, meant, bounds>>

ActivityIsBusy(e) == e.kind # "finished"    \* mutant: an error counts as work
BusyAfter(e) == CASE e.kind = "started" -> TRUE
                  [] e.kind = "finished" -> FALSE
                  [] OTHER -> busy

(* Every event, whatever its chat, makes that chat the active one.         *)
Handle ==
    /\ tui = "drain" /\ unread # <<>> /\ ~lagged
    /\ active' = Head(unread).chat
    /\ busy' = BusyAfter(Head(unread))
    /\ unread' = Tail(unread)
    /\ UNCHANGED <<tui, pending, commands, lagged, server, typed, fate, meant, bounds>>

-----------------------------------------------------------------------------
(* The daemon: run_daemon, handle_submit_user_message *)

Known(c) == c \in held \/ c \in 1..chats

(* A chat it has or can restore gets the message; else a new chat does,     *)
(* which is not in root_handles before its pointer is stored.              *)
Route ==
    /\ hand = NoHand /\ commands # <<>>
    /\ LET cmd == Head(commands)
           c   == IF Known(cmd.active) THEN cmd.active ELSE chats + 1
           a   == IF c \in strayed THEN Second(c) ELSE c
       IN  /\ commands' = Tail(commands)
           /\ hand' = [msg |-> cmd.msg, to |-> a]
           /\ home' = [home EXCEPT ![cmd.msg] = a]
           /\ IF c = chats + 1
              THEN /\ chats' = c
                   /\ convOfChat' = [convOfChat EXCEPT ![c] = convOf[cmd.msg]]
                   /\ UNCHANGED held
              ELSE /\ held' = held \cup {c}
                   /\ UNCHANGED <<chats, convOfChat>>
    /\ UNCHANGED <<client, unread, lagged, strayed, mailbox, turn, typed, taken, refused,
                   aim, convs, convOf, hasty, bounds>>

(* No provider, no storage, no pointer to a chat there is: the error is     *)
(* published under the nil path.                                           *)
RouteFails ==
    /\ hand = NoHand /\ commands # <<>> /\ errors < MaxErrors
    /\ errors' = errors + 1
    /\ commands' = Tail(commands)
    /\ refused' = refused \cup {Head(commands).msg}
    /\ Publish(<<Ev(Nil, "error")>>)
    /\ UNCHANGED <<client, server, typed, taken, home, meant, loads>>

(* AgentHandle::send: waits for room.                                      *)
DepositFirst(box, m) == <<m>> \o box        \* mutant: the newest is read first
Deposit(box, m) == Append(box, m)

RoomAlways(box) == TRUE                     \* mutant: an unbounded channel
HasRoom(box) == Len(box) < MailboxCap

Fresh(a) == a \in ChatId \ held

Deliver ==
    /\ hand.msg # 0 /\ HasRoom(mailbox[hand.to])
    /\ mailbox' = [mailbox EXCEPT ![hand.to] = Deposit(@, hand.msg)]
    /\ hand' = IF Fresh(hand.to) THEN [hand EXCEPT !.msg = 0] ELSE NoHand
    /\ UNCHANGED <<client, bus, chats, held, strayed, turn, typed, fate, meant, bounds>>

(* After spawn_root, which has already sent the message: the pointer to     *)
(* the new chat is stored and its handle kept,                             *)
Settling == hand.msg = 0 /\ hand.to # 0
Settle ==
    /\ Settling
    /\ held' = held \cup {hand.to}
    /\ hand' = NoHand
    /\ UNCHANGED <<client, bus, chats, strayed, mailbox, turn, typed, fate, meant, bounds>>

(* or it cannot be stored: the message, which the agent has, is reported as *)
(* failed and the handle dropped.                                          *)
Opener == {m \in Message : home[m] = hand.to}
Forget ==
    /\ Settling /\ errors < MaxErrors
    /\ errors' = errors + 1
    /\ strayed' = strayed \cup {hand.to}
    /\ refused' = refused \cup Opener
    /\ hand' = NoHand
    /\ Publish(<<Ev(Nil, "error")>>)
    /\ UNCHANGED <<client, commands, chats, held, mailbox, turn, typed, taken, home, meant, loads>>

-----------------------------------------------------------------------------
(* Agent a: AgentRunner::run, as the bus sees it *)

BeginTurn(a) ==
    /\ turn[a] = 0 /\ mailbox[a] # <<>>
    /\ turn' = [turn EXCEPT ![a] = Head(mailbox[a])]
    /\ taken' = taken \cup {Head(mailbox[a])}
    /\ mailbox' = [mailbox EXCEPT ![a] = Tail(@)]
    /\ Publish(<<Ev(ChatOf(a), "message"), Ev(ChatOf(a), "started")>>)
    /\ UNCHANGED <<client, commands, hand, chats, held, strayed, typed, refused, home, meant, bounds>>

(* Deltas, tool calls, a completion that asks for them.                    *)
Progress(a) ==
    /\ turn[a] # 0
    /\ ~ (unread # <<>> /\ unread[Len(unread)] = Ev(ChatOf(a), "progress"))
    /\ Publish(<<Ev(ChatOf(a), "progress")>>)
    /\ UNCHANGED <<client, commands, server, typed, fate, meant, bounds>>

EndTurn(a) ==
    /\ turn[a] # 0
    /\ turn' = [turn EXCEPT ![a] = 0]
    /\ Publish(<<Ev(ChatOf(a), "message"), Ev(ChatOf(a), "finished")>>)
    /\ UNCHANGED <<client, commands, hand, chats, held, strayed, mailbox, typed, fate, meant, bounds>>

-----------------------------------------------------------------------------
Init ==
    /\ tui = "poll" /\ pending = 0 /\ active = OldChats /\ busy = FALSE
    /\ commands = <<>> /\ unread = <<>> /\ lagged = FALSE
    /\ hand = NoHand /\ chats = OldChats /\ held = {} /\ strayed = {}
    /\ mailbox = [a \in AgentId |-> <<>>] /\ turn = [a \in AgentId |-> 0]
    /\ typed = 0 /\ taken = {} /\ refused = {}
    /\ home = [m \in Message |-> 0]
    /\ aim = 1 /\ convs = 1 /\ hasty = FALSE
    /\ convOf = [m \in Message |-> 0]
    /\ convOfChat = [c \in ChatId |-> IF c <= OldChats THEN c ELSE 0]
    /\ loads = 0 /\ errors = 0

User   == Type \/ New \/ (\E c \in ChatId : Load(c))
Client == Tick \/ Submit \/ DrainEnds \/ Handle
Daemon == Route \/ RouteFails \/ Deliver \/ Settle \/ Forget
Agent(a) == BeginTurn(a) \/ Progress(a) \/ EndTurn(a)

Next == User \/ Client \/ Daemon \/ \E a \in AgentId : Agent(a)

Spec == Init /\ [][Next]_vars

(* The client's loop and the daemon are tasks that run when they can; as    *)
(* long as one has mail or is in a turn, some agent takes up its mail or    *)
(* ends its turn (AgentRunner, TurnsEnd).                                   *)
FairSpec ==
    /\ Spec
    /\ WF_vars(Client) /\ WF_vars(Route \/ Deliver \/ Settle)
    /\ WF_vars(\E a \in AgentId : BeginTurn(a) \/ EndTurn(a))

-----------------------------------------------------------------------------
TypeOK ==
    /\ tui \in {"poll", "submit", "drain"} /\ (tui = "submit") = (pending # 0)
    /\ pending \in 0..MaxMessages /\ active \in ChatId \cup {None, Nil}
    /\ {busy, lagged, hasty} \subseteq BOOLEAN
    /\ commands \in Seq([active : ChatId \cup {None, Nil}, msg : Message])
    /\ Len(commands) <= CommandsCap
    /\ unread \in Seq(Event) /\ Len(unread) <= RingCap
    /\ hand \in [msg : 0..MaxMessages, to : AgentId \cup {0}]
    /\ chats \in OldChats..MaxChats /\ {held, strayed} \subseteq SUBSET (1..chats)
    /\ mailbox \in [AgentId -> Seq(Message)]
    /\ \A a \in AgentId : Len(mailbox[a]) <= MailboxCap
    /\ turn \in [AgentId -> 0..MaxMessages]
    /\ typed \in 0..MaxMessages /\ taken \subseteq 1..typed /\ refused \subseteq 1..typed
    /\ home \in [Message -> AgentId \cup {0}]
    /\ convs \in 1..(MaxNews + 1) /\ aim \in 1..convs
    /\ convOf \in [Message -> 0..convs] /\ convOfChat \in [ChatId -> 0..convs]
    /\ loads \in 0..MaxLoads /\ errors \in 0..MaxErrors

Occurrences(s, m) == Cardinality({i \in DOMAIN s : s[i] = m})
HasHome(m) == home[m] # 0
Places(m) ==
    (IF pending = m THEN 1 ELSE 0) + (IF hand.msg = m THEN 1 ELSE 0)
      + Cardinality({i \in DOMAIN commands : commands[i].msg = m})
      + (IF HasHome(m) THEN Occurrences(mailbox[home[m]], m) ELSE 0)
      + (IF m \in taken THEN 1 ELSE 0) + (IF m \in refused /\ ~HasHome(m) THEN 1 ELSE 0)
NothingLostOrTwice == \A m \in 1..typed : Places(m) = 1

SameChat(m, n) == HasHome(m) /\ HasHome(n) /\ ChatOf(home[m]) = ChatOf(home[n])
TakenInOrder ==
    \A m, n \in Message :
        m < n /\ SameChat(m, n) /\ n \in taken => m \in taken \cup refused
OnlyOpenersMisreported ==
    \A m, n \in Message : m \in refused /\ SameChat(m, n) => m <= n

(* A typed message is in one place at a time: on its way, taken up by one   *)
(* agent, or refused with an error before it was sent to any.  An error     *)
(* reported for a message that an agent has, or will have, is that of the   *)
(* message that opened a chat.  Those of a chat are taken up in the order   *)
(* they were typed, that one excepted, through two full channels and the    *)
(* daemon's hand (send_command, handle_submit_user_message, spawn_root,     *)
(* AgentHandle::send).                                                     *)
DeliveredOnceInOrder == NothingLostOrTwice /\ TakenInOrder /\ OnlyOpenersMisreported

(* When all is quiet the "Doing..." line is gone, also for a client that    *)
(* lost events: the ring keeps the newest, and the last turn event of all   *)
(* is a Finished (handle_bus_event, ignore_lagged).  Only the errors of     *)
(* failed submissions can push that one out of the ring unread, when as     *)
(* many as the ring holds follow it.                                        *)
IndicatorSettles == errors < RingCap /\ Quiet => ~busy

InConversation == \A m \in Message : HasHome(m) => convOfChat[ChatOf(home[m])] = convOf[m]

OneChatPerConversation == \A c, d \in 1..chats : convOfChat[c] = convOfChat[d] => c = d

(* For a user who waits until all is quiet before touching a key, a message *)
(* reaches a chat of the conversation it was typed in, through /new,        *)
(* /sessions, a restored chat, errors and a client that lost events; and as *)
(* long as no submission fails, a conversation never splits over two chats. *)
StaysInConversation ==
    ~hasty => InConversation /\ (errors = 0 => OneChatPerConversation)

(* The client never hangs on a full command channel, and again and again    *)
(* there is no message without its agent or its error, however late the     *)
(* client reads what the agents publish: none waits for ever.               *)
Answered == []<>(1..typed \subseteq taken \cup refused)

(* .changelogs/2026-04-20-01.md:390: /new "ensured the next non-command     *)
(* user message starts a fresh root chat because active_chat_id is cleared". *)
NewStartsFresh == InConversation
=============================================================================
