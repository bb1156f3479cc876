------------------------ MODULE TerminalSessionProofs ------------------------
(***************************************************************************)
(* For any number of messages and chats, and channels of any capacity: a     *)
(* typed message is in one place, those of a chat are taken up in the order   *)
(* they were typed, and only the one that opened a chat can be reported as     *)
(* failed and taken up; the types; the indicator goes out when all is quiet;   *)
(* and a user who waits stays in the conversation.                            *)
(*                                                                         *)
(* The line from the keyboard to the daemon's hand is one queue, in order;    *)
(* from the hand on there is one for each agent.                             *)
(***************************************************************************)
EXTENDS TerminalSession, SequenceTheorems, FiniteSetTheorems, TLAPS

Typed ==
    /\ typed \in 0..MaxMessages /\ pending \in 0..MaxMessages
    /\ tui \in {"poll", "submit", "drain"} /\ (tui = "submit" <=> pending # 0)
    /\ commands \in Seq([active : Nat, msg : Nat]) /\ active \in Nat
    /\ unread \in Seq(Event) /\ hand \in [msg : Nat, to : Nat]
    /\ mailbox \in [AgentId -> Seq(Nat)] /\ home \in [Message -> AgentId \cup {0}]
    /\ taken \subseteq 1..typed /\ refused \subseteq 1..typed
    /\ chats \in 0..MaxChats /\ held \subseteq 1..chats /\ strayed \subseteq 1..chats

(* Each message may open a chat, but only when it is routed.                 *)
Chatty ==
    /\ \A i \in 1..Len(commands) : chats < OldChats + commands[i].msg
    /\ chats <= OldChats + typed
    /\ pending # 0 => chats < OldChats + pending

(* From the keyboard to the daemon: ever later messages, none routed before.  *)
InLine ==
    /\ pending # 0 => pending = typed
    /\ \A i, j \in 1..Len(commands) : i < j => commands[i].msg < commands[j].msg
    /\ \A i \in 1..Len(commands) :
        /\ commands[i].msg \in 1..typed
        /\ pending # 0 => commands[i].msg < pending
        /\ \A m \in Message : home[m] # 0 \/ m \in refused => m < commands[i].msg
    /\ pending # 0 => \A m \in Message : home[m] # 0 \/ m \in refused => m < pending

Routed ==
    /\ \A m \in Message : home[m] # 0 => m <= typed /\ ChatOf(home[m]) \in 1..chats
    /\ taken \subseteq {m \in Message : home[m] # 0}
    /\ hand # NoHand => hand.to \in AgentId /\ ChatOf(hand.to) \in 1..chats
    /\ hand.msg # 0 => /\ hand.msg \in Message /\ home[hand.msg] = hand.to
                       /\ hand.msg \notin taken
                       /\ \A m \in Message : home[m] # 0 => m <= hand.msg

(* An agent the daemon has let go of has one message, which is reported as    *)
(* failed; so is no other that has an agent.                                *)
Alone(h, a) == \A m, n \in Message : h[m] = a /\ h[n] = a => m = n
Strays ==
    /\ \A m \in Message : home[m] \in strayed => m \in refused
    /\ \A m \in Message : m \in refused /\ home[m] # 0 => home[m] \in strayed /\ Alone(home, home[m])
    /\ \A n \in Message : home[n] \notin ChatId \cup {0} =>
        /\ ChatOf(home[n]) \in strayed
        /\ \A m \in Message : home[m] = ChatOf(home[n]) => m < n
    /\ Settling => Fresh(hand.to)
    /\ hand # NoHand /\ Fresh(hand.to) => hand.to \notin strayed /\ Alone(home, hand.to)

(* An agent's mailbox: what was routed to it, in order, and after all it has  *)
(* taken up.                                                                *)
InBox ==
    \A c \in AgentId :
        /\ \A i, j \in 1..Len(mailbox[c]) : i < j => mailbox[c][i] < mailbox[c][j]
        /\ \A i \in 1..Len(mailbox[c]) :
            /\ mailbox[c][i] \in Message /\ home[mailbox[c][i]] = c
            /\ mailbox[c][i] # hand.msg
            /\ \A n \in taken : home[n] = c => n < mailbox[c][i]

TurnedDown(m) == m \in refused /\ home[m] = 0
Somewhere(m) ==
    \/ pending = m \/ hand.msg = m \/ m \in taken \/ TurnedDown(m)
    \/ \E i \in 1..Len(commands) : commands[i].msg = m
    \/ home[m] # 0 /\ \E i \in 1..Len(mailbox[home[m]]) : mailbox[home[m]][i] = m
Located == \A m \in 1..typed : Somewhere(m)

(* What the invariant speaks of, beside the events.                          *)
line == <<typed, pending, commands>>
boxes == <<hand, chats, held, strayed, mailbox>>

IInv == Typed /\ Chatty /\ InLine /\ Routed /\ Strays /\ InBox /\ Located

LEMMA Bounds ==
    /\ MaxMessages \in Nat /\ MaxChats \in Nat /\ OldChats \in {0, 1}
    /\ OldChats + MaxMessages <= MaxChats /\ RingCap \in Nat \ {0, 1} /\ MailboxCap \in Nat
BY SessionAssumption

(* The two agents a chat may have.                                           *)
LEMMA Agents ==
    /\ \A c \in ChatId : /\ c \in AgentId /\ Second(c) \in AgentId /\ Second(c) \notin ChatId
                         /\ ChatOf(c) = c /\ ChatOf(Second(c)) = c /\ c \in Nat /\ c # 0
    /\ \A a \in AgentId : a \in Nat /\ a # 0 /\ ChatOf(a) \in ChatId
                         /\ (a \notin ChatId => a = Second(ChatOf(a)))
BY Bounds DEF AgentId, ChatId, Second, ChatOf

LEMMA Initially == Init => IInv
<1> SUFFICES ASSUME Init PROVE IInv
    OBVIOUS
<1>1. Typed
    <2>1. tui = "poll" /\ pending = 0 /\ active = OldChats /\ typed = 0 /\ chats = OldChats
        BY DEF Init
    <2>2. hand \in [msg : Nat, to : Nat] /\ unread \in Seq(Event) /\ held = {} /\ strayed = {}
        BY DEF Init, NoHand
    <2>3. commands = <<>> /\ taken = {} /\ refused = {}
        BY DEF Init
    <2>4. mailbox \in [AgentId -> Seq(Nat)] /\ home \in [Message -> AgentId \cup {0}]
        BY Bounds DEF Init
    <2> QED
        BY <2>1, <2>2, <2>3, <2>4, Bounds DEF Typed
<1>2. Chatty /\ InLine /\ Located
    BY Bounds DEF Init, Chatty, InLine, Located
<1>3. Routed /\ Strays /\ InBox
    BY DEF Init, Routed, Strays, Alone, Settling, InBox, Message, NoHand
<1> QED
    BY <1>1, <1>2, <1>3 DEF IInv

(* Events are lost by the ring, never made up.                               *)
LEMMA PublishTyped ==
    ASSUME unread \in Seq(Event), NEW s \in Seq(Event), Publish(s)
    PROVE  unread' \in Seq(Event)
<1> DEFINE u == unread \o s
<1>1. u \in Seq(Event) /\ Len(u) \in Nat
    OBVIOUS
<1>2. CASE Len(u) <= RingCap
    BY <1>1, <1>2 DEF Publish, Ring
<1>3. CASE ~(Len(u) <= RingCap)
    <2>1. unread' = SubSeq(u, Len(u) - RingCap + 1, Len(u))
        BY <1>3 DEF Publish, Ring
    <2>2. \A i \in (Len(u) - RingCap + 1)..Len(u) : i \in 1..Len(u)
        BY <1>1, <1>3, Bounds
    <2> HIDE DEF u
    <2>3. SubSeq(u, Len(u) - RingCap + 1, Len(u)) \in Seq(Event)
        BY <1>1, <2>2, Bounds, SubSeqProperties
    <2> QED
        BY <2>1, <2>3
<1> QED
    BY <1>2, <1>3

(* What happens to events and to the screen does not matter to the messages.  *)
LEMMA Unaffected ==
    ASSUME IInv, unread' \in Seq(Event), active' \in Nat, tui' \in {"poll", "submit", "drain"},
           tui' = "submit" <=> tui = "submit",
           UNCHANGED <<line, boxes, taken, refused, home>>
    PROVE  IInv'
<1>1. Typed' /\ Chatty'
    BY DEF IInv, Typed, Chatty, line, boxes
<1>2. InLine' /\ Routed' /\ InBox' /\ Located'
    BY DEF IInv, InLine, Routed, InBox, Located, Somewhere, TurnedDown, line, boxes
<1>3. Strays'
    BY DEF IInv, Strays, Alone, Settling, Fresh, boxes
<1> QED
    BY <1>1, <1>2, <1>3 DEF IInv

LEMMA EventTyped ==
    \A c \in ChatId \cup {Nil}, k \in {"message", "started", "progress", "finished", "error"} :
        Ev(c, k) \in Event
BY DEF Ev, Event

LEMMA ScreenKeeps ==
    ASSUME IInv, Tick \/ DrainEnds \/ Handle \/ New \/ \E c \in ChatId : Load(c)
    PROVE  IInv'
<1>1. CASE Tick \/ DrainEnds
    BY <1>1, Unaffected DEF Tick, DrainEnds, IInv, Typed, bus, server, fate, line, boxes
<1>2. CASE Handle
    <2>1. Head(unread) \in Event /\ unread' = Tail(unread) /\ Tail(unread) \in Seq(Event)
        BY <1>2 DEF Handle, IInv, Typed
    <2>2. active' \in Nat
        BY <1>2, <2>1, Bounds DEF Handle, Event, ChatId, Nil
    <2> QED
        BY <1>2, <2>1, <2>2, Unaffected DEF Handle, IInv, Typed, server, fate, line, boxes
<1>3. CASE New
    <2>1. pending = 0
        BY <1>3 DEF New, Key, IInv, Typed
    <2> QED
        BY <1>3, <2>1, Unaffected DEF New, Key, ResetActive, None, IInv, Typed, bus, server, fate, line, boxes
<1>4. ASSUME NEW c \in ChatId, Load(c) PROVE IInv'
    <2>1. pending = 0 /\ c \in Nat
        BY <1>4, Bounds DEF Load, Key, IInv, Typed, ChatId
    <2> QED
        BY <1>4, <2>1, Unaffected DEF Load, Key, IInv, Typed, bus, server, fate, line, boxes
<1> QED
    BY <1>1, <1>2, <1>3, <1>4

LEMMA AnswerKeeps ==
    ASSUME IInv, NEW a \in AgentId, Progress(a) \/ EndTurn(a)
    PROVE  IInv'
<1> DEFINE c == ChatOf(a)
<1>1. \E s \in Seq(Event) : Publish(s)
    <2>1. <<Ev(c, "progress")>> \in Seq(Event) /\ <<Ev(c, "message"), Ev(c, "finished")>> \in Seq(Event)
        BY Agents, EventTyped
    <2>2. Publish(<<Ev(c, "progress")>>) \/ Publish(<<Ev(c, "message"), Ev(c, "finished")>>)
        BY DEF Progress, EndTurn
    <2> QED
        BY <2>1, <2>2, Zenon
<1>2. unread' \in Seq(Event)
    BY <1>1, PublishTyped DEF IInv, Typed
<1>3. UNCHANGED <<tui, active, line, boxes, taken, refused, home>>
    BY DEF Progress, EndTurn, client, server, fate, line, boxes
<1> QED
    BY <1>2, <1>3, Unaffected DEF IInv, Typed

-----------------------------------------------------------------------------
(* Typed: a message later than all before it.                                *)
LEMMA TypeKeeps == ASSUME IInv, Type PROVE IInv'
<1>1. /\ tui = "poll" /\ tui' = "submit" /\ typed < MaxMessages
      /\ typed' = typed + 1 /\ pending' = typed + 1
      /\ UNCHANGED <<active, commands, unread, boxes, taken, refused, home>>
    BY DEF Type, Key, bus, server, fate, boxes
<1>2. typed \in Nat /\ MaxMessages \in Nat /\ pending = 0
    BY <1>1, Bounds DEF IInv, Typed
<1>3. Typed'
    BY <1>1, <1>2 DEF IInv, Typed, boxes
<1>4. Chatty'
    <2>1. chats \in Nat /\ OldChats \in Nat /\ chats <= OldChats + typed
        BY Bounds DEF IInv, Typed, Chatty
    <2> QED
        BY <1>1, <1>2, <2>1 DEF IInv, Chatty, boxes
<1>5. InLine'
    <2>1. /\ \A i, j \in 1..Len(commands) : i < j => commands[i].msg < commands[j].msg
          /\ \A i \in 1..Len(commands) :
                /\ commands[i].msg \in 1..typed
                /\ \A m \in Message : home[m] # 0 \/ m \in refused => m < commands[i].msg
        BY DEF IInv, InLine
    <2>2. \A i \in 1..Len(commands) : commands[i].msg \in 1..(typed + 1) /\ commands[i].msg < typed + 1
        BY <1>2, <2>1
    <2>3. \A m \in Message : home[m] # 0 \/ m \in refused => m < typed + 1
        BY <1>2 DEF IInv, Routed, Typed, Message
    <2> QED
        BY <1>1, <2>1, <2>2, <2>3 DEF InLine
<1>6. Routed'
    BY <1>1, <1>2 DEF IInv, Routed, boxes, Message
<1>7. InBox'
    BY <1>1 DEF IInv, InBox, boxes
<1>8. Located'
    BY <1>1, <1>2 DEF IInv, Located, Somewhere, TurnedDown, boxes
<1>9. Strays'
    BY <1>1 DEF IInv, Strays, Alone, Settling, Fresh, boxes
<1> QED
    BY <1>3, <1>4, <1>5, <1>6, <1>7, <1>8, <1>9 DEF IInv

LEMMA SubmitKeeps == ASSUME IInv, Submit PROVE IInv'
<1>1. /\ tui = "submit" /\ tui' = "drain" /\ pending' = 0
      /\ commands' = Append(commands, [active |-> active, msg |-> pending])
      /\ UNCHANGED <<active, typed, unread, boxes, taken, refused, home>>
    BY DEF Submit, server, fate, boxes
<1>2. /\ pending # 0 /\ pending = typed /\ typed \in Nat
      /\ commands \in Seq([active : Nat, msg : Nat])
      /\ [active |-> active, msg |-> pending] \in [active : Nat, msg : Nat]
    BY <1>1 DEF IInv, Typed, InLine
<1>3. /\ commands' \in Seq([active : Nat, msg : Nat]) /\ Len(commands') = Len(commands) + 1
      /\ Len(commands) \in Nat
      /\ \A i \in 1..Len(commands) : commands'[i] = commands[i]
      /\ commands'[Len(commands')].msg = pending
    BY <1>1, <1>2
<1>4. \A i \in 1..Len(commands') : i \in 1..Len(commands) \/ i = Len(commands')
    BY <1>3
<1>5. Typed'
    BY <1>1, <1>2, <1>3, Bounds DEF IInv, Typed, boxes
<1>6. Chatty'
    BY <1>1, <1>2, <1>3, <1>4 DEF IInv, Chatty, boxes
<1>7. InLine'
    <2>0. /\ \A i, j \in 1..Len(commands) : i < j => commands[i].msg < commands[j].msg
          /\ \A i \in 1..Len(commands) :
                /\ commands[i].msg \in 1..typed /\ commands[i].msg < pending
                /\ \A m \in Message : home[m] # 0 \/ m \in refused => m < commands[i].msg
          /\ \A m \in Message : home[m] # 0 \/ m \in refused => m < pending
        BY <1>2 DEF IInv, InLine
    <2>1. \A i, j \in 1..Len(commands') : i < j => commands'[i].msg < commands'[j].msg
        <3> SUFFICES ASSUME NEW i \in 1..Len(commands'), NEW j \in 1..Len(commands'), i < j
                     PROVE  commands'[i].msg < commands'[j].msg
            OBVIOUS
        <3>1. i \in 1..Len(commands)
            BY <1>3, <1>4
        <3>2. CASE j \in 1..Len(commands)
            BY <1>3, <2>0, <3>1, <3>2
        <3>3. CASE j = Len(commands')
            BY <1>3, <2>0, <3>1, <3>3
        <3> QED
            BY <1>4, <3>2, <3>3
    <2>2. \A i \in 1..Len(commands') :
             /\ commands'[i].msg \in 1..typed
             /\ \A m \in Message : home[m] # 0 \/ m \in refused => m < commands'[i].msg
        <3> SUFFICES ASSUME NEW i \in 1..Len(commands')
                     PROVE  /\ commands'[i].msg \in 1..typed
                            /\ \A m \in Message : home[m] # 0 \/ m \in refused => m < commands'[i].msg
            OBVIOUS
        <3>1. CASE i \in 1..Len(commands)
            BY <1>3, <2>0, <3>1
        <3>2. CASE i = Len(commands')
            BY <1>2, <1>3, <2>0, <3>2
        <3> QED
            BY <1>4, <3>1, <3>2
    <2> QED
        BY <1>1, <2>1, <2>2 DEF InLine
<1>8. Routed' /\ InBox' /\ Strays'
    BY <1>1 DEF IInv, Routed, InBox, Strays, Alone, Settling, Fresh, boxes
<1>9. Located'
    <2> SUFFICES ASSUME NEW m \in 1..typed PROVE Somewhere(m)'
        BY <1>1 DEF Located
    <2>1. CASE pending = m
        <3>1. Len(commands') \in 1..Len(commands')
            BY <1>3
        <3> QED
            BY <1>3, <2>1, <3>1 DEF Somewhere
    <2>2. CASE \E i \in 1..Len(commands) : commands[i].msg = m
        <3>1. PICK i \in 1..Len(commands) : commands[i].msg = m
            BY <2>2
        <3>2. i \in 1..Len(commands') /\ commands'[i].msg = m
            BY <1>3, <3>1
        <3> QED
            BY <3>2 DEF Somewhere
    <2>3. CASE pending # m /\ ~ \E i \in 1..Len(commands) : commands[i].msg = m
        BY <1>1, <2>3 DEF IInv, Located, Somewhere, TurnedDown, boxes
    <2> QED
        BY <2>1, <2>2, <2>3
<1> QED
    BY <1>5, <1>6, <1>7, <1>8, <1>9 DEF IInv

-----------------------------------------------------------------------------
(* Routed: the first in line, later than all that were.                      *)

(* What is left of the line when its first command is taken out.             *)
LEMMA Behind ==
    ASSUME IInv, commands # <<>>, commands' = Tail(commands)
    PROVE  /\ Head(commands).msg \in 1..typed /\ Head(commands).msg \in Message
           /\ Head(commands) = commands[1] /\ 1 \in 1..Len(commands)
           /\ commands' \in Seq([active : Nat, msg : Nat])
           /\ \A i \in 1..Len(commands') : /\ i + 1 \in 1..Len(commands)
                                           /\ commands'[i] = commands[i + 1]
           /\ \A i \in 1..Len(commands) : i = 1 \/ i - 1 \in 1..Len(commands')
           /\ \A i, j \in 1..Len(commands') : i < j => commands'[i].msg < commands'[j].msg
           /\ \A i \in 1..Len(commands') :
                /\ Head(commands).msg < commands'[i].msg
                /\ commands'[i].msg \in 1..typed
                /\ pending # 0 => commands'[i].msg < pending
                /\ \A m \in Message : home[m] # 0 \/ m \in refused => m < commands'[i].msg
           /\ pending # 0 => Head(commands).msg < pending
           /\ \A m \in Message : home[m] # 0 \/ m \in refused => m < Head(commands).msg
<1>1. commands \in Seq([active : Nat, msg : Nat]) /\ typed \in 0..MaxMessages
    BY DEF IInv, Typed
<1>2. /\ Head(commands) = commands[1] /\ 1 \in 1..Len(commands) /\ Len(commands) \in Nat
      /\ commands' \in Seq([active : Nat, msg : Nat]) /\ Len(commands') = Len(commands) - 1
      /\ \A i \in 1..Len(commands') : commands'[i] = commands[i + 1]
    BY <1>1
<1>3. /\ \A i \in 1..Len(commands') : i + 1 \in 1..Len(commands)
      /\ \A i \in 1..Len(commands) : i = 1 \/ i - 1 \in 1..Len(commands')
    BY <1>2
<1>4. /\ \A i, j \in 1..Len(commands) : i < j => commands[i].msg < commands[j].msg
      /\ \A i \in 1..Len(commands) :
            /\ commands[i].msg \in 1..typed /\ (pending # 0 => commands[i].msg < pending)
            /\ \A m \in Message : home[m] # 0 \/ m \in refused => m < commands[i].msg
    BY DEF IInv, InLine
<1>5. \A i \in 1..Len(commands') : 1 < i + 1
    BY <1>2
<1>6. \A i, j \in 1..Len(commands') : i < j => commands'[i].msg < commands'[j].msg
    <2> SUFFICES ASSUME NEW i \in 1..Len(commands'), NEW j \in 1..Len(commands'), i < j
                 PROVE  commands'[i].msg < commands'[j].msg
        OBVIOUS
    <2>1. i + 1 < j + 1 /\ i + 1 \in 1..Len(commands) /\ j + 1 \in 1..Len(commands)
        BY <1>2, <1>3
    <2> QED
        BY <1>2, <1>4, <2>1
<1>7. Head(commands).msg \in 1..typed /\ Head(commands).msg \in Message
    BY <1>1, <1>2, <1>4, Bounds DEF Message
<1> QED
    BY <1>2, <1>3, <1>4, <1>5, <1>6, <1>7

\* A bound carried over to a later message.
LEMMA Beyond ==
    ASSUME NEW n \in Nat, NEW o \in Nat, NEW a \in Nat, NEW b \in Nat, n <= o + a, a < b
    PROVE  n < o + b
    OBVIOUS

LEMMA RouteKeeps == ASSUME IInv, Route PROVE IInv'
<1> DEFINE cmd == Head(commands)
           c == IF Known(cmd.active) THEN cmd.active ELSE chats + 1
           a == IF c \in strayed THEN Second(c) ELSE c
<1>1. /\ hand = NoHand /\ commands # <<>> /\ commands' = Tail(commands)
      /\ hand' = [msg |-> cmd.msg, to |-> a] /\ home' = [home EXCEPT ![cmd.msg] = a]
      /\ \/ c = chats + 1 /\ chats' = c /\ held' = held
         \/ c # chats + 1 /\ chats' = chats /\ held' = held \cup {c}
      /\ UNCHANGED <<tui, pending, active, unread, strayed, mailbox, typed, taken, refused>>
    BY DEF Route, client
<1>2. /\ cmd.msg \in 1..typed /\ cmd.msg \in Message
      /\ cmd = commands[1] /\ 1 \in 1..Len(commands)
      /\ commands' \in Seq([active : Nat, msg : Nat])
      /\ \A i \in 1..Len(commands') : i + 1 \in 1..Len(commands) /\ commands'[i] = commands[i + 1]
      /\ \A i \in 1..Len(commands) : i = 1 \/ i - 1 \in 1..Len(commands')
      /\ \A i, j \in 1..Len(commands') : i < j => commands'[i].msg < commands'[j].msg
      /\ \A i \in 1..Len(commands') :
            /\ cmd.msg < commands'[i].msg /\ commands'[i].msg \in 1..typed
            /\ pending # 0 => commands'[i].msg < pending
            /\ \A m \in Message : home[m] # 0 \/ m \in refused => m < commands'[i].msg
      /\ pending # 0 => cmd.msg < pending
      /\ \A m \in Message : home[m] # 0 \/ m \in refused => m < cmd.msg
    BY <1>1, Behind
<1>3. /\ chats \in Nat /\ OldChats \in Nat /\ chats < OldChats + cmd.msg
      /\ cmd.msg \in Nat /\ cmd.msg <= typed /\ typed <= MaxMessages /\ typed \in Nat
      /\ held \subseteq 1..chats /\ strayed \subseteq 1..chats
      /\ home \in [Message -> AgentId \cup {0}]
      /\ OldChats + MaxMessages <= MaxChats /\ MaxChats \in Nat /\ MaxMessages \in Nat
    <2>1. cmd = commands[1] /\ 1 \in 1..Len(commands) /\ cmd.msg \in 1..typed
        BY <1>2
    <2>2. /\ chats \in Nat /\ typed \in 0..MaxMessages /\ held \subseteq 1..chats
          /\ strayed \subseteq 1..chats /\ home \in [Message -> AgentId \cup {0}]
        BY Bounds DEF IInv, Typed
    <2>3. chats < OldChats + commands[1].msg
        BY <2>1 DEF IInv, Chatty
    <2>4. MaxMessages \in Nat /\ MaxChats \in Nat /\ OldChats \in Nat /\ OldChats + MaxMessages <= MaxChats
        BY Bounds
    <2> HIDE DEF cmd
    <2>5. cmd.msg \in Nat /\ cmd.msg <= typed /\ typed <= MaxMessages /\ typed \in Nat
        BY <2>1, <2>2, <2>4
    <2> QED
        BY <2>1, <2>2, <2>3, <2>4, <2>5
<1> HIDE DEF cmd
<1>4. c \in 1..(chats + 1) /\ c \in ChatId /\ chats' \in chats..(chats + 1) /\ c <= chats'
      /\ chats' \in 0..MaxChats /\ chats' <= OldChats + cmd.msg
    <2>1. c \in 1..(chats + 1)
        <3>1. CASE Known(cmd.active)
            <4>1. c = cmd.active /\ cmd.active \in 1..chats
                BY <1>3, <3>1 DEF Known
            <4> QED
                BY <1>3, <4>1
        <3>2. CASE ~Known(cmd.active)
            BY <1>3, <3>2
        <3> QED
            BY <3>1, <3>2
    <2>2. chats + 1 <= OldChats + cmd.msg /\ chats + 1 <= MaxChats
        BY <1>3
    <2> HIDE DEF c
    <2>3. (chats' = chats + 1 \/ chats' = chats) /\ c <= chats'
        BY <1>1, <1>3, <2>1
    <2> QED
        BY <1>3, <2>1, <2>2, <2>3 DEF ChatId
<1>a. /\ a \in AgentId /\ a # 0 /\ ChatOf(a) = c /\ a \notin strayed
      /\ (c = chats + 1 => a = c) /\ (a \notin ChatId => c \in strayed)
    <2>1. CASE c \in strayed
        <3>1. \A d \in strayed : d \in 1..chats /\ d # chats + 1
            BY <1>3
        <3>2. Second(c) \notin strayed
            BY <1>3, <1>4, Agents DEF ChatId
        <3> QED
            BY <1>4, <2>1, <3>1, <3>2, Agents
    <2>2. CASE c \notin strayed
        BY <1>4, <2>2, Agents
    <2> QED
        BY <2>1, <2>2
<1> HIDE DEF c, a
<1>5. /\ home' \in [Message -> AgentId \cup {0}] /\ home'[cmd.msg] = a
      /\ \A m \in Message : m # cmd.msg => home'[m] = home[m]
      /\ home[cmd.msg] = 0 /\ cmd.msg \notin refused /\ cmd.msg \notin taken
    <2>1. home[cmd.msg] = 0 /\ cmd.msg \notin refused
        BY <1>2
    <2>2. cmd.msg \notin taken
        BY <2>1 DEF IInv, Routed
    <2> QED
        BY <1>1, <1>2, <1>3, <1>a, <2>1, <2>2
<1>6. hand' \in [msg : Nat, to : Nat] /\ hand'.msg = cmd.msg /\ hand'.to = a
    BY <1>1, <1>2, <1>3, <1>a, Agents
<1>7. Typed'
    <2>1. held' \subseteq 1..chats' /\ strayed \subseteq 1..chats'
        <3>1. 1..chats \subseteq 1..chats' /\ c \in 1..chats'
            BY <1>3, <1>4
        <3> QED
            BY <1>1, <1>3, <3>1
    <2> QED
        BY <1>1, <1>2, <1>4, <1>5, <1>6, <2>1 DEF IInv, Typed
<1>8. Chatty'
    <2>0. /\ chats' \in Nat /\ cmd.msg \in Nat /\ OldChats \in Nat
          /\ chats' <= OldChats + cmd.msg
        BY <1>3, <1>4
    <2>1. \A i \in 1..Len(commands') : chats' < OldChats + commands'[i].msg
        <3> SUFFICES ASSUME NEW i \in 1..Len(commands') PROVE chats' < OldChats + commands'[i].msg
            OBVIOUS
        <3>1. cmd.msg < commands'[i].msg /\ commands'[i].msg \in 1..typed
            BY <1>2
        <3>2. commands'[i].msg \in Nat /\ cmd.msg < commands'[i].msg
            BY <1>3, <3>1
        <3> QED
            BY <2>0, <3>2, Beyond
    <2>2. chats' <= OldChats + typed /\ (pending # 0 => chats' < OldChats + pending)
        <3>1. pending \in Nat
            BY DEF IInv, Typed
        <3> QED
            BY <1>2, <1>3, <1>4, <2>0, <3>1
    <2> QED
        BY <1>1, <2>1, <2>2 DEF Chatty
<1>9. InLine'
    <2>1. \A i \in 1..Len(commands') :
             \A m \in Message : home'[m] # 0 \/ m \in refused => m < commands'[i].msg
        BY <1>2, <1>5
    <2>2. pending # 0 => \A m \in Message : home'[m] # 0 \/ m \in refused => m < pending
        BY <1>2, <1>5 DEF IInv, InLine
    <2>3. pending # 0 => pending = typed
        BY DEF IInv, InLine
    <2> QED
        BY <1>1, <1>2, <2>1, <2>2, <2>3 DEF InLine
<1>10. Routed'
    <2>0. \A d \in 1..chats : d \in 1..chats'
        BY <1>3, <1>4
    <2>1. \A m \in Message : home'[m] # 0 => /\ m <= typed /\ m <= cmd.msg
                                            /\ ChatOf(home'[m]) \in 1..chats'
        <3> SUFFICES ASSUME NEW m \in Message, home'[m] # 0
                     PROVE  m <= typed /\ m <= cmd.msg /\ ChatOf(home'[m]) \in 1..chats'
            OBVIOUS
        <3>1. CASE m = cmd.msg
            BY <1>2, <1>3, <1>4, <1>5, <1>a, <3>1
        <3>2. CASE m # cmd.msg
            BY <1>2, <1>5, <2>0, <3>2 DEF IInv, Routed, Message
        <3> QED
            BY <3>1, <3>2
    <2>2. taken \subseteq {m \in Message : home'[m] # 0}
        BY <1>5 DEF IInv, Routed
    <2>3. c \in 1..chats'
        BY <1>3, <1>4
    <2> QED
        BY <1>1, <1>2, <1>4, <1>5, <1>6, <1>a, <2>1, <2>2, <2>3 DEF Routed
<1>13. Strays'
    <2>1. \A m \in Message : home'[m] \in strayed => m \in refused
        BY <1>5, <1>a DEF IInv, Strays
    <2>2. \A m \in Message : m \in refused /\ home'[m] # 0 =>
             home'[m] \in strayed /\ Alone(home', home'[m])
        <3> SUFFICES ASSUME NEW m \in Message, m \in refused, home'[m] # 0
                     PROVE  home'[m] \in strayed /\ Alone(home', home'[m])
            OBVIOUS
        <3>1. m # cmd.msg /\ home'[m] = home[m]
            BY <1>5
        <3>2. home[m] \in strayed /\ Alone(home, home[m])
            BY <3>1 DEF IInv, Strays
        <3> QED
            BY <1>5, <1>a, <3>1, <3>2 DEF Alone
    <2>3. \A n \in Message : home'[n] \notin ChatId \cup {0} =>
             /\ ChatOf(home'[n]) \in strayed
             /\ \A m \in Message : home'[m] = ChatOf(home'[n]) => m < n
        <3> SUFFICES ASSUME NEW n \in Message, home'[n] \notin ChatId \cup {0}
                     PROVE  /\ ChatOf(home'[n]) \in strayed
                            /\ \A m \in Message : home'[m] = ChatOf(home'[n]) => m < n
            OBVIOUS
        <3>1. CASE n = cmd.msg
            <4>1. a \notin ChatId /\ c \in strayed /\ c # a /\ c # 0
                BY <1>4, <1>5, <1>a, <3>1, Agents
            <4>2. \A m \in Message : home'[m] = c => m # cmd.msg /\ home[m] = c
                BY <1>5, <4>1
            <4> QED
                BY <1>2, <1>5, <1>a, <3>1, <4>1, <4>2
        <3>2. CASE n # cmd.msg
            <4>1. /\ home'[n] = home[n] /\ ChatOf(home[n]) \in strayed
                  /\ \A m \in Message : home[m] = ChatOf(home[n]) => m < n
                BY <1>5, <3>2 DEF IInv, Strays
            <4>2. home'[cmd.msg] # ChatOf(home[n])
                BY <1>5, <1>a, <4>1
            <4> QED
                BY <1>5, <4>1, <4>2
        <3> QED
            BY <3>1, <3>2
    <2>4. ~Settling'
        BY <1>2, <1>6 DEF Settling, Message
    <2>5. a \in ChatId \ held' => Alone(home', a)
        <3> SUFFICES ASSUME a \in ChatId, a \notin held' PROVE Alone(home', a)
            OBVIOUS
        <3>1. a = chats + 1
            <4>1. c = a
                BY <1>a, Agents
            <4> QED
                BY <1>1, <4>1
        <3>2. \A m \in Message : home[m] # a
            <4> SUFFICES ASSUME NEW m \in Message, home[m] = a PROVE FALSE
                OBVIOUS
            <4>1. ChatOf(a) \in 1..chats /\ ChatOf(a) = a
                BY <1>a, Agents DEF IInv, Routed
            <4> QED
                BY <1>3, <3>1, <4>1
        <3> QED
            BY <1>5, <3>2 DEF Alone
    <2> QED
        BY <1>1, <1>6, <1>a, <2>1, <2>2, <2>3, <2>4, <2>5 DEF Strays, Fresh
<1>11. InBox'
    <2> SUFFICES ASSUME NEW d \in AgentId
                 PROVE  /\ \A i, j \in 1..Len(mailbox[d]) : i < j => mailbox[d][i] < mailbox[d][j]
                        /\ \A i \in 1..Len(mailbox[d]) :
                            /\ mailbox[d][i] \in Message /\ home'[mailbox[d][i]] = d
                            /\ mailbox[d][i] # cmd.msg
                            /\ \A n \in taken : home'[n] = d => n < mailbox[d][i]
        BY <1>1, <1>6 DEF InBox
    <2>1. /\ \A i, j \in 1..Len(mailbox[d]) : i < j => mailbox[d][i] < mailbox[d][j]
          /\ \A i \in 1..Len(mailbox[d]) :
                /\ mailbox[d][i] \in Message /\ home[mailbox[d][i]] = d
                /\ \A n \in taken : home[n] = d => n < mailbox[d][i]
        BY DEF IInv, InBox
    <2>2. \A i \in 1..Len(mailbox[d]) : mailbox[d][i] # cmd.msg
        BY <1>5, <2>1, Agents
    <2>3. \A n \in taken : n \in Message /\ n # cmd.msg
        BY <1>5 DEF IInv, Routed
    <2> QED
        BY <1>5, <2>1, <2>2, <2>3
<1>12. Located'
    <2> SUFFICES ASSUME NEW m \in 1..typed PROVE Somewhere(m)'
        BY <1>1 DEF Located
    <2>1. m \in Message /\ Somewhere(m)
        BY <1>3 DEF IInv, Located, Message
    <2>2. CASE m = cmd.msg
        BY <1>6, <2>2 DEF Somewhere
    <2>3. CASE m # cmd.msg /\ \E i \in 1..Len(commands) : commands[i].msg = m
        <3>1. PICK i \in 1..Len(commands) : commands[i].msg = m
            BY <2>3
        <3>2. i - 1 \in 1..Len(commands') /\ commands'[i - 1].msg = m
            <4>1. i # 1 /\ i - 1 \in 1..Len(commands')
                BY <1>2, <2>3, <3>1
            <4>2. commands'[i - 1] = commands[(i - 1) + 1] /\ (i - 1) + 1 = i
                BY <1>2, <4>1
            <4> QED
                BY <3>1, <4>1, <4>2
        <3> QED
            BY <3>2 DEF Somewhere
    <2>4. CASE m # cmd.msg /\ ~ \E i \in 1..Len(commands) : commands[i].msg = m
        <3>1. home'[m] = home[m]
            BY <1>5, <2>1, <2>4
        <3>2. hand.msg # m
            BY <1>1, <1>3 DEF NoHand
        <3> QED
            BY <1>1, <2>1, <2>4, <3>1, <3>2 DEF Somewhere, TurnedDown
    <2> QED
        BY <2>2, <2>3, <2>4
<1> QED
    BY <1>7, <1>8, <1>9, <1>10, <1>11, <1>12, <1>13 DEF IInv

LEMMA RouteFailsKeeps == ASSUME IInv, RouteFails PROVE IInv'
<1> DEFINE m0 == Head(commands).msg
<1>1. /\ hand = NoHand /\ commands # <<>> /\ commands' = Tail(commands)
      /\ refused' = refused \cup {m0} /\ Publish(<<Ev(Nil, "error")>>)
      /\ UNCHANGED <<tui, pending, active, boxes, typed, taken, home>>
    BY DEF RouteFails, client, server, boxes
<1>2. /\ m0 \in 1..typed /\ m0 \in Message
      /\ commands[1].msg = m0 /\ 1 \in 1..Len(commands)
      /\ commands' \in Seq([active : Nat, msg : Nat])
      /\ \A i \in 1..Len(commands') : i + 1 \in 1..Len(commands) /\ commands'[i] = commands[i + 1]
      /\ \A i \in 1..Len(commands) : i = 1 \/ i - 1 \in 1..Len(commands')
      /\ \A i, j \in 1..Len(commands') : i < j => commands'[i].msg < commands'[j].msg
      /\ \A i \in 1..Len(commands') :
            /\ m0 < commands'[i].msg /\ commands'[i].msg \in 1..typed
            /\ pending # 0 => commands'[i].msg < pending
            /\ \A m \in Message : home[m] # 0 \/ m \in refused => m < commands'[i].msg
      /\ pending # 0 => m0 < pending
      /\ \A m \in Message : home[m] # 0 \/ m \in refused => m < m0
    BY <1>1, Behind
<1> HIDE DEF m0
<1>3. unread' \in Seq(Event)
    <2>1. <<Ev(Nil, "error")>> \in Seq(Event)
        BY EventTyped
    <2> QED
        BY <1>1, <2>1, PublishTyped DEF IInv, Typed
<1>4. Typed'
    BY <1>1, <1>2, <1>3 DEF IInv, Typed, boxes
<1>5. Chatty'
    BY <1>1, <1>2 DEF IInv, Chatty, boxes
<1>6. InLine'
    <2>1. \A i \in 1..Len(commands') :
             \A m \in Message : home[m] # 0 \/ m \in refused' => m < commands'[i].msg
        BY <1>1, <1>2
    <2>2. pending # 0 => pending = typed /\ \A m \in Message : home[m] # 0 \/ m \in refused' => m < pending
        BY <1>1, <1>2 DEF IInv, InLine
    <2> QED
        BY <1>1, <1>2, <2>1, <2>2 DEF InLine
<1>0. home[m0] = 0
    BY <1>2 DEF Message
<1>7. Routed' /\ Strays'
    <2>1. \A m \in Message : home'[m] = home[m] /\ (m \in refused' <=> m \in refused \/ m = m0)
        BY <1>1
    <2>2. \A m \in Message : m \in refused' /\ home[m] # 0 => m \in refused
        BY <1>0, <2>1
    <2>3. Routed'
        BY <1>1 DEF IInv, Routed, boxes
    <2>4. UNCHANGED <<home, hand, held, strayed>> /\ \A m \in refused : m \in refused'
        BY <1>1 DEF boxes
    <2> QED
        BY <2>2, <2>3, <2>4 DEF IInv, Strays, Alone, Settling, Fresh
<1>8. InBox'
    BY <1>1 DEF IInv, InBox, boxes
<1>9. Located'
    <2> SUFFICES ASSUME NEW m \in 1..typed PROVE Somewhere(m)'
        BY <1>1 DEF Located
    <2>1. Somewhere(m)
        BY DEF IInv, Located
    <2>2. CASE m = m0
        BY <1>0, <1>1, <2>2 DEF Somewhere, TurnedDown
    <2>3. CASE m # m0 /\ \E i \in 1..Len(commands) : commands[i].msg = m
        <3>1. PICK i \in 1..Len(commands) : commands[i].msg = m
            BY <2>3
        <3>2. i - 1 \in 1..Len(commands') /\ commands'[i - 1].msg = m
            <4>1. i # 1 /\ i - 1 \in 1..Len(commands')
                BY <1>2, <2>3, <3>1
            <4>2. commands'[i - 1] = commands[(i - 1) + 1] /\ (i - 1) + 1 = i
                BY <1>2, <4>1
            <4> QED
                BY <3>1, <4>1, <4>2
        <3> QED
            BY <3>2 DEF Somewhere
    <2>4. CASE m # m0 /\ ~ \E i \in 1..Len(commands) : commands[i].msg = m
        BY <1>1, <2>1, <2>4 DEF Somewhere, TurnedDown, boxes
    <2> QED
        BY <2>2, <2>3, <2>4
<1> QED
    BY <1>4, <1>5, <1>6, <1>7, <1>8, <1>9 DEF IInv

-----------------------------------------------------------------------------
(* Delivered: the daemon's hand holds the latest of what was routed.         *)
LEMMA DeliverKeeps == ASSUME IInv, Deliver PROVE IInv'
<1> DEFINE c == hand.to
           box == mailbox[c]
<1>1. /\ hand.msg # 0 /\ hand # NoHand
      /\ \/ hand' = NoHand
         \/ Fresh(c) /\ hand' = [hand EXCEPT !.msg = 0]
      /\ mailbox' = [mailbox EXCEPT ![c] = Append(box, hand.msg)]
      /\ UNCHANGED <<tui, active, unread, line, chats, held, strayed, taken, refused, home>>
    BY DEF Deliver, Deposit, client, bus, fate, line, NoHand
<1>2. /\ hand.msg \in Message /\ c \in AgentId /\ home[hand.msg] = c /\ hand.msg \notin taken
      /\ \A m \in Message : home[m] # 0 => m <= hand.msg
      /\ hand.msg \in Nat /\ c # 0 /\ ChatOf(c) \in 1..chats
    BY <1>1, Agents DEF IInv, Routed, Message
<1>b. hand' \in [msg : Nat, to : Nat] /\ hand'.msg = 0 /\ (hand' # NoHand => hand'.to = c /\ Fresh(c))
    BY <1>1 DEF IInv, Typed, NoHand
<1>3. box \in Seq(Nat) /\ mailbox \in [AgentId -> Seq(Nat)]
    BY <1>2 DEF IInv, Typed
<1> DEFINE new == mailbox'[c]
<1>4. /\ new = Append(box, hand.msg) /\ \A d \in AgentId : d # c => mailbox'[d] = mailbox[d]
      /\ mailbox' \in [AgentId -> Seq(Nat)]
    BY <1>1, <1>2, <1>3
<1> HIDE DEF box, c
<1>5. /\ Len(new) = Len(box) + 1 /\ Len(box) \in Nat /\ new[Len(new)] = hand.msg
      /\ \A i \in 1..Len(box) : i \in 1..Len(new) /\ new[i] = box[i]
      /\ \A i \in 1..Len(new) : i \in 1..Len(box) \/ i = Len(new)
      /\ Len(new) \in 1..Len(new)
    BY <1>2, <1>3, <1>4
<1> HIDE DEF new
<1>6. /\ \A i, j \in 1..Len(box) : i < j => box[i] < box[j]
      /\ \A i \in 1..Len(box) :
            /\ box[i] \in Message /\ home[box[i]] = c /\ box[i] < hand.msg
            /\ \A n \in taken : home[n] = c => n < box[i]
    <2>1. /\ \A i, j \in 1..Len(box) : i < j => box[i] < box[j]
          /\ \A i \in 1..Len(box) :
                /\ box[i] \in Message /\ home[box[i]] = c /\ box[i] # hand.msg
                /\ \A n \in taken : home[n] = c => n < box[i]
        BY <1>2 DEF IInv, InBox, box, c
    <2>2. \A i \in 1..Len(box) : box[i] <= hand.msg
        BY <1>2, <2>1
    <2> QED
        BY <1>2, <2>1, <2>2 DEF Message
<1>7. \A n \in taken : n \in Message /\ home[n] # 0 /\ n < hand.msg
    BY <1>2 DEF IInv, Routed, Message
<1>8. Typed' /\ Chatty' /\ InLine'
    BY <1>1, <1>4, <1>b DEF IInv, Typed, Chatty, InLine, line
<1>9. Routed'
    BY <1>1, <1>2, <1>b DEF IInv, Routed, line
<1>12. Strays'
    <2>1. Settling' => Fresh(c)
        BY <1>b DEF Settling, NoHand
    <2>2. hand' # NoHand /\ Fresh(c) => c \notin strayed /\ Alone(home, c)
        BY <1>1 DEF IInv, Strays, c
    <2> QED
        BY <1>1, <1>b, <2>1, <2>2 DEF IInv, Strays, Alone, Fresh, Settling, NoHand
<1>10. InBox'
    <2> SUFFICES ASSUME NEW d \in AgentId
                 PROVE  /\ \A i, j \in 1..Len(mailbox'[d]) : i < j => mailbox'[d][i] < mailbox'[d][j]
                        /\ \A i \in 1..Len(mailbox'[d]) :
                            /\ mailbox'[d][i] \in Message /\ home[mailbox'[d][i]] = d
                            /\ mailbox'[d][i] # 0
                            /\ \A n \in taken : home[n] = d => n < mailbox'[d][i]
        BY <1>1, <1>b DEF InBox
    <2>1. CASE d # c
        BY <1>4, <2>1 DEF IInv, InBox, Message
    <2>2. CASE d = c
        <3>1. \A i, j \in 1..Len(new) : i < j => new[i] < new[j]
            <4> SUFFICES ASSUME NEW i \in 1..Len(new), NEW j \in 1..Len(new), i < j
                         PROVE  new[i] < new[j]
                OBVIOUS
            <4>1. i \in 1..Len(box)
                BY <1>5
            <4>2. CASE j \in 1..Len(box)
                BY <1>5, <1>6, <4>1, <4>2
            <4>3. CASE j = Len(new)
                BY <1>5, <1>6, <4>1, <4>3
            <4> QED
                BY <1>5, <4>2, <4>3
        <3>2. \A i \in 1..Len(new) :
                 /\ new[i] \in Message /\ home[new[i]] = c /\ new[i] # 0
                 /\ \A n \in taken : home[n] = c => n < new[i]
            <4> SUFFICES ASSUME NEW i \in 1..Len(new)
                         PROVE  /\ new[i] \in Message /\ home[new[i]] = c /\ new[i] # 0
                                /\ \A n \in taken : home[n] = c => n < new[i]
                OBVIOUS
            <4>1. CASE i \in 1..Len(box)
                BY <1>5, <1>6, <4>1 DEF Message
            <4>2. CASE i = Len(new)
                BY <1>2, <1>5, <1>7, <4>2 DEF Message, c
            <4> QED
                BY <1>5, <4>1, <4>2
        <3> QED
            BY <2>2, <3>1, <3>2 DEF new
    <2> QED
        BY <2>1, <2>2
<1>11. Located'
    <2> SUFFICES ASSUME NEW m \in 1..typed PROVE Somewhere(m)'
        BY <1>1 DEF Located, line
    <2>1. Somewhere(m)
        BY DEF IInv, Located
    <2>2. CASE m = hand.msg
        <3>1. home'[m] = c /\ c # 0
            BY <1>1, <1>2, <2>2 DEF c
        <3>2. Len(new) \in 1..Len(mailbox'[c]) /\ mailbox'[c][Len(new)] = m
            BY <1>5, <2>2 DEF new
        <3> QED
            BY <3>1, <3>2 DEF Somewhere
    <2>3. CASE m # hand.msg /\ home[m] = c /\ home[m] # 0 /\ \E i \in 1..Len(mailbox[home[m]]) : mailbox[home[m]][i] = m
        <3>1. PICK i \in 1..Len(box) : box[i] = m
            BY <2>3 DEF box
        <3>2. i \in 1..Len(mailbox'[c]) /\ mailbox'[c][i] = m
            BY <1>5, <3>1 DEF new
        <3> QED
            BY <1>1, <2>3, <3>2 DEF Somewhere
    <2>4. CASE m # hand.msg /\ home[m] # c /\ home[m] # 0 /\ \E i \in 1..Len(mailbox[home[m]]) : mailbox[home[m]][i] = m
        <3>1. m \in Message /\ home[m] \in AgentId
            BY <2>4, Bounds DEF IInv, Typed, Message
        <3>2. mailbox'[home[m]] = mailbox[home[m]]
            BY <1>4, <2>4, <3>1
        <3> QED
            BY <1>1, <2>4, <3>2 DEF Somewhere
    <2>5. CASE pending = m \/ m \in taken \/ TurnedDown(m) \/ \E i \in 1..Len(commands) : commands[i].msg = m
        BY <1>1, <2>5 DEF Somewhere, TurnedDown, line
    <2> QED
        BY <2>1, <2>2, <2>3, <2>4, <2>5 DEF Somewhere
<1> QED
    BY <1>8, <1>9, <1>10, <1>11, <1>12 DEF IInv

(* The new chat's agent is kept, or let go of: the one message it has is       *)
(* reported as failed, in whatever state it is.                              *)
LEMMA SettleKeeps == ASSUME IInv, Settle PROVE IInv'
<1> DEFINE c == hand.to
<1>1. /\ hand # NoHand /\ hand.msg = 0 /\ hand' = NoHand /\ held' = held \cup {c} /\ Settling
      /\ UNCHANGED <<tui, active, unread, line, chats, strayed, mailbox, taken, refused, home>>
    BY DEF Settle, Settling, client, bus, fate, line, NoHand
<1>2. c \in 1..chats
    BY <1>1, Agents DEF IInv, Routed, Strays, Fresh
<1>3. hand' \in [msg : Nat, to : Nat] /\ hand'.msg = 0 /\ held' \subseteq 1..chats
    BY <1>1, <1>2 DEF NoHand, IInv, Typed
<1>4. Typed' /\ Chatty' /\ InLine' /\ Routed'
    BY <1>1, <1>3 DEF IInv, Typed, Chatty, InLine, Routed, line
<1>5. Strays'
    BY <1>1 DEF IInv, Strays, Alone, Settling, NoHand
<1>6. InBox' /\ Located'
    BY <1>1, <1>3 DEF IInv, InBox, Located, Somewhere, TurnedDown, line, Message
<1> QED
    BY <1>4, <1>5, <1>6 DEF IInv

LEMMA ForgetKeeps == ASSUME IInv, Forget PROVE IInv'
<1> DEFINE c == hand.to
<1>1. /\ hand # NoHand /\ hand.msg = 0 /\ hand' = NoHand /\ Settling
      /\ strayed' = strayed \cup {c} /\ refused' = refused \cup {m \in Message : home[m] = c}
      /\ Publish(<<Ev(Nil, "error")>>)
      /\ UNCHANGED <<tui, active, line, chats, held, mailbox, taken, home>>
    BY DEF Forget, Opener, Settling, client, line, NoHand
<1>2. c \in 1..chats /\ c # 0 /\ Alone(home, c)
    BY <1>1, Agents DEF IInv, Routed, Strays, Fresh
<1>3. hand' \in [msg : Nat, to : Nat] /\ hand'.msg = 0
    BY <1>1 DEF NoHand
<1>4. unread' \in Seq(Event)
    <2>1. <<Ev(Nil, "error")>> \in Seq(Event)
        BY EventTyped
    <2> QED
        BY <1>1, <2>1, PublishTyped DEF IInv, Typed
<1>5. \A m \in Message : m \in refused' => m \in refused \/ home[m] = c
    BY <1>1
<1>6. refused' \subseteq 1..typed
    <2>1. \A m \in Message : home[m] = c => m \in 1..typed
        BY <1>2, Bounds DEF IInv, Routed, Typed, Message
    <2> QED
        BY <1>1, <2>1 DEF IInv, Typed
<1>7. Typed'
    BY <1>1, <1>2, <1>3, <1>4, <1>6 DEF IInv, Typed, line
<1>8. Chatty' /\ Routed'
    BY <1>1, <1>3 DEF IInv, Chatty, Routed, line
<1>9. InLine'
    BY <1>1, <1>2, <1>5 DEF IInv, InLine, line
<1>10. Strays'
    <2>1. \A m \in Message : home[m] \in strayed' => m \in refused'
        BY <1>1 DEF IInv, Strays
    <2>2. \A m \in Message : m \in refused' /\ home[m] # 0 => home[m] \in strayed' /\ Alone(home, home[m])
        BY <1>1, <1>2, <1>5 DEF IInv, Strays
    <2>3. \A n \in Message : home[n] \notin ChatId \cup {0} =>
             /\ ChatOf(home[n]) \in strayed'
             /\ \A m \in Message : home[m] = ChatOf(home[n]) => m < n
        BY <1>1 DEF IInv, Strays
    <2> QED
        BY <1>1, <2>1, <2>2, <2>3 DEF Strays, Alone, Settling, NoHand
<1>11. InBox' /\ Located'
    BY <1>1, <1>3 DEF IInv, InBox, Located, Somewhere, TurnedDown, line, Message
<1> QED
    BY <1>7, <1>8, <1>9, <1>10, <1>11 DEF IInv

(* Taken up: the first in the mailbox.                                       *)
LEMMA BeginTurnKeeps == ASSUME IInv, NEW c \in AgentId, BeginTurn(c) PROVE IInv'
<1> DEFINE box == mailbox[c]
           first == Head(mailbox[c])
           new == mailbox'[c]
<1>1. /\ box # <<>> /\ taken' = taken \cup {first}
      /\ mailbox' = [mailbox EXCEPT ![c] = Tail(box)]
      /\ Publish(<<Ev(ChatOf(c), "message"), Ev(ChatOf(c), "started")>>)
      /\ UNCHANGED <<tui, active, line, hand, chats, held, strayed, refused, home>>
    BY DEF BeginTurn, client, line
<1>2. box \in Seq(Nat) /\ mailbox \in [AgentId -> Seq(Nat)]
    BY DEF IInv, Typed
<1>3. new = Tail(box) /\ \A d \in AgentId : d # c => mailbox'[d] = mailbox[d]
    BY <1>1, <1>2
<1>4. /\ first = box[1] /\ 1 \in 1..Len(box) /\ Len(new) = Len(box) - 1 /\ Len(box) \in Nat
      /\ new \in Seq(Nat) /\ \A i \in 1..Len(new) : new[i] = box[i + 1]
    BY <1>1, <1>2, <1>3
<1>5. mailbox' \in [AgentId -> Seq(Nat)]
    BY <1>1, <1>2, <1>3, <1>4
<1>6. /\ \A i, j \in 1..Len(box) : i < j => box[i] < box[j]
      /\ \A i \in 1..Len(box) :
            /\ box[i] \in Message /\ home[box[i]] = c /\ box[i] # hand.msg
            /\ \A n \in taken : home[n] = c => n < box[i]
    BY DEF IInv, InBox
<1> HIDE DEF box, new, first
<1>7. /\ \A i \in 1..Len(new) : i + 1 \in 1..Len(box) /\ 1 < i + 1
      /\ \A i \in 1..Len(box) : i = 1 \/ i - 1 \in 1..Len(new)
    BY <1>4
<1>8. /\ first \in Message /\ home[first] = c /\ c # 0 /\ first # hand.msg
      /\ first \in 1..typed
    <2>1. first \in Message /\ home[first] = c /\ c # 0 /\ first # hand.msg
        BY <1>4, <1>6, Agents
    <2>2. first <= typed
        BY <2>1 DEF IInv, Routed
    <2> QED
        BY <2>1, <2>2 DEF Message, IInv, Typed
<1>9. unread' \in Seq(Event)
    <2>1. <<Ev(ChatOf(c), "message"), Ev(ChatOf(c), "started")>> \in Seq(Event)
        BY EventTyped, Agents
    <2> QED
        BY <1>1, <2>1, PublishTyped DEF IInv, Typed
<1>10. Typed' /\ Chatty' /\ InLine'
    BY <1>1, <1>5, <1>8, <1>9 DEF IInv, Typed, Chatty, InLine, line
<1>11. Routed'
    BY <1>1, <1>8 DEF IInv, Routed, line
<1>14. Strays'
    BY <1>1 DEF IInv, Strays, Alone, Settling, Fresh
<1>12. InBox'
    <2> SUFFICES ASSUME NEW d \in AgentId
                 PROVE  /\ \A i, j \in 1..Len(mailbox'[d]) : i < j => mailbox'[d][i] < mailbox'[d][j]
                        /\ \A i \in 1..Len(mailbox'[d]) :
                            /\ mailbox'[d][i] \in Message /\ home[mailbox'[d][i]] = d
                            /\ mailbox'[d][i] # hand.msg
                            /\ \A n \in taken' : home[n] = d => n < mailbox'[d][i]
        <3>1. hand' = hand /\ home' = home
            BY <1>1
        <3> QED
            BY <3>1 DEF InBox
    <2>1. CASE d # c
        BY <1>1, <1>3, <1>8, <2>1 DEF IInv, InBox
    <2>2. CASE d = c
        <3>1. \A i, j \in 1..Len(new) : i < j => new[i] < new[j]
            <4> SUFFICES ASSUME NEW i \in 1..Len(new), NEW j \in 1..Len(new), i < j
                         PROVE  new[i] < new[j]
                OBVIOUS
            <4>1. i + 1 \in 1..Len(box) /\ j + 1 \in 1..Len(box) /\ i + 1 < j + 1
                BY <1>4, <1>7
            <4> QED
                BY <1>4, <1>6, <4>1
        <3>2. \A i \in 1..Len(new) :
                 /\ new[i] \in Message /\ home[new[i]] = c /\ new[i] # hand.msg
                 /\ \A n \in taken' : home[n] = c => n < new[i]
            <4> SUFFICES ASSUME NEW i \in 1..Len(new)
                         PROVE  /\ new[i] \in Message /\ home[new[i]] = c /\ new[i] # hand.msg
                                /\ \A n \in taken' : home[n] = c => n < new[i]
                OBVIOUS
            <4>1. i + 1 \in 1..Len(box) /\ 1 < i + 1 /\ new[i] = box[i + 1]
                BY <1>4, <1>7
            <4>2. first < new[i]
                BY <1>4, <1>6, <4>1
            <4> QED
                BY <1>1, <1>6, <4>1, <4>2
        <3> QED
            BY <2>2, <3>1, <3>2 DEF new
    <2> QED
        BY <2>1, <2>2
<1>13. Located'
    <2> SUFFICES ASSUME NEW m \in 1..typed PROVE Somewhere(m)'
        BY <1>1 DEF Located, line
    <2>1. Somewhere(m)
        BY DEF IInv, Located
    <2>2. CASE m = first
        BY <1>1, <2>2 DEF Somewhere
    <2>3. CASE m # first /\ home[m] = c /\ \E i \in 1..Len(mailbox[home[m]]) : mailbox[home[m]][i] = m
        <3>1. PICK i \in 1..Len(box) : box[i] = m
            BY <2>3 DEF box
        <3>2. i - 1 \in 1..Len(new) /\ new[i - 1] = m
            <4>1. i # 1 /\ i - 1 \in 1..Len(new)
                BY <1>4, <1>7, <2>3, <3>1
            <4>2. new[i - 1] = box[(i - 1) + 1] /\ (i - 1) + 1 = i
                BY <1>4, <4>1
            <4> QED
                BY <3>1, <4>1, <4>2
        <3> QED
            BY <1>1, <1>8, <2>3, <3>2 DEF Somewhere, new
    <2>4. CASE home[m] # c /\ home[m] # 0 /\ \E i \in 1..Len(mailbox[home[m]]) : mailbox[home[m]][i] = m
        <3>1. m \in Message /\ home[m] \in AgentId
            BY <2>4, Bounds DEF IInv, Typed, Message
        <3>2. mailbox'[home[m]] = mailbox[home[m]]
            BY <1>3, <2>4, <3>1
        <3> QED
            BY <1>1, <2>4, <3>2 DEF Somewhere
    <2>5. CASE pending = m \/ hand.msg = m \/ m \in taken \/ TurnedDown(m)
               \/ \E i \in 1..Len(commands) : commands[i].msg = m
        BY <1>1, <2>5 DEF Somewhere, TurnedDown, line
    <2> QED
        BY <2>1, <2>2, <2>3, <2>4, <2>5 DEF Somewhere
<1> QED
    BY <1>10, <1>11, <1>12, <1>13, <1>14 DEF IInv

-----------------------------------------------------------------------------
LEMMA Preserved == IInv /\ [Next]_vars => IInv'
<1> SUFFICES ASSUME IInv, [Next]_vars PROVE IInv'
    OBVIOUS
<1>1. CASE UNCHANGED vars
    BY <1>1, Unaffected DEF vars, client, bus, server, fate, line, boxes, IInv, Typed
<1>2. CASE User \/ Client \/ Daemon
    BY <1>2, TypeKeeps, ScreenKeeps, SubmitKeeps, RouteKeeps, RouteFailsKeeps, DeliverKeeps,
           SettleKeeps, ForgetKeeps
       DEF User, Client, Daemon
<1>3. ASSUME NEW c \in AgentId, Agent(c) PROVE IInv'
    BY <1>3, BeginTurnKeeps, AnswerKeeps DEF Agent
<1> QED
    BY <1>1, <1>2, <1>3 DEF Next

(* Where every message is and what was routed before what, in every reachable *)
(* state.                                                                    *)
THEOREM Invariance == Spec => []IInv
BY Initially, Preserved, PTL DEF Spec

(* Counting to one.                                                          *)
LEMMA OneOrNone ==
    ASSUME NEW S, \A i, j \in S : i = j
    PROVE  (S # {} => Cardinality(S) = 1) /\ (S = {} => Cardinality(S) = 0)
<1>1. ASSUME S # {} PROVE Cardinality(S) = 1
    <2>1. PICK i \in S : TRUE
        BY <1>1
    <2>2. S = {i}
        BY <2>1
    <2> QED
        BY <2>2, FS_Singleton
<1>2. ASSUME S = {} PROVE Cardinality(S) = 0
    BY <1>2, FS_EmptySet
<1> QED
    BY <1>1, <1>2

(* The same without counting: where a message is, and that it is nowhere else. *)
InCommands(m) == \E i \in 1..Len(commands) : commands[i].msg = m
InMailbox(m) == home[m] # 0 /\ \E i \in 1..Len(mailbox[home[m]]) : mailbox[home[m]][i] = m

LEMMA OnePlace ==
    ASSUME IInv, NEW m \in 1..typed
    PROVE  /\ m \in Message /\ m # 0
           /\ pending = m \/ hand.msg = m \/ InCommands(m) \/ InMailbox(m) \/ m \in taken \/ TurnedDown(m)
           /\ pending = m => ~(hand.msg = m \/ InCommands(m) \/ InMailbox(m) \/ m \in taken \/ TurnedDown(m))
           /\ InCommands(m) => ~(hand.msg = m \/ InMailbox(m) \/ m \in taken \/ TurnedDown(m))
           /\ hand.msg = m => ~(InMailbox(m) \/ m \in taken \/ TurnedDown(m))
           /\ InMailbox(m) => ~(m \in taken \/ TurnedDown(m))
           /\ m \in taken => ~TurnedDown(m)
<1>1. m \in Message /\ m # 0 /\ m \in Nat
    BY Bounds DEF IInv, Typed, Message
<1>2. pending = m \/ hand.msg = m \/ InCommands(m) \/ InMailbox(m) \/ m \in taken \/ TurnedDown(m)
    BY DEF IInv, Located, Somewhere, InCommands, InMailbox
<1>3. hand.msg = m => home[m] # 0 /\ m \notin taken /\ ~InMailbox(m)
    <2> SUFFICES ASSUME hand.msg = m PROVE home[m] # 0 /\ m \notin taken /\ ~InMailbox(m)
        OBVIOUS
    <2>1. hand.msg # 0 /\ hand # NoHand
        BY <1>1 DEF NoHand
    <2>2. home[m] # 0 /\ m \notin taken /\ home[m] \in AgentId
        BY <2>1, Agents DEF IInv, Routed
    <2> QED
        BY <2>2 DEF IInv, InBox, InMailbox
<1>4. m \in taken => home[m] # 0
    BY DEF IInv, Routed
<1>5. home[m] # 0 => ~TurnedDown(m)
    BY DEF TurnedDown
<1>6. InCommands(m) => home[m] = 0 /\ m \notin refused /\ pending # m
    <2> SUFFICES ASSUME InCommands(m) PROVE home[m] = 0 /\ m \notin refused /\ pending # m
        OBVIOUS
    <2>1. PICK i \in 1..Len(commands) : commands[i].msg = m
        BY DEF InCommands
    <2>2. /\ pending # 0 => m < pending
          /\ home[m] # 0 \/ m \in refused => m < m
        BY <1>1, <2>1 DEF IInv, InLine
    <2> QED
        BY <1>1, <2>2
<1>7. pending = m => home[m] = 0 /\ m \notin refused
    BY <1>1 DEF IInv, InLine
<1>8. InMailbox(m) => home[m] # 0 /\ m \notin taken
    <2> SUFFICES ASSUME InMailbox(m) PROVE m \notin taken
        BY DEF InMailbox
    <2>1. home[m] \in AgentId
        BY <1>1 DEF IInv, Typed, InMailbox
    <2>2. PICK i \in 1..Len(mailbox[home[m]]) : mailbox[home[m]][i] = m
        BY DEF InMailbox
    <2>3. m \in taken => m < m
        BY <2>1, <2>2 DEF IInv, InBox
    <2> QED
        BY <1>1, <2>3
<1> QED
    BY <1>1, <1>2, <1>3, <1>4, <1>5, <1>6, <1>7, <1>8 DEF TurnedDown

(* Of two messages of a chat with agents of their own, the first was reported  *)
(* as failed.                                                                *)
LEMMA OneAgent ==
    ASSUME IInv, NEW m \in Message, NEW n \in Message, m < n,
           home[m] # 0, home[n] # 0, ChatOf(home[m]) = ChatOf(home[n]), m \notin refused
    PROVE  home[m] = home[n]
<1>0. home[m] \in AgentId /\ home[n] \in AgentId
    BY DEF IInv, Typed
<1>1. CASE home[m] \in ChatId /\ home[n] \in ChatId
    BY <1>1, Agents
<1>2. CASE home[m] \notin ChatId /\ home[n] \notin ChatId
    BY <1>0, <1>2, Agents
<1>3. CASE home[m] \in ChatId /\ home[n] \notin ChatId
    <2>1. home[m] \in strayed
        BY <1>0, <1>3, Agents DEF IInv, Strays
    <2> QED
        BY <2>1 DEF IInv, Strays
<1>4. CASE home[m] \notin ChatId /\ home[n] \in ChatId
    <2>1. n < m
        BY <1>0, <1>4, Agents DEF IInv, Strays
    <2> QED
        BY <2>1 DEF Message
<1> QED
    BY <1>1, <1>2, <1>3, <1>4

(* Nothing typed is lost or delivered twice, a chat's messages are taken up    *)
(* in their order, and an error for a message that has an agent is that of    *)
(* the message that opened the chat.                                         *)
THEOREM TypedIsDelivered == Spec => []DeliveredOnceInOrder
<1>1. IInv => NothingLostOrTwice
    <2> SUFFICES ASSUME IInv, NEW m \in 1..typed PROVE Places(m) = 1
        BY DEF NothingLostOrTwice
    <2>1. commands \in Seq([active : Nat, msg : Nat]) /\ Len(commands) \in Nat
          /\ DOMAIN commands = 1..Len(commands)
        BY DEF IInv, Typed
    <2> DEFINE C == Cardinality({i \in DOMAIN commands : commands[i].msg = m})
               B == IF home[m] = 0 THEN 0 ELSE Occurrences(mailbox[home[m]], m)
    <2>2. (InCommands(m) => C = 1) /\ (~InCommands(m) => C = 0)
        <3> DEFINE S == {i \in DOMAIN commands : commands[i].msg = m}
        <3>1. \A i, j \in S : i = j
            <4> SUFFICES ASSUME NEW i \in S, NEW j \in S PROVE i = j
                OBVIOUS
            <4>1. i \in 1..Len(commands) /\ j \in 1..Len(commands)
                BY <2>1
            <4>2. /\ i < j => commands[i].msg < commands[j].msg
                  /\ j < i => commands[j].msg < commands[i].msg
                BY <4>1 DEF IInv, InLine
            <4>3. commands[i].msg = m /\ commands[j].msg = m /\ m \in Nat
                BY OnePlace DEF Message
            <4>4. ~(i < j) /\ ~(j < i)
                BY <4>2, <4>3
            <4> QED
                BY <2>1, <4>1, <4>4
        <3>2. InCommands(m) <=> S # {}
            BY <2>1 DEF InCommands
        <3>3. C = Cardinality(S)
            OBVIOUS
        <3> HIDE DEF S, C
        <3> QED
            BY <3>1, <3>2, <3>3, OneOrNone
    <2>3. (InMailbox(m) => B = 1) /\ (~InMailbox(m) => B = 0)
        <3>1. CASE home[m] = 0
            BY <3>1 DEF InMailbox
        <3>2. CASE home[m] # 0
            <4> DEFINE box == mailbox[home[m]]
            <4>1. home[m] \in AgentId
                BY <3>2, OnePlace DEF IInv, Typed
            <4>2. box \in Seq(Nat) /\ Len(box) \in Nat /\ DOMAIN box = 1..Len(box)
                BY <4>1 DEF IInv, Typed
            <4> DEFINE S == {i \in DOMAIN box : box[i] = m}
            <4>3. \A i, j \in S : i = j
                <5> SUFFICES ASSUME NEW i \in S, NEW j \in S PROVE i = j
                    OBVIOUS
                <5>1. i \in 1..Len(box) /\ j \in 1..Len(box) /\ box[i] = m /\ box[j] = m
                    BY <4>2
                <5>2. (i < j => box[i] < box[j]) /\ (j < i => box[j] < box[i])
                    BY <4>1, <5>1 DEF IInv, InBox
                <5>3. m \in Nat
                    BY OnePlace DEF Message
                <5> HIDE DEF box, S
                <5>4. ~(i < j) /\ ~(j < i)
                    BY <5>1, <5>2, <5>3
                <5> QED
                    BY <4>2, <5>1, <5>4
            <4>4. InMailbox(m) <=> S # {}
                BY <3>2, <4>2 DEF InMailbox
            <4>5. B = Cardinality(S)
                BY <3>2 DEF Occurrences
            <4> HIDE DEF box, B, S
            <4> QED
                BY <4>3, <4>4, <4>5, OneOrNone
        <3> QED
            BY <3>1, <3>2
    <2>4. Places(m) = (IF pending = m THEN 1 ELSE 0) + (IF hand.msg = m THEN 1 ELSE 0) + C + B
                        + (IF m \in taken THEN 1 ELSE 0) + (IF TurnedDown(m) THEN 1 ELSE 0)
        BY DEF Places, HasHome, TurnedDown
    <2> HIDE DEF B, C
    <2> QED
        BY <2>2, <2>3, <2>4, OnePlace
<1>2. IInv => TakenInOrder
    <2> SUFFICES ASSUME IInv, NEW m \in Message, NEW n \in Message, m < n,
                        home[m] # 0, home[n] # 0, ChatOf(home[m]) = ChatOf(home[n]), n \in taken,
                        m \notin refused
                 PROVE  m \in taken
        BY DEF TakenInOrder, SameChat, HasHome
    <2>0. home[m] = home[n]
        BY OneAgent
    <2>1. m \in 1..typed /\ ~TurnedDown(m)
        BY DEF IInv, Routed, Message, Typed, TurnedDown
    <2>2. ~(pending = m) /\ ~InCommands(m)
        <3>1. InCommands(m) => m < m
            BY DEF IInv, InLine, InCommands
        <3>2. pending = m => m < m
            BY <2>1 DEF IInv, InLine
        <3> QED
            BY <2>1, <3>1, <3>2 DEF Message
    <2>3. hand.msg # m
        <3>1. hand.msg = m => n <= m
            BY <2>1 DEF IInv, Routed
        <3> QED
            BY <3>1 DEF Message
    <2>4. ~InMailbox(m)
        <3>1. home[m] \in AgentId
            BY DEF IInv, Typed
        <3>2. InMailbox(m) => n < m
            BY <2>0, <3>1 DEF IInv, InBox, InMailbox
        <3> QED
            BY <3>2 DEF Message
    <2> QED
        BY <2>1, <2>2, <2>3, <2>4, OnePlace
<1>3. IInv => OnlyOpenersMisreported
    <2> SUFFICES ASSUME IInv, NEW m \in Message, NEW n \in Message, m \in refused,
                        home[m] # 0, home[n] # 0, ChatOf(home[m]) = ChatOf(home[n]), ~(m <= n)
                 PROVE  FALSE
        BY DEF OnlyOpenersMisreported, SameChat, HasHome
    <2>1. home[m] \in strayed /\ Alone(home, home[m])
        BY DEF IInv, Strays
    <2>2. home[m] \in ChatId /\ m # n
        <3>1. strayed \subseteq 1..chats /\ chats \in 0..MaxChats
            BY DEF IInv, Typed
        <3>2. \A d \in strayed : d \in ChatId
            BY <3>1, Bounds DEF ChatId
        <3> QED
            BY <2>1, <3>2 DEF Message
    <2>3. home[n] # home[m]
        BY <2>1, <2>2 DEF Alone
    <2>4. home[n] \notin ChatId /\ ChatOf(home[n]) = home[m]
        BY <2>2, <2>3, Agents
    <2>5. m < n
        BY <2>4 DEF IInv, Strays
    <2> QED
        BY <2>5 DEF Message
<1> QED
    BY <1>1, <1>2, <1>3, Invariance, PTL DEF DeliveredOnceInOrder

-----------------------------------------------------------------------------
(* Types *)

Command == [active : ChatId \cup {None, Nil}, msg : Message]

LEMMA RingFits ==
    ASSUME NEW s \in Seq(Event), NEW lag \in BOOLEAN, unread \in Seq(Event), lagged \in BOOLEAN,
           Publish(s)
    PROVE  unread' \in Seq(Event) /\ Len(unread') <= RingCap /\ lagged' \in BOOLEAN
<1> DEFINE u == unread \o s
           l == Len(u) - RingCap + 1
<1>1. u \in Seq(Event) /\ Len(u) \in Nat
    OBVIOUS
<1>2. lagged' \in BOOLEAN
    BY DEF Publish
<1>3. CASE Len(u) <= RingCap
    BY <1>1, <1>2, <1>3 DEF Publish, Ring
<1>4. CASE ~(Len(u) <= RingCap)
    <2>1. unread' = SubSeq(u, l, Len(u))
        BY <1>4 DEF Publish, Ring
    <2>2. l \in 1..(Len(u) + 1) /\ Len(u) - l + 1 = RingCap
        BY <1>1, <1>4, Bounds
    <2> HIDE DEF u, l
    <2>3. SubSeq(u, l, Len(u)) \in Seq(Event) /\ Len(SubSeq(u, l, Len(u))) = Len(u) - l + 1
        BY <1>1, <2>2, SubSeqProperties
    <2> QED
        BY <1>2, <2>1, <2>2, <2>3, Bounds
<1> QED
    BY <1>3, <1>4

ScreenTyped ==
    /\ tui \in {"poll", "submit", "drain"} /\ (tui = "submit") = (pending # 0)
    /\ pending \in 0..MaxMessages /\ active \in ChatId \cup {None, Nil}
    /\ {busy, lagged, hasty} \subseteq BOOLEAN
WireTyped ==
    /\ commands \in Seq(Command) /\ Len(commands) <= CommandsCap
    /\ unread \in Seq(Event) /\ Len(unread) <= RingCap
ServerTyped ==
    /\ hand \in [msg : 0..MaxMessages, to : AgentId \cup {0}]
    /\ chats \in OldChats..MaxChats /\ {held, strayed} \subseteq SUBSET (1..chats)
    /\ mailbox \in [AgentId -> Seq(Message)]
    /\ \A a \in AgentId : Len(mailbox[a]) <= MailboxCap
    /\ turn \in [AgentId -> 0..MaxMessages]
FateTyped ==
    /\ typed \in 0..MaxMessages /\ taken \subseteq 1..typed /\ refused \subseteq 1..typed
    /\ home \in [Message -> AgentId \cup {0}]
MeantTyped ==
    /\ convs \in 1..(MaxNews + 1) /\ aim \in 1..convs
    /\ convOf \in [Message -> 0..convs] /\ convOfChat \in [ChatId -> 0..convs]
    /\ loads \in 0..MaxLoads /\ errors \in 0..MaxErrors

LEMMA TypeOKParts ==
    TypeOK <=> ScreenTyped /\ WireTyped /\ ServerTyped /\ FateTyped /\ MeantTyped
BY DEF TypeOK, Command, ScreenTyped, WireTyped, ServerTyped, FateTyped, MeantTyped

(* Every chat and every message belongs to a conversation.                   *)
Named ==
    /\ \A c \in 1..chats : convOfChat[c] # 0
    /\ \A m \in 1..typed : convOf[m] # 0
TypeInv == TypeOK /\ Named

LEMMA AllBounds ==
    /\ MaxMessages \in Nat /\ MaxChats \in Nat /\ MaxNews \in Nat
    /\ MaxLoads \in Nat /\ MaxErrors \in Nat
    /\ CommandsCap \in Nat \ {0} /\ MailboxCap \in Nat \ {0} /\ RingCap \in Nat \ {0, 1}
    /\ OldChats \in {0, 1} /\ OldChats + MaxMessages <= MaxChats
BY SessionAssumption

LEMMA TypesAtFirst == Init => TypeOK
<1> SUFFICES ASSUME Init PROVE TypeOK
    OBVIOUS
<1>1. ScreenTyped
    <2>1. OldChats \in ChatId \cup {None, Nil}
        BY AllBounds DEF ChatId, None
    <2>2. (tui = "submit") = (pending # 0) /\ pending \in 0..MaxMessages
        BY AllBounds DEF Init
    <2> QED
        BY <2>1, <2>2 DEF Init, ScreenTyped
<1>2. WireTyped
    BY AllBounds DEF Init, WireTyped
<1>3. ServerTyped
    BY AllBounds DEF Init, ServerTyped, NoHand
<1>4. FateTyped
    BY AllBounds DEF Init, FateTyped
<1>5. MeantTyped
    <2>1. \A c \in ChatId : (IF c <= OldChats THEN c ELSE 0) \in 0..1
        BY AllBounds DEF ChatId
    <2>2. convOfChat \in [ChatId -> 0..1] /\ convOf \in [Message -> 0..1]
        BY <2>1 DEF Init
    <2> QED
        BY <2>2, AllBounds DEF Init, MeantTyped
<1> QED
    BY <1>1, <1>2, <1>3, <1>4, <1>5, TypeOKParts

LEMMA TypesKept == IInv /\ IInv' /\ TypeInv /\ [Next]_vars => TypeOK'
<1> SUFFICES ASSUME IInv, IInv', TypeOK, Named, [Next]_vars PROVE TypeOK'
    BY DEF TypeInv
<1> USE AllBounds
<1>0. ScreenTyped /\ WireTyped /\ ServerTyped /\ FateTyped /\ MeantTyped
    BY TypeOKParts
<1>a. ASSUME ScreenTyped', WireTyped', ServerTyped', FateTyped', MeantTyped' PROVE TypeOK'
    BY <1>a DEF TypeOK, Command, ScreenTyped, WireTyped, ServerTyped, FateTyped, MeantTyped
<1>1. CASE UNCHANGED vars
    BY <1>1 DEF TypeOK, vars, client, bus, server, fate, meant, bounds
<1>2. CASE Type
    <2>1. ScreenTyped'
        BY <1>0, <1>2 DEF Type, Key, ScreenTyped, FateTyped, bus
    <2>2. WireTyped' /\ ServerTyped'
        BY <1>0, <1>2 DEF Type, WireTyped, ServerTyped, bus, server
    <2>3. FateTyped'
        BY <1>0, <1>2 DEF Type, FateTyped, fate
    <2>4. MeantTyped'
        <3>1. aim \in 0..convs /\ convOf \in [Message -> 0..convs]
            BY <1>0 DEF MeantTyped
        <3>2. convOf' = [convOf EXCEPT ![typed + 1] = aim]
            BY <1>2 DEF Type
        <3>3. convOf' \in [Message -> 0..convs]
            BY <3>1, <3>2
        <3> QED
            BY <1>0, <1>2, <3>3 DEF Type, MeantTyped, bounds
    <2> QED
        BY <2>1, <2>2, <2>3, <2>4, <1>a
<1>3. CASE New
    <2>1. ScreenTyped'
        BY <1>0, <1>3 DEF New, Key, ResetActive, ScreenTyped, bus
    <2>2. WireTyped' /\ ServerTyped' /\ FateTyped'
        BY <1>0, <1>3 DEF New, WireTyped, ServerTyped, FateTyped, bus, server, fate
    <2>3. MeantTyped'
        <3>1. convs' \in 1..(MaxNews + 1) /\ 0..convs \subseteq 0..convs'
            BY <1>0, <1>3 DEF New, MeantTyped
        <3>2. convOf' \in [Message -> 0..convs'] /\ convOfChat' \in [ChatId -> 0..convs']
            BY <1>0, <1>3, <3>1 DEF New, MeantTyped
        <3> QED
            BY <1>0, <1>3, <3>1, <3>2 DEF New, MeantTyped, bounds
    <2> QED
        BY <2>1, <2>2, <2>3, <1>a
<1>4. ASSUME NEW c \in ChatId, Load(c) PROVE TypeOK'
    <2>1. ScreenTyped'
        BY <1>0, <1>4 DEF Load, Key, ScreenTyped, bus
    <2>2. WireTyped' /\ ServerTyped' /\ FateTyped'
        BY <1>0, <1>4 DEF Load, WireTyped, ServerTyped, FateTyped, bus, server, fate
    <2>3. MeantTyped'
        <3>1. c \in 1..chats /\ convOfChat[c] \in 0..convs /\ convs \in Nat
            BY <1>0, <1>4 DEF Load, ChatId, MeantTyped, ServerTyped
        <3>2. convOfChat[c] \in 1..convs
            BY <3>1 DEF Named
        <3> QED
            BY <1>0, <1>4, <3>2 DEF Load, MeantTyped
    <2> QED
        BY <2>1, <2>2, <2>3, <1>a
<1>5. CASE Tick \/ DrainEnds
    <2>1. ScreenTyped'
        BY <1>0, <1>5 DEF Tick, DrainEnds, ScreenTyped, bus, meant
    <2>2. WireTyped' /\ ServerTyped' /\ FateTyped' /\ MeantTyped'
        BY <1>0, <1>5 DEF Tick, DrainEnds, WireTyped, ServerTyped, FateTyped, MeantTyped, bus, server, fate, meant, bounds
    <2> QED
        BY <2>1, <2>2, <1>a
<1>6. CASE Submit
    <2>1. ScreenTyped'
        BY <1>0, <1>6 DEF Submit, ScreenTyped, meant
    <2>2. WireTyped'
        <3>1. [active |-> active, msg |-> pending] \in Command
            BY <1>0, <1>6 DEF Submit, ScreenTyped, Command, Message
        <3> QED
            BY <1>0, <1>6, <3>1 DEF Submit, WireTyped
    <2>3. ServerTyped' /\ FateTyped' /\ MeantTyped'
        BY <1>0, <1>6 DEF Submit, ServerTyped, FateTyped, MeantTyped, server, fate, meant, bounds
    <2> QED
        BY <2>1, <2>2, <2>3, <1>a
<1>7. CASE Handle
    <2>1. Head(unread) \in Event /\ Tail(unread) \in Seq(Event) /\ Len(Tail(unread)) <= RingCap
        BY <1>0, <1>7 DEF Handle, WireTyped
    <2>2. ScreenTyped'
        BY <1>0, <1>7, <2>1 DEF Handle, BusyAfter, ScreenTyped, Event, meant
    <2>3. WireTyped'
        BY <1>0, <1>7, <2>1 DEF Handle, WireTyped
    <2>4. ServerTyped' /\ FateTyped' /\ MeantTyped'
        BY <1>0, <1>7 DEF Handle, ServerTyped, FateTyped, MeantTyped, server, fate, meant, bounds
    <2> QED
        BY <2>2, <2>3, <2>4, <1>a
<1>8. CASE Route
    <2> DEFINE cmd == Head(commands)
               c == IF Known(cmd.active) THEN cmd.active ELSE chats + 1
               a == IF c \in strayed THEN Second(c) ELSE c
    <2>1. cmd \in Command /\ Tail(commands) \in Seq(Command) /\ Len(Tail(commands)) <= CommandsCap
        BY <1>0, <1>8 DEF Route, WireTyped
    <2>2. cmd.msg \in 1..typed /\ cmd.msg \in Message /\ cmd.msg \in 0..MaxMessages
        <3>1. cmd = commands[1] /\ 1 \in 1..Len(commands) /\ commands[1].msg \in 1..typed
            BY <1>0, <1>8 DEF Route, WireTyped, IInv, InLine
        <3> QED
            BY <1>0, <3>1 DEF FateTyped, Message
    <2> HIDE DEF cmd
    <2>3. chats' \in OldChats..MaxChats /\ chats <= chats' /\ c \in 1..chats' /\ c \in ChatId
        <3>1. chats' \in 0..MaxChats
            BY DEF IInv, Typed
        <3>2. CASE Known(cmd.active)
            <4>1. c \in 1..chats
                BY <1>0, <3>2 DEF Known, ServerTyped
            <4>2. chats' = chats
                BY <1>0, <1>8, <4>1 DEF Route, ServerTyped, cmd
            <4> QED
                BY <1>0, <4>1, <4>2 DEF ServerTyped, ChatId
        <3>3. CASE ~Known(cmd.active)
            <4>1. c = chats + 1
                BY <3>3
            <4>2. chats' = c
                BY <1>8, <4>1 DEF Route, cmd
            <4> QED
                BY <1>0, <3>1, <4>1, <4>2 DEF ServerTyped, ChatId
        <3> QED
            BY <3>2, <3>3
    <2>4. /\ commands' = Tail(commands) /\ hand' = [msg |-> cmd.msg, to |-> a]
          /\ home' = [home EXCEPT ![cmd.msg] = a] /\ held' \in {held, held \cup {c}}
          /\ \/ convOfChat' = [convOfChat EXCEPT ![c] = convOf[cmd.msg]]
             \/ convOfChat' = convOfChat
          /\ UNCHANGED <<client, unread, lagged, strayed, mailbox, turn, typed, taken, refused,
                         aim, convs, convOf, hasty, bounds>>
        BY <1>8 DEF Route, cmd
    <2>a. a \in AgentId
        BY <2>3, Agents
    <2> HIDE DEF c, a
    <2>5. ScreenTyped'
        BY <1>0, <2>4 DEF ScreenTyped, client
    <2>6. WireTyped'
        BY <1>0, <2>1, <2>4 DEF WireTyped
    <2>7. ServerTyped'
        <3>1. hand' \in [msg : 0..MaxMessages, to : AgentId \cup {0}]
            BY <2>2, <2>a, <2>4
        <3>2. held' \subseteq 1..chats' /\ strayed' \subseteq 1..chats'
            <4>1. chats \in Nat /\ chats' \in Nat /\ held \subseteq 1..chats /\ strayed \subseteq 1..chats
                BY <1>0, <2>3 DEF ServerTyped
            <4>2. 1..chats \subseteq 1..chats'
                BY <2>3, <4>1
            <4> QED
                BY <2>3, <2>4, <4>1, <4>2
        <3> QED
            BY <1>0, <2>3, <2>4, <3>1, <3>2 DEF ServerTyped
    <2>8. FateTyped'
        BY <1>0, <2>a, <2>4 DEF FateTyped
    <2>9. MeantTyped'
        <3>1. convOf[cmd.msg] \in 0..convs
            BY <1>0, <2>2 DEF MeantTyped
        <3>2. convOfChat' \in [ChatId -> 0..convs]
            BY <1>0, <2>4, <3>1 DEF MeantTyped
        <3> QED
            BY <1>0, <2>4, <3>2 DEF MeantTyped, bounds
    <2> QED
        BY <2>5, <2>6, <2>7, <2>8, <2>9, <1>a
<1>9. CASE RouteFails
    <2>1. ScreenTyped' /\ WireTyped'
        <3>1. Nil \in ChatId \cup {Nil}
            OBVIOUS
        <3>2. Ev(Nil, "error") \in Event
            BY <3>1, EventTyped
        <3>3. <<Ev(Nil, "error")>> \in Seq(Event)
            BY <3>2
        <3>4. lagged \in BOOLEAN /\ unread \in Seq(Event)
            BY <1>0 DEF ScreenTyped, WireTyped
        <3>5. Publish(<<Ev(Nil, "error")>>)
            BY <1>9 DEF RouteFails
        <3>6. unread' \in Seq(Event) /\ Len(unread') <= RingCap /\ lagged' \in BOOLEAN
            BY <3>3, <3>4, <3>5, RingFits
        <3>7. commands' \in Seq(Command) /\ Len(commands') <= CommandsCap
            BY <1>0, <1>9 DEF RouteFails, WireTyped
        <3> QED
            BY <1>0, <1>9, <3>6, <3>7 DEF RouteFails, ScreenTyped, WireTyped, client, meant
    <2>2. ServerTyped' /\ MeantTyped'
        BY <1>0, <1>9 DEF RouteFails, ServerTyped, MeantTyped, server, meant
    <2>3. FateTyped'
        BY <1>0, <1>9 DEF RouteFails, FateTyped, IInv, Typed
    <2> QED
        BY <2>1, <2>2, <2>3, <1>a
<1>10. CASE Deliver
    <2>1. ServerTyped'
        <3> DEFINE c == hand.to
        <3>1. /\ c \in AgentId /\ hand.msg \in Message /\ Len(mailbox[c]) < MailboxCap
              /\ mailbox' = [mailbox EXCEPT ![c] = Append(@, hand.msg)]
              /\ hand' = NoHand \/ hand' = [hand EXCEPT !.msg = 0]
            BY <1>10 DEF Deliver, HasRoom, Deposit, IInv, Routed, NoHand
        <3>5. hand' \in [msg : 0..MaxMessages, to : AgentId \cup {0}]
            <4>1. hand \in [msg : 0..MaxMessages, to : AgentId \cup {0}] /\ 0 \in 0..MaxMessages
                BY <1>0 DEF ServerTyped
            <4>2. NoHand \in [msg : 0..MaxMessages, to : AgentId \cup {0}]
                BY <4>1 DEF NoHand
            <4>3. [hand EXCEPT !.msg = 0] \in [msg : 0..MaxMessages, to : AgentId \cup {0}]
                BY <4>1
            <4> QED
                BY <3>1, <4>2, <4>3
        <3> HIDE DEF c
        <3>2. mailbox[c] \in Seq(Message) /\ mailbox \in [AgentId -> Seq(Message)]
            BY <1>0, <3>1 DEF ServerTyped
        <3>3. /\ Append(mailbox[c], hand.msg) \in Seq(Message)
              /\ Len(Append(mailbox[c], hand.msg)) <= MailboxCap
            BY <3>1, <3>2
        <3>4. /\ mailbox' \in [AgentId -> Seq(Message)]
              /\ \A d \in AgentId : Len(mailbox'[d]) <= MailboxCap
            BY <1>0, <3>1, <3>2, <3>3 DEF ServerTyped
        <3> QED
            BY <1>0, <1>10, <3>4, <3>5 DEF Deliver, ServerTyped
    <2>2. ScreenTyped' /\ WireTyped' /\ FateTyped' /\ MeantTyped'
        BY <1>0, <1>10 DEF Deliver, ScreenTyped, WireTyped, FateTyped, MeantTyped, client, bus, fate, meant, bounds
    <2> QED
        BY <2>1, <2>2, <1>a
<1>11. CASE Settle
    <2>1. ServerTyped'
        <3>1. hand' \in [msg : 0..MaxMessages, to : AgentId \cup {0}] /\ held' \subseteq 1..chats'
            BY <1>0, <1>11 DEF Settle, NoHand, ServerTyped, IInv, Typed
        <3> QED
            BY <1>0, <1>11, <3>1 DEF Settle, ServerTyped
    <2>2. ScreenTyped' /\ WireTyped' /\ FateTyped' /\ MeantTyped'
        BY <1>0, <1>11 DEF Settle, ScreenTyped, WireTyped, FateTyped, MeantTyped, client, bus, fate, meant, bounds
    <2> QED
        BY <2>1, <2>2, <1>a
<1>12. CASE Forget
    <2>1. unread' \in Seq(Event) /\ Len(unread') <= RingCap /\ lagged' \in BOOLEAN
        <3>1. Nil \in ChatId \cup {Nil}
            OBVIOUS
        <3>2. Ev(Nil, "error") \in Event
            BY <3>1, EventTyped
        <3>3. <<Ev(Nil, "error")>> \in Seq(Event)
            BY <3>2
        <3>4. lagged \in BOOLEAN /\ unread \in Seq(Event)
            BY <1>0 DEF ScreenTyped, WireTyped
        <3>5. Publish(<<Ev(Nil, "error")>>)
            BY <1>12 DEF Forget
        <3> QED
            BY <3>3, <3>4, <3>5, RingFits
    <2>2. ScreenTyped' /\ WireTyped' /\ MeantTyped'
        BY <1>0, <1>12, <2>1 DEF Forget, ScreenTyped, WireTyped, MeantTyped, client, meant
    <2>3. ServerTyped'
        <3>1. hand' \in [msg : 0..MaxMessages, to : AgentId \cup {0}] /\ strayed' \subseteq 1..chats'
            BY <1>0, <1>12 DEF Forget, NoHand, ServerTyped, IInv, Typed
        <3> QED
            BY <1>0, <1>12, <3>1 DEF Forget, ServerTyped
    <2>4. FateTyped'
        BY <1>0, <1>12 DEF Forget, FateTyped, IInv, Typed
    <2> QED
        BY <2>2, <2>3, <2>4, <1>a
<1>13. ASSUME NEW a \in AgentId, BeginTurn(a) \/ Progress(a) \/ EndTurn(a) PROVE TypeOK'
    <2> DEFINE c == ChatOf(a)
    <2>1. \E s \in Seq(Event) : Publish(s)
        <3>1. /\ <<Ev(c, "progress")>> \in Seq(Event)
              /\ <<Ev(c, "message"), Ev(c, "started")>> \in Seq(Event)
              /\ <<Ev(c, "message"), Ev(c, "finished")>> \in Seq(Event)
            BY EventTyped, Agents
        <3>2. \/ Publish(<<Ev(c, "progress")>>)
              \/ Publish(<<Ev(c, "message"), Ev(c, "started")>>)
              \/ Publish(<<Ev(c, "message"), Ev(c, "finished")>>)
            BY <1>13 DEF BeginTurn, Progress, EndTurn
        <3> QED
            BY <3>1, <3>2, Zenon
    <2>2. unread' \in Seq(Event) /\ Len(unread') <= RingCap /\ lagged' \in BOOLEAN
        <3>1. lagged \in BOOLEAN /\ unread \in Seq(Event)
            BY <1>0 DEF ScreenTyped, WireTyped
        <3> QED
            BY <2>1, <3>1, RingFits
    <2>3. UNCHANGED <<client, commands, hand, chats, held, strayed, typed, refused, home, meant, bounds>>
        BY <1>13 DEF BeginTurn, Progress, EndTurn, server, fate
    <2>4. ScreenTyped' /\ WireTyped' /\ MeantTyped'
        BY <1>0, <2>2, <2>3 DEF ScreenTyped, WireTyped, MeantTyped, client, meant, bounds
    <2>5. FateTyped'
        BY <1>0, <2>3 DEF FateTyped, IInv, Typed
    <2>6. ServerTyped'
        <3>1. CASE BeginTurn(a)
            <4>1. /\ mailbox[a] \in Seq(Message) /\ mailbox[a] # <<>>
                  /\ mailbox' = [mailbox EXCEPT ![a] = Tail(@)]
                  /\ turn' = [turn EXCEPT ![a] = Head(mailbox[a])]
                BY <1>0, <3>1 DEF BeginTurn, ServerTyped
            <4>2. /\ Head(mailbox[a]) \in Message /\ Tail(mailbox[a]) \in Seq(Message)
                  /\ Len(Tail(mailbox[a])) <= MailboxCap
                BY <1>0, <4>1 DEF ServerTyped
            <4>3. turn' \in [AgentId -> 0..MaxMessages]
                BY <1>0, <4>1, <4>2 DEF ServerTyped, Message
            <4>4. /\ mailbox' \in [AgentId -> Seq(Message)]
                  /\ \A d \in AgentId : Len(mailbox'[d]) <= MailboxCap
                BY <1>0, <4>1, <4>2 DEF ServerTyped
            <4> QED
                BY <1>0, <2>3, <4>3, <4>4 DEF ServerTyped
        <3>2. CASE Progress(a)
            BY <1>0, <3>2 DEF Progress, ServerTyped, server
        <3>3. CASE EndTurn(a)
            BY <1>0, <3>3 DEF EndTurn, ServerTyped
        <3> QED
            BY <1>13, <3>1, <3>2, <3>3
    <2> QED
        BY <2>4, <2>5, <2>6, <1>a
<1> QED
    BY <1>1, <1>2, <1>3, <1>4, <1>5, <1>6, <1>7, <1>8, <1>9, <1>10, <1>11, <1>12, <1>13
       DEF Next, User, Client, Daemon, Agent

LEMMA NamesKept == IInv /\ TypeInv /\ [Next]_vars => Named'
<1> SUFFICES ASSUME IInv, TypeInv, [Next]_vars PROVE Named'
    OBVIOUS
<1>0. /\ Named /\ typed \in Nat /\ chats \in Nat /\ chats <= MaxChats /\ typed <= MaxMessages
      /\ aim \in 1..convs /\ convs \in Nat
      /\ convOf \in [Message -> 0..convs] /\ convOfChat \in [ChatId -> 0..convs]
    BY AllBounds DEF TypeInv, TypeOK
<1>1. CASE Type
    <2>1. /\ typed' = typed + 1 /\ convOf' = [convOf EXCEPT ![typed + 1] = aim]
          /\ UNCHANGED <<chats, convOfChat>> /\ typed + 1 \in Message
        BY <1>0, <1>1, AllBounds DEF Type, server, Message
    <2>2. ASSUME NEW m \in 1..(typed + 1) PROVE convOf'[m] # 0
        <3>1. CASE m = typed + 1
            BY <1>0, <2>1, <3>1
        <3>2. CASE m # typed + 1
            <4>1. m \in 1..typed /\ m \in Message
                BY <1>0, <3>2, AllBounds DEF Message
            <4> QED
                BY <1>0, <2>1, <3>2, <4>1 DEF Named
        <3> QED
            BY <3>1, <3>2
    <2> QED
        BY <1>0, <2>1, <2>2 DEF Named
<1>2. CASE Route
    <2> DEFINE cmd == Head(commands)
               c == IF Known(cmd.active) THEN cmd.active ELSE chats + 1
    <2>1. UNCHANGED <<typed, convOf>>
        BY <1>2 DEF Route
    <2>2. cmd.msg \in 1..typed
        BY <1>2 DEF Route, IInv, Typed, InLine
    <2>3. CASE c = chats + 1
        <3>1. /\ chats' = chats + 1 /\ chats' \in 0..MaxChats
              /\ convOfChat' = [convOfChat EXCEPT ![c] = convOf[cmd.msg]]
            BY <1>2, <2>3, Preserved DEF Route, IInv, Typed
        <3>2. convOf[cmd.msg] # 0
            BY <1>0, <2>2 DEF Named
        <3> HIDE DEF cmd, c
        <3>3. ASSUME NEW d \in 1..chats' PROVE convOfChat'[d] # 0
            <4>1. d \in ChatId
                BY <1>0, <3>1, AllBounds DEF ChatId
            <4>2. CASE d = chats + 1
                BY <1>0, <2>3, <3>1, <3>2, <4>1, <4>2
            <4>3. CASE d # chats + 1
                <5>1. d \in 1..chats
                    BY <1>0, <3>1, <4>3
                <5> QED
                    BY <1>0, <2>3, <3>1, <4>1, <4>3, <5>1 DEF Named
            <4> QED
                BY <4>2, <4>3
        <3> QED
            BY <1>0, <2>1, <3>3 DEF Named
    <2>4. CASE c # chats + 1
        <3>1. UNCHANGED <<chats, convOfChat>>
            BY <1>2, <2>4 DEF Route
        <3> QED
            BY <1>0, <2>1, <3>1 DEF Named
    <2> QED
        BY <2>3, <2>4
<1>3. CASE UNCHANGED <<typed, convOf, chats, convOfChat>>
    BY <1>0, <1>3 DEF Named
<1> QED
    BY <1>1, <1>2, <1>3 DEF Next, User, New, Load, Client, Tick, Submit, DrainEnds, Handle,
       Daemon, RouteFails, Deliver, Settle, Forget, Agent, BeginTurn, Progress, EndTurn,
       vars, server, meant

(* Types, and that every chat and message is of some conversation.          *)
THEOREM TypeInvariance == Spec => []TypeInv
<1>1. Init => TypeInv
    <2> SUFFICES ASSUME Init PROVE TypeInv
        OBVIOUS
    <2>1. \A c \in 1..OldChats : c \in ChatId /\ c <= OldChats /\ c # 0
        BY AllBounds DEF ChatId
    <2>2. chats = OldChats /\ typed = 0 /\ convOfChat = [c \in ChatId |-> IF c <= OldChats THEN c ELSE 0]
        BY DEF Init
    <2>3. Named
        BY <2>1, <2>2 DEF Named
    <2> QED
        BY <2>3, TypesAtFirst DEF TypeInv
<1>2. IInv /\ IInv' /\ TypeInv /\ [Next]_vars => TypeInv'
    BY TypesKept, NamesKept DEF TypeInv
<1> QED
    BY <1>1, <1>2, Invariance, PTL DEF Spec

(* Every variable keeps its type, and no channel holds more than it can.     *)
THEOREM TypeCorrect == Spec => []TypeOK
<1>1. TypeInv => TypeOK
    BY DEF TypeInv
<1> QED
    BY <1>1, TypeInvariance, PTL

-----------------------------------------------------------------------------
(* The ring: what is left of it is the end of what there would be without    *)
(* its bound.                                                               *)
LEMMA RingIsTheEnd ==
    ASSUME NEW s \in Seq(Event), unread \in Seq(Event), Publish(s)
    PROVE  \E k \in Nat :
              /\ Len(unread') = Len(unread) + Len(s) - k
              /\ k = 0 \/ Len(unread') = RingCap
              /\ \A i \in 1..Len(unread') : unread'[i] = (unread \o s)[i + k]
<1> DEFINE u == unread \o s
<1>1. u \in Seq(Event) /\ Len(u) = Len(unread) + Len(s) /\ Len(u) \in Nat
    OBVIOUS
<1>2. CASE Len(u) <= RingCap
    <2>1. unread' = u
        BY <1>2 DEF Publish, Ring
    <2> HIDE DEF u
    <2>2. \A i \in 1..Len(u) : unread'[i] = u[i + 0]
        BY <1>1, <2>1
    <2>3. 0 \in Nat /\ Len(unread') = Len(unread) + Len(s) - 0
        BY <1>1, <2>1
    <2>4. \A i \in 1..Len(unread') : unread'[i] = (unread \o s)[i + 0]
        BY <2>1, <2>2 DEF u
    <2> QED
        BY <2>3, <2>4
<1>3. CASE ~(Len(u) <= RingCap)
    <2> DEFINE k == Len(u) - RingCap
    <2>1. unread' = SubSeq(u, k + 1, Len(u))
        BY <1>3 DEF Publish, Ring
    <2>2. k \in Nat /\ k + 1 \in 1..(Len(u) + 1) /\ Len(u) - (k + 1) + 1 = RingCap
        BY <1>1, <1>3, Bounds
    <2> HIDE DEF u
    <2>3. /\ Len(unread') = RingCap /\ RingCap = Len(u) - k
          /\ \A i \in 1..RingCap : unread'[i] = u[k + 1 + i - 1]
        <3> DEFINE f == k + 1
        <3>1. f \in 1..(Len(u) + 1) /\ Len(u) - f + 1 = RingCap /\ RingCap = Len(u) - k
            BY <1>1, <2>2, Bounds
        <3> HIDE DEF f, k
        <3>2. \A i \in f..Len(u) : i \in 1..Len(u)
            BY <1>1, <3>1
        <3>3. f <= Len(u) + 1 /\ f \in Nat /\ Len(u) \in Nat
            BY <1>1, <3>1
        <3>4. /\ Len(SubSeq(u, f, Len(u))) = Len(u) - f + 1
              /\ \A i \in 1..(Len(u) - f + 1) : SubSeq(u, f, Len(u))[i] = u[f + i - 1]
            BY <1>1, <3>2, <3>3, SubSeqProperties
        <3>5. \A i \in 1..RingCap : unread'[i] = u[f + i - 1]
            BY <2>1, <3>1, <3>4 DEF f
        <3>6. Len(unread') = RingCap
            BY <2>1, <3>1, <3>4 DEF f
        <3> QED
            BY <3>1, <3>5, <3>6 DEF f
    <2>4. \A i \in 1..RingCap : k + 1 + i - 1 = i + k
        BY <2>2, Bounds
    <2>5. Len(unread') = Len(unread) + Len(s) - k
        BY <1>1, <2>2, <2>3, Bounds
    <2>6. \A i \in 1..Len(unread') : unread'[i] = (unread \o s)[i + k]
        BY <2>3, <2>4 DEF u
    <2> HIDE DEF k
    <2> QED
        BY <2>2, <2>3, <2>5, <2>6
<1> QED
    BY <1>2, <1>3

(* The indicator is off and nothing can turn it on; or a Finished is still   *)
(* to be read, and only errors come after it, one for each failure at most.  *)
Calm == ~busy /\ \A i \in 1..Len(unread) : unread[i].kind = "error"
LastFinish(p) ==
    /\ unread[p].kind = "finished"
    /\ \A i \in (p + 1)..Len(unread) : unread[i].kind = "error"
    /\ Len(unread) - p <= errors
Ending == \E p \in 1..Len(unread) : LastFinish(p)
LightInv == errors < RingCap /\ (\A a \in AgentId : turn[a] = 0) => Calm \/ Ending

LEMMA LightUntouched ==
    ASSUME LightInv, busy' \in {busy, FALSE}, errors' = errors, UNCHANGED <<unread, turn>>
    PROVE  LightInv'
<1>1. Calm => Calm'
    BY DEF Calm
<1>2. Ending => Ending'
    BY DEF Ending, LastFinish
<1> QED
    BY <1>1, <1>2 DEF LightInv

LEMMA LightHandle == ASSUME TypeInv, LightInv, Handle PROVE LightInv'
<1>0. /\ unread \in Seq(Event) /\ unread # <<>> /\ unread' = Tail(unread)
      /\ busy' = BusyAfter(unread[1]) /\ UNCHANGED <<turn, errors>> /\ errors \in Nat
    BY AllBounds DEF Handle, TypeInv, TypeOK, server, bounds
<1>1. /\ Len(unread) \in Nat \ {0} /\ Len(unread') = Len(unread) - 1
      /\ \A i \in 1..Len(unread') : unread'[i] = unread[i + 1] /\ i + 1 \in 1..Len(unread)
    BY <1>0
<1>2. ASSUME Calm PROVE Calm'
    <2>1. unread[1].kind = "error"
        BY <1>1, <1>2 DEF Calm
    <2>2. busy' = busy
        BY <1>0, <2>1 DEF BusyAfter
    <2> QED
        BY <1>1, <1>2, <2>2 DEF Calm
<1>3. ASSUME Ending PROVE Calm' \/ Ending'
    <2>1. PICK p \in 1..Len(unread) : LastFinish(p)
        BY <1>3 DEF Ending
    <2>2. CASE p = 1
        <3>1. busy' = FALSE
            BY <1>0, <2>1, <2>2 DEF LastFinish, BusyAfter
        <3>2. \A i \in 1..Len(unread') : i + 1 \in (p + 1)..Len(unread)
            BY <1>1, <2>2
        <3>3. \A i \in 1..Len(unread') : unread'[i].kind = "error"
            BY <1>1, <2>1, <3>2 DEF LastFinish
        <3> QED
            BY <3>1, <3>3 DEF Calm
    <2>3. CASE p # 1
        <3> DEFINE q == p - 1
        <3>1. q \in 1..Len(unread') /\ q + 1 = p /\ Len(unread') - q = Len(unread) - p
            BY <1>1, <2>3
        <3>2. \A i \in (q + 1)..Len(unread') : i \in 1..Len(unread') /\ i + 1 \in (p + 1)..Len(unread)
            BY <1>1, <3>1
        <3> HIDE DEF q
        <3>3. unread'[q].kind = "finished"
            BY <1>1, <2>1, <3>1 DEF LastFinish
        <3>4. \A i \in (q + 1)..Len(unread') : unread'[i].kind = "error"
            BY <1>1, <2>1, <3>2 DEF LastFinish
        <3>5. Len(unread') - q <= errors'
            BY <1>0, <2>1, <3>1 DEF LastFinish
        <3> QED
            BY <3>1, <3>3, <3>4, <3>5 DEF Ending, LastFinish
    <2> QED
        BY <2>2, <2>3
<1> QED
    BY <1>0, <1>2, <1>3 DEF LightInv

(* An error is one more behind the Finished, and has room.                   *)
LEMMA LightFailure == ASSUME TypeInv, LightInv, RouteFails \/ Forget PROVE LightInv'
<1> DEFINE s == <<Ev(Nil, "error")>>
<1>0. /\ unread \in Seq(Event) /\ Len(unread) \in Nat /\ Len(unread) <= RingCap
      /\ busy' = busy /\ turn' = turn /\ errors' = errors + 1 /\ errors \in Nat
      /\ Publish(s)
    BY AllBounds DEF RouteFails, Forget, TypeInv, TypeOK, server, client
<1>1. s \in Seq(Event) /\ Len(s) = 1 /\ s[1].kind = "error"
    <2>1. Nil \in ChatId \cup {Nil}
        OBVIOUS
    <2>2. Ev(Nil, "error") \in Event
        BY <2>1, EventTyped
    <2> QED
        BY <2>2 DEF Ev
<1> HIDE DEF s
<1>2. PICK k \in Nat : /\ Len(unread') = Len(unread) + 1 - k
                       /\ k = 0 \/ Len(unread') = RingCap
                       /\ \A i \in 1..Len(unread') : unread'[i] = (unread \o s)[i + k]
    BY <1>0, <1>1, RingIsTheEnd
<1>3. k \in {0, 1} /\ Len(unread') \in Nat
    BY <1>0, <1>2, Bounds
<1>4. \A j \in 1..Len(unread) : (unread \o s)[j] = unread[j]
    BY <1>0, <1>1
<1>5. (unread \o s)[Len(unread) + 1].kind = "error"
    <2>1. \A i \in 1..(Len(unread) + Len(s)) :
             (unread \o s)[i] = IF i <= Len(unread) THEN unread[i] ELSE s[i - Len(unread)]
        BY <1>0, <1>1, ConcatProperties
    <2>2. Len(unread) + 1 \in 1..(Len(unread) + Len(s)) /\ ~(Len(unread) + 1 <= Len(unread))
          /\ Len(unread) + 1 - Len(unread) = 1
        BY <1>0, <1>1
    <2>3. (unread \o s)[Len(unread) + 1] = s[Len(unread) + 1 - Len(unread)]
        BY <2>1, <2>2
    <2> QED
        BY <1>1, <2>2, <2>3
<1>6. ASSUME Calm PROVE Calm'
    <2>1. ASSUME NEW i \in 1..Len(unread') PROVE unread'[i].kind = "error"
        <3>1. i + k \in 1..Len(unread) \/ i + k = Len(unread) + 1
            BY <1>0, <1>2, <1>3
        <3> QED
            BY <1>2, <1>4, <1>5, <1>6, <3>1 DEF Calm
    <2> QED
        BY <1>0, <1>6, <2>1 DEF Calm
<1>7. ASSUME Ending, errors' < RingCap PROVE Ending'
    <2>1. PICK p \in 1..Len(unread) : LastFinish(p)
        BY <1>7 DEF Ending
    <2> DEFINE q == p - k
    <2>2. Len(unread) - p <= errors
        BY <2>1 DEF LastFinish
    <2>3. q \in 1..Len(unread') /\ q + k = p /\ Len(unread') - q <= errors'
        BY <1>0, <1>2, <1>3, <1>7, <2>2, Bounds
    <2>6. Len(unread') = Len(unread) + 1 - k
        BY <1>2
    <2> HIDE DEF q
    <2>4. ASSUME NEW i \in (q + 1)..Len(unread') PROVE unread'[i].kind = "error"
        <3>1. i \in 1..Len(unread')
            BY <1>3, <2>3
        <3>2. i \in Nat /\ q + 1 <= i /\ i <= Len(unread')
            BY <2>3, <3>1
        <3>3. i + k >= p + 1 /\ i + k <= Len(unread) + 1
            BY <1>0, <1>3, <2>3, <2>6, <3>2
        <3>4. i + k \in (p + 1)..Len(unread) \/ i + k = Len(unread) + 1
            BY <1>0, <3>2, <3>3
        <3>5. unread'[i] = (unread \o s)[i + k]
            BY <1>2, <3>1
        <3>6. i + k \in (p + 1)..Len(unread) => i + k \in 1..Len(unread)
            BY <1>0, <1>3, <3>2
        <3>7. i + k \in (p + 1)..Len(unread) => unread[i + k].kind = "error"
            BY <2>1 DEF LastFinish
        <3> QED
            BY <1>4, <1>5, <3>4, <3>5, <3>6, <3>7
    <2>5. unread'[q].kind = "finished"
        BY <1>2, <1>4, <2>1, <2>3 DEF LastFinish
    <2> QED
        BY <2>3, <2>4, <2>5 DEF Ending, LastFinish
<1>8. errors' < RingCap => errors < RingCap
    BY <1>0, Bounds
<1> QED
    BY <1>0, <1>6, <1>7, <1>8 DEF LightInv

(* While an agent answers nothing is claimed; its last event is a Finished.  *)
LEMMA LightAgent ==
    ASSUME TypeInv, LightInv, NEW a \in AgentId, BeginTurn(a) \/ Progress(a) \/ EndTurn(a)
    PROVE  LightInv'
<1>0. /\ unread \in Seq(Event) /\ Len(unread) \in Nat
      /\ mailbox \in [AgentId -> Seq(Message)] /\ turn \in [AgentId -> 0..MaxMessages]
      /\ errors \in Nat
    BY AllBounds DEF TypeInv, TypeOK
<1>1. CASE BeginTurn(a)
    <2>1. turn' = [turn EXCEPT ![a] = Head(mailbox[a])] /\ Head(mailbox[a]) \in Message
        BY <1>0, <1>1 DEF BeginTurn
    <2>2. turn'[a] # 0
        BY <1>0, <2>1 DEF Message
    <2> QED
        BY <2>2 DEF LightInv
<1>2. CASE Progress(a)
    BY <1>2 DEF Progress, LightInv, server
<1>3. CASE EndTurn(a)
    <2> DEFINE c == ChatOf(a)
               s == <<Ev(c, "message"), Ev(c, "finished")>>
    <2>1. s \in Seq(Event) /\ Len(s) = 2 /\ s[2].kind = "finished"
        <3>1. c \in ChatId \cup {Nil}
            BY Agents
        <3>2. Ev(c, "message") \in Event /\ Ev(c, "finished") \in Event
            BY <3>1, EventTyped
        <3>3. Ev(c, "finished").kind = "finished"
            BY DEF Ev
        <3> QED
            BY <3>2, <3>3
    <2>2. Publish(s) /\ errors' = errors
        BY <1>3 DEF EndTurn, bounds
    <2> HIDE DEF s
    <2>3. PICK k \in Nat : /\ Len(unread') = Len(unread) + 2 - k
                           /\ k = 0 \/ Len(unread') = RingCap
                           /\ \A i \in 1..Len(unread') : unread'[i] = (unread \o s)[i + k]
        BY <1>0, <2>1, <2>2, RingIsTheEnd
    <2> DEFINE q == Len(unread')
    <2>4. q \in 1..Len(unread') /\ q + k = Len(unread) + 2 /\ Len(unread') - q = 0
        BY <1>0, <2>3, Bounds
    <2>5. (unread \o s)[Len(unread) + 2] = s[2]
        <3>1. \A i \in 1..(Len(unread) + Len(s)) :
                 (unread \o s)[i] = IF i <= Len(unread) THEN unread[i] ELSE s[i - Len(unread)]
            BY <1>0, <2>1, ConcatProperties
        <3>2. Len(unread) + 2 \in 1..(Len(unread) + Len(s))
            BY <1>0, <2>1
        <3>3. ~(Len(unread) + 2 <= Len(unread)) /\ Len(unread) + 2 - Len(unread) = 2
            BY <1>0
        <3>4. (unread \o s)[Len(unread) + 2] = s[Len(unread) + 2 - Len(unread)]
            BY <3>1, <3>2, <3>3
        <3> QED
            BY <3>3, <3>4
    <2>6. unread'[q].kind = "finished"
        BY <2>1, <2>3, <2>4, <2>5
    <2>7. \A i \in (q + 1)..Len(unread') : FALSE
        BY <2>4
    <2> HIDE DEF q
    <2> QED
        BY <1>0, <2>2, <2>4, <2>6, <2>7 DEF LightInv, Ending, LastFinish
<1> QED
    BY <1>1, <1>2, <1>3

(* Once all is quiet the indicator is off, as long as fewer submissions have *)
(* failed than the ring holds events (handle_bus_event, ignore_lagged).      *)
THEOREM BusySettles == Spec => []IndicatorSettles
<1>1. Init => LightInv
    BY DEF Init, LightInv, Calm
<1>2. IInv /\ TypeInv /\ LightInv /\ [Next]_vars => LightInv'
    <2> SUFFICES ASSUME TypeInv, LightInv, [Next]_vars PROVE LightInv'
        OBVIOUS
    <2>1. CASE RouteFails \/ Forget
        BY <2>1, LightFailure
    <2>2. CASE Handle
        BY <2>2, LightHandle
    <2>3. ASSUME NEW a \in AgentId, Agent(a) PROVE LightInv'
        BY <2>3, LightAgent DEF Agent
    <2>4. CASE UNCHANGED <<unread, turn, errors>> /\ busy' \in {busy, FALSE}
        BY <2>4, LightUntouched
    <2> QED
        BY <2>1, <2>2, <2>3, <2>4 DEF Next, User, Type, New, Load, Client, Tick, Submit, DrainEnds,
           Daemon, Route, Deliver, Settle, vars, client, bus, server, bounds
<1>3. LightInv => IndicatorSettles
    <2> SUFFICES ASSUME LightInv, errors < RingCap, Quiet PROVE ~busy
        BY DEF IndicatorSettles
    <2>1. unread = <<>> /\ \A a \in AgentId : turn[a] = 0
        BY DEF Quiet
    <2>2. ~Ending
        BY <2>1 DEF Ending
    <2> QED
        BY <2>1, <2>2 DEF LightInv, Calm
<1> QED
    BY <1>1, <1>2, <1>3, Invariance, TypeInvariance, PTL DEF Spec

-----------------------------------------------------------------------------
(* A user who waits.  One message at most is under way: typed, in the        *)
(* command channel, or with one agent, whose chat is of the conversation the *)
(* user is in.                                                              *)

(* A message sent to c now would stay in the user's conversation.            *)
Aims(c) ==
    IF c \in 1..chats THEN convOfChat[c] = aim
    ELSE errors = 0 => \A d \in 1..chats : convOfChat[d] # aim

NoAgent == \A a \in AgentId : mailbox[a] = <<>> /\ turn[a] = 0
Only(a) == \A d \in AgentId \ {a} : mailbox[d] = <<>> /\ turn[d] = 0

Rest == pending = 0 /\ commands = <<>> /\ hand = NoHand /\ NoAgent
Written ==
    /\ pending # 0 /\ convOf[pending] = aim
    /\ commands = <<>> /\ hand = NoHand /\ unread = <<>> /\ NoAgent
Sent ==
    /\ Len(commands) = 1 /\ convOf[commands[1].msg] = aim /\ Aims(commands[1].active)
    /\ pending = 0 /\ hand = NoHand /\ unread = <<>> /\ NoAgent
Handed(a)    == hand.msg # 0 /\ mailbox[a] = <<>> /\ turn[a] = 0
Waiting(a)   == hand.msg = 0 /\ Len(mailbox[a]) = 1 /\ turn[a] = 0
Answering(a) == hand.msg = 0 /\ mailbox[a] = <<>> /\ turn[a] # 0
Storing(a)   == Settling /\ mailbox[a] = <<>> /\ turn[a] = 0
With(a) ==
    /\ pending = 0 /\ commands = <<>>
    /\ ChatOf(a) \in 1..chats /\ convOfChat[ChatOf(a)] = aim
    /\ Only(a) /\ hand.to \in {0, a}
    /\ Handed(a) \/ Waiting(a) \/ Answering(a) \/ Storing(a)
Flight == Rest \/ Written \/ Sent \/ \E a \in AgentId : With(a)

Toward ==
    /\ \A i \in 1..Len(unread) : Aims(unread[i].chat)
    /\ NoAgent /\ hand.msg = 0 /\ commands = <<>> /\ unread = <<>> => Aims(active)
Unsplit == errors = 0 => OneChatPerConversation

Patient == InConversation /\ Unsplit /\ Flight /\ Toward
PatientInv == ~hasty => Patient

-----------------------------------------------------------------------------
LEMMA SessionTypes ==
    ASSUME TypeInv
    PROVE  /\ chats \in Nat /\ chats <= MaxChats /\ typed \in Nat /\ typed <= MaxMessages
           /\ convs \in Nat /\ aim \in 1..convs /\ errors \in Nat
           /\ convOf \in [Message -> 0..convs] /\ convOfChat \in [ChatId -> 0..convs]
           /\ home \in [Message -> AgentId \cup {0}]
           /\ unread \in Seq(Event) /\ commands \in Seq(Command)
           /\ mailbox \in [AgentId -> Seq(Message)] /\ turn \in [AgentId -> 0..MaxMessages]
           /\ hand \in [msg : 0..MaxMessages, to : AgentId \cup {0}]
           /\ (tui = "submit" <=> pending # 0) /\ pending \in 0..MaxMessages
           /\ \A c \in 1..chats : c \in ChatId
<1>1. OldChats \in Nat
    BY AllBounds
<1>2. chats \in OldChats..MaxChats
    BY DEF TypeInv, TypeOK
<1>3. \A c \in 1..chats : c \in ChatId
    BY <1>1, <1>2, AllBounds DEF ChatId
<1> QED
    BY <1>1, <1>2, <1>3, AllBounds DEF TypeInv, TypeOK, Command

(* What the client does between the keys that matter.                        *)
LEMMA PatientIdle ==
    ASSUME Patient, UNCHANGED <<pending, active, commands, unread, hand, chats, mailbox, turn, home,
                                aim, convOf, convOfChat, errors>>
    PROVE  Patient'
<1>1. InConversation' /\ Unsplit'
    BY DEF Patient, InConversation, HasHome, Unsplit, OneChatPerConversation
<1>2. NoAgent' = NoAgent /\ \A c : Aims(c)' = Aims(c)
    BY DEF NoAgent, Aims
<1>3. Rest' = Rest /\ Written' = Written
    BY <1>2 DEF Rest, Written
<1>4. Toward'
    BY <1>2 DEF Patient, Toward
<1>5. Flight'
    <2>1. Sent => Sent'
        BY <1>2 DEF Sent
    <2>2. \A a \in AgentId : With(a) => With(a)'
        BY DEF With, Only, Handed, Waiting, Answering, Storing, Settling
    <2> QED
        BY <1>3, <2>1, <2>2 DEF Patient, Flight
<1> QED
    BY <1>1, <1>4, <1>5 DEF Patient

-----------------------------------------------------------------------------
(* A key, when all is quiet.                                                 *)
LEMMA QuietRests ==
    ASSUME TypeInv, Quiet PROVE Rest /\ unread = <<>>
<1>1. pending = 0
    BY SessionTypes DEF Quiet
<1> QED
    BY <1>1 DEF Quiet, Rest, NoAgent

LEMMA PatientType ==
    ASSUME IInv, TypeInv, Patient, Quiet, Type PROVE Patient'
<1>0. Rest /\ unread = <<>> /\ Aims(active)
    BY QuietRests DEF Patient, Toward, Rest, NoHand
<1>1. /\ pending' = typed + 1 /\ typed < MaxMessages
      /\ convOf' = [convOf EXCEPT ![typed + 1] = aim]
      /\ UNCHANGED <<active, commands, unread, hand, chats, mailbox, turn, home,
                     aim, convOfChat, errors>>
    BY DEF Type, bus, server, fate, bounds
<1>2. typed \in Nat /\ typed + 1 \in Message /\ typed + 1 # 0
    <2>1. typed \in Nat
        BY SessionTypes
    <2>2. MaxMessages \in Nat
        BY AllBounds
    <2> QED
        BY <1>1, <2>1, <2>2 DEF Message
<1>3. convOf'[typed + 1] = aim /\ \A m \in Message : m # typed + 1 => convOf'[m] = convOf[m]
    BY <1>1, <1>2, SessionTypes
<1>4. \A m \in Message : home[m] # 0 => m # typed + 1
    BY <1>2 DEF IInv, Routed
<1>5. InConversation' /\ Unsplit'
    BY <1>1, <1>3, <1>4 DEF Patient, InConversation, HasHome, Unsplit, OneChatPerConversation
<1>6. Written'
    BY <1>0, <1>1, <1>2, <1>3 DEF Written, Rest, NoAgent
<1>7. Aims(active)'
    BY <1>0, <1>1 DEF Aims
<1>8. Toward'
    BY <1>0, <1>1, <1>7 DEF Toward
<1> QED
    BY <1>5, <1>6, <1>8 DEF Patient, Flight

LEMMA PatientNew ==
    ASSUME TypeInv, Patient, Quiet, New PROVE Patient'
<1>0. Rest /\ unread = <<>>
    BY QuietRests
<1>1. /\ active' = None /\ pending' = 0 /\ aim' = convs + 1
      /\ UNCHANGED <<commands, unread, hand, chats, mailbox, turn, home,
                     convOf, convOfChat, errors>>
    BY DEF New, ResetActive, bus, server, fate, bounds
<1>2. InConversation' /\ Unsplit'
    BY <1>1 DEF Patient, InConversation, HasHome, Unsplit, OneChatPerConversation
<1>3. Rest'
    BY <1>0, <1>1 DEF Rest, NoAgent
<1>4. None \notin 1..chats
    BY SessionTypes DEF None
<1>5. \A d \in 1..chats : convOfChat[d] # convs + 1
    <2> SUFFICES ASSUME NEW d \in 1..chats PROVE convOfChat[d] # convs + 1
        OBVIOUS
    <2>1. d \in ChatId /\ convs \in Nat
        BY SessionTypes
    <2>2. convOfChat[d] \in 0..convs
        BY <2>1, SessionTypes
    <2> QED
        BY <2>1, <2>2
<1>6. Aims(active)'
    BY <1>1, <1>4, <1>5 DEF Aims
<1>7. Toward'
    BY <1>0, <1>1, <1>6 DEF Toward
<1> QED
    BY <1>2, <1>3, <1>7 DEF Patient, Flight

LEMMA PatientLoad ==
    ASSUME TypeInv, Patient, Quiet, NEW c \in ChatId, Load(c) PROVE Patient'
<1>0. Rest /\ unread = <<>>
    BY QuietRests
<1>1. /\ active' = c /\ pending' = 0 /\ aim' = convOfChat[c] /\ c <= chats
      /\ UNCHANGED <<commands, unread, hand, chats, mailbox, turn, home,
                     convOf, convOfChat, errors>>
    BY DEF Load, bus, server, fate
<1>2. InConversation' /\ Unsplit'
    BY <1>1 DEF Patient, InConversation, HasHome, Unsplit, OneChatPerConversation
<1>3. Rest'
    BY <1>0, <1>1 DEF Rest, NoAgent
<1>4. c \in 1..chats
    BY <1>1, SessionTypes, AllBounds DEF ChatId
<1>5. Aims(active)'
    BY <1>1, <1>4 DEF Aims
<1>6. Toward'
    BY <1>0, <1>1, <1>5 DEF Toward
<1> QED
    BY <1>2, <1>3, <1>6 DEF Patient, Flight

-----------------------------------------------------------------------------
(* The message goes out with the chat the screen shows.                      *)
LEMMA PatientSubmit ==
    ASSUME TypeInv, Patient, Submit PROVE Patient'
<1>0. /\ commands' = Append(commands, [active |-> active, msg |-> pending])
      /\ pending' = 0 /\ pending # 0
      /\ UNCHANGED <<active, unread, hand, chats, mailbox, turn, home, aim, convOf, convOfChat, errors>>
    BY SessionTypes DEF Submit, server, fate, meant, bounds
<1>1. Written /\ Aims(active)
    <2>1. ~Rest /\ ~Sent /\ \A a \in AgentId : ~With(a)
        BY <1>0 DEF Rest, Sent, With
    <2> QED
        BY <2>1 DEF Patient, Flight, Toward, Written, NoHand
<1>2. InConversation' /\ Unsplit'
    BY <1>0 DEF Patient, InConversation, HasHome, Unsplit, OneChatPerConversation
<1>3. Len(commands') = 1 /\ commands'[1] = [active |-> active, msg |-> pending]
    BY <1>0, <1>1 DEF Written
<1>4. Aims(active)'
    BY <1>0, <1>1 DEF Aims
<1>5. Sent'
    <2>1. convOf'[commands'[1].msg] = aim'
        BY <1>0, <1>1, <1>3 DEF Written
    <2>2. Aims(commands[1].active)'
        BY <1>0, <1>3, <1>4 DEF Aims
    <2>3. hand' = NoHand /\ unread' = <<>> /\ NoAgent'
        BY <1>0, <1>1 DEF Written, NoAgent
    <2> QED
        BY <1>0, <1>3, <2>1, <2>2, <2>3 DEF Sent
<1>6. Toward'
    <2>1. commands' # <<>>
        BY <1>3
    <2> QED
        BY <1>0, <1>1, <2>1 DEF Toward, Written
<1> QED
    BY <1>2, <1>5, <1>6 DEF Patient, Flight

(* An event makes its chat the one a message would go to.                    *)
LEMMA PatientHandle ==
    ASSUME TypeInv, Patient, Handle PROVE Patient'
<1>0. /\ unread # <<>> /\ active' = Head(unread).chat /\ unread' = Tail(unread)
      /\ UNCHANGED <<pending, commands, hand, chats, mailbox, turn, home, aim, convOf, convOfChat, errors>>
    BY DEF Handle, server, fate, meant, bounds
<1>1. /\ unread \in Seq(Event) /\ Head(unread) = unread[1] /\ 1 \in 1..Len(unread)
      /\ \A i \in 1..Len(unread') : unread'[i] = unread[i + 1] /\ i + 1 \in 1..Len(unread)
    BY <1>0, SessionTypes
<1>2. InConversation' /\ Unsplit'
    BY <1>0 DEF Patient, InConversation, HasHome, Unsplit, OneChatPerConversation
<1>3. \A c : Aims(c) => Aims(c)'
    BY <1>0 DEF Aims
<1>4. Flight'
    <2>1. ~Written /\ ~Sent
        BY <1>0 DEF Written, Sent
    <2>2. Rest => Rest'
        BY <1>0 DEF Rest, NoAgent
    <2>3. \A a \in AgentId : With(a) => With(a)'
        BY <1>0 DEF With, Only, Handed, Waiting, Answering, Storing, Settling
    <2> QED
        BY <2>1, <2>2, <2>3 DEF Patient, Flight
<1>5. Toward'
    <2>2. Aims(active)'
        BY <1>0, <1>1, <1>3 DEF Patient, Toward, Aims
    <2>3. \A i \in 1..Len(unread') : Aims(unread[i].chat)'
        BY <1>0, <1>1 DEF Patient, Toward, Aims
    <2> QED
        BY <2>2, <2>3 DEF Toward
<1> QED
    BY <1>2, <1>4, <1>5 DEF Patient

-----------------------------------------------------------------------------
(* The daemon finds the chat the command names, or opens one.                *)
Opened(c, m) ==
    /\ chats' = chats + 1 /\ c = chats + 1
    /\ convOfChat' = [convOfChat EXCEPT ![c] = convOf[m]]
LEMMA RouteFacts ==
    ASSUME IInv, TypeInv, Route
    PROVE  \E c \in ChatId, a \in AgentId, m \in 1..typed :
              /\ m = commands[1].msg /\ m \in Message /\ commands # <<>>
              /\ commands' = Tail(commands) /\ ChatOf(a) = c
              /\ hand' = [msg |-> m, to |-> a] /\ home' = [home EXCEPT ![m] = a]
              /\ \/ c \in 1..chats /\ c = commands[1].active /\ UNCHANGED <<chats, convOfChat>>
                 \/ commands[1].active \notin 1..chats /\ Opened(c, m)
              /\ UNCHANGED <<pending, active, unread, mailbox, turn, aim, convOf, errors, hasty>>
<1> DEFINE cmd == Head(commands)
           m == cmd.msg
           c == IF Known(cmd.active) THEN cmd.active ELSE chats + 1
           a == IF c \in strayed THEN Second(c) ELSE c
<1>1. commands # <<>> /\ cmd = commands[1]
    BY SessionTypes DEF Route
<1>2. m \in 1..typed /\ m \in Message
    <2>1. 1 \in 1..Len(commands)
        BY <1>1, SessionTypes
    <2>2. m \in 1..typed
        BY <1>1, <2>1 DEF IInv, InLine
    <2> HIDE DEF m
    <2> QED
        BY <2>2, SessionTypes, AllBounds DEF Message
<1>3. Known(cmd.active) <=> cmd.active \in 1..chats
    BY DEF Known, TypeInv, TypeOK
<1>4. /\ commands' = Tail(commands)
      /\ hand' = [msg |-> m, to |-> a] /\ home' = [home EXCEPT ![m] = a]
      /\ UNCHANGED <<pending, active, unread, mailbox, turn, aim, convOf, errors, hasty>>
    BY DEF Route, client, bounds
<1>5. \/ c \in 1..chats /\ c = cmd.active /\ UNCHANGED <<chats, convOfChat>>
      \/ cmd.active \notin 1..chats /\ Opened(c, m)
    <2>1. CASE Known(cmd.active)
        <3>1. c \in 1..chats /\ c = cmd.active
            BY <1>3, <2>1
        <3>2. c # chats + 1
            BY <3>1, SessionTypes
        <3> QED
            BY <3>1, <3>2 DEF Route
    <2>2. CASE ~Known(cmd.active)
        <3>1. c = chats + 1 /\ cmd.active \notin 1..chats
            BY <1>3, <2>2
        <3> QED
            BY <3>1 DEF Route, Opened
    <2> QED
        BY <2>1, <2>2
<1>6. c \in ChatId
    <2>1. chats' \in 0..MaxChats
        BY Preserved, RouteKeeps DEF IInv, Typed
    <2>2. c \in 1..chats \/ (c = chats + 1 /\ chats' = chats + 1)
        BY <1>5 DEF Opened
    <2> QED
        BY <2>1, <2>2, SessionTypes, AllBounds DEF ChatId
<1>7. a \in AgentId /\ ChatOf(a) = c
    BY <1>6, Agents
<1> HIDE DEF cmd, m, c, a
<1> QED
    BY <1>1, <1>2, <1>4, <1>5, <1>6, <1>7 DEF m

LEMMA PatientRoute ==
    ASSUME IInv, TypeInv, Patient, Route PROVE Patient'
<1>0. PICK c \in ChatId, a \in AgentId, m \in 1..typed :
              /\ m = commands[1].msg /\ m \in Message /\ commands # <<>>
              /\ commands' = Tail(commands) /\ ChatOf(a) = c
              /\ hand' = [msg |-> m, to |-> a] /\ home' = [home EXCEPT ![m] = a]
              /\ \/ c \in 1..chats /\ c = commands[1].active /\ UNCHANGED <<chats, convOfChat>>
                 \/ commands[1].active \notin 1..chats /\ Opened(c, m)
              /\ UNCHANGED <<pending, active, unread, mailbox, turn, aim, convOf, errors, hasty>>
    BY RouteFacts
<1>1. Sent
    <2>1. ~Rest /\ ~Written /\ \A d \in AgentId : ~With(d)
        BY <1>0 DEF Rest, Written, With
    <2> QED
        BY <2>1 DEF Patient, Flight
<1>2. convOf[m] = aim /\ convOf'[m] = aim' /\ aim' = aim /\ Aims(commands[1].active)
    BY <1>0, <1>1 DEF Sent
<1>3. commands' = <<>>
    <2>1. commands \in Seq(Command) /\ Len(commands) = 1 /\ commands' = Tail(commands)
        BY <1>0, <1>1, SessionTypes DEF Sent
    <2> QED
        BY <2>1
<1>4. home'[m] = a /\ a # 0 /\ \A n \in Message : n # m => home'[n] = home[n]
    BY <1>0, SessionTypes, Agents
<1>5. c \in 1..chats' /\ convOfChat'[c] = aim /\ \A d \in 1..chats : d # chats + 1 /\ convOfChat'[d] = convOfChat[d]
    <2>1. CASE c \in 1..chats /\ c = commands[1].active /\ UNCHANGED <<chats, convOfChat>>
        BY <1>2, <2>1, SessionTypes DEF Aims
    <2>2. CASE commands[1].active \notin 1..chats /\ Opened(c, m)
        <3>1. c \in 1..chats' /\ \A d \in 1..chats : d # chats + 1 /\ d \in ChatId
            <4>1. chats' = chats + 1 /\ c = chats + 1 /\ chats \in Nat
                BY <2>2, SessionTypes DEF Opened
            <4>2. \A d \in 1..chats : d # chats + 1
                BY <4>1
            <4> QED
                BY <4>1, <4>2, SessionTypes
        <3>2. convOfChat'[c] = convOf[m] /\ \A d \in ChatId : d # c => convOfChat'[d] = convOfChat[d]
            BY <2>2, SessionTypes DEF Opened
        <3> QED
            BY <1>2, <2>2, <3>1, <3>2 DEF Opened
    <2> QED
        BY <1>0, <2>1, <2>2
<1>6. InConversation'
    <2> SUFFICES ASSUME NEW n \in Message, home'[n] # 0 PROVE convOfChat'[ChatOf(home'[n])] = convOf'[n]
        BY DEF InConversation, HasHome
    <2>1. CASE n = m
        BY <1>0, <1>2, <1>4, <1>5, <2>1
    <2>2. CASE n # m
        <3>1. home'[n] = home[n] /\ ChatOf(home[n]) \in 1..chats
            BY <1>4, <2>2 DEF IInv, Routed
        <3>2. convOfChat[ChatOf(home[n])] = convOf[n]
            BY <1>4, <2>2 DEF Patient, InConversation, HasHome
        <3> QED
            BY <1>0, <1>5, <3>1, <3>2
    <2> QED
        BY <2>1, <2>2
<1>7. Unsplit'
    <2> SUFFICES ASSUME errors' = 0, NEW x \in 1..chats', NEW y \in 1..chats', convOfChat'[x] = convOfChat'[y]
                 PROVE  x = y
        BY DEF Unsplit, OneChatPerConversation
    <2>0. errors = 0 /\ \A x1, x2 \in 1..chats : convOfChat[x1] = convOfChat[x2] => x1 = x2
        BY <1>0 DEF Patient, Unsplit, OneChatPerConversation
    <2>1. CASE UNCHANGED <<chats, convOfChat>>
        BY <2>0, <2>1
    <2>2. CASE commands[1].active \notin 1..chats /\ Opened(c, m)
        <3>1. \A d \in 1..chats : convOfChat[d] # aim
            BY <1>2, <2>0, <2>2 DEF Aims
        <3>2. \A z \in 1..chats' : z \in 1..chats \/ z = c
            BY <2>2, SessionTypes DEF Opened
        <3> QED
            BY <1>5, <2>0, <3>1, <3>2
    <2> QED
        BY <1>0, <2>1, <2>2
<1>8. \E d \in AgentId : With(d)'
    <2>1. /\ \A d \in AgentId : mailbox'[d] = <<>> /\ turn'[d] = 0
          /\ unread' = <<>> /\ pending' = 0
        BY <1>0, <1>1 DEF Sent, NoAgent
    <2>2. hand'.msg # 0 /\ hand'.to = a
        BY <1>0 DEF Message
    <2>3. ChatOf(a) \in 1..chats' /\ convOfChat'[ChatOf(a)] = aim'
        BY <1>0, <1>2, <1>5
    <2>4. With(a)'
        BY <1>3, <2>1, <2>2, <2>3 DEF With, Handed, Only
    <2> QED
        BY <2>4
<1>9. Toward'
    <2>1. hand'.msg # 0 /\ unread' = <<>>
        BY <1>0, <1>1 DEF Sent, Message
    <2> QED
        BY <2>1 DEF Toward
<1> QED
    BY <1>6, <1>7, <1>8, <1>9 DEF Patient, Flight

(* A failed submission leaves everybody at rest; from then on a conversation *)
(* may split.                                                               *)
LEMMA PatientRouteFails ==
    ASSUME TypeInv, Patient, RouteFails PROVE Patient'
<1>0. /\ commands # <<>> /\ commands' = Tail(commands) /\ errors' = errors + 1
      /\ Publish(<<Ev(Nil, "error")>>)
      /\ UNCHANGED <<pending, active, hand, chats, mailbox, turn, home, aim, convOf, convOfChat>>
    BY DEF RouteFails, client, server, meant
<1>1. Sent
    <2>1. ~Rest /\ ~Written /\ \A d \in AgentId : ~With(d)
        BY <1>0 DEF Rest, Written, With
    <2> QED
        BY <2>1 DEF Patient, Flight
<1>2. errors' # 0
    BY <1>0, SessionTypes
<1>3. InConversation' /\ Unsplit'
    BY <1>0, <1>2 DEF Patient, InConversation, HasHome, Unsplit
<1>4. commands' = <<>>
    <2>1. commands \in Seq(Command) /\ Len(commands) = 1 /\ commands' = Tail(commands)
        BY <1>0, <1>1, SessionTypes DEF Sent
    <2> QED
        BY <2>1
<1>5. Rest'
    BY <1>0, <1>1, <1>4 DEF Rest, Sent, NoAgent
<1>6. Len(unread') = 1 /\ unread'[1].chat = Nil
    <2>1. unread = <<>> /\ Len(<<Ev(Nil, "error")>>) = 1
        BY <1>1 DEF Sent
    <2>2. Len(<<>> \o <<Ev(Nil, "error")>>) = 1
        OBVIOUS
    <2>3. unread' = <<>> \o <<Ev(Nil, "error")>>
        BY <1>0, <2>1, <2>2, Bounds DEF Publish, Ring
    <2> QED
        BY <2>3 DEF Ev
<1>7. Nil \notin 1..chats
    BY SessionTypes, AllBounds DEF Nil
<1>8. Toward'
    <2>1. Aims(unread[1].chat)'
        BY <1>0, <1>2, <1>6, <1>7 DEF Aims
    <2>2. unread' # <<>> /\ \A i \in 1..Len(unread') : i = 1
        BY <1>6
    <2> QED
        BY <2>1, <2>2 DEF Toward
<1> QED
    BY <1>3, <1>5, <1>8 DEF Patient, Flight

(* The agent that has the message is the only one that can do anything.      *)
LEMMA WithOne ==
    ASSUME Patient, NEW a \in AgentId, mailbox[a] # <<>> \/ turn[a] # 0
    PROVE  With(a)
<1>1. ~NoAgent
    BY DEF NoAgent
<1>2. PICK d \in AgentId : With(d)
    BY <1>1 DEF Patient, Flight, Rest, Written, Sent
<1>3. a = d
    BY <1>2 DEF With, Only
<1> QED
    BY <1>2, <1>3

LEMMA PatientDeliver ==
    ASSUME IInv, TypeInv, Patient, Deliver PROVE Patient'
<1>0. /\ hand.msg # 0 /\ hand # NoHand /\ hand.to # 0
      /\ hand' = NoHand \/ hand' = [hand EXCEPT !.msg = 0]
      /\ mailbox' = [mailbox EXCEPT ![hand.to] = Append(@, hand.msg)]
      /\ UNCHANGED <<pending, active, commands, unread, chats, turn, home, aim, convOf, convOfChat, errors>>
    BY Agents DEF Deliver, Deposit, client, bus, fate, meant, bounds, NoHand, IInv, Routed
<1>1. PICK a \in AgentId : With(a)
    BY <1>0 DEF Patient, Flight, Rest, Written, Sent
<1>2. Handed(a) /\ hand.to = a
    BY <1>0, <1>1 DEF With, Waiting, Answering, Storing, Settling
<1>3. mailbox' = [mailbox EXCEPT ![a] = Append(<<>>, hand.msg)]
    BY <1>0, <1>2 DEF Handed
<1>4. Len(mailbox'[a]) = 1 /\ \A d \in AgentId : d # a => mailbox'[d] = mailbox[d]
    BY <1>3, SessionTypes
<1>5. With(a)'
    <2>1. hand'.msg = 0 /\ hand'.to \in {0, a}
        BY <1>0, <1>2, SessionTypes DEF NoHand
    <2> QED
        BY <1>0, <1>1, <1>2, <1>4, <2>1 DEF With, Only, Handed, Waiting
<1>6. InConversation' /\ Unsplit'
    BY <1>0 DEF Patient, InConversation, HasHome, Unsplit, OneChatPerConversation
<1>7. Toward'
    <2>1. ~NoAgent'
        BY <1>4 DEF NoAgent
    <2> QED
        BY <1>0, <2>1 DEF Patient, Toward, Aims
<1> QED
    BY <1>5, <1>6, <1>7 DEF Patient, Flight

(* The new chat's agent is kept.                                             *)
LEMMA PatientSettle ==
    ASSUME IInv, TypeInv, Patient, Settle PROVE Patient'
<1>0. /\ hand.msg = 0 /\ hand # NoHand /\ hand' = NoHand
      /\ UNCHANGED <<pending, active, commands, unread, chats, mailbox, turn, home, aim, convOf, convOfChat, errors>>
    BY DEF Settle, Settling, client, bus, fate, meant, bounds, NoHand
<1>1. PICK a \in AgentId : With(a)
    BY <1>0 DEF Patient, Flight, Rest, Written, Sent
<1>2. Flight'
    <2>1. CASE Waiting(a) \/ Answering(a)
        <3>1. With(a)'
            BY <1>0, <1>1, <2>1 DEF With, Only, Waiting, Answering, NoHand
        <3> QED
            BY <3>1 DEF Flight
    <2>2. CASE Storing(a)
        <3>1. Rest'
            BY <1>0, <1>1, <2>2 DEF With, Only, Storing, Rest, NoAgent
        <3> QED
            BY <3>1 DEF Flight
    <2> QED
        BY <1>0, <1>1, <2>1, <2>2 DEF With, Handed
<1>3. InConversation' /\ Unsplit'
    BY <1>0 DEF Patient, InConversation, HasHome, Unsplit, OneChatPerConversation
<1>4. Toward'
    BY <1>0 DEF Patient, Toward, Aims, NoAgent
<1> QED
    BY <1>2, <1>3, <1>4 DEF Patient

-----------------------------------------------------------------------------
(* What an agent publishes is of its own chat.                               *)
LEMMA NewsOfOne ==
    ASSUME TypeInv, Patient, NEW c, Aims(c)', NEW s \in Seq(Event), s # <<>>,
           \A i \in 1..Len(s) : s[i].chat = c, Publish(s),
           UNCHANGED <<chats, convOfChat, aim>>, errors' = errors \/ errors' # 0
    PROVE  unread' # <<>> /\ Toward'
<1>0. unread \in Seq(Event) /\ Len(unread) \in Nat /\ Len(s) \in Nat /\ Len(s) # 0
    BY SessionTypes
<1>1. PICK k \in Nat : /\ Len(unread') = Len(unread) + Len(s) - k
                       /\ k = 0 \/ Len(unread') = RingCap
                       /\ \A i \in 1..Len(unread') : unread'[i] = (unread \o s)[i + k]
    BY <1>0, RingIsTheEnd
<1>2. Len(unread') # 0 /\ Len(unread') \in Nat
    BY <1>0, <1>1, Bounds
<1>3. \A x : Aims(x) => Aims(x)'
    BY DEF Aims
<1>4. \A j \in 1..(Len(unread) + Len(s)) :
         (unread \o s)[j] = IF j <= Len(unread) THEN unread[j] ELSE s[j - Len(unread)]
    BY <1>0, ConcatProperties
<1>5. ASSUME NEW i \in 1..Len(unread') PROVE Aims(unread[i].chat)'
    <2> DEFINE j == i + k
    <2>1. j \in 1..(Len(unread) + Len(s)) /\ unread'[i] = (unread \o s)[j]
        BY <1>0, <1>1, <1>2
    <2>2. j \in Nat /\ ~(j <= Len(unread)) => j - Len(unread) \in 1..Len(s)
        BY <1>0, <2>1
    <2>3. j <= Len(unread) => j \in 1..Len(unread)
        BY <1>0, <2>1
    <2> HIDE DEF j
    <2>4. CASE j <= Len(unread)
        <3>1. unread'[i] = unread[j] /\ Aims(unread[j].chat)
            BY <1>4, <2>1, <2>3, <2>4 DEF Patient, Toward
        <3> QED
            BY <1>3, <3>1 DEF Aims
    <2>5. CASE ~(j <= Len(unread))
        <3>1. unread'[i] = s[j - Len(unread)]
            BY <1>4, <2>1, <2>5
        <3>2. unread'[i].chat = c
            BY <1>0, <2>1, <2>2, <2>5, <3>1
        <3> QED
            BY <3>2 DEF Aims
    <2> QED
        BY <2>4, <2>5
<1>6. unread' # <<>>
    BY <1>2
<1> QED
    BY <1>5, <1>6 DEF Toward

LEMMA PatientAgent ==
    ASSUME TypeInv, Patient, NEW a \in AgentId, BeginTurn(a) \/ Progress(a) \/ EndTurn(a)
    PROVE  Patient'
<1> DEFINE c == ChatOf(a)
<1>0. UNCHANGED <<pending, active, commands, hand, chats, home, aim, convOf, convOfChat, errors>>
    BY DEF BeginTurn, Progress, EndTurn, client, server, fate, meant, bounds
<1>1. With(a)
    BY WithOne DEF BeginTurn, Progress, EndTurn
<1>2. InConversation' /\ Unsplit'
    BY <1>0 DEF Patient, InConversation, HasHome, Unsplit, OneChatPerConversation
<1>3. Aims(c)'
    BY <1>0, <1>1 DEF With, Aims
<1>4. /\ Ev(c, "progress") \in Event /\ Ev(c, "message") \in Event
      /\ Ev(c, "started") \in Event /\ Ev(c, "finished") \in Event
      /\ \A k : Ev(c, k).chat = c
    <2>1. c \in ChatId \cup {Nil}
        BY Agents
    <2> QED
        BY <2>1, EventTyped DEF Ev
<1>5. mailbox \in [AgentId -> Seq(Message)] /\ turn \in [AgentId -> 0..MaxMessages]
    BY SessionTypes
<1>6. CASE BeginTurn(a)
    <2> DEFINE s == <<Ev(c, "message"), Ev(c, "started")>>
    <2>1. s \in Seq(Event) /\ s # <<>> /\ \A i \in 1..Len(s) : s[i].chat = c
        BY <1>4
    <2>2. /\ Publish(s) /\ turn[a] = 0 /\ mailbox[a] # <<>>
          /\ turn' = [turn EXCEPT ![a] = Head(mailbox[a])]
          /\ mailbox' = [mailbox EXCEPT ![a] = Tail(mailbox[a])]
        BY <1>6 DEF BeginTurn
    <2> HIDE DEF s
    <2>3. Toward'
        BY <1>0, <1>3, <2>1, <2>2, NewsOfOne
    <2>4. hand.msg = 0 /\ Len(mailbox[a]) = 1
        BY <1>1, <2>2 DEF With, Handed, Waiting, Answering, Storing
    <2>5. mailbox[a] \in Seq(Message) /\ Tail(mailbox[a]) = <<>> /\ Head(mailbox[a]) \in Message
        BY <1>5, <2>2, <2>4
    <2>6. turn'[a] # 0 /\ mailbox'[a] = <<>>
        BY <1>5, <2>2, <2>5 DEF Message
    <2>7. \A d \in AgentId \ {a} : mailbox'[d] = mailbox[d] /\ turn'[d] = turn[d]
        BY <1>5, <2>2
    <2>8. With(a)'
        BY <1>0, <1>1, <2>4, <2>6, <2>7 DEF With, Only, Answering
    <2> QED
        BY <1>2, <2>3, <2>8 DEF Patient, Flight
<1>7. CASE Progress(a)
    <2> DEFINE s == <<Ev(c, "progress")>>
    <2>1. s \in Seq(Event) /\ s # <<>> /\ \A i \in 1..Len(s) : s[i].chat = c
        BY <1>4
    <2>2. Publish(s) /\ turn[a] # 0 /\ UNCHANGED <<mailbox, turn>>
        BY <1>7 DEF Progress, server
    <2> HIDE DEF s
    <2>3. Toward'
        BY <1>0, <1>3, <2>1, <2>2, NewsOfOne
    <2>4. With(a)'
        BY <1>0, <1>1, <2>2 DEF With, Only, Handed, Waiting, Answering, Storing
    <2> QED
        BY <1>2, <2>3, <2>4 DEF Patient, Flight
<1>8. CASE EndTurn(a)
    <2> DEFINE s == <<Ev(c, "message"), Ev(c, "finished")>>
    <2>1. s \in Seq(Event) /\ s # <<>> /\ \A i \in 1..Len(s) : s[i].chat = c
        BY <1>4
    <2>2. Publish(s) /\ turn[a] # 0 /\ turn' = [turn EXCEPT ![a] = 0] /\ mailbox' = mailbox
        BY <1>8 DEF EndTurn
    <2> HIDE DEF s
    <2>3. Toward'
        BY <1>0, <1>3, <2>1, <2>2, NewsOfOne
    <2>4. hand.msg = 0 /\ mailbox[a] = <<>>
        BY <1>1, <2>2 DEF With, Handed, Waiting, Answering, Storing
    <2>5. \A d \in AgentId : mailbox'[d] = <<>> /\ turn'[d] = 0
        BY <1>1, <1>5, <2>2, <2>4 DEF With, Only
    <2>6. CASE hand.to = 0
        <3>1. hand = NoHand
            BY <2>4, <2>6, SessionTypes DEF NoHand
        <3>2. Rest'
            BY <1>0, <1>1, <2>5, <3>1 DEF Rest, NoAgent, With
        <3> QED
            BY <1>2, <2>3, <3>2 DEF Patient, Flight
    <2>7. CASE hand.to # 0
        <3>1. With(a)'
            BY <1>0, <1>1, <2>4, <2>5, <2>7 DEF With, Only, Storing, Settling
        <3> QED
            BY <1>2, <2>3, <3>1 DEF Patient, Flight
    <2> QED
        BY <2>6, <2>7
<1> QED
    BY <1>6, <1>7, <1>8

(* The new chat's agent is let go of: it goes on with its message, and from     *)
(* then on a conversation may split.                                         *)
LEMMA PatientForget ==
    ASSUME IInv, TypeInv, Patient, Forget PROVE Patient'
<1> DEFINE s == <<Ev(Nil, "error")>>
<1>0. /\ hand.msg = 0 /\ hand # NoHand /\ hand' = NoHand /\ errors' = errors + 1 /\ Publish(s)
      /\ UNCHANGED <<pending, active, commands, chats, mailbox, turn, home, aim, convOf, convOfChat>>
    BY DEF Forget, Settling, client, meant, NoHand
<1>1. PICK a \in AgentId : With(a)
    BY <1>0 DEF Patient, Flight, Rest, Written, Sent
<1>2. errors' # 0
    BY <1>0, SessionTypes
<1>3. InConversation' /\ Unsplit'
    BY <1>0, <1>2 DEF Patient, InConversation, HasHome, Unsplit
<1>4. Flight'
    <2>1. CASE Waiting(a) \/ Answering(a)
        <3>1. With(a)'
            BY <1>0, <1>1, <2>1 DEF With, Only, Waiting, Answering, NoHand
        <3> QED
            BY <3>1 DEF Flight
    <2>2. CASE Storing(a)
        <3>1. Rest'
            BY <1>0, <1>1, <2>2 DEF With, Only, Storing, Rest, NoAgent
        <3> QED
            BY <3>1 DEF Flight
    <2> QED
        BY <1>0, <1>1, <2>1, <2>2 DEF With, Handed
<1>5. s \in Seq(Event) /\ s # <<>> /\ \A i \in 1..Len(s) : s[i].chat = Nil
    <2>1. Ev(Nil, "error") \in Event /\ Ev(Nil, "error").chat = Nil
        BY EventTyped DEF Ev
    <2> QED
        BY <2>1
<1>6. Aims(Nil)'
    <2>1. Nil \notin 1..chats
        BY SessionTypes, AllBounds DEF Nil
    <2> QED
        BY <1>0, <1>2, <2>1 DEF Aims
<1> HIDE DEF s
<1>7. Toward'
    BY <1>0, <1>2, <1>5, <1>6, NewsOfOne
<1> QED
    BY <1>3, <1>4, <1>7 DEF Patient

LEMMA PatientKept ==
    ASSUME IInv, TypeInv, PatientInv, [Next]_vars PROVE PatientInv'
<1> SUFFICES ASSUME ~hasty' PROVE Patient'
    BY DEF PatientInv
<1>2. ~hasty
    BY DEF TypeInv, TypeOK, Next, User, Type, New, Load, Key, Client, Tick, Submit, DrainEnds, Handle,
       Daemon, Route, RouteFails, Deliver, Settle, Forget, Agent, BeginTurn, Progress, EndTurn, vars, meant
<1>3. Patient
    BY <1>2 DEF PatientInv
<1>4. CASE User
    <2>1. Quiet
        BY <1>4 DEF User, Type, New, Load, Key
    <2> QED
        BY <1>3, <1>4, <2>1, PatientType, PatientNew, PatientLoad DEF User
<1>5. CASE Tick \/ DrainEnds \/ UNCHANGED vars
    BY <1>3, <1>5, PatientIdle
       DEF Tick, DrainEnds, vars, client, bus, server, fate, meant, bounds
<1>6. CASE Submit \/ Handle \/ Daemon
    BY <1>3, <1>6, PatientSubmit, PatientHandle, PatientRoute, PatientRouteFails, PatientDeliver,
       PatientSettle, PatientForget DEF Daemon
<1>7. ASSUME NEW a \in AgentId, Agent(a) PROVE Patient'
    BY <1>3, <1>7, PatientAgent DEF Agent
<1> QED
    BY <1>4, <1>5, <1>6, <1>7 DEF Next, Client

(* Through /new, /sessions, a restored chat, failed submissions and a ring   *)
(* that lost events: the messages of a user who waits stay in the            *)
(* conversation they were typed in.                                         *)
THEOREM PatienceIsRewarded == Spec => []StaysInConversation
<1>1. Init => PatientInv
    <2> SUFFICES ASSUME Init PROVE Patient
        BY DEF PatientInv
    <2>0. /\ chats = OldChats /\ active = OldChats /\ aim = 1 /\ unread = <<>>
          /\ OldChats \in {0, 1}
          /\ convOfChat = [c \in ChatId |-> IF c <= OldChats THEN c ELSE 0]
        BY AllBounds DEF Init
    <2>1. InConversation /\ Rest
        BY <2>0 DEF Init, InConversation, HasHome, Rest, NoAgent
    <2>2. \A c \in 1..chats : c = 1 /\ chats = 1
        BY <2>0
    <2>3. OneChatPerConversation
        BY <2>2 DEF OneChatPerConversation
    <2>4. Aims(active)
        <3>1. CASE OldChats = 0
            BY <2>0, <3>1 DEF Aims
        <3>2. CASE OldChats = 1
            <4>1. 1 \in ChatId /\ 1 \in 1..chats
                BY <2>0, <3>2, AllBounds DEF ChatId
            <4> QED
                BY <2>0, <3>2, <4>1 DEF Aims
        <3> QED
            BY <2>0, <3>1, <3>2
    <2>5. Toward
        BY <2>0, <2>4 DEF Toward
    <2> QED
        BY <2>1, <2>3, <2>5 DEF Patient, Unsplit, Flight
<1>2. IInv /\ TypeInv /\ PatientInv /\ [Next]_vars => PatientInv'
    BY PatientKept
<1>3. PatientInv => StaysInConversation
    BY DEF PatientInv, Patient, Unsplit, StaysInConversation
<1> QED
    BY <1>1, <1>2, <1>3, Invariance, TypeInvariance, PTL DEF Spec
=============================================================================
