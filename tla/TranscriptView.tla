--------------------------- MODULE TranscriptView ---------------------------
(***************************************************************************)
(* What the terminal shows of an agent's chat, on the two ways it comes to *)
(* know it: live, from the envelopes on the bus (App::handle_bus_event),   *)
(* and reloaded, from the snapshot in storage (history_from_chat).  The    *)
(* reload has to tell the tool results that go back to the model, which    *)
(* nobody typed and nobody saw, from the messages of the user: both are    *)
(* stored with role User, and it goes by the kind of the parent event.     *)
(***************************************************************************)
EXTENDS AgentRunner

(* The terminal's history, and whether thinking is in flight for the chat. *)
EmptyView == [history |-> <<>>, thinking |-> FALSE]

AgentsMessage(env) ==
    /\ env.type = "message"
    /\ \E k \in DOMAIN chat.events :
           chat.events[k].id = env.ref /\ chat.events[k].kind \in AgentRole

(* Deltas and turn events are not entries; everything else is, the errors  *)
(* and the shutdown included, and the agent's message lets the thinking    *)
(* that came before it in as an entry of its own.                          *)
Silent == {"thinking", "turnStarted", "turnFinished"}
ThoughtsBefore(view, env) ==
    IF AgentsMessage(env) /\ view.thinking THEN <<Env("thinking", 0)>> ELSE <<>>

Handled(view, env) ==
    [history  |-> IF env.type \in Silent THEN view.history
                  ELSE Append(view.history \o ThoughtsBefore(view, env), env),
     thinking |-> CASE env.type = "thinking" -> TRUE
                    [] env.type = "turnStarted" \/ AgentsMessage(env) -> FALSE
                    [] OTHER -> view.thinking]

(* The view after each prefix of what came over the bus.                   *)
Views(b) ==
    LET view[n \in 0..Len(b)] == IF n = 0 THEN EmptyView ELSE Handled(view[n - 1], b[n])
    IN  view
LiveHistory == Views(bus)[Len(bus)].history

(* The events that a history or a stretch of the bus tells of.             *)
Told(b) ==
    LET announcing == Picked(b, Announced(b))
    IN  [i \in DOMAIN announcing |-> announcing[i].ref]

ToolEventIds(s) == {s[i].id : i \in {k \in DOMAIN s : s[k].kind \in ToolKinds}}

HidesNothing(s, e) == FALSE                 \* mutant: tool results are shown
Hides(s, e) == e.kind \in UserRole /\ e.parent \in ToolEventIds(s)

HistoryFromChat(s) ==
    LET shown == Picked(s, {i \in DOMAIN s : ~Hides(s, s[i])})
    IN  [i \in DOMAIN shown |-> shown[i].id]

(* Between turns, as long as no restart and no failed write came between,  *)
(* a session reloaded from storage shows the same messages and tool calls  *)
(* in the same order as the live one: what the runner does not publish is  *)
(* what the reload hides.  The thinking and the end of the agent are the   *)
(* live view's own (history.rs:18), between and around them.               *)
ReloadShowsTheSame ==
    /\ pc \in {"recv", "exited"}
    /\ cuts = {}
    /\ \A i \in DOMAIN bus : bus[i].type # "error"
    => HistoryFromChat(disk.events) = Told(LiveHistory)

(* .changelogs/2026-04-20-02.md:115: the reload skips synthetic messages;  *)
(* so a message the user typed is never skipped.                           *)
OnlySyntheticIsHidden ==
    \A i \in DOMAIN disk.events :
        disk.events[i].kind = "user" => ~Hides(disk.events, disk.events[i])
=============================================================================
