------------------------ MODULE RunnerIsConversation ------------------------
(* AgentRunner implements Conversation: the refinement mapping.            *)
EXTENDS AgentRunner

Up == CASE pc = "unborn" -> "none"
        [] pc = "down"   -> "down"
        [] pc \in {"exited", "closing"} -> "closed"
        [] OTHER -> "up"

MessagesIn(box) == {i \in DOMAIN box : box[i] # Shutdown}
Waiting == IF pc = "closing" THEN <<>> ELSE Picked(mailbox, MessagesIn(mailbox))

(* The transcript cut at its user messages.  What came of a turn is told   *)
(* by its last event; without a result a turn was cut, but for the last    *)
(* one while the runner is inside it.                                      *)
Users(s) == {i \in DOMAIN s : s[i].kind = "user"}
EndOf(s, k) == IF k = Cardinality(Users(s)) THEN Len(s) ELSE Nth(Users(s), k + 1) - 1

Outcome(e, inside) ==
    CASE e.kind = "error" -> "failed"
      [] e.kind = "agent" /\ e.ref = 0 -> "answered"
      [] OTHER -> IF inside THEN "open" ELSE "cut"

TurnsOf(s, inside) ==
    [k \in 1..Cardinality(Users(s)) |->
        [message |-> s[Nth(Users(s), k)].ref,
         state   |-> Outcome(s[EndOf(s, k)], inside /\ k = Cardinality(Users(s)))]]

Inside == pc \notin {"unborn", "recv", "closing", "exited", "down"}
Turns == IF pc = "down" THEN TurnsOf(disk.events, FALSE) ELSE TurnsOf(chat.events, Inside)

Unsaved == pc \notin {"unborn", "down"} /\ (disk # chat \/ ~stored)

Promised == INSTANCE Conversation WITH
    Messages <- 1..MaxMessages,
    up <- Up, waiting <- Waiting, turns <- Turns, unsaved <- Unsaved

(* The agent does only what Conversation allows: turns in order and once,  *)
(* results never taken back, nothing finished lost in a crash unless a     *)
(* save had failed.                                                        *)
ImplementsConversation == Promised!Safety

(* It keeps going as Conversation promises: an accepted message is taken   *)
(* up, a waiting one as soon as no turn is open, and an open turn comes to *)
(* a result, as long as the process lives and is not shut down             *)
(* (AgentRunner::run).                                                     *)
KeepsConversing == TakenUp /\ Promised!Fairness
=============================================================================
