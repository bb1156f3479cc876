---------------------------- MODULE Conversation ---------------------------
(***************************************************************************)
(* What an agent promises whoever talks to it, without saying how: the     *)
(* messages accepted are taken up one at a time in order, each turn comes  *)
(* to one result, what is over stays as it is, and a process that dies     *)
(* takes with it the messages not taken up yet and breaks off the open     *)
(* turn, but no finished one, provided every save succeeded.               *)
(***************************************************************************)
EXTENDS Naturals, Sequences

CONSTANT Messages

VARIABLES
    up,        \* "none", "up", "closed" (shut down), "down" (died)
    waiting,   \* accepted, not taken up
    turns,     \* the turns of the conversation, oldest first
    unsaved    \* a save failed and no later one has succeeded

vars == <<up, waiting, turns, unsaved>>

Results == {"answered", "failed"}
Turn == [message: Messages, state: Results \cup {"open", "cut"}]

HasOpenTurn == turns # <<>> /\ turns[Len(turns)].state = "open"

(* What storage may hold of t: all of it, or when saves have failed some   *)
(* beginning of it, the last turn of which may have stopped short.         *)
BrokenOff(t) == IF t.state = "open" THEN [t EXCEPT !.state = "cut"] ELSE t
Survivors(ts) ==
    LET whole == [i \in DOMAIN ts |-> BrokenOff(ts[i])]
        short(k) == [i \in 1..k |-> IF i = k THEN [ts[i] EXCEPT !.state = "cut"]
                                             ELSE BrokenOff(ts[i])]
    IN  {whole} \cup
        (IF unsaved THEN {short(k) : k \in DOMAIN ts} \cup
                         {SubSeq(whole, 1, k) : k \in 0..Len(ts)}
         ELSE {})

Init == up = "none" /\ waiting = <<>> /\ turns = <<>> /\ unsaved = FALSE

Begin == up = "none" /\ up' = "up" /\ unsaved' \in BOOLEAN /\ UNCHANGED <<waiting, turns>>

Accept(m) ==
    /\ up = "up"
    /\ \A i \in DOMAIN waiting : waiting[i] # m
    /\ \A i \in DOMAIN turns : turns[i].message # m
    /\ waiting' = Append(waiting, m)
    /\ UNCHANGED <<up, turns, unsaved>>

TakeUp ==
    /\ up = "up" /\ waiting # <<>> /\ ~HasOpenTurn
    /\ waiting' = Tail(waiting)
    /\ turns' = Append(turns, [message |-> Head(waiting), state |-> "open"])
    /\ unsaved' \in BOOLEAN
    /\ UNCHANGED up

Finish ==
    /\ up = "up" /\ HasOpenTurn
    /\ \E r \in Results : turns' = [turns EXCEPT ![Len(turns)].state = r]
    /\ unsaved' \in BOOLEAN
    /\ UNCHANGED <<up, waiting>>

(* A save within a turn, or the last one, succeeds or fails.               *)
Save == /\ (up = "up" /\ HasOpenTurn) \/ up = "closed"
        /\ unsaved' \in BOOLEAN
        /\ UNCHANGED <<up, waiting, turns>>

Close ==
    /\ up = "up" /\ ~HasOpenTurn
    /\ up' = "closed" /\ waiting' = <<>>
    /\ UNCHANGED <<turns, unsaved>>

Die ==
    /\ up \in {"up", "closed"}
    /\ up' = "down" /\ waiting' = <<>>
    /\ turns' \in Survivors(turns)
    /\ unsaved' = FALSE

Return == up = "down" /\ up' = "up" /\ UNCHANGED <<waiting, turns, unsaved>>

Next == \/ Begin \/ (\E m \in Messages : Accept(m)) \/ TakeUp \/ Finish
        \/ Save \/ Close \/ Die \/ Return

Safety == Init /\ [][Next]_vars
Fairness == WF_vars(TakeUp) /\ WF_vars(Finish)
=============================================================================
