-------------------------------- MODULE Texts -------------------------------
(***************************************************************************)
(* Texts: sequences of characters.                                          *)
(***************************************************************************)
EXTENDS Naturals, Sequences

(* The text that a literal stands for.                                      *)
Chars(s) == [i \in 1..Len(s) |-> SubSeq(s, i, i)]

Starts(t, s) == Len(t) >= Len(s) /\ SubSeq(t, 1, Len(s)) = s
Ends(t, s) == Len(t) >= Len(s) /\ SubSeq(t, Len(t) - Len(s) + 1, Len(t)) = s
Mentions(t, s) == \E p \in 1..Len(t) : Ends(SubSeq(t, 1, p), s)

Breaks(t) == {p \in DOMAIN t : t[p] = "\n"}

(* The places before and behind which the lines are.                        *)
Stops(t) == {0, Len(t) + 1} \cup Breaks(t)
Lines(t) ==
    LET spans == {s \in [from : Stops(t), to : Stops(t)] :
                    s.from < s.to /\ \A p \in Stops(t) : p <= s.from \/ s.to <= p}
    IN  {SubSeq(t, s.from + 1, s.to - 1) : s \in spans}
=============================================================================
