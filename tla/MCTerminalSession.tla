------------------------- MODULE MCTerminalSession -------------------------
(* TerminalSession on small instances, with an impatient or a patient user. *)
EXTENDS TerminalSession
=============================================================================
