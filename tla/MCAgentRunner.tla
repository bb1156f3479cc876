--------------------------- MODULE MCAgentRunner ---------------------------
(* AgentRunner on small instances, with what the terminal shows of it and   *)
(* the promise it keeps; the constants are in the .cfg files.               *)
EXTENDS TranscriptView, RunnerIsConversation
=============================================================================
