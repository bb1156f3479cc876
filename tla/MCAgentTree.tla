---------------------------- MODULE MCAgentTree ----------------------------
(* AgentTree on small instances; the constants are in the .cfg files.      *)
EXTENDS AgentTree
=============================================================================
