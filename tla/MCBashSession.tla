--------------------------- MODULE MCBashSession ---------------------------
(* BashSession on small instances; the constants are in the .cfg files.     *)
EXTENDS BashSession

CONSTANTS a1, a2
=============================================================================
