-------------------------- MODULE MCFilePatching ---------------------------
(* FilePatching on small instances; the constants are in the .cfg files.    *)
EXTENDS FilePatching, TLC

CONSTANTS a1, a2

Agents == Permutations(Agent)
=============================================================================
