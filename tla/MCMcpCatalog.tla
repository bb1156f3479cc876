---- MODULE MCMcpCatalog ----
EXTENDS McpCatalog, TLC

MCSettings ==
    {[kind |-> "stdio", wrong |-> {}], [kind |-> "http", wrong |-> {}],
     [kind |-> "stdio", wrong |-> {1}], [kind |-> "stdio", wrong |-> {2, 3}],
     [kind |-> "other", wrong |-> {4, 5}], [kind |-> "stdio", wrong |-> {6, 7}]}
Symmetry == Permutations(Callers)
====
