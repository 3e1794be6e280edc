--------------------------- MODULE MCConnectionPool ---------------------------
(* As many connections as workers, which the program has, and fewer. *)
EXTENDS ConnectionPool

CONSTANTS w1, w2, w3

MCWorkers == {w1, w2, w3}

MCPools == {[threads |-> {w1, w2}, size |-> 2],
            [threads |-> MCWorkers, size |-> 1],
            [threads |-> MCWorkers, size |-> 2]}

==============================================================================
