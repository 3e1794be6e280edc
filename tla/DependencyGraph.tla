--------------------------- MODULE DependencyGraph ---------------------------
(***************************************************************************)
(* The graph of table dependencies (src/src/relations/DependencyGraph.cpp): *)
(* edges from parent to child, the cycles a depth-first search comes across *)
(* and an order with parents before children.                              *)
(*                                                                         *)
(* A behaviour adds edges one by one, then runs detectCycles(), then        *)
(* topologicalOrder(), one loop iteration per step.  A table's name is a    *)
(* number, and the order of numbers is the order of names.                 *)
(***************************************************************************)
EXTENDS Integers, Sequences, FiniteSets

CONSTANTS
    Names,     \* of tables
    MaxEdges   \* bound: edges added

ASSUME GraphAssumption == Names \subseteq Nat /\ IsFiniteSet(Names)

VARIABLES
    phase,      \* "build", "detect", "order" or "done"
    adjacency,  \* the children of each node, in the order they were added
    color,      \* detectCycles(): of each node
    visited,    \* how many children of each node the search has looked at
    pathStack,  \* from the root of the search to the node it is at
    cycles,     \* what the search has found, each cycle once
    finished,   \* history: the nodes in the order they became black
    remaining,  \* topologicalOrder(): parents that are not in the order yet
    ready,      \* nodes that wait for nobody
    order       \* the result

graphVars == <<phase, adjacency>>
searchVars == <<color, visited, pathStack, cycles, finished>>
orderVars == <<remaining, ready, order>>
vars == <<graphVars, searchVars, orderVars>>

Nodes == DOMAIN adjacency

Listed(seq, x) == \E i \in 1..Len(seq) : seq[i] = x

Edge(p, c) == p \in Nodes /\ Listed(adjacency[p], c)

Least(S) == CHOOSE x \in S : \A y \in S : x <= y

\* The type of every variable.
TypeOK ==
    /\ phase \in {"build", "detect", "order", "done"}
    /\ Nodes \subseteq Names
    /\ adjacency \in [Nodes -> Seq(Nodes)]
    /\ color \in [Nodes -> {"white", "gray", "black"}]
    /\ visited \in [Nodes -> Nat]
    /\ {pathStack, finished, order} \subseteq Seq(Nodes)
    /\ cycles \subseteq Seq(Nodes)
    /\ remaining \in [Nodes -> Int]
    /\ ready \subseteq Nodes

\* Before a method runs, its local variables do not exist.
Init ==
    /\ phase = "build"
    /\ \E tables \in SUBSET Names : adjacency = [t \in tables |-> <<>>]
    /\ color = [n \in Nodes |-> "white"]
    /\ visited = [n \in Nodes |-> 0]
    /\ pathStack = <<>>
    /\ cycles = {}
    /\ finished = <<>>
    /\ remaining = [n \in Nodes |-> 0]
    /\ ready = {}
    /\ order = <<>>

------------------------------------------------------------------------------
(* Building the graph *)

EdgeSet == {e \in Nodes \X Nodes : Edge(e[1], e[2])}

\* The children of p once c is one of them.
ChildrenWith(p, c) ==
    IF p \notin Nodes THEN <<c>>
    ELSE IF Edge(p, c) THEN adjacency[p] ELSE Append(adjacency[p], c)

\* A mistake the runs must notice: the child does not become a node.
AddEdgeToStranger(p, c) ==
    /\ phase = "build"
    /\ Cardinality(EdgeSet) < MaxEdges
    /\ LET nodes == Nodes \cup {p} IN
       /\ adjacency' = [n \in nodes |->
                           IF n = p THEN ChildrenWith(p, c) ELSE adjacency[n]]
       /\ color' = [n \in nodes |-> "white"]
       /\ visited' = [n \in nodes |-> 0]
       /\ remaining' = [n \in nodes |-> 0]
    /\ UNCHANGED <<phase, pathStack, cycles, finished, ready, order>>

\* addEdge(): both ends become nodes, the table names of the constructor or not.
AddEdge(p, c) ==
    /\ phase = "build"
    /\ Cardinality(EdgeSet) < MaxEdges
    /\ LET nodes == Nodes \cup {p, c} IN
       /\ adjacency' = [n \in nodes |->
                           IF n = p THEN ChildrenWith(p, c)
                           ELSE IF n \in Nodes THEN adjacency[n] ELSE <<>>]
       /\ color' = [n \in nodes |-> "white"]
       /\ visited' = [n \in nodes |-> 0]
       /\ remaining' = [n \in nodes |-> 0]
    /\ UNCHANGED <<phase, pathStack, cycles, finished, ready, order>>

------------------------------------------------------------------------------
(* detectCycles() *)

StartDetect ==
    /\ phase = "build"
    /\ phase' = "detect"
    /\ UNCHANGED <<adjacency, searchVars, orderVars>>

White == {n \in Nodes : color[n] = "white"}

Searching == phase = "detect" /\ pathStack # <<>>

Top == pathStack[Len(pathStack)]

\* dfs() begins for a node.
Enter(n, seen) ==
    /\ color' = [color EXCEPT ![n] = "gray"]
    /\ pathStack' = Append(pathStack, n)
    /\ visited' = seen
    /\ UNCHANGED <<cycles, finished>>

\* The loop over all nodes, in the order of their names, finds a white one.
EnterRoot ==
    /\ phase = "detect" /\ pathStack = <<>>
    /\ White # {}
    /\ Enter(Least(White), visited)
    /\ UNCHANGED <<graphVars, orderVars>>

\* A mistake the runs must notice: the part of the path before the child.
CycleFromRoot(child) == pathStack

\* The path from the child back to the node the search is at.
CycleThrough(child) ==
    SubSeq(pathStack, CHOOSE i \in 1..Len(pathStack) : pathStack[i] = child,
           Len(pathStack))

\* The rotation that puts the least name first.
Canonicalize(cycle) ==
    LET n == Len(cycle)
        m == CHOOSE i \in 1..n : \A j \in 1..n : cycle[i] <= cycle[j]
    IN  [i \in 1..n |-> IF m + i - 1 <= n THEN cycle[m + i - 1]
                                          ELSE cycle[m + i - 1 - n]]

\* A mistake the runs must notice: a child that has been left counts as well.
VisitOnlyWhite ==
    /\ Searching
    /\ visited[Top] < Len(adjacency[Top])
    /\ LET child == adjacency[Top][visited[Top] + 1]
           seen == [visited EXCEPT ![Top] = @ + 1]
       IN  IF color[child] = "white"
           THEN Enter(child, seen)
           ELSE visited' = seen /\ UNCHANGED <<color, pathStack, cycles, finished>>
    /\ UNCHANGED <<graphVars, orderVars>>

\* The next child of the node the search is at: a white one is entered, a gray
\* one closes a cycle, a black one is passed over.
VisitChild ==
    /\ Searching
    /\ visited[Top] < Len(adjacency[Top])
    /\ LET child == adjacency[Top][visited[Top] + 1]
           seen == [visited EXCEPT ![Top] = @ + 1]
       IN  IF color[child] = "white"
           THEN Enter(child, seen)
           ELSE /\ cycles' = IF color[child] = "gray"
                             THEN cycles \cup {Canonicalize(CycleThrough(child))}
                             ELSE cycles
                /\ visited' = seen
                /\ UNCHANGED <<color, pathStack, finished>>
    /\ UNCHANGED <<graphVars, orderVars>>

\* dfs() returns.
Leave ==
    /\ Searching
    /\ visited[Top] = Len(adjacency[Top])
    /\ color' = [color EXCEPT ![Top] = "black"]
    /\ pathStack' = SubSeq(pathStack, 1, Len(pathStack) - 1)
    /\ finished' = Append(finished, Top)
    /\ UNCHANGED <<graphVars, orderVars, visited, cycles>>

------------------------------------------------------------------------------
(* topologicalOrder() *)

Parents(c) == {p \in Nodes : Edge(p, c)}

\* detectCycles() has returned; the in-degrees are counted.
StartOrder ==
    /\ phase = "detect" /\ pathStack = <<>> /\ White = {}
    /\ phase' = "order"
    /\ remaining' = [n \in Nodes |-> Cardinality(Parents(n))]
    /\ ready' = {n \in Nodes : Parents(n) = {}}
    /\ UNCHANGED <<adjacency, searchVars, order>>

\* A mistake the runs must notice: a child is ready once one parent is out.
TakeReadyEarly ==
    /\ phase = "order" /\ ready # {}
    /\ LET n == Least(ready)
           Left(c) == remaining[c] - IF Edge(n, c) THEN 1 ELSE 0
       IN  /\ order' = Append(order, n)
           /\ remaining' = [c \in Nodes |-> Left(c)]
           /\ ready' = (ready \ {n}) \cup {c \in Nodes : Edge(n, c) /\ ~Listed(order, c)}
    /\ UNCHANGED <<graphVars, searchVars>>

\* The first ready node goes out, and its children have one parent less.
TakeReady ==
    /\ phase = "order" /\ ready # {}
    /\ LET n == Least(ready)
           Left(c) == remaining[c] - IF Edge(n, c) THEN 1 ELSE 0
       IN  /\ order' = Append(order, n)
           /\ remaining' = [c \in Nodes |-> Left(c)]
           /\ ready' = (ready \ {n}) \cup {c \in Nodes : Edge(n, c) /\ Left(c) = 0}
    /\ UNCHANGED <<graphVars, searchVars>>

Leftover == {n \in Nodes : ~Listed(order, n)}

Sorted(S) == [i \in 1..Cardinality(S) |->
                 CHOOSE x \in S : Cardinality({y \in S : y < x}) = i - 1]

\* What could not be ordered is appended by name.
AppendLeftover ==
    /\ phase = "order" /\ ready = {}
    /\ phase' = "done"
    /\ order' = order \o Sorted(Leftover)
    /\ UNCHANGED <<adjacency, searchVars, remaining, ready>>

------------------------------------------------------------------------------

Next ==
    \/ \E p, c \in Names : AddEdge(p, c)
    \/ StartDetect \/ EnterRoot \/ VisitChild \/ Leave
    \/ StartOrder \/ TakeReady \/ AppendLeftover
    \/ phase = "done" /\ UNCHANGED vars

Spec == Init /\ [][Next]_vars

------------------------------------------------------------------------------
(* Properties *)

\* The edge from p to c is one of the cycle.
OnCycle(cycle, p, c) ==
    \E i \in 1..Len(cycle) :
        cycle[i] = p /\ c = IF i = Len(cycle) THEN cycle[1] ELSE cycle[i + 1]

\* schema.json reports only circular dependencies the tables have: every cycle
\* found follows edges of the graph back to where it started, passes no table
\* twice, and starts with its first name, so that it is listed once.
CyclesAreReal ==
    \A cycle \in cycles :
        /\ cycle # <<>>
        /\ \A i, j \in 1..Len(cycle) : cycle[i] = cycle[j] => i = j
        /\ \A i \in 1..Len(cycle) : cycle[1] <= cycle[i]
        /\ \A p, c \in Nodes : OnCycle(cycle, p, c) => Edge(p, c)

\* DependencyGraph.hpp:23-25: not every cycle is listed, but enough of them to
\* flag all circular dependencies: once the search is over, every edge that is
\* on no listed cycle leads to a table the search had left before, so that the
\* rest of the graph has no cycle.
CyclesSuffice ==
    phase \in {"order", "done"} =>
        \A p, c \in Nodes : Edge(p, c) =>
            \/ \E cycle \in cycles : OnCycle(cycle, p, c)
            \/ \E i, j \in 1..Len(finished) :
                  i < j /\ finished[i] = c /\ finished[j] = p

\* Where the search is: at the gray nodes, along edges from its root; it has
\* not begun while edges are added, and left every node before the order.
SearchInv ==
    /\ \A i, j \in 1..Len(pathStack) : pathStack[i] = pathStack[j] => i = j
    /\ \A i \in 1..Len(pathStack) - 1 : Edge(pathStack[i], pathStack[i + 1])
    /\ \A n \in Nodes :
          /\ color[n] = "gray" <=> Listed(pathStack, n)
          /\ color[n] = "black" => Listed(finished, n) /\ visited[n] = Len(adjacency[n])
          /\ visited[n] <= Len(adjacency[n])
    /\ phase = "build" => /\ pathStack = <<>> /\ cycles = {}
                          /\ \A n \in Nodes : color[n] = "white" /\ visited[n] = 0
    /\ phase \in {"order", "done"} => \A n \in Nodes : color[n] = "black"

\* The search has dealt with the edge from p to c: it closed a cycle, or c was
\* left before p, or will be.
Settled(p, c) ==
    \/ \E cycle \in cycles : OnCycle(cycle, p, c)
    \/ \E i, j \in 1..Len(finished) : i < j /\ finished[i] = c /\ finished[j] = p
    \/ /\ color[p] = "gray"
       /\ \/ color[c] = "black"
          \/ \E i \in 1..Len(pathStack) - 1 : pathStack[i] = p /\ pathStack[i + 1] = c

EdgesInv == \A p \in Nodes : \A k \in 1..visited[p] : Settled(p, adjacency[p][k])

\* A table that is on a cycle or behind one: it has a parent, which has a
\* parent, and so on, all of them among the same tables.
Behind(n) == \E S \in SUBSET Nodes : n \in S /\ \A c \in S : \E p \in S : Edge(p, c)

Before(p, c) == \E i, j \in 1..Len(order) : i < j /\ order[i] = p /\ order[j] = c

\* The order has every table once; a table comes after all of its parents,
\* unless it is on a cycle or behind one.
OrderIsComplete ==
    phase = "done" =>
        /\ Len(order) = Cardinality(Nodes)
        /\ \A n \in Nodes : Listed(order, n)
        /\ \A p, c \in Nodes : Edge(p, c) /\ ~Behind(c) => Before(p, c)

\* The parents of a node that are not in the order yet.
Waits(c) == {p \in Parents(c) : ~Listed(order, p)}

\* The order while it grows: no node twice, parents first, the counters count
\* the parents a node waits for, and the ready ones are those that wait for none.
OrderInv ==
    /\ phase \in {"build", "detect"} => order = <<>>
    /\ \A i, j \in 1..Len(order) : order[i] = order[j] => i = j
    /\ phase = "order" =>
          /\ \A p, c \in Nodes : Edge(p, c) /\ Listed(order, c) => Before(p, c)
          /\ \A c \in Nodes : remaining[c] = Cardinality(Waits(c))
          /\ \A c \in Nodes : c \in ready <=> ~Listed(order, c) /\ Waits(c) = {}

\* What the properties rest on; it holds initially and is kept by every step,
\* whatever the names are.
InductiveInvariant ==
    TypeOK /\ SearchInv /\ EdgesInv /\ CyclesAreReal /\ OrderInv /\ OrderIsComplete

==============================================================================
