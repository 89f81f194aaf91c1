------------------------------- MODULE Track -------------------------------
(***************************************************************************)
(* The track as a graph: what a node of either layout consists of.  A node *)
(* is known by its index in the array; a train at a node runs on along its *)
(* edges, and turned round it is at the node's reverse.                    *)
(***************************************************************************)
EXTENDS Integers

\* node_type.
SENSOR == 1
BRANCH == 2
MERGE  == 3
ENTER  == 4
EXIT   == 5

Edge(dest, dist) == [dest |-> dest, dist |-> dist]

Node(type, num, reverse, straight, curved) ==
  [type |-> type, num |-> num, reverse |-> reverse, straight |-> straight, curved |-> curved]

\* What memset leaves in an edge nobody fills in.
NoEdge == Edge(-1, 0)

Sensor(num, reverse, dest, dist) == Node(SENSOR, num, reverse, Edge(dest, dist), NoEdge)
Merge(num, reverse, dest, dist)  == Node(MERGE, num, reverse, Edge(dest, dist), NoEdge)
EnterNode(reverse, dest, dist)   == Node(ENTER, 0, reverse, Edge(dest, dist), NoEdge)
ExitNode(reverse)                == Node(EXIT, 0, reverse, NoEdge, NoEdge)
Branch(num, reverse, dest, dist, curvedDest, curvedDist) ==
  Node(BRANCH, num, reverse, Edge(dest, dist), Edge(curvedDest, curvedDist))

\* The array of a sequence of nodes: its indices start at 0.
Numbered(rows) == [i \in {j - 1 : j \in DOMAIN rows} |-> rows[i + 1]]

=============================================================================
