------------------------------- MODULE Routes -------------------------------
(***************************************************************************)
(* path_switch: the way from one node of the track to another, and the     *)
(* switches set for it.  Pathfind relaxes the edges of one queued node     *)
(* after the other, parse_path walks the prev pointers back from the end   *)
(* and notes how each branch must lie, and the helper sends a command for  *)
(* each.  A step of each loop is a step here.                              *)
(*                                                                         *)
(* distance and prev are arrays of 6 rows of 144, indexed by a node's type *)
(* and number.  Switches 153 to 156 index past the end of their row, into  *)
(* the next one: a cell is the flat address.                               *)
(***************************************************************************)
EXTENDS Track, Sequences

CONSTANTS
  Layouts,   \* the tracks: arrays of nodes
  Starts,    \* nodes routes start at
  Finishes   \* nodes routes end at

\* What the layouts fill in: the ways of a node lead to nodes, none over less than 0.
ASSUME LayoutsAssumption ==
  \A t \in Layouts :
    /\ DOMAIN t \subseteq Nat
    /\ \A i \in DOMAIN t :
         /\ t[i].num \in Nat /\ t[i].type \in {SENSOR, BRANCH, MERGE, ENTER, EXIT}
         /\ t[i].reverse \in DOMAIN t
         /\ t[i].type # EXIT => t[i].straight.dest \in DOMAIN t /\ t[i].straight.dist \in Nat
         /\ t[i].type = BRANCH => t[i].curved.dest \in DOMAIN t /\ t[i].curved.dist \in Nat

TRACK_MAX == 144
Far == 9999999

\* A node that no pointer of prev points to before it is written.
Garbage == -1

VARIABLES
  node,       \* the track
  start,      \* the node the route starts at
  phase,      \* "search", "parse", "set", "done", or past an error
  distance,   \* the least distance found so far, of each cell
  prev,       \* the node before, of each cell; Garbage before it is written
  queue,      \* the nodes to expand
  tail,       \* queue_tail: how often a node was queued
  route,      \* the nodes parse_path has passed, from the end back
  branches,   \* the branches on the way, as <<number, mode>>, from the end back
  solonoid    \* how each switch that was commanded lies

routeVars == <<node, start, phase, distance, prev, queue, tail, route, branches, solonoid>>

\* Where distance[type][num] and prev[type][num] lie.
Cell(n) == n.type * TRACK_MAX + n.num

CellAt(i) == Cell(node[i])
Cells == {CellAt(i) : i \in DOMAIN node}

Searching == [distance |-> distance, prev |-> prev, queue |-> queue, tail |-> tail]

RoutesInit ==
  /\ node \in Layouts
  /\ start \in Starts \cap DOMAIN node
  /\ phase = "search"
  /\ distance = [c \in Cells |-> IF c = CellAt(start) THEN 0 ELSE Far]
  /\ prev = [c \in Cells |-> Garbage]
  /\ queue = <<start>> /\ tail = 1
  /\ route = <<>> /\ branches = <<>>
  /\ solonoid = [num \in {} |-> "S"]

-----------------------------------------------------------------------------
(* Pathfind.                                                               *)

\* Node to is reached from node i, and is d away.
Reached(s, i, to, d) ==
  [distance |-> [s.distance EXCEPT ![CellAt(to)] = d],
   prev     |-> [s.prev EXCEPT ![CellAt(to)] = i],
   queue    |-> Append(s.queue, to),
   tail     |-> s.tail + 1]

\* Mutant of Relax: the first distance found is kept.
RelaxOnce(s, i, to, dist) ==
  IF s.distance[CellAt(to)] = Far THEN Reached(s, i, to, s.distance[CellAt(i)] + dist) ELSE s

\* Mutant of Relax: the length of the way is forgotten.
RelaxHops(s, i, to, dist) ==
  IF s.distance[CellAt(to)] > s.distance[CellAt(i)] + dist
  THEN Reached(s, i, to, dist) ELSE s

\* A way of length dist from node i to node to, in the state s of the search.
Relax(s, i, to, dist) ==
  LET d == s.distance[CellAt(i)] + dist
  IN IF s.distance[CellAt(to)] > d THEN Reached(s, i, to, d) ELSE s

\* A branch's curved way, then the straight way, then the train turned round.
RelaxCurved(s, i) ==
  IF node[i].type = BRANCH THEN Relax(s, i, node[i].curved.dest, node[i].curved.dist) ELSE s
RelaxStraight(s, i) ==
  IF node[i].type # EXIT THEN Relax(s, i, node[i].straight.dest, node[i].straight.dist) ELSE s
RelaxReverse(s, i) ==
  IF node[i].type = SENSOR THEN Relax(s, i, node[i].reverse, node[i].straight.dist) ELSE s

Expanded(i) ==
  RelaxReverse(RelaxStraight(RelaxCurved([Searching EXCEPT !.queue = Tail(queue)], i), i), i)

\* The next queued node.  An array of TRACK_MAX entries holds the queue: what
\* follows when more are written is not modelled.
Expand ==
  /\ phase = "search" /\ queue # <<>>
  /\ LET s == Expanded(Head(queue))
     IN /\ distance' = s.distance /\ prev' = s.prev /\ queue' = s.queue /\ tail' = s.tail
        /\ phase' = IF s.tail > TRACK_MAX THEN "overrun" ELSE "search"
  /\ UNCHANGED <<node, start, route, branches, solonoid>>

-----------------------------------------------------------------------------
(* parse_path.                                                             *)

\* The end of the route is first looked at here.
Parse ==
  /\ phase = "search" /\ queue = <<>>
  /\ phase' = "parse"
  /\ \E end \in Finishes \cap DOMAIN node : route' = <<end>>
  /\ UNCHANGED <<node, start, distance, prev, queue, tail, branches, solonoid>>

Here == route[Len(route)]
Before == prev[CellAt(Here)]

\* Mutant of Noted: the way the train does not take.
NotedStraight(i, j) == <<node[i].num, IF node[i].straight.dest = j THEN "C" ELSE "S">>

\* How the branch i must lie to lead to j.
Noted(i, j) == <<node[i].num, IF node[i].curved.dest = j THEN "C" ELSE "S">>

\* One node back.  A pointer never written leads anywhere.
WalkBack ==
  /\ phase = "parse" /\ Here # start
  /\ \/ /\ Before = Garbage /\ phase' = "lost" /\ UNCHANGED <<route, branches>>
     \/ /\ Before # Garbage /\ route' = Append(route, Before)
        /\ branches' = IF node[Before].type = BRANCH
                       THEN Append(branches, Noted(Before, Here)) ELSE branches
        /\ UNCHANGED phase
  /\ UNCHANGED <<node, start, distance, prev, queue, tail, solonoid>>

StartReached ==
  /\ phase = "parse" /\ Here = start
  /\ phase' = "set"
  /\ UNCHANGED <<node, start, distance, prev, queue, tail, route, branches, solonoid>>

-----------------------------------------------------------------------------
(* solonoid_switches_helper: one command to the Marklin worker after the   *)
(* other, the branch nearest the end first.                                *)

SetSwitch ==
  /\ phase = "set" /\ branches # <<>>
  /\ LET num == Head(branches)[1]
     IN solonoid' = [n \in DOMAIN solonoid \cup {num} |->
                       IF n = num THEN Head(branches)[2] ELSE solonoid[n]]
  /\ branches' = Tail(branches)
  /\ UNCHANGED <<node, start, phase, distance, prev, queue, tail, route>>

SwitchesSet ==
  /\ phase = "set" /\ branches = <<>>
  /\ phase' = "done"
  /\ UNCHANGED <<node, start, distance, prev, queue, tail, route, branches, solonoid>>

RoutesNext == Expand \/ Parse \/ WalkBack \/ StartReached \/ SetSwitch \/ SwitchesSet

RoutesSpec == RoutesInit /\ [][RoutesNext]_routeVars

-----------------------------------------------------------------------------
(* Properties.                                                             *)

Phases == {"search", "overrun", "parse", "lost", "set", "done"}

RoutesTypeOK ==
  /\ node \in Layouts
  /\ start \in DOMAIN node
  /\ phase \in Phases
  /\ distance \in [Cells -> 0..Far]
  /\ prev \in [Cells -> DOMAIN node \cup {Garbage}]
  /\ queue \in Seq(DOMAIN node) /\ tail \in Nat
  /\ route \in Seq(DOMAIN node)
  /\ branches \in Seq({node[i].num : i \in DOMAIN node} \X {"S", "C"})
  /\ DOMAIN solonoid \subseteq {node[i].num : i \in DOMAIN node}

\* parse_path never comes by a node twice, so its loop ends, whatever cells the
\* nodes share and though some edges have length 0.
NoNodeTwice == \A i, j \in DOMAIN route : i # j => route[i] # route[j]

\* The ways on from node i, as Pathfind takes them.
Ways(i) ==
  (IF node[i].type # EXIT THEN {node[i].straight} ELSE {})
    \cup (IF node[i].type = BRANCH THEN {node[i].curved} ELSE {})
    \cup (IF node[i].type = SENSOR THEN {Edge(node[i].reverse, node[i].straight.dist)} ELSE {})

\* The distances are those of shortest ways: no way leads on to a node for less
\* than its distance, and every distance is that of some way's last step.
Distances ==
  /\ distance[CellAt(start)] = 0
  /\ \A i \in DOMAIN node : distance[CellAt(i)] # Far =>
       /\ \A w \in Ways(i) : distance[CellAt(w.dest)] <= distance[CellAt(i)] + w.dist
       /\ i # start =>
            \E j \in DOMAIN node : \E w \in Ways(j) :
              w.dest = i /\ distance[CellAt(i)] = distance[CellAt(j)] + w.dist

\* Pathfind has just returned.
Found == phase = "parse" /\ Len(route) = 1

\* Pathfind returns the distance from the start to the end.
PathfindIsShortest == Found => Distances

\* Node i shares its cell with no other node.
Own(i) == \A j \in DOMAIN node : CellAt(j) = CellAt(i) => j = i

\* parse_path has come to the start.
Parsed == phase \in {"set", "done"}

\* What the shared cells leave of PathfindIsShortest: where two nodes of the route
\* have cells of their own, the one is a step of a way from the other, of the length
\* their distances tell; and from such a node no way leads on to any node for less
\* than that node's distance, however often the search came back to it.
ShortestOverOwnCells ==
  Parsed =>
    /\ distance[CellAt(start)] = 0
    /\ \A k \in 1..Len(route) - 1 : Own(route[k]) /\ Own(route[k + 1]) =>
         \E w \in Ways(route[k + 1]) :
           w.dest = route[k] /\ distance[CellAt(route[k])] = distance[CellAt(route[k + 1])] + w.dist
    /\ \A i \in DOMAIN node : Own(i) /\ distance[CellAt(i)] # Far =>
         \A w \in Ways(i) : distance[CellAt(w.dest)] <= distance[CellAt(i)] + w.dist

\* Branch i lies so that it leads to node j.
Lies(i, j) ==
  /\ node[i].num \in DOMAIN solonoid
  /\ \/ solonoid[node[i].num] = "S" /\ node[i].straight.dest = j
     \/ solonoid[node[i].num] = "C" /\ node[i].curved.dest = j

\* Once all commands are sent, every branch the route passes lies so that it leads
\* to the next node of the route, where that node has a cell of its own: no command
\* for a branch further on has put it back.  path_switch turns no train round.
SwitchesLieForRoute ==
  phase = "done" =>
    \A k \in 1..Len(route) - 1 :
      node[route[k + 1]].type = BRANCH /\ Own(route[k]) => Lies(route[k + 1], route[k])

=============================================================================
