---------------------------- MODULE MCApplications ----------------------------
(***************************************************************************)
(* The programs that run on the kernel: the game server, train control,    *)
(* and the search for routes on the two layouts.  They share no state, so  *)
(* a behaviour runs one part, chosen at the start, and leaves the others   *)
(* as they are.                                                            *)
(***************************************************************************)
EXTENDS Game, Trains, Routes, TrackA, TrackB

VARIABLE part

\* A track of two nodes.
Spur == Numbered(<<EnterNode(1, 1, 10), ExitNode(0)>>)

MCLayouts == {LayoutA, LayoutB, Spur}

MCCommands ==
  [c1 |-> {reverse(1, 5), sensor_stop(1), tr(1, 5)},
   c2 |-> {sensor_delay_stop(1), stop_at(1), path_switch(sw(3, "C"))}]

Init ==
  /\ part \in {"game", "trains", "routes"}
  /\ GameInit /\ TrainsInit /\ RoutesInit
  /\ part # "routes" => node = Spur

GamePart   == part = "game" /\ GameNext /\ UNCHANGED <<part, trainVars, routeVars>>
TrainsPart == part = "trains" /\ TrainsNext /\ UNCHANGED <<part, gameVars, routeVars>>
RoutesPart == part = "routes" /\ RoutesNext /\ UNCHANGED <<part, gameVars, trainVars>>

Next == GamePart \/ TrainsPart \/ RoutesPart

vars == <<part, gameVars, trainVars, routeVars>>

Spec == Init /\ [][Next]_vars

\* The types of the part that runs: those of the others never change.
TypeOK ==
  CASE part = "game" -> GameTypeOK [] part = "trains" -> TrainsTypeOK [] OTHER -> RoutesTypeOK

=============================================================================
