------------------------- MODULE ApplicationsProofs -------------------------
(***************************************************************************)
(* The game server's verdicts, for any games and any number of players,    *)
(* and the three programs side by side.                                    *)
(***************************************************************************)
EXTENDS MCApplications, TrainsProofs, RoutesProofs, WellFoundedInduction, TLAPS

-----------------------------------------------------------------------------
(* The game server.                                                        *)

Shapes ==
  /\ tid \in [Games -> [Seats -> Players \cup {Nobody}]]
  /\ move \in [Games -> [Seats -> Moves \cup {""}]]
  /\ playing \subseteq Players
  /\ thrown \in [Players -> Moves \cup {""}]

\* A player has at most one stored move, on however many seats it sits.
Apart(g, s, h, r) ==
  (g # h \/ s # r) /\ move[g][s] # "" /\ move[h][r] # "" => tid[g][s] # tid[h][r]

OneStoredMove ==
  \A g \in Games : \A s \in Seats : \A h \in Games : \A r \in Seats : Apart(g, s, h, r)

\* StoredMovesAreSleepers, said of seats.
SeatsOfSleepers ==
  /\ up => /\ \A g \in Games, s \in Seats :
               move[g][s] # "" => tid[g][s] \in playing /\ thrown[tid[g][s]] = move[g][s]
           /\ \A q \in playing : \E g \in Games, s \in Seats : tid[g][s] = q /\ move[g][s] # ""
  /\ ~ up => playing = {}

IInv == Shapes /\ SeatsOfSleepers /\ OneStoredMove

-----------------------------------------------------------------------------
\* The first seat of some seats is one of them.
LEMMA FirstIsOne ==
  ASSUME NEW S \in SUBSET (Games \X Seats), S # {}
  PROVE  First(S) \in S
<1> DEFINE G == {x[1] : x \in S}
<1>1. G # {} /\ G \subseteq Nat
  BY GameAssumption DEF GameAssumption
<1>2. PICK g \in G : \A h \in G : <<h, g>> \notin OpToRel(<, Nat)
  BY <1>1, NatLessThanWellFounded, WFMin
<1>3. \A x \in S : g <= x[1]
  <2> SUFFICES ASSUME NEW x \in S PROVE g <= x[1]
    OBVIOUS
  <2>1. x[1] \in G
    OBVIOUS
  <2>2. ~ (x[1] < g)
    BY <1>1, <1>2, <2>1 DEF OpToRel
  <2> QED
    BY <1>1, <2>1, <2>2
<1>4. \E x \in S : x[1] = g /\ \A y \in S : y[1] = g => x[2] <= y[2]
  <2>1. PICK y \in S : y[1] = g
    OBVIOUS
  <2>2. \A z \in S : z[2] = 1 \/ z[2] = 2
    BY DEF Seats
  <2>3. CASE \E z \in S : z[1] = g /\ z[2] = 1
    BY <2>2, <2>3
  <2>4. CASE ~ \E z \in S : z[1] = g /\ z[2] = 1
    BY <2>1, <2>2, <2>4
  <2> QED
    BY <2>3, <2>4
<1>5. \E x \in S : \A y \in S : x[1] < y[1] \/ (x[1] = y[1] /\ x[2] <= y[2])
  <2>1. \A x \in S : x[1] \in Nat
    BY <1>1
  <2> QED
    BY <1>3, <1>4, <2>1
<1> QED
  BY <1>5 DEF First

\* The seats of a player, and a seat's entry in a table.
LEMMA SeatsOfPlayer ==
  ASSUME NEW p
  PROVE  /\ SeatsOf(p) \in SUBSET (Games \X Seats)
         /\ \A g \in Games, s \in Seats : <<g, s>> \in SeatsOf(p) <=> tid[g][s] = p
         /\ \A x \in SeatsOf(p) : x[1] \in Games /\ x[2] \in Seats /\ tid[x[1]][x[2]] = p
BY DEF SeatsOf

LEMMA UpdatedTable ==
  ASSUME NEW V, NEW f \in [Games -> [Seats -> V]], NEW g \in Games, NEW s \in Seats,
         NEW v \in V
  PROVE  /\ [f EXCEPT ![g][s] = v] \in [Games -> [Seats -> V]]
         /\ \A h \in Games, r \in Seats :
              [f EXCEPT ![g][s] = v][h][r] = IF h = g /\ r = s THEN v ELSE f[h][r]
OBVIOUS

LEMMA GameInitHolds == GameInit => IInv
<1> SUFFICES ASSUME GameInit PROVE IInv
  OBVIOUS
<1>1. Shapes
  BY DEF GameInit, Shapes
<1>2. \A g \in Games, s \in Seats : move[g][s] = ""
  BY DEF GameInit
<1> QED
  BY <1>1, <1>2 DEF GameInit, IInv, SeatsOfSleepers, OneStoredMove, Apart

\* A stored move's seat is a sleeping player's.
LEMMA SeatOfMove ==
  ASSUME IInv, up, NEW g \in Games, NEW s \in Seats, move[g][s] # ""
  PROVE  /\ tid[g][s] \in playing /\ tid[g][s] \in Players /\ tid[g][s] # Nobody
         /\ thrown[tid[g][s]] = move[g][s]
BY GameAssumption DEF GameAssumption, IInv, Shapes, SeatsOfSleepers

LEMMA MovesApart ==
  ASSUME IInv, NEW h \in Games, NEW r \in Seats, NEW k \in Games, NEW z \in Seats
  PROVE  Apart(h, r, k, z)
<1>1. OneStoredMove
  BY DEF IInv
<1> QED
  BY <1>1, Zenon DEF OneStoredMove

\* Players come and go: seats with a stored move keep their player.
LEMMA SeatsChange ==
  ASSUME IInv, up, UNCHANGED <<move, playing, up, thrown>>,
         tid' \in [Games -> [Seats -> Players \cup {Nobody}]],
         \A g \in Games, s \in Seats : move[g][s] # "" => tid'[g][s] = tid[g][s]
  PROVE  IInv'
<1>1. Shapes'
  BY DEF IInv, Shapes
<1>2. SeatsOfSleepers'
  <2>1. \A h \in Games, r \in Seats : move[h][r] # "" =>
          tid'[h][r] \in playing /\ thrown[tid'[h][r]] = move[h][r]
    <3> TAKE h \in Games, r \in Seats
    <3> HAVE move[h][r] # ""
    <3>1. tid[h][r] \in playing /\ thrown[tid[h][r]] = move[h][r]
      BY SeatOfMove
    <3> QED
      BY <3>1
  <2>2. \A q \in playing : \E h \in Games, r \in Seats : tid'[h][r] = q /\ move[h][r] # ""
    <3> TAKE q \in playing
    <3>1. PICK h \in Games, r \in Seats : tid[h][r] = q /\ move[h][r] # ""
      BY DEF IInv, SeatsOfSleepers
    <3> QED
      BY <3>1
  <2> QED
    BY <2>1, <2>2 DEF SeatsOfSleepers
<1>3. OneStoredMove'
  <2> SUFFICES ASSUME NEW h \in Games, NEW r \in Seats, NEW k \in Games, NEW z \in Seats
               PROVE  Apart(h, r, k, z)'
    BY Zenon DEF OneStoredMove
  <2>1. Apart(h, r, k, z)
    BY MovesApart
  <2> QED
    BY <2>1 DEF Apart
<1> QED
  BY <1>1, <1>2, <1>3 DEF IInv

LEMMA SignupStep == ASSUME IInv, NEW p \in Players, Signup(p) PROVE IInv'
<1>1. up /\ p \notin playing /\ UNCHANGED <<playing, up, thrown>>
  BY DEF Signup, Awake
<1>2. CASE UNCHANGED <<tid, move>>
  BY <1>1, <1>2, SeatsChange DEF IInv, Shapes
<1>3. CASE ~ UNCHANGED <<tid, move>>
  <2> DEFINE free == {y \in Games \X Seats : tid[y[1]][y[2]] = Nobody}
             x == First(free)
  <2>1. /\ \E g \in Games : ~ FullGame(g)
        /\ tid' = [tid EXCEPT ![x[1]][x[2]] = p]
        /\ move' = [move EXCEPT ![x[1]][x[2]] = ""]
    BY <1>3 DEF Signup
  <2>2. PICK g \in Games, s \in Seats :
          /\ tid[g][s] = Nobody
          /\ tid' = [tid EXCEPT ![g][s] = p] /\ move' = [move EXCEPT ![g][s] = ""]
    <3>1. PICK h \in Games, r \in Seats : tid[h][r] = Nobody
      BY <2>1 DEF FullGame
    <3>2. <<h, r>> \in free
      BY <3>1
    <3>3. free # {} /\ free \in SUBSET (Games \X Seats)
      BY <3>2
    <3>4. x \in free
      <4> HIDE DEF free
      <4> QED BY <3>3, FirstIsOne
    <3>5. x[1] \in Games /\ x[2] \in Seats /\ tid[x[1]][x[2]] = Nobody
      BY <3>4
    <3> HIDE DEF x
    <3> QED
      BY <2>1, <3>5
  <2>3. move[g][s] = ""
    BY <1>1, <2>2, SeatOfMove
  <2>4. move' = move
    BY <2>2, <2>3 DEF IInv, Shapes
  <2>5. tid \in [Games -> [Seats -> Players \cup {Nobody}]] /\ p \in Players \cup {Nobody}
    BY DEF IInv, Shapes
  <2>6. /\ [tid EXCEPT ![g][s] = p] \in [Games -> [Seats -> Players \cup {Nobody}]]
        /\ \A h \in Games, r \in Seats :
             [tid EXCEPT ![g][s] = p][h][r] = IF h = g /\ r = s THEN p ELSE tid[h][r]
    BY <2>5, UpdatedTable
  <2>7. \A h \in Games, r \in Seats : move[h][r] # "" => tid'[h][r] = tid[h][r]
    BY <2>2, <2>3, <2>6
  <2> QED
    BY <1>1, <2>2, <2>4, <2>6, <2>7, SeatsChange
<1> QED
  BY <1>2, <1>3

LEMMA QuitStep == ASSUME IInv, NEW p \in Players, Quit(p) PROVE IInv'
<1>1. /\ up /\ p \notin playing /\ UNCHANGED <<playing, up, thrown>>
      /\ tid' = [g \in Games |-> [s \in Seats |-> IF tid[g][s] = p THEN Nobody ELSE tid[g][s]]]
      /\ move' = [g \in Games |-> [s \in Seats |-> IF tid[g][s] = p THEN "" ELSE move[g][s]]]
  BY DEF Quit, Awake
<1>2. \A g \in Games, s \in Seats : move[g][s] # "" => tid[g][s] # p
  BY <1>1, SeatOfMove
<1>3. move' = move
  <2>1. \A g \in Games : [s \in Seats |-> IF tid[g][s] = p THEN "" ELSE move[g][s]] = move[g]
    BY <1>2 DEF IInv, Shapes
  <2> QED
    BY <1>1, <2>1 DEF IInv, Shapes
<1>4. tid' \in [Games -> [Seats -> Players \cup {Nobody}]]
  BY <1>1 DEF IInv, Shapes
<1>5. \A g \in Games, s \in Seats : move[g][s] # "" => tid'[g][s] = tid[g][s]
  BY <1>1, <1>2
<1> QED
  BY <1>1, <1>3, <1>4, <1>5, SeatsChange

\* The first to throw stores its move and goes to sleep.
LEMMA PlayFirstStep ==
  ASSUME IInv, NEW p \in Players, NEW m \in Moves, PlayFirst(p, m) PROVE IInv'
<1> DEFINE x == First(SeatsOf(p))
<1>1. /\ up /\ p \notin playing /\ SeatsOf(p) # {}
      /\ move' = [move EXCEPT ![x[1]][x[2]] = m]
      /\ thrown' = [thrown EXCEPT ![p] = m] /\ playing' = playing \cup {p}
      /\ UNCHANGED <<tid, up>>
  BY DEF PlayFirst, Awake, InGame, Waits
<1>2. PICK g \in Games, s \in Seats :
        tid[g][s] = p /\ move' = [move EXCEPT ![g][s] = m]
  <2>1. x \in SeatsOf(p)
    BY <1>1, SeatsOfPlayer, FirstIsOne
  <2>2. x[1] \in Games /\ x[2] \in Seats /\ tid[x[1]][x[2]] = p
    BY <2>1, SeatsOfPlayer
  <2> HIDE DEF x
  <2> QED
    BY <1>1, <2>2
<1>3. move \in [Games -> [Seats -> Moves \cup {""}]] /\ m \in Moves \cup {""} /\ m # ""
  BY DEF IInv, Shapes, Moves
<1>4. /\ [move EXCEPT ![g][s] = m] \in [Games -> [Seats -> Moves \cup {""}]]
      /\ \A h \in Games, r \in Seats :
           [move EXCEPT ![g][s] = m][h][r] = IF h = g /\ r = s THEN m ELSE move[h][r]
  <2> DEFINE V == Moves \cup {""}
  <2>1. move \in [Games -> [Seats -> V]] /\ m \in V
    BY <1>3
  <2> HIDE DEF V
  <2>2. /\ [move EXCEPT ![g][s] = m] \in [Games -> [Seats -> V]]
        /\ \A h \in Games, r \in Seats :
             [move EXCEPT ![g][s] = m][h][r] = IF h = g /\ r = s THEN m ELSE move[h][r]
    BY <2>1, UpdatedTable
  <2> QED
    BY <2>2 DEF V
<1>5. \A h \in Games, r \in Seats : move'[h][r] = IF h = g /\ r = s THEN m ELSE move[h][r]
  BY <1>2, <1>4
<1>6. \A h \in Games, r \in Seats : move[h][r] # "" => tid[h][r] # p
  BY <1>1, SeatOfMove
<1>7. Shapes'
  BY <1>1, <1>2, <1>4 DEF IInv, Shapes
<1>8. /\ thrown'[p] = m /\ \A q \in Players \ {p} : thrown'[q] = thrown[q]
  BY <1>1 DEF IInv, Shapes
<1>9. SeatsOfSleepers'
  <2>1. \A h \in Games, r \in Seats : move'[h][r] # "" =>
          tid'[h][r] \in playing' /\ thrown'[tid'[h][r]] = move'[h][r]
    <3> TAKE h \in Games, r \in Seats
    <3> HAVE move'[h][r] # ""
    <3>1. CASE h = g /\ r = s
      BY <1>1, <1>2, <1>5, <1>8, <3>1
    <3>2. CASE ~ (h = g /\ r = s)
      <4>1. move[h][r] # "" /\ move'[h][r] = move[h][r]
        BY <1>5, <3>2
      <4> QED
        BY <1>1, <1>6, <1>8, <4>1, SeatOfMove
    <3> QED
      BY <3>1, <3>2
  <2>2. \A q \in playing' : \E h \in Games, r \in Seats : tid'[h][r] = q /\ move'[h][r] # ""
    <3> TAKE q \in playing'
    <3>1. CASE q = p
      <4>1. tid'[g][s] = q /\ move'[g][s] # ""
        BY <1>1, <1>2, <1>3, <1>5, <3>1
      <4> QED
        BY <4>1
    <3>2. CASE q \in playing
      <4>1. PICK h \in Games, r \in Seats : tid[h][r] = q /\ move[h][r] # ""
        BY <1>1, <3>2 DEF IInv, SeatsOfSleepers
      <4>2. tid'[h][r] = q /\ move'[h][r] # ""
        BY <1>1, <1>3, <1>5, <4>1
      <4> QED
        BY <4>2
    <3> QED
      BY <1>1, <3>1, <3>2
  <2> QED
    BY <1>1, <2>1, <2>2 DEF SeatsOfSleepers
<1>10. OneStoredMove'
  <2> SUFFICES ASSUME NEW h \in Games, NEW r \in Seats, NEW k \in Games, NEW z \in Seats
               PROVE  Apart(h, r, k, z)'
    BY Zenon DEF OneStoredMove
  <2>1. CASE h = g /\ r = s
    <3>1. move'[k][z] # "" /\ (k # g \/ z # s) => tid[k][z] # p
      BY <1>5, <1>6
    <3> QED
      BY <1>1, <1>2, <2>1, <3>1 DEF Apart
  <2>2. CASE k = g /\ z = s
    <3>1. move'[h][r] # "" /\ (h # g \/ r # s) => tid[h][r] # p
      BY <1>5, <1>6
    <3> QED
      BY <1>1, <1>2, <2>2, <3>1 DEF Apart
  <2>3. CASE ~ (h = g /\ r = s) /\ ~ (k = g /\ z = s)
    <3>1. Apart(h, r, k, z) /\ move'[h][r] = move[h][r] /\ move'[k][z] = move[k][z]
      BY <1>5, <2>3, MovesApart
    <3> QED
      BY <1>1, <3>1 DEF Apart
  <2> QED
    BY <2>1, <2>2, <2>3
<1> QED
  BY <1>7, <1>9, <1>10 DEF IInv

\* The second to throw: the verdicts are out, the opponent wakes, the game's moves
\* are forgotten.
LEMMA PlaySecondFacts ==
  ASSUME IInv, NEW p \in Players, NEW m \in Moves, PlaySecond(p, m)
  PROVE  \E g \in Games, s \in Seats :
           /\ tid[g][s] = p /\ move[g][3 - s] # "" /\ 3 - s \in Seats
           /\ answer' = [Unanswered EXCEPT ![p] = Verdict(m, move[g][3 - s]),
                                           ![tid[g][3 - s]] = Verdict(move[g][3 - s], m)]
           /\ playing' = playing \ {tid[g][3 - s]}
           /\ move' = [move EXCEPT ![g] = [r \in Seats |-> ""]]
<1> DEFINE x == First(SeatsOf(p))
<1>1. x[1] \in Games /\ x[2] \in Seats /\ tid[x[1]][x[2]] = p
  <2>1. SeatsOf(p) # {}
    BY DEF PlaySecond, InGame
  <2>2. x \in SeatsOf(p)
    BY <2>1, SeatsOfPlayer, FirstIsOne
  <2> QED
    BY <2>2, SeatsOfPlayer
<1>2. 3 - x[2] \in Seats
  BY <1>1 DEF Seats
<1>3. /\ move[x[1]][3 - x[2]] # ""
      /\ answer' = [Unanswered EXCEPT ![p] = Verdict(m, move[x[1]][3 - x[2]]),
                                      ![tid[x[1]][3 - x[2]]] = Verdict(move[x[1]][3 - x[2]], m)]
      /\ playing' = playing \ {tid[x[1]][3 - x[2]]}
      /\ move' = [move EXCEPT ![x[1]] = [r \in Seats |-> ""]]
  BY DEF PlaySecond
<1> HIDE DEF x
<1> QED
  BY <1>1, <1>2, <1>3, Zenon

LEMMA PlaySecondStep ==
  ASSUME IInv, NEW p \in Players, NEW m \in Moves, PlaySecond(p, m) PROVE IInv'
<1>1. /\ up /\ p \notin playing /\ thrown' = [thrown EXCEPT ![p] = m] /\ UNCHANGED <<tid, up>>
  BY DEF PlaySecond, Awake
<1>2. PICK g \in Games, s \in Seats :
        /\ tid[g][s] = p /\ move[g][3 - s] # "" /\ 3 - s \in Seats
        /\ playing' = playing \ {tid[g][3 - s]}
        /\ move' = [move EXCEPT ![g] = [r \in Seats |-> ""]]
  BY PlaySecondFacts
<1> DEFINE q == tid[g][3 - s]
<1>3. \A h \in Games, r \in Seats : move'[h][r] = IF h = g THEN "" ELSE move[h][r]
  BY <1>2 DEF IInv, Shapes
<1>4. \A h \in Games, r \in Seats : move[h][r] # "" => tid[h][r] # p
  BY <1>1, SeatOfMove
<1>5. Shapes'
  <2>1. move' \in [Games -> [Seats -> Moves \cup {""}]]
    BY <1>2 DEF IInv, Shapes
  <2>2. thrown' \in [Players -> Moves \cup {""}]
    BY <1>1 DEF IInv, Shapes
  <2> QED
    BY <1>1, <1>2, <2>1, <2>2 DEF IInv, Shapes
<1>6. \A t \in Players \ {p} : thrown'[t] = thrown[t]
  BY <1>1 DEF IInv, Shapes
<1>7. \A h \in Games, r \in Seats : h # g /\ move[h][r] # "" => tid[h][r] # q
  <2> TAKE h \in Games, r \in Seats
  <2>1. Apart(h, r, g, 3 - s)
    BY <1>2, MovesApart
  <2> QED
    BY <1>2, <2>1 DEF Apart
<1>8. \A r \in Seats : r = s \/ r = 3 - s
  BY DEF Seats
<1>9. SeatsOfSleepers'
  <2>1. \A h \in Games, r \in Seats : move'[h][r] # "" =>
          tid'[h][r] \in playing' /\ thrown'[tid'[h][r]] = move'[h][r]
    <3> TAKE h \in Games, r \in Seats
    <3> HAVE move'[h][r] # ""
    <3>1. h # g /\ move[h][r] # "" /\ move'[h][r] = move[h][r]
      BY <1>3
    <3>2. /\ tid[h][r] \in playing /\ tid[h][r] \in Players \ {p}
          /\ thrown[tid[h][r]] = move[h][r] /\ tid[h][r] # q
      BY <1>1, <1>4, <1>7, <3>1, SeatOfMove
    <3> QED
      BY <1>1, <1>2, <1>6, <3>1, <3>2
  <2>2. \A t \in playing' : \E h \in Games, r \in Seats : tid'[h][r] = t /\ move'[h][r] # ""
    <3> TAKE t \in playing'
    <3>1. t \in playing /\ t # q
      BY <1>2
    <3>2. PICK h \in Games, r \in Seats : tid[h][r] = t /\ move[h][r] # ""
      BY <1>1, <3>1 DEF IInv, SeatsOfSleepers
    <3>3. h # g
      BY <1>2, <1>4, <1>8, <3>1, <3>2
    <3>4. tid'[h][r] = t /\ move'[h][r] # ""
      BY <1>1, <1>3, <3>2, <3>3
    <3> QED
      BY <3>4
  <2> QED
    BY <1>1, <2>1, <2>2 DEF SeatsOfSleepers
<1>10. OneStoredMove'
  <2> SUFFICES ASSUME NEW h \in Games, NEW r \in Seats, NEW k \in Games, NEW z \in Seats
               PROVE  Apart(h, r, k, z)'
    BY Zenon DEF OneStoredMove
  <2>1. Apart(h, r, k, z)
    BY MovesApart
  <2> QED
    BY <1>1, <1>3, <2>1 DEF Apart
<1> QED
  BY <1>5, <1>9, <1>10 DEF IInv

\* A shutdown wakes every sleeper, as each sits in a game.
LEMMA ShutdownStep == ASSUME IInv, NEW p \in Players, Shutdown(p) PROVE IInv'
<1>1. up /\ up' = FALSE /\ playing' = playing \ Told(p) /\ UNCHANGED <<tid, move, thrown>>
  BY DEF Shutdown
<1>2. \A q \in playing : q \in Told(p)
  <2> TAKE q \in playing
  <2>1. PICK h \in Games, r \in Seats : tid[h][r] = q
    BY <1>1 DEF IInv, SeatsOfSleepers
  <2>2. <<h, r>> \in SeatsOf(q)
    BY <2>1, SeatsOfPlayer
  <2> QED
    BY <2>2 DEF Told, InGame
<1>3. playing' = {}
  BY <1>1, <1>2
<1>4. Shapes' /\ SeatsOfSleepers'
  BY <1>1, <1>3 DEF IInv, Shapes, SeatsOfSleepers
<1>5. OneStoredMove'
  <2> SUFFICES ASSUME NEW h \in Games, NEW r \in Seats, NEW k \in Games, NEW z \in Seats
               PROVE  Apart(h, r, k, z)'
    BY Zenon DEF OneStoredMove
  <2>1. Apart(h, r, k, z)
    BY MovesApart
  <2> QED
    BY <1>1, <2>1 DEF Apart
<1> QED
  BY <1>4, <1>5 DEF IInv

LEMMA StutterStep == ASSUME IInv, UNCHANGED <<tid, move, playing, up, thrown>> PROVE IInv'
<1>1. Shapes' /\ SeatsOfSleepers'
  BY DEF IInv, Shapes, SeatsOfSleepers
<1>2. OneStoredMove'
  <2> SUFFICES ASSUME NEW h \in Games, NEW r \in Seats, NEW k \in Games, NEW z \in Seats
               PROVE  Apart(h, r, k, z)'
    BY Zenon DEF OneStoredMove
  <2>1. Apart(h, r, k, z)
    BY MovesApart
  <2> QED
    BY <2>1 DEF Apart
<1> QED
  BY <1>1, <1>2 DEF IInv

LEMMA GameNextHolds == IInv /\ [GameNext]_gameVars => IInv'
<1> SUFFICES ASSUME IInv, [GameNext]_gameVars PROVE IInv'
  OBVIOUS
<1>1. CASE UNCHANGED gameVars
  BY <1>1, StutterStep DEF gameVars
<1>2. ASSUME NEW p \in Players, PlayRefused(p) \/ PlayUnknown(p) PROVE IInv'
  BY <1>2, StutterStep DEF PlayRefused, PlayUnknown
<1> QED
  BY <1>1, <1>2, SignupStep, QuitStep, ShutdownStep, PlayFirstStep, PlaySecondStep DEF GameNext

THEOREM Invariance == GameSpec => []IInv
BY GameInitHolds, GameNextHolds, PTL DEF GameSpec

LEMMA TypesStep ==
  ASSUME GameTypeOK, IInv', [GameNext]_gameVars
  PROVE  GameTypeOK'
<1> DEFINE Letters == {"", "recieved", "E", "W", "L", "D", "K", "+"}
<1>1. Shapes'
  BY DEF IInv
<1>2. Unanswered \in [Players -> Letters] /\ answer \in [Players -> Letters] /\ up \in BOOLEAN
  BY DEF Unanswered, GameTypeOK
<1>3. \A m, n : Verdict(m, n) \in Letters
  BY DEF Verdict
<1>4. answer' \in [Players -> Letters] /\ up' \in BOOLEAN
  <2>1. CASE UNCHANGED gameVars
    BY <1>2, <2>1 DEF gameVars
  <2>2. ASSUME NEW p \in Players,
               Signup(p) \/ Quit(p) \/ PlayRefused(p) \/ PlayUnknown(p) \/ Shutdown(p)
        PROVE  answer' \in [Players -> Letters] /\ up' \in BOOLEAN
    BY <1>2, <2>2 DEF Signup, Quit, PlayRefused, PlayUnknown, Shutdown
  <2>3. ASSUME NEW p \in Players, NEW m \in Moves, PlayFirst(p, m)
        PROVE  answer' \in [Players -> Letters] /\ up' \in BOOLEAN
    BY <1>2, <2>3 DEF PlayFirst
  <2>4. ASSUME NEW p \in Players, NEW m \in Moves, PlaySecond(p, m)
        PROVE  answer' \in [Players -> Letters] /\ up' \in BOOLEAN
    <3>1. PICK n, q : /\ answer' = [Unanswered EXCEPT ![p] = Verdict(m, n), ![q] = Verdict(n, m)]
                      /\ up' = up
      BY <2>4 DEF PlaySecond
    <3>2. PICK a, b : a = Verdict(m, n) /\ b = Verdict(n, m) /\ a \in Letters /\ b \in Letters
      BY <1>3
    <3> HIDE DEF Letters
    <3> QED
      BY <1>2, <3>1, <3>2
  <2> QED
    BY <2>1, <2>2, <2>3, <2>4 DEF GameNext
<1>5. unheard' \subseteq Players
  BY DEF GameTypeOK, GameNext, gameVars, Signup, Quit, PlayRefused, PlayUnknown, Shutdown,
     PlayFirst, PlaySecond
<1> QED
  BY <1>1, <1>4, <1>5 DEF GameTypeOK, Shapes

\* Seats, moves and replies keep their types, whoever signs up, plays and leaves.
THEOREM GameTypes == GameSpec => []GameTypeOK
<1>1. GameInit => GameTypeOK
  BY DEF GameInit, GameTypeOK
<1>2. GameTypeOK /\ IInv' /\ [GameNext]_gameVars => GameTypeOK'
  BY TypesStep
<1> QED
  BY <1>1, <1>2, Invariance, PTL DEF GameSpec

\* A stored move is its sleeping player's, and nobody else sleeps, for any games
\* and players: a verdict reaches the task that threw, and a shutdown leaves nobody
\* asleep.
THEOREM Sleepers == GameSpec => []StoredMovesAreSleepers
<1>1. IInv => StoredMovesAreSleepers
  <2> SUFFICES ASSUME IInv PROVE StoredMovesAreSleepers
    OBVIOUS
  <2>1. up => \A p \in playing : \E x \in SeatsOf(p) : move[x[1]][x[2]] # ""
    <3> SUFFICES ASSUME up, NEW p \in playing
                 PROVE  \E x \in SeatsOf(p) : move[x[1]][x[2]] # ""
      OBVIOUS
    <3>1. PICK h \in Games, r \in Seats : tid[h][r] = p /\ move[h][r] # ""
      BY DEF IInv, SeatsOfSleepers
    <3>2. <<h, r>> \in SeatsOf(p)
      BY <3>1, SeatsOfPlayer
    <3> QED
      BY <3>1, <3>2
  <2> QED
    BY <2>1 DEF IInv, SeatsOfSleepers, StoredMovesAreSleepers
<1> QED
  BY <1>1, Invariance, PTL

-----------------------------------------------------------------------------
\* What two players are told of two moves.
LEMMA Verdicts ==
  ASSUME NEW m \in Moves, NEW n \in Moves
  PROVE  /\ Verdict(n, m) = "W" => <<n, m>> \in Beats /\ Verdict(m, n) = "L"
         /\ Verdict(n, m) = "L" => <<m, n>> \in Beats /\ Verdict(m, n) = "W"
         /\ Verdict(n, m) = "D" => n = m /\ Verdict(m, n) = "D"
<1>1. n \in {"rock", "paper", "scissors"} /\ m \in {"rock", "paper", "scissors"}
  BY DEF Moves
<1>2. CASE n = m
  <2>1. Verdict(n, m) = "D" /\ Verdict(m, n) = "D"
    BY <1>2 DEF Verdict
  <2> QED
    BY <1>2, <2>1
<1>3. CASE <<n, m>> \in Beats /\ <<m, n>> \notin Beats /\ n # m
  <2>1. Verdict(n, m) = "W" /\ Verdict(m, n) = "L"
    BY <1>3, Zenon DEF Verdict
  <2> QED
    BY <1>3, <2>1
<1>4. CASE <<m, n>> \in Beats /\ <<n, m>> \notin Beats /\ n # m
  <2>1. Verdict(n, m) = "L" /\ Verdict(m, n) = "W"
    BY <1>4, Zenon DEF Verdict
  <2> QED
    BY <1>4, <2>1
<1>5. \/ n = m
      \/ <<n, m>> \in Beats /\ <<m, n>> \notin Beats /\ n # m
      \/ <<m, n>> \in Beats /\ <<n, m>> \notin Beats /\ n # m
  BY <1>1 DEF Beats
<1> QED
  BY <1>2, <1>3, <1>4, <1>5

\* Who is told the verdict after it has slept was told by a player who got the
\* opposite one, and by the moves the two threw: for any games and players.
THEOREM OppositeVerdicts == GameSpec => VerdictsAgree
<1> DEFINE Paired(p) ==
      p \in playing /\ p \notin playing' /\ answer'[p] \in {"W", "L", "D"} =>
        \E q \in Players \ {p} :
          /\ thrown[p] # "" /\ thrown'[q] # ""
          /\ CASE answer'[p] = "W" -> <<thrown[p], thrown'[q]>> \in Beats /\ answer'[q] = "L"
               [] answer'[p] = "L" -> <<thrown'[q], thrown[p]>> \in Beats /\ answer'[q] = "W"
               [] OTHER            -> thrown[p] = thrown'[q] /\ answer'[q] = "D"
<1>1. IInv /\ [GameNext]_gameVars => [\A p \in Players : Paired(p)]_gameVars
  <2> SUFFICES ASSUME IInv, GameNext, NEW t \in Players,
                      t \in playing, t \notin playing', answer'[t] \in {"W", "L", "D"}
               PROVE  Paired(t)
    OBVIOUS
  <2>1. ASSUME NEW p \in Players, Shutdown(p) PROVE FALSE
    <3>1. PICK h \in Games, r \in Seats : tid[h][r] = t
      BY <2>1 DEF Shutdown, IInv, SeatsOfSleepers
    <3>2. t \in Told(p)
      <4>1. <<h, r>> \in SeatsOf(t)
        BY <3>1, SeatsOfPlayer
      <4> QED
        BY <4>1 DEF Told, InGame
    <3>3. answer'[t] = "K"
      BY <2>1, <3>2 DEF Shutdown
    <3> QED
      BY <3>3
  <2>2. ASSUME NEW p \in Players, NEW m \in Moves, PlaySecond(p, m) PROVE Paired(t)
    <3>1. PICK g \in Games, s \in Seats :
            /\ tid[g][s] = p /\ move[g][3 - s] # "" /\ 3 - s \in Seats
            /\ answer' = [Unanswered EXCEPT ![p] = Verdict(m, move[g][3 - s]),
                                            ![tid[g][3 - s]] = Verdict(move[g][3 - s], m)]
            /\ playing' = playing \ {tid[g][3 - s]}
            /\ move' = [move EXCEPT ![g] = [r \in Seats |-> ""]]
      BY <2>2, PlaySecondFacts, Zenon
    <3> DEFINE n == move[g][3 - s]
    <3>2. up /\ p \notin playing /\ thrown' = [thrown EXCEPT ![p] = m]
      BY <2>2 DEF PlaySecond, Awake
    <3>3. t = tid[g][3 - s] /\ t # p
      BY <3>1, <3>2
    <3>4. thrown[t] = n /\ n \in Moves
      BY <3>1, <3>2, <3>3, SeatOfMove DEF IInv, Shapes
    <3>5. thrown'[p] = m /\ m # ""
      BY <3>2 DEF IInv, Shapes, Moves
    <3>6. answer'[p] = Verdict(m, n) /\ answer'[t] = Verdict(n, m)
      BY <3>1, <3>3 DEF Unanswered
    <3>7. /\ thrown[t] # "" /\ thrown'[p] # "" /\ p \in Players \ {t}
          /\ answer'[t] = "W" => <<thrown[t], thrown'[p]>> \in Beats /\ answer'[p] = "L"
          /\ answer'[t] = "L" => <<thrown'[p], thrown[t]>> \in Beats /\ answer'[p] = "W"
          /\ answer'[t] = "D" => thrown[t] = thrown'[p] /\ answer'[p] = "D"
      <4>1. /\ Verdict(n, m) = "W" => <<n, m>> \in Beats /\ Verdict(m, n) = "L"
            /\ Verdict(n, m) = "L" => <<m, n>> \in Beats /\ Verdict(m, n) = "W"
            /\ Verdict(n, m) = "D" => n = m /\ Verdict(m, n) = "D"
        BY <3>4, Verdicts, Zenon
      <4>2. thrown[t] # "" /\ thrown'[p] # "" /\ p \in Players \ {t}
        BY <3>1, <3>3, <3>4, <3>5
      <4> HIDE DEF n
      <4> QED
        BY <3>4, <3>5, <3>6, <4>1, <4>2
    <3> QED
      BY <3>7
  <2>3. CASE playing \subseteq playing'
    BY <2>3
  <2> QED
    BY <2>1, <2>2, <2>3 DEF GameNext, Signup, Quit, PlayRefused, PlayUnknown, PlayFirst, Waits
<1> QED
  BY <1>1, Invariance, PTL DEF GameSpec, VerdictsAgree

-----------------------------------------------------------------------------
(* The programs side by side.                                              *)

\* Side by side the programs behave as each does by itself, so that what is proved of
\* one holds of the three.
THEOREM ApplicationsAreParts ==
  Spec => GameSpec /\ TrainsSpec /\ RoutesSpec
<1>1. Init => GameInit /\ TrainsInit /\ RoutesInit
  BY DEF Init
<1>2. [Next]_vars => [GameNext]_gameVars
  BY DEF Next, vars, GamePart, TrainsPart, RoutesPart
<1>3. [Next]_vars => [TrainsNext]_trainVars
  BY DEF Next, vars, GamePart, TrainsPart, RoutesPart
<1>4. [Next]_vars => [RoutesNext]_routeVars
  BY DEF Next, vars, GamePart, TrainsPart, RoutesPart
<1> QED
  BY <1>1, <1>2, <1>3, <1>4, PTL DEF Spec, GameSpec, TrainsSpec, RoutesSpec

\* Beside each other the programs keep the types of their variables.
THEOREM ApplicationsTypes == Spec => []TypeOK
<1>1. GameTypeOK /\ TrainsTypeOK /\ RoutesTypeOK => TypeOK
  BY DEF TypeOK
<1> QED
  BY <1>1, ApplicationsAreParts, GameTypes, TrainsTypes, RoutesTypes, PTL

=============================================================================
