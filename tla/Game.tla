-------------------------------- MODULE Game --------------------------------
(***************************************************************************)
(* The game server: players sign up for one of the games, throw rock,      *)
(* paper or scissors, and sleep until the opponent has thrown too.  A      *)
(* request is one step: the server handles it without waiting, the player  *)
(* sleeps until its reply.                                                 *)
(*                                                                         *)
(* No task registers the name "main", so mainpid is -1 and the replies to  *)
(* it never happen; scores are written and never read.                     *)
(***************************************************************************)
EXTENDS Naturals

CONSTANTS
  Games,     \* the games in the order of the array
  Players,   \* tasks that play
  Nobody     \* task id 0: an empty seat

ASSUME GameAssumption == Games \subseteq Nat /\ Nobody \notin Players

Moves == {"rock", "paper", "scissors"}
Seats == {1, 2}

VARIABLES
  tid,      \* who sits where: tid[g][1] is tid1 of game g, tid[g][2] its tid2
  move,     \* their moves, "" before the throw
  playing,  \* players asleep in play(), with a move stored
  unheard,  \* asleep in play() with a word that is no move
  answer,   \* the reply each player got in the last step, "" for none
  up,       \* the server has not been shut down
  thrown    \* history: the last move of each player

gameVars == <<tid, move, playing, unheard, answer, up, thrown>>

GameInit ==
  /\ tid = [g \in Games |-> [s \in Seats |-> Nobody]]
  /\ move = [g \in Games |-> [s \in Seats |-> ""]]
  /\ playing = {} /\ unheard = {}
  /\ answer = [p \in Players |-> ""]
  /\ up = TRUE
  /\ thrown = [p \in Players |-> ""]

FullGame(g) == \A s \in Seats : tid[g][s] # Nobody
SeatsOf(p) == {x \in Games \X Seats : tid[x[1]][x[2]] = p}
InGame(p)  == SeatsOf(p) # {}

\* The first game, seat 1 before seat 2, of a set of seats.
First(S) == CHOOSE x \in S : \A y \in S : x[1] < y[1] \/ (x[1] = y[1] /\ x[2] <= y[2])

Beats == {<<"rock", "scissors">>, <<"scissors", "paper">>, <<"paper", "rock">>}

\* Mutant of Verdict: the two of seat 2 swapped.
VerdictSwapped(mine, other) ==
  IF mine = other THEN "D" ELSE IF <<other, mine>> \in Beats THEN "W" ELSE "L"

\* check_game, as the letter each player is sent.
Verdict(mine, other) ==
  IF mine = other THEN "D" ELSE IF <<mine, other>> \in Beats THEN "W" ELSE "L"

\* The replies of a step in which nobody gets one.
Unanswered == [p \in Players |-> ""]

Awake(p) == p \notin playing \cup unheard

-----------------------------------------------------------------------------
\* signup: the first empty seat, or none, and the same reply.  Nobody asks whether
\* p sits somewhere already.
Signup(p) ==
  /\ up /\ Awake(p)
  /\ answer' = [Unanswered EXCEPT ![p] = "recieved"]
  /\ \/ /\ \E g \in Games : ~ FullGame(g)
        /\ LET x == First({y \in Games \X Seats : tid[y[1]][y[2]] = Nobody})
           IN /\ tid'  = [tid EXCEPT ![x[1]][x[2]] = p]
              /\ move' = [move EXCEPT ![x[1]][x[2]] = ""]
     \/ (\A g \in Games : FullGame(g)) /\ UNCHANGED <<tid, move>>
  /\ UNCHANGED <<playing, unheard, up, thrown>>

\* quit: every seat of p is emptied; "E" for a task that plays no game.
Quit(p) ==
  /\ up /\ Awake(p)
  /\ answer' = [Unanswered EXCEPT ![p] = IF InGame(p) THEN "recieved" ELSE "E"]
  /\ tid'  = [g \in Games |-> [s \in Seats |-> IF tid[g][s] = p THEN Nobody ELSE tid[g][s]]]
  /\ move' = [g \in Games |-> [s \in Seats |-> IF tid[g][s] = p THEN "" ELSE move[g][s]]]
  /\ UNCHANGED <<playing, unheard, up, thrown>>

\* play outside a game.
PlayRefused(p) ==
  /\ up /\ Awake(p) /\ ~ InGame(p)
  /\ answer' = [Unanswered EXCEPT ![p] = "E"]
  /\ UNCHANGED <<tid, move, playing, unheard, up, thrown>>

\* play with a word that is no move: no branch of the server answers it.
PlayUnknown(p) ==
  /\ up /\ Awake(p)
  /\ unheard' = unheard \cup {p} /\ answer' = Unanswered
  /\ UNCHANGED <<tid, move, playing, up, thrown>>

\* Mutant of Waits: the player is answered at once.
WaitsNot(p) == playing' = playing

\* The player sleeps until there is a verdict.
Waits(p) == playing' = playing \cup {p}

\* play before the opponent has thrown, or with no opponent yet.
PlayFirst(p, m) ==
  LET x == First(SeatsOf(p))
  IN /\ up /\ Awake(p) /\ InGame(p)
     /\ move[x[1]][3 - x[2]] = ""
     /\ move' = [move EXCEPT ![x[1]][x[2]] = m]
     /\ thrown' = [thrown EXCEPT ![p] = m]
     /\ Waits(p) /\ answer' = Unanswered
     /\ UNCHANGED <<tid, unheard, up>>

\* play after the opponent: both are answered and the moves forgotten.
PlaySecond(p, m) ==
  LET x == First(SeatsOf(p))
      g == x[1]
      q == tid[g][3 - x[2]]
      n == move[g][3 - x[2]]
  IN /\ up /\ Awake(p) /\ InGame(p)
     /\ n # ""
     /\ answer' = [Unanswered EXCEPT ![p] = Verdict(m, n), ![q] = Verdict(n, m)]
     /\ playing' = playing \ {q}
     /\ move' = [move EXCEPT ![g] = [s \in Seats |-> ""]]
     /\ thrown' = [thrown EXCEPT ![p] = m]
     /\ UNCHANGED <<tid, unheard, up>>

\* Who waits for a reply and sits in a game, when p asks for the shutdown.
Told(p) == {q \in playing \cup unheard \cup {p} : InGame(q)}

\* RPCShutdown: "K" to all of those, and "+" to the caller if it was not among
\* them; the server exits.
Shutdown(p) ==
  /\ up /\ Awake(p) /\ up' = FALSE
  /\ answer' = [q \in Players |-> IF q \in Told(p) THEN "K" ELSE IF q = p THEN "+" ELSE ""]
  /\ playing' = playing \ Told(p) /\ unheard' = unheard \ Told(p)
  /\ UNCHANGED <<tid, move, thrown>>

GameNext ==
  \E p \in Players :
    \/ Signup(p) \/ Quit(p) \/ PlayRefused(p) \/ PlayUnknown(p) \/ Shutdown(p)
    \/ \E m \in Moves : PlayFirst(p, m) \/ PlaySecond(p, m)

GameSpec == GameInit /\ [][GameNext]_gameVars

-----------------------------------------------------------------------------
(* Properties.                                                             *)

GameTypeOK ==
  /\ tid \in [Games -> [Seats -> Players \cup {Nobody}]]
  /\ move \in [Games -> [Seats -> Moves \cup {""}]]
  /\ playing \subseteq Players /\ unheard \subseteq Players
  /\ answer \in [Players -> {"", "recieved", "E", "W", "L", "D", "K", "+"}]
  /\ up \in BOOLEAN
  /\ thrown \in [Players -> Moves \cup {""}]

\* A stored move belongs to a player who still sleeps in play() and is the move
\* it threw, whoever came and went on the other seat; and the move of whoever threw
\* one and sleeps is stored.  So every verdict reaches the task that threw.  A
\* shutdown leaves none of those asleep.
StoredMovesAreSleepers ==
  /\ up => /\ \A g \in Games, s \in Seats :
               move[g][s] # "" => tid[g][s] \in playing /\ thrown[tid[g][s]] = move[g][s]
           /\ \A p \in playing : \E x \in SeatsOf(p) : move[x[1]][x[2]] # ""
  /\ ~ up => playing = {}

\* Who is told W or L lost or won to someone told the opposite in the same step,
\* by the moves the two threw.
VerdictsAgree ==
  [][\A p \in Players :
       p \in playing /\ p \notin playing' /\ answer'[p] \in {"W", "L", "D"} =>
         \E q \in Players \ {p} :
           /\ thrown[p] # "" /\ thrown'[q] # ""
           /\ CASE answer'[p] = "W" -> <<thrown[p], thrown'[q]>> \in Beats /\ answer'[q] = "L"
                [] answer'[p] = "L" -> <<thrown'[q], thrown[p]>> \in Beats /\ answer'[q] = "W"
                [] OTHER            -> thrown[p] = thrown'[q] /\ answer'[q] = "D"]_gameVars

=============================================================================
