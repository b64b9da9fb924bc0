------------------------------ MODULE TicTacToe ------------------------------
(***************************************************************************)
(* The Tic-Tac-Toe engine (class TicTacToe, ticTacToe.js) as operators on  *)
(* board values, and Turn, the synchronous part of one input as the game   *)
(* handler plays it (handleTicTacToeInput, gameHandler.js).  The player is *)
(* X, the bot is O.                                                        *)
(***************************************************************************)
EXTENDS Integers, FiniteSetsExt

Cells == 0..8
Blank == " "
Players == {"X", "O"}
Board == [Cells -> Players \cup {Blank}]

\* new TicTacToe(): the board of a new game.
EmptyBoard == [i \in Cells |-> Blank]

getAvailableMoves(b) == {i \in Cells : b[i] = Blank}

\* The board after makeMove; a refused move leaves it alone.
makeMove(b, position, player) ==
    IF position \in getAvailableMoves(b)
    THEN [b EXCEPT ![position] = player]
    ELSE b

\* The order matters: checkWinner returns the mark of the first complete line.
winningCombinations ==
    << <<0, 1, 2>>, <<3, 4, 5>>, <<6, 7, 8>>,
       <<0, 3, 6>>, <<1, 4, 7>>, <<2, 5, 8>>,
       <<0, 4, 8>>, <<2, 4, 6>> >>

NoWinner == "none"

Completed(b, k) ==
    LET line == winningCombinations[k]
    IN  b[line[1]] # Blank /\ b[line[1]] = b[line[2]] /\ b[line[2]] = b[line[3]]

\* Fault for the mutation runs: the last diagonal is not looked at.
checkWinnerShort(b) ==
    LET complete == {k \in 1..7 : Completed(b, k)}
    IN  IF complete = {} THEN NoWinner
        ELSE b[winningCombinations[Min(complete)][1]]

checkWinner(b) ==
    LET complete == {k \in 1..8 : Completed(b, k)}
    IN  IF complete = {} THEN NoWinner
        ELSE b[winningCombinations[Min(complete)][1]]

isDraw(b) == getAvailableMoves(b) = {} /\ checkWinner(b) = NoWinner

\* minimax(depth, isMaximizing) on the engine's board.
minimax[b \in Board] == [isMaximizing \in BOOLEAN |-> [depth \in Nat |->
    LET winner == checkWinner(b)
        moves  == getAvailableMoves(b)
        mark   == IF isMaximizing THEN "O" ELSE "X"
        scores == {minimax[[b EXCEPT ![m] = mark]][~isMaximizing][depth + 1] : m \in moves}
    IN  CASE winner = "O" -> 10 - depth
          [] winner = "X" -> depth - 10
          [] winner = NoWinner /\ moves = {} -> 0
          [] OTHER        -> IF isMaximizing THEN Max(scores) ELSE Min(scores)]]

\* Faults for the mutation runs: the answer is scored as if the bot moved
\* again; and the depth of a win is disregarded.
getBestMoveTwice(b) ==
    LET moves  == getAvailableMoves(b)
        scored == {<<minimax[[b EXCEPT ![m] = "O"]][TRUE][0], m>> : m \in moves}
        beats(p, q) == p[1] > q[1] \/ (p[1] = q[1] /\ p[2] <= q[2])
    IN  IF moves = {} THEN {-1}
        ELSE {p[2] : p \in {q \in scored : \A r \in scored : beats(q, r)}}

getBestMoveAnyWin(b) ==
    LET moves  == getAvailableMoves(b)
        wins   == {m \in moves : minimax[[b EXCEPT ![m] = "O"]][FALSE][0] > 0}
        draws  == {m \in moves : minimax[[b EXCEPT ![m] = "O"]][FALSE][0] = 0}
    IN  IF moves = {}       THEN {-1}
        ELSE IF wins # {}   THEN {Min(wins)}
        ELSE IF draws # {}  THEN {Min(draws)} ELSE {Min(moves)}

\* The moves getBestMove may return: one, except on the empty board, where it
\* draws lots between the centre and the corners; -1 when the board is full.
getBestMove(b) ==
    LET moves  == getAvailableMoves(b)
        scored == {<<minimax[[b EXCEPT ![m] = "O"]][FALSE][0], m>> : m \in moves}
        beats(p, q) == p[1] > q[1] \/ (p[1] = q[1] /\ p[2] <= q[2])
    IN  IF moves = {}         THEN {-1}
        ELSE IF moves = Cells THEN {0, 2, 4, 6, 8}
        ELSE {p[2] : p \in {q \in scored : \A r \in scored : beats(q, r)}}

\* What the handler announces about a board once the bot has answered.
VerdictOf(b) ==
    CASE checkWinner(b) = "O" -> "bot"
      [] isDraw(b)            -> "draw"
      [] OTHER                -> "none"

\* One accepted input: the player's mark, the checks, then the bot's mark
\* from botMoves (its moves on the board with the player's mark).
Turn(b, position, botMoves) ==
    LET mine == makeMove(b, position, "X")
    IN  IF checkWinner(mine) = "X"
        THEN {[board |-> mine, verdict |-> "player"]}
        ELSE IF isDraw(mine)
        THEN {[board |-> mine, verdict |-> "draw"]}
        ELSE {[board |-> b2, verdict |-> VerdictOf(b2)] :
                 b2 \in {makeMove(mine, m, "O") : m \in botMoves}}

Marks(b, player) == {i \in Cells : b[i] = player}

\* The game is over: somebody completed a line or no cell is left.
Finished(b) == checkWinner(b) # NoWinner \/ isDraw(b)

=============================================================================
