---------------------------- MODULE TicTacToeGame ----------------------------
(***************************************************************************)
(* One game of Tic-Tac-Toe against the engine, the inputs coming one at a  *)
(* time: the player marks any free cell, the engine answers with           *)
(* getBestMove.  It is the game GameHandler plays when no two inputs of a  *)
(* user overlap, with the engine's own moves in place of arbitrary ones.   *)
(***************************************************************************)
EXTENDS TicTacToe

VARIABLES board, verdict

boardVars == <<board, verdict>>

BoardInit == board = EmptyBoard /\ verdict = "none"

\* A new /tictactoe command.
newGame ==
    /\ board' = EmptyBoard
    /\ verdict' = "none"

\* An input naming a free cell of a game that is still open.
Play(position) ==
    /\ verdict = "none"
    /\ position \in getAvailableMoves(board)
    /\ \E t \in Turn(board, position,
                     getBestMove(makeMove(board, position, "X"))) :
          board' = t.board /\ verdict' = t.verdict

BoardNext == newGame \/ \E position \in Cells : Play(position)

BoardSpec == BoardInit /\ [][BoardNext]_boardVars

-----------------------------------------------------------------------------
(* A reference definition of the game, independent of scores and depths.   *)

HasLine(b, player) ==
    \E k \in DOMAIN winningCombinations :
       \A i \in 1..3 : b[winningCombinations[k][i]] = player

\* The boards from which the bot, to move, can complete a line in at most n
\* moves of its own whatever the player answers.
ForcedWins[n \in 0..5] ==
    IF n = 0 THEN {} ELSE
    {b \in Board :
        /\ ~HasLine(b, "X")
        /\ \E m \in getAvailableMoves(b) :
              LET b1 == [b EXCEPT ![m] = "O"]
              IN  \/ HasLine(b1, "O")
                  \/ /\ getAvailableMoves(b1) # {}
                     /\ \A r \in getAvailableMoves(b1) :
                           [b1 EXCEPT ![r] = "X"] \in ForcedWins[n - 1]}

-----------------------------------------------------------------------------

\* Whatever the player does, the engine never loses: the handler's "Vous avez
\* gagné" branch is unreachable when inputs do not overlap.
BotNeverLoses == verdict # "player" /\ ~HasLine(board, "X")

\* Marks are placed in turns, and the announcement fits the board: an open
\* game has as many X as O and no line, a draw has X everywhere O is not and
\* no line, and the bot's win shows a line of O.
VerdictFitsBoard ==
    LET x == Cardinality(Marks(board, "X"))
        o == Cardinality(Marks(board, "O"))
    IN  CASE verdict = "none" -> x = o /\ ~HasLine(board, "O")
          [] verdict = "draw" -> x = 5 /\ o = 4 /\ ~HasLine(board, "O")
          [] verdict = "bot"  -> x = o /\ HasLine(board, "O")
          [] OTHER            -> TRUE

\* getBestMove is a game-theoretically sound player: from a position where a
\* win can be forced (reference definition) the answer keeps it forced, in one
\* move less (the scores 10 - depth make it take the fastest win).
KeepsForcedWins ==
    [][ \A position \in Cells, n \in 1..4 :
          board[position] = Blank /\ board'[position] = "X"
          /\ makeMove(board, position, "X") \in ForcedWins[n]
          => \/ HasLine(board', "O")
             \/ \A r \in getAvailableMoves(board') :
                   makeMove(board', r, "X") \in ForcedWins[n - 1] ]_boardVars

=============================================================================
