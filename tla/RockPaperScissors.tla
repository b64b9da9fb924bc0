-------------------------- MODULE RockPaperScissors --------------------------
(***************************************************************************)
(* The Rock-Paper-Scissors engine (class RockPaperScissors,                *)
(* rockPaperScissors.js) as operators on scores.  The history only weights *)
(* the bot's choice: with a counter 60% of the time and a random choice    *)
(* otherwise, each of the three choices stays possible in every round, so  *)
(* the model keeps the scores and lets the bot choose freely.              *)
(***************************************************************************)
EXTENDS Naturals

choices == {"pierre", "feuille", "ciseaux"}

RPSGame == [player : Nat, bot : Nat]

\* new RockPaperScissors()
NewRPSGame == [player |-> 0, bot |-> 0]

\* The choice each choice beats.
winConditions == [pierre |-> "ciseaux", feuille |-> "pierre", ciseaux |-> "feuille"]

\* What getBotChoice may return: any of the choices, whatever the history.
getBotChoice == choices

determineWinner(playerChoice, botChoice) ==
    IF playerChoice = botChoice THEN "tie"
    ELSE IF winConditions[playerChoice] = botChoice THEN "player" ELSE "bot"

\* The game after playRound, and with it the round's effect on the scores.
playRound(g, playerChoice, botChoice) ==
    LET winner == determineWinner(playerChoice, botChoice)
    IN  CASE winner = "player" -> [g EXCEPT !.player = @ + 1]
          [] winner = "bot"    -> [g EXCEPT !.bot = @ + 1]
          [] OTHER             -> g

\* "first to 3 wins": the test for the end of a game in handleRPSInput, which
\* does not call the engine's own isGameOver.
WinningScore == 3

isGameOver(g) == g.player >= WinningScore \/ g.bot >= WinningScore

=============================================================================
