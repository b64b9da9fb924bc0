----------------------------- MODULE GameHandler -----------------------------
(***************************************************************************)
(* The interactive games (class GameHandler, gameHandler.js) over the      *)
(* session table and the two engines.                                      *)
(*                                                                         *)
(* Each call of a handler runs to its first await of sock.sendMessage in   *)
(* one step, waits there, and goes on when the send settles; nothing keeps *)
(* a second message of the same user from being handled meanwhile.  A      *)
(* waiting call is a record of calls: where it waits and for whom, and,    *)
(* for the two awaits that are followed by endGameForUser, whether the     *)
(* game it is about is still the user's game (onCurrent, which the code    *)
(* has no notion of and only the properties read).                         *)
(***************************************************************************)
EXTENDS SessionManager, TicTacToe, RockPaperScissors

CONSTANTS
    Calls,        \* slots for handler calls that may run at the same time
    NoUser,       \* the user of a slot that waits for nothing
    NoGame,       \* stands for the absence of an entry in a table of games
    BotMoves(_),  \* the Tic-Tac-Toe moves the bot may make on a board
    MaxScore      \* bound: no round is played beyond this score

ASSUME GameAssumption ==
    /\ {"tictactoe", "rps"} \subseteq SessionTypes
    /\ NoUser \notin Users
    /\ NoGame \notin Board
    /\ NoGame \notin RPSGame
    /\ MaxScore \in Nat

\* The bot marks a free cell while there is one, as getBestMove does.
ASSUME BotAssumption ==
    \A b \in Board :
        getAvailableMoves(b) # {} => BotMoves(b) \subseteq getAvailableMoves(b)

VARIABLES
    ticTacToeGames, rpsGames,   \* the two Maps, as total functions
    calls

gameVars == <<ticTacToeGames, rpsGames>>
vars == <<sessions, untilCleanup, ticTacToeGames, rpsGames, calls>>

\* Where a call waits for a send, and how a call that ended has ended:
\* handleGameInput returned false ("unhandled"), threw, or is done.
Waits == {"startReply", "startError", "reply", "final", "errorReply", "quitReply"}
Ends  == {"idle", "done", "unhandled", "thrown"}

Call == [at : Waits, user : Users, onCurrent : BOOLEAN]
          \cup [at : Ends, user : {NoUser}, onCurrent : {FALSE}]

Wait(at, u, onCurrent) == [at |-> at, user |-> u, onCurrent |-> onCurrent]
Ended(at) == [at |-> at, user |-> NoUser, onCurrent |-> FALSE]

Free(c) == calls[c].at \in Ends

Init ==
    /\ SessionInit
    /\ ticTacToeGames = [u \in Users |-> NoGame]
    /\ rpsGames = [u \in Users |-> NoGame]
    /\ calls = [c \in Calls |-> Ended("idle")]

\* The calls once the games of u have been replaced or removed by call c, which
\* goes on as rec.
CallsAfterEnding(c, rec, u) ==
    [d \in Calls |->
        IF d = c THEN rec
        ELSE IF calls[d].user = u THEN [calls[d] EXCEPT !.onCurrent = FALSE]
        ELSE calls[d]]

\* Faults for the mutation runs: the session is forgotten; the RPS game is.
endGamesOnly(u) ==
    /\ ticTacToeGames' = [ticTacToeGames EXCEPT ![u] = NoGame]
    /\ rpsGames' = [rpsGames EXCEPT ![u] = NoGame]
    /\ UNCHANGED sessions

endTicTacToeOnly(u) ==
    /\ ticTacToeGames' = [ticTacToeGames EXCEPT ![u] = NoGame]
    /\ sessions' = endSession(sessions, u)
    /\ UNCHANGED rpsGames

endAllGamesForUser(u) ==
    /\ ticTacToeGames' = [ticTacToeGames EXCEPT ![u] = NoGame]
    /\ rpsGames' = [rpsGames EXCEPT ![u] = NoGame]
    /\ sessions' = endSession(sessions, u)

-----------------------------------------------------------------------------
(* The synchronous part of each call.                                      *)

\* The game of u, of whatever kind, is replaced and a session of that kind
\* created.
startTicTacToe(c, u) ==
    /\ Free(c)
    /\ ticTacToeGames' = [ticTacToeGames EXCEPT ![u] = EmptyBoard]
    /\ rpsGames' = [rpsGames EXCEPT ![u] = NoGame]
    /\ sessions' = createSession(sessions, u, "tictactoe")
    /\ calls' = CallsAfterEnding(c, Wait("startReply", u, FALSE), u)
    /\ UNCHANGED untilCleanup

\* Fault for the mutation runs: a start that ends no other game.
startBesideOtherGame(c, u) ==
    /\ Free(c)
    /\ rpsGames' = [rpsGames EXCEPT ![u] = NewRPSGame]
    /\ sessions' = createSession(sessions, u, "rps")
    /\ calls' = CallsAfterEnding(c, Wait("startReply", u, FALSE), u)
    /\ UNCHANGED <<untilCleanup, ticTacToeGames>>

startRockPaperScissors(c, u) ==
    /\ Free(c)
    /\ ticTacToeGames' = [ticTacToeGames EXCEPT ![u] = NoGame]
    /\ rpsGames' = [rpsGames EXCEPT ![u] = NewRPSGame]
    /\ sessions' = createSession(sessions, u, "rps")
    /\ calls' = CallsAfterEnding(c, Wait("startReply", u, FALSE), u)
    /\ UNCHANGED untilCleanup

\* handleGameInput of a user without a live session, or whose session has no
\* game of its type: false, and the caller takes the text for something else.
InputNotForGame(c, u) ==
    /\ Free(c)
    /\ HasSession(u) =>
          \/ sessions[u].type = "tictactoe" /\ ticTacToeGames[u] = NoGame
          \/ sessions[u].type = "rps" /\ rpsGames[u] = NoGame
    /\ sessions' = getSession(u)
    /\ calls' = [calls EXCEPT ![c] = Ended("unhandled")]
    /\ UNCHANGED <<untilCleanup, gameVars>>

\* "quit": endGame sends the good-bye first and ends the game afterwards.
endGame(c, u) ==
    /\ Free(c)
    /\ HasSession(u)
    /\ sessions' = getSession(u)
    /\ calls' = [calls EXCEPT ![c] = Wait("quitReply", u, TRUE)]
    /\ UNCHANGED <<untilCleanup, gameVars>>

\* An input that is no move: not a digit 1 to 9, or not a choice.
InvalidInput(c, u) ==
    /\ Free(c)
    /\ HasSession(u)
    /\ \/ sessions[u].type = "tictactoe" /\ ticTacToeGames[u] # NoGame
       \/ sessions[u].type = "rps" /\ rpsGames[u] # NoGame
    /\ sessions' = getSession(u)
    /\ calls' = [calls EXCEPT ![c] = Wait("reply", u, FALSE)]
    /\ UNCHANGED <<untilCleanup, gameVars>>

\* Fault for the mutation runs: the result of the player's makeMove is ignored.
handleUncheckedInput(c, u, position) ==
    /\ Free(c)
    /\ HasSession(u)
    /\ sessions[u].type = "tictactoe"
    /\ ticTacToeGames[u] # NoGame
    /\ sessions' = getSession(u)
    /\ \E t \in Turn(ticTacToeGames[u], position,
                     BotMoves(makeMove(ticTacToeGames[u], position, "X"))) :
          /\ ticTacToeGames' = [ticTacToeGames EXCEPT ![u] = t.board]
          /\ calls' = [calls EXCEPT ![c] =
                 IF t.verdict = "none" THEN Wait("reply", u, FALSE)
                                       ELSE Wait("final", u, TRUE)]
    /\ UNCHANGED <<untilCleanup, rpsGames>>

\* A digit, in a game of Tic-Tac-Toe.
handleTicTacToeInput(c, u, position) ==
    /\ Free(c)
    /\ HasSession(u)
    /\ sessions[u].type = "tictactoe"
    /\ ticTacToeGames[u] # NoGame
    /\ sessions' = getSession(u)
    /\ \/ /\ position \notin getAvailableMoves(ticTacToeGames[u])
          /\ calls' = [calls EXCEPT ![c] = Wait("reply", u, FALSE)]
          /\ UNCHANGED ticTacToeGames
       \/ /\ position \in getAvailableMoves(ticTacToeGames[u])
          /\ \E t \in Turn(ticTacToeGames[u], position,
                           BotMoves(makeMove(ticTacToeGames[u], position, "X"))) :
                /\ ticTacToeGames' = [ticTacToeGames EXCEPT ![u] = t.board]
                /\ calls' = [calls EXCEPT ![c] =
                       IF t.verdict = "none" THEN Wait("reply", u, FALSE)
                                             ELSE Wait("final", u, TRUE)]
    /\ UNCHANGED <<untilCleanup, rpsGames>>

\* A choice, in a game of Rock-Paper-Scissors.
handleRPSInput(c, u, playerChoice, botChoice) ==
    /\ Free(c)
    /\ HasSession(u)
    /\ sessions[u].type = "rps"
    /\ rpsGames[u] # NoGame
    /\ rpsGames[u].player < MaxScore /\ rpsGames[u].bot < MaxScore
    /\ sessions' = getSession(u)
    /\ LET g == playRound(rpsGames[u], playerChoice, botChoice)
       IN  /\ rpsGames' = [rpsGames EXCEPT ![u] = g]
           /\ calls' = [calls EXCEPT ![c] =
                  IF isGameOver(g) THEN Wait("final", u, TRUE)
                                   ELSE Wait("reply", u, FALSE)]
    /\ UNCHANGED <<untilCleanup, ticTacToeGames>>

-----------------------------------------------------------------------------
(* The send a call waits for settles.                                      *)

Resume(c, rec) ==
    /\ calls' = [calls EXCEPT ![c] = rec]
    /\ UNCHANGED <<sessions, untilCleanup, gameVars>>

\* Sent: the call is over, and handleGameInput's catch returns false.
ReplySent(c) ==
    \/ calls[c].at \in {"startReply", "startError", "reply"} /\ Resume(c, Ended("done"))
    \/ calls[c].at = "errorReply" /\ Resume(c, Ended("unhandled"))

\* The verdict or the good-bye is sent: endGameForUser, whatever the user is
\* playing by now.
endGameForUser(c) ==
    /\ calls[c].at \in {"final", "quitReply"}
    /\ endAllGamesForUser(calls[c].user)
    /\ calls' = CallsAfterEnding(c, Ended("done"), calls[c].user)
    /\ UNCHANGED untilCleanup

\* Fault for the mutation runs: a start whose error message fails tries again.
SendRetried(c) ==
    \/ calls[c].at = "startReply" /\ Resume(c, Wait("startError", calls[c].user, FALSE))
    \/ calls[c].at = "startError" /\ Resume(c, Wait("startReply", calls[c].user, FALSE))
    \/ calls[c].at \in {"reply", "final"} /\ Resume(c, Wait("errorReply", calls[c].user, FALSE))
    \/ calls[c].at \in {"errorReply", "quitReply"} /\ Resume(c, Ended("thrown"))

\* The send fails.  The two start handlers and the input handlers answer with
\* an error message of their own; that one failing, or the good-bye, throws.
SendRejected(c) ==
    \/ calls[c].at = "startReply" /\ Resume(c, Wait("startError", calls[c].user, FALSE))
    \/ calls[c].at \in {"reply", "final"} /\ Resume(c, Wait("errorReply", calls[c].user, FALSE))
    \/ calls[c].at \in {"startError", "errorReply", "quitReply"} /\ Resume(c, Ended("thrown"))

SendSettles(c) == ReplySent(c) \/ endGameForUser(c) \/ SendRejected(c)

-----------------------------------------------------------------------------

handleGameInput(c, u) ==
    \/ InputNotForGame(c, u)
    \/ endGame(c, u)
    \/ InvalidInput(c, u)
    \/ \E position \in Cells : handleTicTacToeInput(c, u, position)
    \/ \E playerChoice \in choices, botChoice \in getBotChoice :
          handleRPSInput(c, u, playerChoice, botChoice)

Message(c, u) ==
    startTicTacToe(c, u) \/ startRockPaperScissors(c, u) \/ handleGameInput(c, u)

Time == (Tick \/ cleanupExpiredSessions) /\ UNCHANGED <<gameVars, calls>>

Next ==
    \/ \E c \in Calls, u \in Users : Message(c, u)
    \/ \E c \in Calls : SendSettles(c)
    \/ Time

Spec == Init /\ [][Next]_vars

\* Time passes, the clean-up timer fires, and every send settles one way or
\* the other; no message need ever arrive.
Fairness == WF_vars(Time) /\ \A c \in Calls : WF_vars(SendSettles(c))

FairSpec == Spec /\ Fairness

-----------------------------------------------------------------------------
(* Properties.                                                             *)

\* Every table, game and waiting call has its shape.
TypeOK ==
    /\ SessionTypeOK
    /\ ticTacToeGames \in [Users -> Board \cup {NoGame}]
    /\ rpsGames \in [Users -> RPSGame \cup {NoGame}]
    /\ calls \in [Calls -> Call]

\* A session always has the game of its type, so the "if (!game) return false"
\* of both input handlers is dead code and no input of a player in session is
\* mistaken for a music query, however starts, ends and timers interleave.
SessionHasItsGame ==
    \A u \in Users : sessions[u] # NoSession =>
        /\ sessions[u].type = "tictactoe" => ticTacToeGames[u] # NoGame
        /\ sessions[u].type = "rps" => rpsGames[u] # NoGame

\* The two Maps never hold a game of the same user, not even a forgotten one.
OneGamePerUser ==
    \A u \in Users : ticTacToeGames[u] = NoGame \/ rpsGames[u] = NoGame

\* A board that is still in play has as many X as O: overlapping inputs never
\* cost the player or the bot a turn.
TurnsAlternate ==
    \A u \in Users :
        ticTacToeGames[u] # NoGame /\ ~Finished(ticTacToeGames[u]) =>
            Cardinality(Marks(ticTacToeGames[u], "X"))
                = Cardinality(Marks(ticTacToeGames[u], "O"))

HasFinishedGame(u) ==
    \/ ticTacToeGames[u] # NoGame /\ Finished(ticTacToeGames[u])
    \/ rpsGames[u] # NoGame /\ isGameOver(rpsGames[u])

BeingEnded(u) ==
    \E c \in Calls : calls[c].at = "final" /\ calls[c].user = u /\ calls[c].onCurrent

\* A finished game stays on the table only while a call is announcing it and
\* about to remove it; the one way to leave it there for good is the failure of
\* that announcement.
FinishedGamesAreEnded ==
    [][ \A u \in Users :
          HasFinishedGame(u)' /\ ~BeingEnded(u)' =>
              \/ HasFinishedGame(u) /\ ~BeingEnded(u)
              \/ \E c \in Calls : calls[c].at = "final" /\ calls'[c].at = "errorReply" ]_vars

\* The session of a player who is not idle disappears only when a call of his
\* own ends the game: neither the timer nor a late reader drops it early.
OnlyIdleSessionsExpire ==
    [][ \A u \in Users :
          sessions[u] # NoSession /\ sessions[u].age <= SessionTimeout
          /\ sessions'[u] = NoSession
              => \E c \in Calls : calls[c].user = u /\ calls'[c].at = "done" ]_vars

\* Once no message of a player reaches a game, no call of his waits and no session of
\* his is left, whatever was in flight: no send that settles late revives one.
QuietPlayersAreForgotten ==
    \A u \in Users :
        <>[][\A c \in Calls : calls'[c].user = u => calls[c].user = u]_vars
            => <>[](sessions[u] = NoSession /\ \A c \in Calls : calls[c].user # u)

\* The handler keeps what GameService promises the router: sessions decide who
\* plays, and a player's text comes back unhandled only after an apology.
ServiceAt(at) ==
    CASE at = "startReply" -> "starting"
      [] at \in {"reply", "final"} -> "replying"
      [] at = "quitReply" -> "quitting"
      [] OTHER -> at

Service ==
    INSTANCE GameService WITH
        playing <- {u \in Users : HasSession(u)},
        calls   <- [c \in Calls |-> [at |-> ServiceAt(calls[c].at), user |-> calls[c].user]]

ImplementsGameService == Service!Spec

=============================================================================
