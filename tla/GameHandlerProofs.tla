-------------------------- MODULE GameHandlerProofs --------------------------
(***************************************************************************)
(* Theorems about GameHandler for any number of users and overlapping      *)
(* calls, any timeout and any bot that marks free cells.                   *)
(***************************************************************************)
EXTENDS GameHandler, TicTacToeProofs

-----------------------------------------------------------------------------
(* The engines.                                                            *)

\* A round leaves a pair of scores.
LEMMA RoundKeepsScores ==
    ASSUME NEW g \in RPSGame, NEW playerChoice, NEW botChoice
    PROVE  playRound(g, playerChoice, botChoice) \in RPSGame
  BY DEF playRound, RPSGame

-----------------------------------------------------------------------------
(* The session table.                                                      *)

\* getSession leaves a table, in which no session is new and none has changed
\* its type; it touches the session of its user only.
LEMMA GetSessionKeepsTable ==
    ASSUME SessionTypeOK, NEW u \in Users
    PROVE  /\ getSession(u) \in [Users -> Session \cup {NoSession}]
           /\ \A v \in Users : getSession(u)[v] # NoSession =>
                 /\ sessions[v] # NoSession
                 /\ getSession(u)[v].type = sessions[v].type
                 /\ getSession(u)[v].age <= sessions[v].age
<1> USE SessionAssumption DEF SessionTypeOK, Session
<1>1. CASE sessions[u] = NoSession
  BY <1>1 DEF getSession
<1>2. CASE sessions[u] # NoSession /\ HasSession(u)
  <2>1. sessions[u] \in Session
    BY <1>2
  <2>2. getSession(u) = [sessions EXCEPT ![u] = [sessions[u] EXCEPT !.age = 0]]
    BY <1>2 DEF getSession, refreshed
  <2>3. [sessions[u] EXCEPT !.age = 0] \in Session
    BY <2>1
  <2> QED
    BY <2>1, <2>2, <2>3
<1>3. CASE sessions[u] # NoSession /\ ~HasSession(u)
  BY <1>3 DEF getSession, endSession
<1> QED
  BY <1>1, <1>2, <1>3

\* createSession replaces the session of its user by a fresh one, and no other.
LEMMA CreateSessionFacts ==
    ASSUME SessionTypeOK, NEW u \in Users, NEW type \in SessionTypes
    PROVE  /\ createSession(sessions, u, type)[u] # NoSession
           /\ createSession(sessions, u, type)[u].age = 0
           /\ \A v \in Users \ {u} : createSession(sessions, u, type)[v] = sessions[v]
<1>1. [type |-> type, age |-> 0] \in Session
  BY DEF Session
<1>2. [type |-> type, age |-> 0] # NoSession
  BY <1>1, SessionAssumption DEF Session
<1> QED
  BY <1>2 DEF createSession, SessionTypeOK

-----------------------------------------------------------------------------
(* Type correctness.                                                       *)

\* A call that waits, and one that has ended, has its shape.
LEMMA WaitIsCall ==
    ASSUME NEW w \in Waits, NEW u \in Users, NEW k \in BOOLEAN
    PROVE  Wait(w, u, k) \in Call
  BY DEF Wait, Call

\* A call that has ended is a call.
LEMMA EndedIsCall ==
    ASSUME NEW e \in Ends
    PROVE  Ended(e) \in Call
  BY DEF Ended, Call

\* A waiting call keeps its shape when its game is taken from it.
LEMMA CallsAfterEndingType ==
    ASSUME calls \in [Calls -> Call], NEW c \in Calls, NEW rec \in Call, NEW u \in Users
    PROVE  CallsAfterEnding(c, rec, u) \in [Calls -> Call]
<1>1. \A d \in Calls : calls[d].user = u =>
         [calls[d] EXCEPT !.onCurrent = FALSE] \in Call
  <2> SUFFICES ASSUME NEW d \in Calls, calls[d].user = u
               PROVE  [calls[d] EXCEPT !.onCurrent = FALSE] \in Call
    OBVIOUS
  <2>1. calls[d] \in Call
    OBVIOUS
  <2>2. calls[d] \in [at : Waits, user : Users, onCurrent : BOOLEAN]
    BY <2>1, GameAssumption DEF Call
  <2> QED
    BY <2>2 DEF Call
<1> QED
  BY <1>1 DEF CallsAfterEnding

\* A call waits on behalf of a user of the bot.
LEMMA WaitingCallHasUser ==
    ASSUME calls \in [Calls -> Call], NEW c \in Calls, calls[c].at \in Waits
    PROVE  calls[c].user \in Users
<1>1. calls[c] \in Call
  OBVIOUS
<1> QED
  BY <1>1 DEF Call, Waits, Ends

\* At the start nobody plays and nothing waits.
LEMMA InitTypeOK == Init => TypeOK
  BY SessionAssumption, GameAssumption
  DEF Init, TypeOK, SessionInit, SessionTypeOK, Ended, Call, Ends

\* The synchronous part of a call, and every settled send, keep the types.
LEMMA MessageTypeOK ==
    ASSUME TypeOK, NEW c \in Calls, NEW u \in Users, Message(c, u)
    PROVE  TypeOK'
<1> USE SessionAssumption, GameAssumption
<1>1. CASE startTicTacToe(c, u)
  <2>1. EmptyBoard \in Board
    BY DEF EmptyBoard, Board
  <2>2. sessions' \in [Users -> Session \cup {NoSession}]
    BY <1>1 DEF startTicTacToe, createSession, TypeOK, SessionTypeOK, Session
  <2>3. calls' \in [Calls -> Call]
    BY <1>1, CallsAfterEndingType, WaitIsCall DEF startTicTacToe, TypeOK, Waits
  <2> QED
    BY <1>1, <2>1, <2>2, <2>3 DEF startTicTacToe, TypeOK, SessionTypeOK
<1>2. CASE startRockPaperScissors(c, u)
  <2>1. NewRPSGame \in RPSGame
    BY DEF NewRPSGame, RPSGame
  <2>2. sessions' \in [Users -> Session \cup {NoSession}]
    BY <1>2 DEF startRockPaperScissors, createSession, TypeOK, SessionTypeOK, Session
  <2>3. calls' \in [Calls -> Call]
    BY <1>2, CallsAfterEndingType, WaitIsCall DEF startRockPaperScissors, TypeOK, Waits
  <2> QED
    BY <1>2, <2>1, <2>2, <2>3 DEF startRockPaperScissors, TypeOK, SessionTypeOK
<1>3. SessionTypeOK
  BY DEF TypeOK
<1>4. getSession(u) \in [Users -> Session \cup {NoSession}]
  BY <1>3, GetSessionKeepsTable
<1>5. CASE InputNotForGame(c, u)
  <2>1. calls' \in [Calls -> Call]
    BY <1>5, EndedIsCall DEF InputNotForGame, TypeOK, Ends
  <2> QED
    BY <1>4, <1>5, <2>1 DEF InputNotForGame, TypeOK, SessionTypeOK, gameVars
<1>6. CASE endGame(c, u)
  <2>1. calls' \in [Calls -> Call]
    BY <1>6, WaitIsCall DEF endGame, TypeOK, Waits
  <2> QED
    BY <1>4, <1>6, <2>1 DEF endGame, TypeOK, SessionTypeOK, gameVars
<1>7. CASE InvalidInput(c, u)
  <2>1. calls' \in [Calls -> Call]
    BY <1>7, WaitIsCall DEF InvalidInput, TypeOK, Waits
  <2> QED
    BY <1>4, <1>7, <2>1 DEF InvalidInput, TypeOK, SessionTypeOK, gameVars
<1>8. ASSUME NEW position \in Cells, handleTicTacToeInput(c, u, position)
      PROVE  TypeOK'
  <2>1. Wait("reply", u, FALSE) \in Call /\ Wait("final", u, TRUE) \in Call
    BY WaitIsCall DEF Waits
  <2>2. calls' \in [Calls -> Call]
    BY <1>8, <2>1 DEF handleTicTacToeInput, TypeOK
  <2>3. ticTacToeGames[u] \in Board
    BY <1>8 DEF handleTicTacToeInput, TypeOK
  <2>4. \A moves : \A t \in Turn(ticTacToeGames[u], position, moves) : t.board \in Board
    BY <2>3, TurnKeepsBoard
  <2>5. \E b \in Board \cup {NoGame} :
           ticTacToeGames' = [ticTacToeGames EXCEPT ![u] = b]
    <3>1. CASE position \notin getAvailableMoves(ticTacToeGames[u])
      <4>1. ticTacToeGames' = ticTacToeGames
        BY <1>8, <3>1 DEF handleTicTacToeInput
      <4>2. ticTacToeGames = [ticTacToeGames EXCEPT ![u] = ticTacToeGames[u]]
        BY DEF TypeOK
      <4> QED
        BY <2>3, <4>1, <4>2
    <3>2. CASE position \in getAvailableMoves(ticTacToeGames[u])
      <4>1. PICK t \in Turn(ticTacToeGames[u], position,
                            BotMoves(makeMove(ticTacToeGames[u], position, "X"))) :
               ticTacToeGames' = [ticTacToeGames EXCEPT ![u] = t.board]
        BY <1>8, <3>2 DEF handleTicTacToeInput
      <4> QED
        BY <2>4, <4>1
    <3> QED
      BY <3>1, <3>2
  <2>6. ticTacToeGames' \in [Users -> Board \cup {NoGame}]
    BY <2>5 DEF TypeOK
  <2> QED
    BY <1>4, <1>8, <2>2, <2>6 DEF handleTicTacToeInput, TypeOK, SessionTypeOK
<1>9. ASSUME NEW playerChoice \in choices, NEW botChoice \in getBotChoice,
             handleRPSInput(c, u, playerChoice, botChoice)
      PROVE  TypeOK'
  <2>1. Wait("reply", u, FALSE) \in Call /\ Wait("final", u, TRUE) \in Call
    BY WaitIsCall DEF Waits
  <2>2. calls' \in [Calls -> Call]
    BY <1>9, <2>1 DEF handleRPSInput, TypeOK
  <2>3. rpsGames' \in [Users -> RPSGame \cup {NoGame}]
    BY <1>9, RoundKeepsScores DEF handleRPSInput, TypeOK
  <2> QED
    BY <1>4, <1>9, <2>2, <2>3 DEF handleRPSInput, TypeOK, SessionTypeOK
<1> QED
  BY <1>1, <1>2, <1>5, <1>6, <1>7, <1>8, <1>9 DEF Message, handleGameInput

\* A settled send keeps the types.
LEMMA SendTypeOK ==
    ASSUME TypeOK, NEW c \in Calls, SendSettles(c)
    PROVE  TypeOK'
<1> USE SessionAssumption, GameAssumption
<1>1. calls \in [Calls -> Call]
  BY DEF TypeOK
<1>2. ASSUME NEW rec \in Call, Resume(c, rec)
      PROVE  TypeOK'
  BY <1>2 DEF Resume, TypeOK, SessionTypeOK, gameVars
<1>3. CASE ReplySent(c)
  BY <1>2, <1>3, EndedIsCall DEF ReplySent, Ends
<1>4. CASE endGameForUser(c)
  <2>1. calls[c].user \in Users
    BY <1>1, <1>4, WaitingCallHasUser DEF endGameForUser, Waits
  <2>2. calls' \in [Calls -> Call]
    BY <1>1, <1>4, <2>1, CallsAfterEndingType, EndedIsCall DEF endGameForUser, Ends
  <2> QED
    BY <1>4, <2>1, <2>2
    DEF endGameForUser, endAllGamesForUser, endSession, TypeOK, SessionTypeOK
<1>5. CASE SendRejected(c)
  <2>1. calls[c].at \in Waits => calls[c].user \in Users
    BY <1>1, WaitingCallHasUser
  <2>2. calls[c].at \in Waits =>
          /\ Wait("startError", calls[c].user, FALSE) \in Call
          /\ Wait("errorReply", calls[c].user, FALSE) \in Call
    BY <2>1, WaitIsCall DEF Waits
  <2> QED
    BY <1>2, <1>5, <2>2, EndedIsCall DEF SendRejected, Waits, Ends
<1> QED
  BY <1>3, <1>4, <1>5 DEF SendSettles

\* The clock and the clean-up keep the types.
LEMMA TimeTypeOK ==
    ASSUME TypeOK, Time
    PROVE  TypeOK'
<1> USE SessionAssumption
<1>1. \A u \in Users : sessions[u] # NoSession =>
         [sessions[u] EXCEPT !.age = @ + 1] \in Session
  BY DEF TypeOK, SessionTypeOK, Session
<1>2. CASE Tick
  BY <1>1, <1>2 DEF Tick, Time, TypeOK, SessionTypeOK, gameVars
<1>3. CASE cleanupExpiredSessions
  BY <1>3 DEF cleanupExpiredSessions, Time, TypeOK, SessionTypeOK, gameVars
<1> QED
  BY <1>2, <1>3 DEF Time

\* Every table, game and waiting call keeps its shape, whatever the bot plays.
THEOREM TypeCorrect == Spec => []TypeOK
<1>1. TypeOK /\ [Next]_vars => TypeOK'
  <2> SUFFICES ASSUME TypeOK, [Next]_vars PROVE TypeOK'
    OBVIOUS
  <2>1. CASE UNCHANGED vars
    BY <2>1 DEF vars, gameVars, TypeOK, SessionTypeOK
  <2>2. CASE Next
    BY <2>2, MessageTypeOK, SendTypeOK, TimeTypeOK DEF Next
  <2> QED
    BY <2>1, <2>2
<1> QED
  BY <1>1, InitTypeOK, PTL DEF Spec

-----------------------------------------------------------------------------
(* Sessions and games.                                                     *)

\* Except for the two starts, which replace session and game of their user
\* together, no step makes a session or changes the type of one.
SessionsOnlyFade ==
    \A v \in Users : sessions'[v] # NoSession =>
        sessions[v] # NoSession /\ sessions'[v].type = sessions[v].type

\* No game disappears.
GamesStay ==
    \A v \in Users :
        /\ ticTacToeGames[v] # NoGame => ticTacToeGames'[v] # NoGame
        /\ rpsGames[v] # NoGame => rpsGames'[v] # NoGame

\* No game appears.
NoNewGame ==
    \A v \in Users :
        /\ ticTacToeGames[v] = NoGame => ticTacToeGames'[v] = NoGame
        /\ rpsGames[v] = NoGame => rpsGames'[v] = NoGame

\* An input makes no game and removes none, and gives nobody a session.
LEMMA InputKeepsGames ==
    ASSUME TypeOK, NEW c \in Calls, NEW u \in Users, handleGameInput(c, u)
    PROVE  SessionsOnlyFade /\ GamesStay /\ NoNewGame
<1>1. sessions' = getSession(u)
  BY DEF handleGameInput, InputNotForGame, endGame, InvalidInput,
         handleTicTacToeInput, handleRPSInput
<1>2. SessionsOnlyFade
  BY <1>1, GetSessionKeepsTable DEF SessionsOnlyFade, TypeOK
<1>3. ASSUME UNCHANGED gameVars
      PROVE  GamesStay /\ NoNewGame
  BY <1>3 DEF gameVars, GamesStay, NoNewGame
<1>4. ASSUME NEW position \in Cells, handleTicTacToeInput(c, u, position)
      PROVE  GamesStay /\ NoNewGame
  <2>1. ticTacToeGames[u] \in Board /\ ticTacToeGames[u] # NoGame
    BY <1>4 DEF handleTicTacToeInput, TypeOK
  <2>2. CASE position \notin getAvailableMoves(ticTacToeGames[u])
    BY <1>4, <2>2 DEF handleTicTacToeInput, GamesStay, NoNewGame
  <2>3. CASE position \in getAvailableMoves(ticTacToeGames[u])
    <3>1. PICK t \in Turn(ticTacToeGames[u], position,
                          BotMoves(makeMove(ticTacToeGames[u], position, "X"))) :
             ticTacToeGames' = [ticTacToeGames EXCEPT ![u] = t.board]
      BY <1>4, <2>3 DEF handleTicTacToeInput
    <3>2. t.board # NoGame
      BY <2>1, TurnKeepsBoard, GameAssumption
    <3>3. rpsGames' = rpsGames
      BY <1>4 DEF handleTicTacToeInput
    <3> QED
      BY <2>1, <3>1, <3>2, <3>3 DEF GamesStay, NoNewGame, TypeOK
  <2> QED
    BY <2>2, <2>3
<1>5. ASSUME NEW playerChoice \in choices, NEW botChoice \in getBotChoice,
             handleRPSInput(c, u, playerChoice, botChoice)
      PROVE  GamesStay /\ NoNewGame
  <2> DEFINE g == playRound(rpsGames[u], playerChoice, botChoice)
  <2>1. rpsGames[u] \in RPSGame /\ rpsGames[u] # NoGame
    BY <1>5 DEF handleRPSInput, TypeOK
  <2>2. g # NoGame
    BY <2>1, RoundKeepsScores, GameAssumption
  <2>3. rpsGames' = [rpsGames EXCEPT ![u] = g] /\ ticTacToeGames' = ticTacToeGames
    BY <1>5 DEF handleRPSInput
  <2> HIDE DEF g
  <2> QED
    BY <2>1, <2>2, <2>3 DEF GamesStay, NoNewGame, TypeOK
<1> QED
  BY <1>2, <1>3, <1>4, <1>5 DEF handleGameInput, InputNotForGame, endGame, InvalidInput

\* The step of a start, of an end, and of any other kind, as far as sessions
\* and games go.
Starts(u) ==
    \/ /\ sessions' = createSession(sessions, u, "tictactoe")
       /\ ticTacToeGames' = [ticTacToeGames EXCEPT ![u] = EmptyBoard]
       /\ rpsGames' = [rpsGames EXCEPT ![u] = NoGame]
    \/ /\ sessions' = createSession(sessions, u, "rps")
       /\ ticTacToeGames' = [ticTacToeGames EXCEPT ![u] = NoGame]
       /\ rpsGames' = [rpsGames EXCEPT ![u] = NewRPSGame]

\* A step starts a game, ends one, or leaves every game on its table.
LEMMA StepKinds ==
    ASSUME TypeOK, [Next]_vars
    PROVE  \/ \E u \in Users : Starts(u)
           \/ \E u \in Users : endAllGamesForUser(u)
           \/ SessionsOnlyFade /\ GamesStay /\ NoNewGame
<1>1. ASSUME UNCHANGED <<sessions, gameVars>>
      PROVE  SessionsOnlyFade /\ GamesStay /\ NoNewGame
  BY <1>1 DEF gameVars, SessionsOnlyFade, GamesStay, NoNewGame
<1>2. CASE UNCHANGED vars
  BY <1>1, <1>2 DEF vars, gameVars
<1>3. ASSUME NEW c \in Calls, NEW u \in Users, Message(c, u)
      PROVE  Starts(u) \/ (SessionsOnlyFade /\ GamesStay /\ NoNewGame)
  <2>1. CASE startTicTacToe(c, u)
    BY <2>1 DEF startTicTacToe, Starts
  <2>2. CASE startRockPaperScissors(c, u)
    BY <2>2 DEF startRockPaperScissors, Starts
  <2>3. CASE handleGameInput(c, u)
    BY <2>3, InputKeepsGames
  <2> QED
    BY <1>3, <2>1, <2>2, <2>3 DEF Message
<1>4. ASSUME NEW c \in Calls, SendSettles(c)
      PROVE  \/ \E u \in Users : endAllGamesForUser(u)
             \/ SessionsOnlyFade /\ GamesStay /\ NoNewGame
  <2>1. CASE ReplySent(c) \/ SendRejected(c)
    BY <1>1, <2>1 DEF ReplySent, SendRejected, Resume, gameVars
  <2>2. CASE endGameForUser(c)
    BY <2>2, WaitingCallHasUser DEF endGameForUser, TypeOK, Waits
  <2> QED
    BY <1>4, <2>1, <2>2 DEF SendSettles
<1>5. CASE Time
  <2>1. SessionsOnlyFade
    BY <1>5, SessionAssumption
    DEF Time, Tick, cleanupExpiredSessions, SessionsOnlyFade, TypeOK, SessionTypeOK, Session
  <2> QED
    BY <1>5, <2>1 DEF Time, gameVars, GamesStay, NoNewGame
<1> QED
  BY <1>2, <1>3, <1>4, <1>5 DEF Next

\* A user in session always has the game of the session's type: the checks for
\* a missing game in the two input handlers never fire.
THEOREM SessionHasGame == Spec => []SessionHasItsGame
<1>1. Init => SessionHasItsGame
  BY DEF Init, SessionInit, SessionHasItsGame
<1>2. TypeOK /\ SessionHasItsGame /\ [Next]_vars => SessionHasItsGame'
  <2> SUFFICES ASSUME TypeOK, SessionHasItsGame, [Next]_vars
               PROVE  SessionHasItsGame'
    OBVIOUS
  <2>1. ASSUME NEW u \in Users, Starts(u)
        PROVE  SessionHasItsGame'
    <3>1. EmptyBoard # NoGame /\ NewRPSGame # NoGame
      BY GameAssumption DEF EmptyBoard, Board, NewRPSGame, RPSGame
    <3> QED
      BY <2>1, <3>1 DEF Starts, createSession, SessionHasItsGame, TypeOK, SessionTypeOK
  <2>2. ASSUME NEW u \in Users, endAllGamesForUser(u)
        PROVE  SessionHasItsGame'
    BY <2>2 DEF endAllGamesForUser, endSession, SessionHasItsGame, TypeOK, SessionTypeOK
  <2>3. CASE SessionsOnlyFade /\ GamesStay
    BY <2>3 DEF SessionsOnlyFade, GamesStay, SessionHasItsGame
  <2> QED
    BY <2>1, <2>2, <2>3, StepKinds
<1> QED
  BY <1>1, <1>2, TypeCorrect, PTL DEF Spec

\* No user has a game in both Maps, an expired and forgotten one included.
THEOREM OneGameEach == Spec => []OneGamePerUser
<1>1. Init => OneGamePerUser
  BY DEF Init, OneGamePerUser
<1>2. TypeOK /\ OneGamePerUser /\ [Next]_vars => OneGamePerUser'
  <2> SUFFICES ASSUME TypeOK, OneGamePerUser, [Next]_vars
               PROVE  OneGamePerUser'
    OBVIOUS
  <2>1. ASSUME NEW u \in Users, Starts(u)
        PROVE  OneGamePerUser'
    BY <2>1 DEF Starts, OneGamePerUser, TypeOK
  <2>2. ASSUME NEW u \in Users, endAllGamesForUser(u)
        PROVE  OneGamePerUser'
    BY <2>2 DEF endAllGamesForUser, OneGamePerUser, TypeOK
  <2>3. CASE NoNewGame
    BY <2>3 DEF NoNewGame, OneGamePerUser
  <2> QED
    BY <2>1, <2>2, <2>3, StepKinds
<1> QED
  BY <1>1, <1>2, TypeCorrect, PTL DEF Spec

-----------------------------------------------------------------------------
(* The clean-up of idle sessions.                                          *)

\* How the ages change: a session is new, or as old as before at most, unless
\* time passes.
LEMMA MessagesDoNotAge ==
    ASSUME TypeOK, NEW c \in Calls,
           SendSettles(c) \/ \E u \in Users : Message(c, u)
    PROVE  /\ untilCleanup' = untilCleanup
           /\ \A v \in Users : sessions'[v] # NoSession =>
                 \/ sessions'[v].age = 0
                 \/ sessions[v] # NoSession /\ sessions'[v].age <= sessions[v].age
<1> DEFINE Younger(v) ==
        sessions'[v] # NoSession =>
            \/ sessions'[v].age = 0
            \/ sessions[v] # NoSession /\ sessions'[v].age <= sessions[v].age
<1>1. ASSUME UNCHANGED <<sessions, untilCleanup>>
      PROVE  untilCleanup' = untilCleanup /\ \A v \in Users : Younger(v)
  BY <1>1 DEF TypeOK, SessionTypeOK, Session
<1>2. ASSUME NEW u \in Users, Message(c, u)
      PROVE  untilCleanup' = untilCleanup /\ \A v \in Users : Younger(v)
  <2>1. CASE startTicTacToe(c, u) \/ startRockPaperScissors(c, u)
    <3>1. PICK type \in SessionTypes : sessions' = createSession(sessions, u, type)
      BY <2>1, GameAssumption DEF startTicTacToe, startRockPaperScissors
    <3>2. \A v \in Users : sessions[v] # NoSession => sessions[v].age <= sessions[v].age
      BY DEF TypeOK, SessionTypeOK, Session
    <3>3. SessionTypeOK
      BY DEF TypeOK
    <3>4. \A v \in Users : sessions'[v] # NoSession =>
             \/ sessions'[v].age = 0
             \/ sessions[v] # NoSession /\ sessions'[v].age <= sessions[v].age
      <4> SUFFICES ASSUME NEW v \in Users, sessions'[v] # NoSession
                   PROVE  \/ sessions'[v].age = 0
                          \/ sessions[v] # NoSession /\ sessions'[v].age <= sessions[v].age
        OBVIOUS
      <4>1. CASE v = u
        BY <3>1, <3>3, <4>1, CreateSessionFacts
      <4>2. CASE v # u
        BY <3>1, <3>2, <3>3, <4>2, CreateSessionFacts
      <4> QED
        BY <4>1, <4>2
    <3> QED
      BY <2>1, <3>4 DEF startTicTacToe, startRockPaperScissors
  <2>2. CASE handleGameInput(c, u)
    <3>1. sessions' = getSession(u) /\ untilCleanup' = untilCleanup
      BY <2>2 DEF handleGameInput, InputNotForGame, endGame, InvalidInput,
                  handleTicTacToeInput, handleRPSInput
    <3> QED
      BY <3>1, GetSessionKeepsTable DEF TypeOK
  <2> QED
    BY <1>2, <2>1, <2>2 DEF Message
<1>3. CASE SendSettles(c)
  <2>1. CASE ReplySent(c) \/ SendRejected(c)
    BY <1>1, <2>1 DEF ReplySent, SendRejected, Resume
  <2>2. CASE endGameForUser(c)
    BY <2>2
    DEF endGameForUser, endAllGamesForUser, endSession, TypeOK, SessionTypeOK, Session
  <2> QED
    BY <1>3, <2>1, <2>2 DEF SendSettles
<1> QED
  BY <1>2, <1>3

\* An idle session outlives its timeout by one period of the timer at most: the
\* session's age and the time left to the next clean-up never exceed the two
\* together.
THEOREM IdleSessionsGo == Spec => []IdleSessionsAreRemoved
<1> USE SessionAssumption
<1>1. Init => IdleSessionsAreRemoved
  BY DEF Init, SessionInit, IdleSessionsAreRemoved
<1>2. TypeOK /\ IdleSessionsAreRemoved /\ [Next]_vars => IdleSessionsAreRemoved'
  <2> SUFFICES ASSUME TypeOK, IdleSessionsAreRemoved, [Next]_vars
               PROVE  IdleSessionsAreRemoved'
    OBVIOUS
  <2>1. CASE UNCHANGED vars
    BY <2>1 DEF vars, IdleSessionsAreRemoved
  <2>2. ASSUME NEW c \in Calls, SendSettles(c) \/ \E u \in Users : Message(c, u)
        PROVE  IdleSessionsAreRemoved'
    <3>1. untilCleanup' = untilCleanup /\ untilCleanup \in 0..CleanupInterval
      BY <2>2, MessagesDoNotAge DEF TypeOK, SessionTypeOK
    <3> SUFFICES ASSUME NEW v \in Users, sessions'[v] # NoSession
                 PROVE  sessions'[v].age + untilCleanup <= SessionTimeout + CleanupInterval
      BY <3>1 DEF IdleSessionsAreRemoved
    <3>2. CASE sessions'[v].age = 0
      BY <3>1, <3>2
    <3>3. CASE sessions[v] # NoSession /\ sessions'[v].age <= sessions[v].age
      <4>1. TypeOK'
        BY <2>2, MessageTypeOK, SendTypeOK
      <4>2. sessions'[v].age \in Nat /\ sessions[v].age \in Nat
        BY <3>3, <4>1 DEF TypeOK, SessionTypeOK, Session
      <4> QED
        BY <3>1, <3>3, <4>2 DEF IdleSessionsAreRemoved
    <3> QED
      BY <2>2, <3>2, <3>3, MessagesDoNotAge
  <2>3. CASE Tick
    BY <2>3 DEF Tick, IdleSessionsAreRemoved, TypeOK, SessionTypeOK, Session
  <2>4. CASE cleanupExpiredSessions
    BY <2>4 DEF cleanupExpiredSessions, isSessionExpired, IdleSessionsAreRemoved,
                TypeOK, SessionTypeOK, Session
  <2> QED
    BY <2>1, <2>2, <2>3, <2>4 DEF Next, Time
<1> QED
  BY <1>1, <1>2, TypeCorrect, PTL DEF Spec

\* The session of a player who is not idle is removed only by the end of one of
\* his own calls, never by the timer or by a reader that finds it expired.
THEOREM ActiveSessionsStay == Spec => OnlyIdleSessionsExpire
<1> DEFINE Stays(u) ==
        sessions[u] # NoSession /\ sessions[u].age <= SessionTimeout
        /\ sessions'[u] = NoSession
            => \E c \in Calls : calls[c].user = u /\ calls'[c].at = "done"
<1>1. TypeOK /\ [Next]_vars => \A u \in Users : Stays(u)
  <2> SUFFICES ASSUME TypeOK, [Next]_vars, NEW u \in Users PROVE Stays(u)
    OBVIOUS
  <2>0. sessions[u] # NoSession => sessions[u] \in Session
    BY DEF TypeOK, SessionTypeOK
  <2>1. CASE UNCHANGED sessions
    BY <2>1
  <2>2. ASSUME NEW c \in Calls, NEW v \in Users, Message(c, v)
        PROVE  Stays(u)
    <3>1. CASE startTicTacToe(c, v) \/ startRockPaperScissors(c, v)
      <4>1. PICK type \in SessionTypes : sessions' = createSession(sessions, v, type)
        BY <3>1, GameAssumption DEF startTicTacToe, startRockPaperScissors
      <4> QED
        BY <4>1, CreateSessionFacts DEF TypeOK
    <3>2. CASE handleGameInput(c, v)
      <4>1. sessions' = getSession(v)
        BY <3>2 DEF handleGameInput, InputNotForGame, endGame, InvalidInput,
                    handleTicTacToeInput, handleRPSInput
      <4>2. sessions[u] # NoSession /\ sessions[u].age <= SessionTimeout
              => getSession(v)[u] # NoSession
        BY <2>0, SessionAssumption
        DEF getSession, HasSession, isSessionExpired, refreshed, endSession,
            TypeOK, SessionTypeOK, Session
      <4> QED
        BY <4>1, <4>2
    <3> QED
      BY <2>2, <3>1, <3>2 DEF Message
  <2>3. ASSUME NEW c \in Calls, SendSettles(c)
        PROVE  Stays(u)
    <3>1. CASE endGameForUser(c)
      BY <3>1 DEF endGameForUser, endAllGamesForUser, endSession, CallsAfterEnding,
                  Ended, TypeOK, SessionTypeOK
    <3> QED
      BY <2>1, <2>3, <3>1 DEF SendSettles, ReplySent, SendRejected, Resume
  <2>4. CASE Time
    BY <2>0, <2>4, SessionAssumption
    DEF Time, Tick, cleanupExpiredSessions, isSessionExpired, TypeOK, SessionTypeOK, Session
  <2> QED
    BY <2>1, <2>2, <2>3, <2>4 DEF Next, vars
<1> QED
  BY <1>1, TypeCorrect, PTL DEF Spec, OnlyIdleSessionsExpire

-----------------------------------------------------------------------------
(* The boards.                                                             *)

\* How a step treats the board of a user: it leaves it alone, replaces it by an
\* empty one, removes it, or plays a turn on it.
LEMMA StepBoards ==
    ASSUME TypeOK, [Next]_vars, NEW v \in Users
    PROVE  \/ ticTacToeGames'[v] \in {ticTacToeGames[v], EmptyBoard, NoGame}
           \/ \E c \in Calls, position \in Cells : handleTicTacToeInput(c, v, position)
<1>1. ASSUME NEW c \in Calls, NEW u \in Users, Message(c, u)
      PROVE  \/ ticTacToeGames'[v] \in {ticTacToeGames[v], EmptyBoard, NoGame}
             \/ \E position \in Cells : handleTicTacToeInput(c, v, position)
  <2>1. CASE \E position \in Cells : handleTicTacToeInput(c, u, position)
    BY <2>1 DEF handleTicTacToeInput, TypeOK
  <2>2. CASE ~\E position \in Cells : handleTicTacToeInput(c, u, position)
    BY <1>1, <2>2
    DEF Message, startTicTacToe, startRockPaperScissors, handleGameInput, InputNotForGame,
        endGame, InvalidInput, handleRPSInput, gameVars, TypeOK
  <2> QED
    BY <2>1, <2>2
<1>2. ASSUME NEW c \in Calls, SendSettles(c)
      PROVE  ticTacToeGames'[v] \in {ticTacToeGames[v], NoGame}
  BY <1>2
  DEF SendSettles, ReplySent, SendRejected, Resume, endGameForUser, endAllGamesForUser,
      gameVars, TypeOK
<1>3. CASE UNCHANGED ticTacToeGames
  BY <1>3
<1> QED
  BY <1>1, <1>2, <1>3 DEF Next, Time, vars, gameVars

\* Inputs of the same player that overlap are still whole turns: on a board that
\* is open both players have marked the same number of cells.
THEOREM TurnsAlternateAlways == Spec => []TurnsAlternate
<1>1. Init => TurnsAlternate
  BY DEF Init, TurnsAlternate
<1>2. TypeOK /\ TurnsAlternate /\ [Next]_vars => TurnsAlternate'
  <2> SUFFICES ASSUME TypeOK, TurnsAlternate, [Next]_vars,
                      NEW v \in Users, ticTacToeGames'[v] # NoGame, ~Finished(ticTacToeGames'[v])
               PROVE  Even(ticTacToeGames'[v])
    BY DEF TurnsAlternate, Even
  <2>1. CASE ticTacToeGames'[v] = ticTacToeGames[v]
    BY <2>1 DEF TurnsAlternate, Even
  <2>2. CASE ticTacToeGames'[v] = EmptyBoard
    BY <2>2, EmptyBoardIsOpen
  <2>3. ASSUME NEW c \in Calls, NEW position \in Cells, handleTicTacToeInput(c, v, position)
        PROVE  Even(ticTacToeGames'[v])
    <3> DEFINE b == ticTacToeGames[v]
               mine == makeMove(b, position, "X")
    <3>1. b \in Board /\ mine \in Board
      BY <2>3, MoveKeepsBoard DEF handleTicTacToeInput, TypeOK, Players
    <3>2. CASE position \notin getAvailableMoves(b)
      BY <2>1, <2>3, <3>2 DEF handleTicTacToeInput
    <3>3. CASE position \in getAvailableMoves(b)
      <4>1. PICK t \in Turn(b, position, BotMoves(mine)) : ticTacToeGames'[v] = t.board
        BY <2>3, <3>3 DEF handleTicTacToeInput, TypeOK
      <4>2. getAvailableMoves(mine) # {} => BotMoves(mine) \subseteq getAvailableMoves(mine)
        BY <3>1, BotAssumption
      <4>3. ~Finished(b) => Even(b)
        BY <2>3 DEF TurnsAlternate, Even, handleTicTacToeInput
      <4> QED
        BY <3>1, <3>3, <4>1, <4>2, <4>3, TurnKeepsEven
    <3> QED
      BY <3>2, <3>3
  <2> QED
    BY <2>1, <2>2, <2>3, StepBoards
<1> QED
  BY <1>1, <1>2, TypeCorrect, PTL DEF Spec

\* A bot that plays the engine's answers, as the handler's does.
BotPlaysBest == \A b \in Board : BotMoves(b) = getBestMove(b)

\* Nobody beats that bot: where the player has a line, the bot has one too. (An
\* input that overlaps an announcement may still be marked after the bot's win.)
NobodyBeatsTheEngine ==
    \A u \in Users :
        ticTacToeGames[u] # NoGame /\ HasLine(ticTacToeGames[u], "X")
            => HasLine(ticTacToeGames[u], "O")

\* A game that is still open is not lost for the bot.
OpenGamesAreSafe ==
    \A u \in Users :
        ticTacToeGames[u] # NoGame /\ ~Finished(ticTacToeGames[u])
            => minimax[ticTacToeGames[u]][FALSE][0] >= 0

\* An input that arrives after the end of a game opens it no more and takes no
\* line away.
LEMMA LateTurn ==
    ASSUME NEW b \in Board, Finished(b), NEW position, NEW botMoves,
           NEW t \in Turn(b, position, botMoves)
    PROVE  Finished(t.board) /\ (HasLine(b, "O") => HasLine(t.board, "O"))
<1> DEFINE mine == makeMove(b, position, "X")
<1>1. ASSUME NEW c \in Board, NEW move, NEW player \in Players
      PROVE  /\ makeMove(c, move, player) \in Board
             /\ Finished(c) => Finished(makeMove(c, move, player))
             /\ HasLine(c, "O") => HasLine(makeMove(c, move, player), "O")
  <2>1. makeMove(c, move, player) \in Board
    BY MoveKeepsBoard
  <2>2. \A cell \in Cells : c[cell] = "O" => makeMove(c, move, player)[cell] = "O"
    BY DEF makeMove, getAvailableMoves, Board, Blank
  <2>3. HasLine(c, "O") => HasLine(makeMove(c, move, player), "O")
    BY <2>2, LineCells
  <2> QED
    BY <2>1, <2>3, FinishedStays
<1>2. mine \in Board /\ Finished(mine) /\ (HasLine(b, "O") => HasLine(mine, "O"))
  BY <1>1 DEF Players
<1>3. CASE t.board = mine
  BY <1>2, <1>3
<1>4. ASSUME NEW m \in botMoves, t.board = makeMove(mine, m, "O")
      PROVE  Finished(t.board) /\ (HasLine(b, "O") => HasLine(t.board, "O"))
  <2> HIDE DEF mine
  <2> QED
    BY <1>1, <1>2, <1>4 DEF Players
<1>5. t.board = mine \/ \E m \in botMoves : t.board = makeMove(mine, m, "O")
  BY DEF Turn
<1> QED
  BY <1>3, <1>4, <1>5

\* Whatever inputs overlap and however late an announcement is, nobody beats the
\* engine.
THEOREM EngineIsNeverBeaten == BotPlaysBest /\ Spec => []NobodyBeatsTheEngine
<1>1. Init => OpenGamesAreSafe /\ NobodyBeatsTheEngine
  BY DEF Init, OpenGamesAreSafe, NobodyBeatsTheEngine
<1>2. /\ BotPlaysBest /\ TypeOK /\ OpenGamesAreSafe /\ NobodyBeatsTheEngine /\ [Next]_vars
      => OpenGamesAreSafe' /\ NobodyBeatsTheEngine'
  <2> DEFINE Sound(b) == /\ ~Finished(b) => minimax[b][FALSE][0] >= 0
                         /\ HasLine(b, "X") => HasLine(b, "O")
  <2> SUFFICES ASSUME BotPlaysBest, TypeOK, OpenGamesAreSafe, NobodyBeatsTheEngine, [Next]_vars,
                      NEW v \in Users, ticTacToeGames'[v] # NoGame
               PROVE  Sound(ticTacToeGames'[v])
    BY DEF OpenGamesAreSafe, NobodyBeatsTheEngine
  <2>1. ticTacToeGames[v] # NoGame => Sound(ticTacToeGames[v])
    BY DEF OpenGamesAreSafe, NobodyBeatsTheEngine
  <2>2. Sound(EmptyBoard)
    BY OpeningIsNotLost, EmptyBoardFits
  <2>3. ASSUME NEW c \in Calls, NEW position \in Cells, handleTicTacToeInput(c, v, position)
        PROVE  Sound(ticTacToeGames'[v])
    <3> DEFINE b == ticTacToeGames[v]
               mine == makeMove(b, position, "X")
    <3>1. b \in Board /\ b # NoGame /\ mine \in Board
      BY <2>3, MoveKeepsBoard DEF handleTicTacToeInput, TypeOK, Players
    <3>2. CASE position \notin getAvailableMoves(b)
      BY <2>1, <2>3, <3>2 DEF handleTicTacToeInput
    <3>3. CASE position \in getAvailableMoves(b)
      <4>1. PICK t \in Turn(b, position, getBestMove(mine)) : ticTacToeGames'[v] = t.board
        BY <2>3, <3>1, <3>3 DEF handleTicTacToeInput, TypeOK, BotPlaysBest
      <4> HIDE DEF b
      <4>2. CASE Finished(b)
        <5>1. HasLine(b, "O")
          <6>1. checkWinner(b) # NoWinner
            BY <3>3, <4>2 DEF Finished, isDraw
          <6>2. checkWinner(b) = "X" \/ checkWinner(b) = "O"
            BY <3>1, <6>1, WinnerFacts DEF Players
          <6>3. HasLine(b, "X") \/ HasLine(b, "O")
            BY <3>1, <6>2, WinnerHasLine DEF Players
          <6> QED
            BY <2>1, <3>1, <6>3 DEF b
        <5>2. Finished(t.board) /\ HasLine(t.board, "O")
          BY <3>1, <4>1, <4>2, <5>1, LateTurn
        <5> QED
          BY <4>1, <5>2
      <4>3. CASE ~Finished(b)
        <5>1. minimax[b][FALSE][0] >= 0
          BY <2>1, <3>1, <4>3 DEF b
        <5>2. /\ ~HasLine(t.board, "X")
              /\ getAvailableMoves(t.board) # {} => minimax[t.board][FALSE][0] >= 0
          BY <3>1, <3>3, <4>1, <4>3, <5>1, SafeTurn
        <5>3. ~Finished(t.board) => getAvailableMoves(t.board) # {}
          BY DEF Finished, isDraw
        <5> QED
          BY <4>1, <5>2, <5>3
      <4> QED
        BY <4>2, <4>3
    <3> QED
      BY <3>2, <3>3
  <2> HIDE DEF Sound
  <2> QED
    BY <2>1, <2>2, <2>3, StepBoards
<1>3. BotPlaysBest => BotPlaysBest'
  BY DEF BotPlaysBest
<1> QED
  BY <1>1, <1>2, <1>3, TypeCorrect, PTL DEF Spec

\* A call that is announcing the end of a game goes on doing so, unless its own
\* send settles or the game is taken away.
LEMMA AnnouncementsGoOn ==
    ASSUME TypeOK, NEW u \in Users, NEW c \in Calls, NEW rec, BeingEnded(u),
           calls[c].at # "final" \/ calls[c].user # u,
           \/ calls' = [calls EXCEPT ![c] = rec]
           \/ \E v \in Users \ {u} : calls' = CallsAfterEnding(c, rec, v)
    PROVE  BeingEnded(u)'
<1>1. PICK d \in Calls : calls[d].at = "final" /\ calls[d].user = u /\ calls[d].onCurrent
  BY DEF BeingEnded
<1>2. d # c
  BY <1>1
<1>3. calls'[d] = calls[d]
  BY <1>1, <1>2 DEF CallsAfterEnding, TypeOK
<1> QED
  BY <1>1, <1>3 DEF BeingEnded

\* An input that ends the game leaves a call that announces it; one that does
\* not leaves the game of its user open, or as it was.
LEMMA InputsAnnounceEnds ==
    ASSUME TypeOK, OneGamePerUser, NEW c \in Calls, NEW u \in Users, handleGameInput(c, u)
    PROVE  \/ UNCHANGED gameVars
           \/ ~HasFinishedGame(u)'
           \/ BeingEnded(u)'
<1>1. CASE InputNotForGame(c, u) \/ endGame(c, u) \/ InvalidInput(c, u)
  BY <1>1 DEF InputNotForGame, endGame, InvalidInput
<1>2. ASSUME calls' = [calls EXCEPT ![c] = Wait("final", u, TRUE)]
      PROVE  BeingEnded(u)'
  BY <1>2 DEF TypeOK, Wait, BeingEnded
<1>3. ASSUME NEW position \in Cells, handleTicTacToeInput(c, u, position)
      PROVE  UNCHANGED gameVars \/ ~HasFinishedGame(u)' \/ BeingEnded(u)'
  <2>1. CASE position \notin getAvailableMoves(ticTacToeGames[u])
    BY <1>3, <2>1 DEF handleTicTacToeInput, gameVars
  <2>2. CASE position \in getAvailableMoves(ticTacToeGames[u])
    <3>1. PICK t \in Turn(ticTacToeGames[u], position,
                          BotMoves(makeMove(ticTacToeGames[u], position, "X"))) :
             /\ ticTacToeGames' = [ticTacToeGames EXCEPT ![u] = t.board]
             /\ calls' = [calls EXCEPT ![c] =
                    IF t.verdict = "none" THEN Wait("reply", u, FALSE)
                                          ELSE Wait("final", u, TRUE)]
      BY <1>3, <2>2 DEF handleTicTacToeInput
    <3>2. ticTacToeGames[u] \in Board /\ rpsGames'[u] = NoGame
      BY <1>3 DEF handleTicTacToeInput, OneGamePerUser, TypeOK
    <3>3. CASE t.verdict = "none"
      <4>1. ~Finished(t.board)
        BY <3>2, <3>3, VerdictTellsEnd
      <4>2. ticTacToeGames'[u] = t.board
        BY <3>1 DEF TypeOK
      <4> QED
        BY <3>2, <4>1, <4>2 DEF HasFinishedGame
    <3>4. CASE t.verdict # "none"
      BY <1>2, <3>1, <3>4
    <3> QED
      BY <3>3, <3>4
  <2> QED
    BY <2>1, <2>2
<1>4. ASSUME NEW playerChoice \in choices, NEW botChoice \in getBotChoice,
             handleRPSInput(c, u, playerChoice, botChoice)
      PROVE  ~HasFinishedGame(u)' \/ BeingEnded(u)'
  <2> DEFINE g == playRound(rpsGames[u], playerChoice, botChoice)
  <2>1. /\ rpsGames'[u] = g /\ ticTacToeGames'[u] = NoGame
        /\ calls' = [calls EXCEPT ![c] = IF isGameOver(g) THEN Wait("final", u, TRUE)
                                                          ELSE Wait("reply", u, FALSE)]
    BY <1>4 DEF handleRPSInput, OneGamePerUser, TypeOK
  <2> HIDE DEF g
  <2>2. CASE isGameOver(g)
    BY <1>2, <2>1, <2>2
  <2>3. CASE ~isGameOver(g)
    BY <2>1, <2>3 DEF HasFinishedGame
  <2> QED
    BY <2>2, <2>3
<1> QED
  BY <1>1, <1>3, <1>4 DEF handleGameInput

\* No game ends unannounced, and none that has ended stays on the table longer
\* than its announcement, unless that fails to be sent.
THEOREM FinishedGamesGo == Spec => FinishedGamesAreEnded
<1> DEFINE Goes(u) ==
        HasFinishedGame(u)' /\ ~BeingEnded(u)' =>
            \/ HasFinishedGame(u) /\ ~BeingEnded(u)
            \/ \E c \in Calls : calls[c].at = "final" /\ calls'[c].at = "errorReply"
<1>1. TypeOK /\ OneGamePerUser /\ [Next]_vars => \A u \in Users : Goes(u)
  <2> SUFFICES ASSUME TypeOK, OneGamePerUser, [Next]_vars, NEW u \in Users,
                      HasFinishedGame(u)', ~BeingEnded(u)',
                      ~\E c \in Calls : calls[c].at = "final" /\ calls'[c].at = "errorReply"
               PROVE  HasFinishedGame(u) /\ ~BeingEnded(u)
    OBVIOUS
  <2>1. ASSUME ticTacToeGames'[u] = ticTacToeGames[u], rpsGames'[u] = rpsGames[u]
        PROVE  HasFinishedGame(u)
    BY <2>1 DEF HasFinishedGame
  <2>2. ASSUME ticTacToeGames'[u] \in {NoGame, EmptyBoard}, rpsGames'[u] \in {NoGame, NewRPSGame}
        PROVE  FALSE
    BY <2>2, EmptyBoardIsOpen DEF HasFinishedGame, NewRPSGame, isGameOver, WinningScore
  <2>3. ASSUME NEW c \in Calls, NEW v \in Users, Message(c, v)
        PROVE  HasFinishedGame(u) /\ ~BeingEnded(u)
    <3>1. calls[c].at # "final"
      BY <2>3
      DEF Message, startTicTacToe, startRockPaperScissors, handleGameInput, InputNotForGame,
          endGame, InvalidInput, handleTicTacToeInput, handleRPSInput, Free, Ends
    <3>2. CASE startTicTacToe(c, v) \/ startRockPaperScissors(c, v)
      <4>1. v # u
        BY <2>2, <3>2 DEF startTicTacToe, startRockPaperScissors, TypeOK
      <4>2. ticTacToeGames'[u] = ticTacToeGames[u] /\ rpsGames'[u] = rpsGames[u]
        BY <3>2, <4>1 DEF startTicTacToe, startRockPaperScissors, TypeOK
      <4>3. calls' = CallsAfterEnding(c, Wait("startReply", v, FALSE), v)
        BY <3>2 DEF startTicTacToe, startRockPaperScissors
      <4> QED
        BY <2>1, <3>1, <4>1, <4>2, <4>3, AnnouncementsGoOn
    <3>3. CASE handleGameInput(c, v)
      <4>1. \E rec : calls' = [calls EXCEPT ![c] = rec]
        BY <3>3
        DEF handleGameInput, InputNotForGame, endGame, InvalidInput, handleTicTacToeInput,
            handleRPSInput
      <4>2. ~BeingEnded(u)
        BY <3>1, <4>1, AnnouncementsGoOn
      <4>3. ticTacToeGames'[u] = ticTacToeGames[u] /\ rpsGames'[u] = rpsGames[u]
        <5>1. CASE v = u
          BY <3>3, <5>1, InputsAnnounceEnds DEF gameVars
        <5>2. CASE v # u
          BY <3>3, <5>2
          DEF handleGameInput, InputNotForGame, endGame, InvalidInput, handleTicTacToeInput,
              handleRPSInput, gameVars, TypeOK
        <5> QED
          BY <5>1, <5>2
      <4> QED
        BY <2>1, <4>2, <4>3
    <3> QED
      BY <2>3, <3>2, <3>3 DEF Message
  <2>4. ASSUME NEW c \in Calls, NEW rec, Resume(c, rec),
               calls[c].at = "final" => rec.at = "errorReply"
        PROVE  HasFinishedGame(u) /\ ~BeingEnded(u)
    <3>1. calls' = [calls EXCEPT ![c] = rec] /\ UNCHANGED gameVars /\ calls[c].at # "final"
      BY <2>4 DEF Resume, TypeOK
    <3> QED
      BY <2>1, <3>1, AnnouncementsGoOn DEF gameVars
  <2>5. ASSUME NEW c \in Calls, SendSettles(c)
        PROVE  HasFinishedGame(u) /\ ~BeingEnded(u)
    <3>1. CASE ReplySent(c)
      BY <2>4, <3>1 DEF ReplySent
    <3>2. CASE SendRejected(c)
      BY <2>4, <3>2 DEF SendRejected, Wait
    <3>3. CASE endGameForUser(c)
      <4>1. calls[c].user # u
        BY <2>2, <3>3 DEF endGameForUser, endAllGamesForUser, TypeOK
      <4>2. ticTacToeGames'[u] = ticTacToeGames[u] /\ rpsGames'[u] = rpsGames[u]
        BY <3>3, <4>1 DEF endGameForUser, endAllGamesForUser, TypeOK
      <4>3. calls[c].user \in Users /\ calls' = CallsAfterEnding(c, Ended("done"), calls[c].user)
        BY <3>3, WaitingCallHasUser DEF endGameForUser, TypeOK, Waits
      <4> QED
        BY <2>1, <4>1, <4>2, <4>3, AnnouncementsGoOn
    <3> QED
      BY <2>5, <3>1, <3>2, <3>3 DEF SendSettles
  <2>6. CASE UNCHANGED <<gameVars, calls>>
    BY <2>1, <2>6 DEF gameVars, BeingEnded
  <2> QED
    BY <2>3, <2>5, <2>6 DEF Next, Time, vars, gameVars
<1> QED
  BY <1>1, TypeCorrect, OneGameEach, PTL DEF Spec, FinishedGamesAreEnded

-----------------------------------------------------------------------------
(* The refinement of GameService: the handler keeps what GameService promises *)
(* the message router.  Its initial states and its steps map to those of      *)
(* GameService or to nothing.                                                 *)

\* What the refinement mapping puts for the two variables of GameService.
Playing == {u \in Users : HasSession(u)}
ServiceCall(rec) == [at |-> ServiceAt(rec.at), user |-> rec.user]
ServiceCalls == [c \in Calls |-> ServiceCall(calls[c])]

\* The new call record is the only one whose place or user changes.
OnlyCall(c, rec) == ServiceCalls' = [ServiceCalls EXCEPT ![c] = ServiceCall(rec)]

\* An assignment to one call is one for GameService too.
LEMMA OneCallChanges ==
    ASSUME NEW c \in Calls, NEW rec,
           calls' = [calls EXCEPT ![c] = rec], TypeOK
    PROVE  OnlyCall(c, rec)
BY DEF OnlyCall, ServiceCalls, TypeOK

\* So is the end of the games of a user: GameService knows nothing of onCurrent.
LEMMA EndingChangesOneCall ==
    ASSUME NEW c \in Calls, NEW rec, NEW u,
           calls' = CallsAfterEnding(c, rec, u), TypeOK
    PROVE  OnlyCall(c, rec)
<1>1. \A d \in Calls \ {c} : ServiceCall(calls'[d]) = ServiceCall(calls[d])
  BY DEF CallsAfterEnding, ServiceCall, TypeOK, Call
<1>2. calls'[c] = rec
  BY DEF CallsAfterEnding
<1>3. QED
  BY <1>1, <1>2 DEF OnlyCall, ServiceCalls

\* Reading a session changes nothing about who plays.
LEMMA ReadersKeepPlaying ==
    ASSUME TypeOK, NEW u \in Users, sessions' = getSession(u)
    PROVE  Playing' = Playing
BY SessionAssumption
   DEF Playing, getSession, HasSession, isSessionExpired, refreshed, endSession,
       TypeOK, SessionTypeOK, Session

\* Who gets a session plays.
LEMMA CreationStartsPlaying ==
    ASSUME TypeOK, NEW u \in Users, NEW type \in SessionTypes,
           sessions' = createSession(sessions, u, type)
    PROVE  Playing' = Playing \cup {u}
BY SessionAssumption
   DEF Playing, HasSession, isSessionExpired, createSession, TypeOK, SessionTypeOK, Session

\* Whose session is ended plays no more.
LEMMA EndingStopsPlaying ==
    ASSUME TypeOK, NEW u \in Users, sessions' = endSession(sessions, u)
    PROVE  Playing' = Playing \ {u}
BY DEF Playing, HasSession, isSessionExpired, endSession, TypeOK, SessionTypeOK

\* Time makes nobody play, and moves no call.
LEMMA TimeEndsPlayingOnly ==
    ASSUME TypeOK, Time
    PROVE  Playing' \subseteq Playing /\ ServiceCalls' = ServiceCalls
<1>1. CASE Tick
  BY <1>1, SessionAssumption
     DEF Time, Tick, Playing, HasSession, isSessionExpired, ServiceCalls, TypeOK,
         SessionTypeOK, Session
<1>2. CASE cleanupExpiredSessions
  BY <1>2 DEF Time, cleanupExpiredSessions, Playing, HasSession, isSessionExpired, ServiceCalls
<1>3. QED
  BY <1>1, <1>2 DEF Time

\* At the start nobody plays for GameService either.
LEMMA InitRefines == Init => Service!Init
<1> SUFFICES ASSUME Init PROVE Service!Init
  OBVIOUS
<1>1. Playing = {}
  BY DEF Init, SessionInit, Playing, HasSession
<1>2. ServiceCalls = [c \in Calls |-> [at |-> "idle", user |-> NoUser]]
  BY DEF Init, Ended, ServiceCalls, ServiceCall, ServiceAt
<1>3. QED
  BY <1>1, <1>2 DEF Service!Init, Playing, ServiceCalls, ServiceCall

\* The synchronous part of a call is a start or an input of GameService.
LEMMA MessageRefines ==
    ASSUME TypeOK, SessionHasItsGame, NEW c \in Calls, NEW u \in Users, Message(c, u)
    PROVE  Service!startGame(c, u) \/ Service!handleGameInput(c, u)
<1>0. Free(c) /\ calls[c] \in Call
  BY DEF Message, startTicTacToe, startRockPaperScissors, handleGameInput, InputNotForGame,
         endGame, InvalidInput, handleTicTacToeInput, handleRPSInput, TypeOK
<1>1. Service!Free(c)
  BY <1>0 DEF Service!Free, Service!Ends, Free, Ends, ServiceAt
<1>2. CASE startTicTacToe(c, u) \/ startRockPaperScissors(c, u)
  <2>1. OnlyCall(c, Wait("startReply", u, FALSE))
    BY <1>2, EndingChangesOneCall DEF startTicTacToe, startRockPaperScissors
  <2>2. Playing' = Playing \cup {u}
    <3>1. PICK type \in SessionTypes : sessions' = createSession(sessions, u, type)
      BY <1>2, GameAssumption DEF startTicTacToe, startRockPaperScissors
    <3>2. QED
      BY <3>1, CreationStartsPlaying
  <2>3. ServiceCall(Wait("startReply", u, FALSE)) = [at |-> "starting", user |-> u]
    BY DEF ServiceCall, ServiceAt, Wait
  <2>4. QED
    BY <1>1, <2>1, <2>2, <2>3
       DEF Service!startGame, Service!WaitAt, OnlyCall, Playing, ServiceCalls, ServiceCall
<1>3. CASE InputNotForGame(c, u)
  <2>1. OnlyCall(c, Ended("unhandled")) /\ Playing' = Playing
    BY <1>3, OneCallChanges, ReadersKeepPlaying DEF InputNotForGame
  <2>2. u \notin Playing
    BY <1>3, GameAssumption
       DEF InputNotForGame, SessionHasItsGame, Playing, HasSession, TypeOK, SessionTypeOK, Session
  <2>3. ServiceCall(Ended("unhandled")) = [at |-> "unhandled", user |-> NoUser]
    BY DEF ServiceCall, ServiceAt, Ended
  <2>4. Service!InputNotForGame(c, u)
    BY <1>1, <2>1, <2>2, <2>3
       DEF Service!InputNotForGame, Service!End, OnlyCall, Playing, ServiceCalls, ServiceCall
  <2>5. QED
    BY <2>4 DEF Service!handleGameInput
<1>4. ASSUME NEW at \in {"reply", "final", "quitReply"}, NEW on \in BOOLEAN,
             HasSession(u), sessions' = getSession(u),
             calls' = [calls EXCEPT ![c] = Wait(at, u, on)]
      PROVE  Service!handleGameInput(c, u)
  <2>1. OnlyCall(c, Wait(at, u, on)) /\ Playing' = Playing /\ u \in Playing
    BY <1>4, OneCallChanges, ReadersKeepPlaying DEF Playing
  <2>2. ServiceCall(Wait(at, u, on)) = [at |-> ServiceAt(at), user |-> u]
        /\ ServiceAt(at) \in {"replying", "quitting"}
    BY DEF ServiceCall, ServiceAt, Wait
  <2>3. Service!InputOfPlayer(c, u)
    BY <1>1, <2>1, <2>2
       DEF Service!InputOfPlayer, Service!WaitAt, OnlyCall, Playing, ServiceCalls, ServiceCall
  <2>4. QED
    BY <2>3 DEF Service!handleGameInput
<1>5. CASE endGame(c, u) \/ InvalidInput(c, u)
  BY <1>4, <1>5 DEF endGame, InvalidInput
<1>6. ASSUME NEW position \in Cells, handleTicTacToeInput(c, u, position)
      PROVE  Service!handleGameInput(c, u)
  BY <1>4, <1>6 DEF handleTicTacToeInput
<1>7. ASSUME NEW p \in choices, NEW b \in getBotChoice, handleRPSInput(c, u, p, b)
      PROVE  Service!handleGameInput(c, u)
  BY <1>4, <1>7 DEF handleRPSInput
<1>8. QED
  BY <1>2, <1>3, <1>5, <1>6, <1>7, Zenon
     DEF Message, handleGameInput, Service!handleGameInput

\* A settled send is one for GameService.
LEMMA SendRefines ==
    ASSUME TypeOK, NEW c \in Calls, SendSettles(c)
    PROVE  Service!Sent(c) \/ Service!Rejected(c)
<1> DEFINE u == calls[c].user
<1>1. calls[c].at \in Waits => u \in Users
  BY DEF TypeOK, Call, Waits, Ends
<1>2. ASSUME NEW rec, Resume(c, rec)
      PROVE  OnlyCall(c, rec) /\ Playing' = Playing
  BY <1>2, OneCallChanges DEF Resume, Playing, HasSession
<1>3. CASE ReplySent(c)
  <2>1. CASE calls[c].at \in {"startReply", "startError", "reply"}
    <3>1. OnlyCall(c, Ended("done")) /\ Playing' = Playing
      BY <1>2, <1>3, <2>1 DEF ReplySent
    <3>2. QED
      BY <2>1, <3>1
         DEF Service!Sent, Service!End, OnlyCall, Playing, ServiceCalls, ServiceCall, ServiceAt,
             Ended
  <2>2. CASE calls[c].at = "errorReply"
    <3>1. OnlyCall(c, Ended("unhandled")) /\ Playing' = Playing
      BY <1>2, <1>3, <2>2 DEF ReplySent
    <3>2. QED
      BY <2>2, <3>1
         DEF Service!Sent, Service!End, OnlyCall, Playing, ServiceCalls, ServiceCall, ServiceAt,
             Ended
  <2>3. QED
    BY <1>3, <2>1, <2>2 DEF ReplySent
<1>4. CASE endGameForUser(c)
  <2>1. calls[c].at \in {"final", "quitReply"} /\ u \in Users
    BY <1>1, <1>4 DEF endGameForUser, Waits
  <2>2. Playing' = Playing \ {u}
    BY <1>4, <2>1, EndingStopsPlaying DEF endGameForUser, endAllGamesForUser
  <2>3. OnlyCall(c, Ended("done"))
    BY <1>4, EndingChangesOneCall DEF endGameForUser
  <2>4. QED
    BY <2>1, <2>2, <2>3
       DEF Service!Sent, Service!End, OnlyCall, Playing, ServiceCalls, ServiceCall, ServiceAt,
           Ended
<1>5. CASE SendRejected(c)
  <2>1. CASE calls[c].at = "startReply"
    <3>1. OnlyCall(c, Wait("startError", u, FALSE)) /\ Playing' = Playing
      BY <1>2, <1>5, <2>1 DEF SendRejected
    <3>2. QED
      BY <2>1, <3>1
         DEF Service!Rejected, Service!WaitAt, OnlyCall, Playing, ServiceCalls, ServiceCall,
             ServiceAt, Wait
  <2>2. CASE calls[c].at \in {"reply", "final"}
    <3>1. OnlyCall(c, Wait("errorReply", u, FALSE)) /\ Playing' = Playing
      BY <1>2, <1>5, <2>2 DEF SendRejected
    <3>2. QED
      BY <2>2, <3>1
         DEF Service!Rejected, Service!WaitAt, OnlyCall, Playing, ServiceCalls, ServiceCall,
             ServiceAt, Wait
  <2>3. CASE calls[c].at \in {"startError", "errorReply", "quitReply"}
    <3>1. OnlyCall(c, Ended("thrown")) /\ Playing' = Playing
      BY <1>2, <1>5, <2>3 DEF SendRejected
    <3>2. QED
      BY <2>3, <3>1
         DEF Service!Rejected, Service!End, OnlyCall, Playing, ServiceCalls, ServiceCall,
             ServiceAt, Ended
  <2>4. QED
    BY <1>5, <2>1, <2>2, <2>3 DEF SendRejected
<1>6. QED
  BY <1>3, <1>4, <1>5 DEF SendSettles

\* The game handler implements GameService: who plays, where each call waits,
\* and what it returns to handleMessage (messageHandler.js).
THEOREM HandlerImplementsService == Spec => ImplementsGameService
<1>1. TypeOK /\ SessionHasItsGame /\ [Next]_vars => [Service!Next]_(Service!vars)
  <2> SUFFICES ASSUME TypeOK, SessionHasItsGame, [Next]_vars
               PROVE  Service!Next \/ UNCHANGED Service!vars
    OBVIOUS
  <2>1. ASSUME NEW c \in Calls, NEW u \in Users, Message(c, u) PROVE Service!Next
    BY <2>1, MessageRefines DEF Service!Next
  <2>2. ASSUME NEW c \in Calls, SendSettles(c) PROVE Service!Next
    BY <2>2, SendRefines DEF Service!Next
  <2>3. CASE Time
    <3>1. Playing' \subseteq Playing /\ ServiceCalls' = ServiceCalls
      BY <2>3, TimeEndsPlayingOnly
    <3>2. CASE Playing' = Playing
      BY <3>1, <3>2 DEF Service!vars, Playing, ServiceCalls, ServiceCall
    <3>3. CASE Playing' # Playing
      BY <3>1, <3>3 DEF Service!Next, Service!Expire, Playing, ServiceCalls, ServiceCall
    <3>4. QED
      BY <3>2, <3>3
  <2>4. CASE UNCHANGED vars
    BY <2>4 DEF vars, Service!vars, HasSession
  <2>5. QED
    BY <2>1, <2>2, <2>3, <2>4 DEF Next
<1>2. QED
  BY InitRefines, <1>1, TypeCorrect, SessionHasGame, PTL
     DEF Spec, ImplementsGameService, Service!Spec

=============================================================================
