--------------------------- MODULE TicTacToeProofs ---------------------------
(***************************************************************************)
(* Theorems about the Tic-Tac-Toe engine: what moves and turns do to a     *)
(* board, what minimax computes for every board and depth, and, from       *)
(* there, that the engine's games are won or drawn.                        *)
(***************************************************************************)
EXTENDS TicTacToeGame, TLAPS, FiniteSetTheorems, WellFoundedInduction

-----------------------------------------------------------------------------
(* Least and greatest elements.                                            *)

\* A set of natural numbers has a least element.
LEMMA NaturalsHaveMin ==
    ASSUME NEW S \in SUBSET Nat, S # {}
    PROVE  \E x \in S : \A y \in S : x <= y
<1>1. PICK x \in S : \A y \in S : ~ (<<y, x>> \in OpToRel(<, Nat))
  BY NatLessThanWellFounded, WFMin
<1>2. \A y \in S : y < x => <<y, x>> \in OpToRel(<, Nat)
  BY DEF OpToRel
<1>3. \A y \in S : ~(y < x)
  BY <1>1, <1>2
<1>4. \A y \in S : x <= y
  BY <1>3
<1> QED
  BY <1>4

\* A bounded set of integers has a greatest and a least element, so the CHOOSE of
\* Max and Min finds them.
LEMMA MaxAndMin ==
    ASSUME NEW n \in Nat, NEW S \in SUBSET ((-n)..n), S # {}
    PROVE  /\ Max(S) \in S /\ \A x \in S : Max(S) >= x
           /\ Min(S) \in S /\ \A x \in S : Min(S) <= x
<1>0. \A x \in S : x \in Int /\ n - x \in Nat /\ n + x \in Nat
  OBVIOUS
<1>1. \E x \in S : \A y \in S : x >= y
  <2> DEFINE T == {n - x : x \in S}
  <2>1. T \in SUBSET Nat /\ T # {}
    BY <1>0
  <2>2. PICK t \in T : \A y \in T : t <= y
    BY <2>1, NaturalsHaveMin
  <2>3. PICK x \in S : t = n - x
    OBVIOUS
  <2>4. \A y \in S : n - x <= n - y
    BY <2>2, <2>3
  <2>5. \A y \in S : x >= y
    BY <1>0, <2>4
  <2> QED
    BY <2>5
<1>2. \E x \in S : \A y \in S : x =< y
  <2> DEFINE T == {n + x : x \in S}
  <2>1. T \in SUBSET Nat /\ T # {}
    BY <1>0
  <2>2. PICK t \in T : \A y \in T : t <= y
    BY <2>1, NaturalsHaveMin
  <2>3. PICK x \in S : t = n + x
    OBVIOUS
  <2>4. \A y \in S : n + x <= n + y
    BY <2>2, <2>3
  <2>5. \A y \in S : x =< y
    BY <1>0, <2>4
  <2> QED
    BY <2>5
<1> QED
  BY <1>1, <1>2 DEF Max, Min

-----------------------------------------------------------------------------
(* Boards, lines and turns.                                                *)

\* A move, accepted or refused, leaves a board.
LEMMA MoveKeepsBoard ==
    ASSUME NEW b \in Board, NEW position, NEW player \in Players
    PROVE  makeMove(b, position, player) \in Board
  BY DEF makeMove, Board, getAvailableMoves, Cells

\* Every outcome of a turn is a board, whatever moves the bot may make.
LEMMA TurnKeepsBoard ==
    ASSUME NEW b \in Board, NEW position, NEW botMoves,
           NEW t \in Turn(b, position, botMoves)
    PROVE  t.board \in Board
<1> DEFINE mine == makeMove(b, position, "X")
<1>1. mine \in Board
  BY MoveKeepsBoard DEF Players
<1>2. \A m \in botMoves : makeMove(mine, m, "O") \in Board
  BY <1>1, MoveKeepsBoard DEF Players
<1>3. CASE checkWinner(mine) = "X"
  BY <1>1, <1>3 DEF Turn
<1>4. CASE checkWinner(mine) # "X" /\ isDraw(mine)
  BY <1>1, <1>4 DEF Turn
<1>5. CASE checkWinner(mine) # "X" /\ ~isDraw(mine)
  BY <1>2, <1>5 DEF Turn
<1> QED
  BY <1>3, <1>4, <1>5

\* The engine's lines run over three cells of the board.
LEMMA LinesAreCells ==
    ASSUME NEW k \in 1..8, NEW i \in 1..3
    PROVE  winningCombinations[k][i] \in Cells
<1>1. k = 1 \/ k = 2 \/ k = 3 \/ k = 4 \/ k = 5 \/ k = 6 \/ k = 7 \/ k = 8
  OBVIOUS
<1>2. i = 1 \/ i = 2 \/ i = 3
  OBVIOUS
<1> QED
  BY <1>1, <1>2 DEF winningCombinations, Cells

\* checkWinner looks at the first of the complete lines: there is one.
LEMMA FirstOfLines ==
    ASSUME NEW S \in SUBSET (1..8), S # {}
    PROVE  Min(S) \in S /\ \A k \in S : Min(S) =< k
<1>1. 8 \in Nat /\ S \in SUBSET ((-8)..8)
  OBVIOUS
<1> QED
  BY <1>1, MaxAndMin

\* There is a winner exactly when a line is complete, and it is the player of
\* the first complete line.
LEMMA WinnerFacts ==
    ASSUME NEW b \in Board
    PROVE  /\ checkWinner(b) \in Players \cup {NoWinner}
           /\ checkWinner(b) = NoWinner <=> \A k \in 1..8 : ~Completed(b, k)
           /\ checkWinner(b) # NoWinner =>
                 \E k \in 1..8 :
                    /\ Completed(b, k)
                    /\ b[winningCombinations[k][1]] = checkWinner(b)
                    /\ \A j \in 1..8 : Completed(b, j) => k =< j
<1> DEFINE complete == {k \in 1..8 : Completed(b, k)}
<1>1. CASE complete = {}
  BY <1>1 DEF checkWinner
<1>2. CASE complete # {}
  <2>1. PICK k \in 1..8 : /\ k = Min(complete)
                          /\ Completed(b, k)
                          /\ \A j \in 1..8 : Completed(b, j) => k =< j
    BY <1>2, FirstOfLines
  <2>2. checkWinner(b) = b[winningCombinations[k][1]]
    BY <1>2, <2>1 DEF checkWinner
  <2>3. winningCombinations[k][1] \in Cells
    BY LinesAreCells
  <2>4. b[winningCombinations[k][1]] \in Players
    BY <2>1, <2>3 DEF Completed, Board
  <2> QED
    BY <2>1, <2>2, <2>4 DEF Players, NoWinner
<1> QED
  BY <1>1, <1>2

\* No move undoes a line: marks stay.
LEMMA LinesStay ==
    ASSUME NEW b \in Board, NEW position, NEW player \in Players, NEW k \in 1..8, Completed(b, k)
    PROVE  Completed(makeMove(b, position, player), k)
<1>1. \A cell \in Cells : b[cell] # Blank => makeMove(b, position, player)[cell] = b[cell]
  BY DEF makeMove, getAvailableMoves, Board
<1>2. \A i \in 1..3 : winningCombinations[k][i] \in Cells
  BY LinesAreCells
<1> QED
  BY <1>1, <1>2 DEF Completed

\* A finished game stays finished, whoever goes on marking cells.
LEMMA FinishedStays ==
    ASSUME NEW b \in Board, NEW position, NEW player \in Players,
           makeMove(b, position, player) \in Board, Finished(b)
    PROVE  Finished(makeMove(b, position, player))
<1>1. CASE checkWinner(b) # NoWinner
  BY <1>1, WinnerFacts, LinesStay DEF Finished
<1>2. CASE isDraw(b)
  BY <1>2 DEF isDraw, Finished, makeMove
<1> QED
  BY <1>1, <1>2 DEF Finished

\* A player has finitely many marks.
LEMMA MarksAreFinite ==
    ASSUME NEW b, NEW player
    PROVE  IsFiniteSet(Marks(b, player)) /\ Cardinality(Marks(b, player)) \in Nat
<1>1. 0 \in Int /\ 8 \in Int
  OBVIOUS
<1>2. IsFiniteSet(Cells)
  BY <1>1, FS_Interval DEF Cells
<1> QED
  BY <1>2, FS_Subset, FS_CardinalityType DEF Marks

\* A mark on a free cell is one mark more of its player and none of the other.
LEMMA MoveAddsMark ==
    ASSUME NEW b \in Board, NEW position \in getAvailableMoves(b),
           NEW player \in Players, NEW other \in Players \ {player}
    PROVE  /\ Cardinality(Marks(makeMove(b, position, player), player))
                = Cardinality(Marks(b, player)) + 1
           /\ Cardinality(Marks(makeMove(b, position, player), other))
                = Cardinality(Marks(b, other))
<1>1. Marks(makeMove(b, position, player), player) = Marks(b, player) \cup {position}
  BY DEF Marks, makeMove, getAvailableMoves, Board
<1>2. position \notin Marks(b, player)
  BY DEF Marks, getAvailableMoves, Players, Blank
<1>3. Marks(makeMove(b, position, player), other) = Marks(b, other)
  BY DEF Marks, makeMove, getAvailableMoves, Board, Players, Blank
<1> QED
  BY <1>1, <1>2, <1>3, MarksAreFinite, FS_AddElement

\* A line of a player stays out of the other's reach: the bot's mark completes
\* no line of X.
LEMMA BotCompletesOwnLines ==
    ASSUME NEW b \in Board, NEW position, checkWinner(b) # "X"
    PROVE  checkWinner(makeMove(b, position, "O")) # "X"
<1> DEFINE b2 == makeMove(b, position, "O")
<1> SUFFICES ASSUME checkWinner(b2) = "X" PROVE FALSE
  OBVIOUS
<1>1. b2 \in Board
  BY DEF makeMove, Board, getAvailableMoves, Players
<1>2. PICK k \in 1..8 : /\ Completed(b2, k)
                        /\ b2[winningCombinations[k][1]] = "X"
                        /\ \A j \in 1..8 : Completed(b2, j) => k =< j
  BY <1>1, WinnerFacts DEF NoWinner
<1>3. Completed(b, k) /\ b[winningCombinations[k][1]] = "X"
  <2>1. \A cell \in Cells : b2[cell] = "X" => b[cell] = "X"
    BY DEF makeMove, getAvailableMoves, Board
  <2>2. \A i \in 1..3 : winningCombinations[k][i] \in Cells
    BY LinesAreCells
  <2> HIDE DEF b2
  <2>3. \A i \in 1..3 : b2[winningCombinations[k][i]] = "X"
    BY <1>2 DEF Completed
  <2>4. \A i \in 1..3 : b[winningCombinations[k][i]] = "X"
    BY <2>1, <2>2, <2>3
  <2>5. b[winningCombinations[k][1]] = "X" /\ b[winningCombinations[k][2]] = "X"
        /\ b[winningCombinations[k][3]] = "X"
    BY <2>4
  <2> QED
    BY <2>5 DEF Completed, Blank
<1>4. PICK j \in 1..8 : /\ Completed(b, j)
                        /\ b[winningCombinations[j][1]] = checkWinner(b)
                        /\ \A i \in 1..8 : Completed(b, i) => j =< i
  BY <1>3, WinnerFacts
<1>5. Completed(b2, j)
  BY <1>4, LinesStay DEF Players
<1>6. j = k
  BY <1>2, <1>3, <1>4, <1>5
<1> QED
  BY <1>3, <1>4, <1>6

\* What a turn announces fits the board it leaves: "none" while the game is
\* still open, and nothing else then.
LEMMA VerdictTellsEnd ==
    ASSUME NEW b \in Board, NEW position, NEW botMoves,
           NEW t \in Turn(b, position, botMoves)
    PROVE  t.verdict = "none" <=> ~Finished(t.board)
<1> DEFINE mine == makeMove(b, position, "X")
<1>1. mine \in Board
  BY MoveKeepsBoard DEF Players
<1>2. CASE checkWinner(mine) = "X"
  BY <1>2 DEF Turn, Finished, NoWinner
<1>3. CASE checkWinner(mine) # "X" /\ isDraw(mine)
  BY <1>3 DEF Turn, Finished
<1>4. CASE checkWinner(mine) # "X" /\ ~isDraw(mine)
  <2>1. PICK m \in botMoves : t = [board   |-> makeMove(mine, m, "O"),
                                   verdict |-> VerdictOf(makeMove(mine, m, "O"))]
    BY <1>4 DEF Turn
  <2>2. checkWinner(makeMove(mine, m, "O")) \in {"O", NoWinner}
    BY <1>1, <1>4, MoveKeepsBoard, WinnerFacts, BotCompletesOwnLines DEF Players
  <2> QED
    BY <2>1, <2>2 DEF VerdictOf, Finished, NoWinner
<1> QED
  BY <1>2, <1>3, <1>4

\* As many X as O.
Even(b) == Cardinality(Marks(b, "X")) = Cardinality(Marks(b, "O"))

\* A turn on an even board that leaves the game open was a mark of each: had the
\* player's mark ended the game, it would be over.
LEMMA TurnKeepsEven ==
    ASSUME NEW b \in Board, NEW position \in getAvailableMoves(b), NEW botMoves,
           getAvailableMoves(makeMove(b, position, "X")) # {} =>
               botMoves \subseteq getAvailableMoves(makeMove(b, position, "X")),
           NEW t \in Turn(b, position, botMoves), ~Finished(t.board),
           ~Finished(b) => Even(b)
    PROVE  Even(t.board)
<1> DEFINE mine == makeMove(b, position, "X")
<1>1. mine \in Board
  BY MoveKeepsBoard DEF Players
<1>2. ~(checkWinner(mine) = "X") /\ ~isDraw(mine)
  BY DEF Turn, Finished, NoWinner
<1>3. PICK m \in botMoves : t.board = makeMove(mine, m, "O")
  BY <1>2 DEF Turn
<1>4. ~Finished(mine) /\ ~Finished(b)
  BY <1>1, <1>3, FinishedStays, MoveKeepsBoard DEF Players
<1>5. m \in getAvailableMoves(mine)
  BY <1>3, <1>4 DEF Finished, isDraw
<1>6. /\ Cardinality(Marks(mine, "X")) = Cardinality(Marks(b, "X")) + 1
      /\ Cardinality(Marks(mine, "O")) = Cardinality(Marks(b, "O"))
  BY MoveAddsMark DEF Players
<1> HIDE DEF mine
<1>7. /\ Cardinality(Marks(t.board, "O")) = Cardinality(Marks(mine, "O")) + 1
      /\ Cardinality(Marks(t.board, "X")) = Cardinality(Marks(mine, "X"))
  BY <1>1, <1>3, <1>5, MoveAddsMark DEF Players
<1> QED
  BY <1>4, <1>6, <1>7, MarksAreFinite DEF Even

\* The empty board is open and even.
LEMMA EmptyBoardIsOpen == EmptyBoard \in Board /\ ~Finished(EmptyBoard) /\ Even(EmptyBoard)
<1>1. EmptyBoard \in Board /\ 0 \in getAvailableMoves(EmptyBoard)
  BY DEF EmptyBoard, Board, getAvailableMoves, Cells
<1>2. \A k \in 1..8 : ~Completed(EmptyBoard, k)
  BY LinesAreCells DEF Completed, EmptyBoard
<1>3. Marks(EmptyBoard, "X") = Marks(EmptyBoard, "O")
  BY DEF Marks, EmptyBoard, Blank
<1> QED
  BY <1>1, <1>2, <1>3, WinnerFacts DEF Finished, isDraw, Even

\* The engine's own answer is what BotAssumption asks of a bot.
THEOREM BestMoveIsFree ==
    ASSUME NEW b \in Board, getAvailableMoves(b) # {}
    PROVE  getBestMove(b) \subseteq getAvailableMoves(b)
<1>1. CASE getAvailableMoves(b) = Cells
  BY <1>1 DEF getBestMove, Cells
<1>2. CASE getAvailableMoves(b) # Cells
  <2> SUFFICES ASSUME NEW m \in getBestMove(b) PROVE m \in getAvailableMoves(b)
    OBVIOUS
  <2>1. \E score, n : n \in getAvailableMoves(b) /\ m = <<score, n>>[2]
    BY <1>2 DEF getBestMove
  <2> QED
    BY <2>1
<1> QED
  BY <1>1, <1>2

-----------------------------------------------------------------------------
(* The minimax function.                                                   *)

\* The number of free cells: how many marks a game on b can still see.
Room(b) == Cardinality(getAvailableMoves(b))

\* One unfolding of minimax at board b, with f for the recursive calls.
ScoreBy(f, b, m, d) ==
    LET winner == checkWinner(b)
        moves  == getAvailableMoves(b)
        mark   == IF m THEN "O" ELSE "X"
        scores == {f[[b EXCEPT ![k] = mark]][~m][d + 1] : k \in moves}
    IN  CASE winner = "O" -> 10 - d
          [] winner = "X" -> d - 10
          [] winner = NoWinner /\ moves = {} -> 0
          [] OTHER        -> IF m THEN Max(scores) ELSE Min(scores)

\* What minimax[b] should be, for both players to move and every depth.
Row(f, b) == [m \in BOOLEAN |-> [d \in Nat |-> ScoreBy(f, b, m, d)]]

\* f satisfies the recursion on the boards with at most n free cells.
SolvesUpTo(f, n) == \A b \in Board : Room(b) <= n => f[b] = Row(f, b)

\* A mark fills one of at most nine free cells.
LEMMA FreeCells ==
    ASSUME NEW b \in Board
    PROVE  /\ Room(b) \in 0..9
           /\ getAvailableMoves(b) = {} => Room(b) = 0
           /\ \A k \in getAvailableMoves(b), mark \in Players :
                 [b EXCEPT ![k] = mark] \in Board /\ Room([b EXCEPT ![k] = mark]) = Room(b) - 1
<1>1. 0 \in Int /\ 8 \in Int
  OBVIOUS
<1>2. IsFiniteSet(Cells) /\ Cardinality(Cells) = 9
  <2>1. IsFiniteSet(0..8) /\ Cardinality(0..8) = IF 0 > 8 THEN 0 ELSE 8 - 0 + 1
    BY <1>1, FS_Interval
  <2> QED
    BY <2>1 DEF Cells
<1>3. getAvailableMoves(b) \in SUBSET Cells
  BY DEF getAvailableMoves
<1>4. IsFiniteSet(getAvailableMoves(b)) /\ Room(b) <= 9
  BY <1>2, <1>3, FS_Subset DEF Room
<1>5. Room(b) \in Nat
  BY <1>4, FS_CardinalityType DEF Room
<1>6. getAvailableMoves(b) = {} => Room(b) = 0
  BY FS_EmptySet DEF Room
<1>7. ASSUME NEW k \in getAvailableMoves(b), NEW mark \in Players
      PROVE  [b EXCEPT ![k] = mark] \in Board /\ Room([b EXCEPT ![k] = mark]) = Room(b) - 1
  <2>1. [b EXCEPT ![k] = mark] \in Board
    BY DEF Board
  <2>2. getAvailableMoves([b EXCEPT ![k] = mark]) = getAvailableMoves(b) \ {k}
    BY DEF getAvailableMoves, Board, Players, Blank
  <2> QED
    BY <1>4, <2>1, <2>2, FS_RemoveElement DEF Room
<1> QED
  BY <1>4, <1>5, <1>6, <1>7

\* The recursion only looks at boards with fewer free cells.
LEMMA RowLooksOneMoveAhead ==
    ASSUME NEW f, NEW g, NEW b \in Board,
           \A c \in Board : Room(c) < Room(b) => f[c] = g[c]
    PROVE  Row(f, b) = Row(g, b)
<1>1. \A k \in getAvailableMoves(b) : f[[b EXCEPT ![k] = "O"]] = g[[b EXCEPT ![k] = "O"]]
  <2> SUFFICES ASSUME NEW k \in getAvailableMoves(b)
               PROVE  f[[b EXCEPT ![k] = "O"]] = g[[b EXCEPT ![k] = "O"]]
    OBVIOUS
  <2>1. [b EXCEPT ![k] = "O"] \in Board /\ Room([b EXCEPT ![k] = "O"]) = Room(b) - 1
    BY FreeCells DEF Players
  <2>2. Room(b) \in Int
    BY FreeCells
  <2> QED
    BY <2>1, <2>2
<1>2. \A k \in getAvailableMoves(b) : f[[b EXCEPT ![k] = "X"]] = g[[b EXCEPT ![k] = "X"]]
  <2> SUFFICES ASSUME NEW k \in getAvailableMoves(b)
               PROVE  f[[b EXCEPT ![k] = "X"]] = g[[b EXCEPT ![k] = "X"]]
    OBVIOUS
  <2>1. [b EXCEPT ![k] = "X"] \in Board /\ Room([b EXCEPT ![k] = "X"]) = Room(b) - 1
    BY FreeCells DEF Players
  <2>2. Room(b) \in Int
    BY FreeCells
  <2> QED
    BY <2>1, <2>2
<1>3. \A d \in Nat : ScoreBy(f, b, TRUE, d) = ScoreBy(g, b, TRUE, d)
  <2> SUFFICES ASSUME NEW d \in Nat PROVE ScoreBy(f, b, TRUE, d) = ScoreBy(g, b, TRUE, d)
    OBVIOUS
  <2>1. {f[[b EXCEPT ![k] = "O"]][~TRUE][d + 1] : k \in getAvailableMoves(b)}
        = {g[[b EXCEPT ![k] = "O"]][~TRUE][d + 1] : k \in getAvailableMoves(b)}
    BY <1>1
  <2> QED
    BY <2>1 DEF ScoreBy
<1>4. \A d \in Nat : ScoreBy(f, b, FALSE, d) = ScoreBy(g, b, FALSE, d)
  <2> SUFFICES ASSUME NEW d \in Nat PROVE ScoreBy(f, b, FALSE, d) = ScoreBy(g, b, FALSE, d)
    OBVIOUS
  <2>1. {f[[b EXCEPT ![k] = "X"]][~FALSE][d + 1] : k \in getAvailableMoves(b)}
        = {g[[b EXCEPT ![k] = "X"]][~FALSE][d + 1] : k \in getAvailableMoves(b)}
    BY <1>2
  <2> QED
    BY <2>1 DEF ScoreBy
<1>5. \A m \in BOOLEAN, d \in Nat : ScoreBy(f, b, m, d) = ScoreBy(g, b, m, d)
  BY <1>3, <1>4
<1> QED
  BY <1>5 DEF Row

\* A solution for the boards with n free cells extends to those with n + 1.
LEMMA OneLayerMore ==
    ASSUME NEW n \in Int, NEW f, SolvesUpTo(f, n)
    PROVE  \E g : SolvesUpTo(g, n + 1)
<1> DEFINE g == [b \in Board |-> IF Room(b) <= n THEN f[b] ELSE Row(f, b)]
<1> SUFFICES ASSUME NEW b \in Board, Room(b) <= n + 1 PROVE g[b] = Row(g, b)
  BY DEF SolvesUpTo
<1>1. g[b] = Row(f, b)
  BY DEF SolvesUpTo
<1>2. \A c \in Board : Room(c) < Room(b) => f[c] = g[c]
  BY FreeCells
<1> QED
  BY <1>1, <1>2, RowLooksOneMoveAhead

\* The recursive calls of minimax are well founded: a function that satisfies its
\* equation exists, so the CHOOSE that defines minimax is one.
THEOREM MinimaxIsSolved == minimax = [b \in Board |-> Row(minimax, b)]
<1> DEFINE Solves(f) == f = [b \in Board |-> Row(f, b)]
           Bad == {n \in Nat : ~ \E f : SolvesUpTo(f, n)}
<1>1. Bad = {}
  <2> SUFFICES ASSUME Bad # {} PROVE FALSE
    OBVIOUS
  <2>1. PICK n \in Bad : \A i \in Bad : n <= i
    BY NaturalsHaveMin
  <2>2. \E f : SolvesUpTo(f, n - 1)
    <3>1. CASE n = 0
      BY <3>1, FreeCells DEF SolvesUpTo
    <3>2. CASE n # 0
      BY <2>1, <3>2
    <3> QED
      BY <3>1, <3>2
  <2>3. \E f : SolvesUpTo(f, (n - 1) + 1)
    BY <2>2, OneLayerMore
  <2> QED
    BY <2>3
<1>2. PICK f : SolvesUpTo(f, 9)
  BY <1>1
<1>3. Solves([b \in Board |-> f[b]])
  <2> DEFINE g == [b \in Board |-> f[b]]
  <2>1. ASSUME NEW b \in Board PROVE g[b] = Row(g, b)
    <3>1. f[b] = Row(f, b)
      BY <1>2, FreeCells DEF SolvesUpTo
    <3>2. Row(f, b) = Row(g, b)
      BY RowLooksOneMoveAhead
    <3> QED
      BY <3>1, <3>2
  <2> QED
    BY <2>1
<1>4. minimax = CHOOSE g : Solves(g)
  BY DEF minimax, Row, ScoreBy
<1> HIDE DEF Solves
<1>5. Solves(minimax)
  BY <1>3, <1>4
<1> QED
  BY <1>5 DEF Solves

\* One step of the recursion.
LEMMA MinimaxUnfolds ==
    ASSUME NEW b \in Board, NEW d \in Nat
    PROVE  /\ minimax[b][TRUE][d] = ScoreBy(minimax, b, TRUE, d)
           /\ minimax[b][FALSE][d] = ScoreBy(minimax, b, FALSE, d)
<1>1. minimax[b] = Row(minimax, b)
  BY MinimaxIsSolved
<1> QED
  BY <1>1 DEF Row

\* The same with the cases of the code: a win of either player, a draw, and the
\* best score of the moves.
LEMMA MinimaxAnswers ==
    ASSUME NEW b \in Board, NEW d \in Nat
    PROVE  /\ checkWinner(b) = "O" =>
                 minimax[b][TRUE][d] = 10 - d /\ minimax[b][FALSE][d] = 10 - d
           /\ checkWinner(b) = "X" =>
                 minimax[b][TRUE][d] = d - 10 /\ minimax[b][FALSE][d] = d - 10
           /\ checkWinner(b) = NoWinner /\ getAvailableMoves(b) = {} =>
                 minimax[b][TRUE][d] = 0 /\ minimax[b][FALSE][d] = 0
           /\ checkWinner(b) = NoWinner /\ getAvailableMoves(b) # {} =>
                 /\ minimax[b][TRUE][d] = Max({minimax[[b EXCEPT ![k] = "O"]][FALSE][d + 1] :
                                                 k \in getAvailableMoves(b)})
                 /\ minimax[b][FALSE][d] = Min({minimax[[b EXCEPT ![k] = "X"]][TRUE][d + 1] :
                                                  k \in getAvailableMoves(b)})
<1>1. ~TRUE = FALSE /\ ~FALSE = TRUE
  OBVIOUS
<1>2. CASE checkWinner(b) = "O"
  BY <1>2, MinimaxUnfolds DEF ScoreBy, NoWinner
<1>3. CASE checkWinner(b) = "X"
  BY <1>3, MinimaxUnfolds DEF ScoreBy, NoWinner
<1>4. CASE checkWinner(b) = NoWinner /\ getAvailableMoves(b) = {}
  BY <1>4, MinimaxUnfolds DEF ScoreBy, NoWinner
<1>5. CASE checkWinner(b) = NoWinner /\ getAvailableMoves(b) # {}
  <2>1. ScoreBy(minimax, b, TRUE, d)
        = Max({minimax[[b EXCEPT ![k] = "O"]][~TRUE][d + 1] : k \in getAvailableMoves(b)})
    BY <1>5 DEF ScoreBy, NoWinner
  <2>2. ScoreBy(minimax, b, FALSE, d)
        = Min({minimax[[b EXCEPT ![k] = "X"]][~FALSE][d + 1] : k \in getAvailableMoves(b)})
    BY <1>5 DEF ScoreBy, NoWinner
  <2> QED
    BY <1>1, <1>5, <2>1, <2>2, MinimaxUnfolds DEF NoWinner
<1> QED
  BY <1>2, <1>3, <1>4, <1>5, WinnerFacts DEF Players

\* The scores of the bot's moves on b, and of the player's.
BotScores(b, d) ==
    {minimax[[b EXCEPT ![k] = "O"]][FALSE][d + 1] : k \in getAvailableMoves(b)}
PlayerScores(b, d) ==
    {minimax[[b EXCEPT ![k] = "X"]][TRUE][d + 1] : k \in getAvailableMoves(b)}

\* Induction over boards: among the boards of a set there is one with the fewest free cells.
LEMMA FullestBoard ==
    ASSUME NEW S \in SUBSET Board, S # {}
    PROVE  \E b \in S : \A c \in Board : Room(c) < Room(b) => c \notin S
<1> DEFINE Sizes == {Room(b) : b \in S}
<1>1. \A b \in Board : Room(b) \in Nat
  BY FreeCells
<1>2. Sizes \in SUBSET Nat /\ Sizes # {}
  BY <1>1
<1>3. PICK n \in Sizes : \A i \in Sizes : n <= i
  BY <1>2, NaturalsHaveMin
<1>4. PICK b \in S : Room(b) = n
  OBVIOUS
<1>5. \A c \in S : Room(b) <= Room(c)
  BY <1>3, <1>4
<1>6. \A c \in S : ~(Room(c) < Room(b))
  BY <1>1, <1>5
<1> QED
  BY <1>6

\* The scores at depth d lie between the fastest loss and the fastest win left.
InRange(b) ==
    \A d \in Nat : d + Room(b) <= 10 =>
       minimax[b][TRUE][d] \in (d - 10)..(10 - d) /\ minimax[b][FALSE][d] \in (d - 10)..(10 - d)

\* The scores of a player's moves when those of all later boards are in range.
LEMMA MovesInRange ==
    ASSUME NEW b \in Board, NEW d \in Nat, d + Room(b) <= 10, getAvailableMoves(b) # {},
           \A c \in Board : Room(c) < Room(b) => InRange(c)
    PROVE  /\ 9 - d \in Nat
           /\ BotScores(b, d) \subseteq (-(9 - d))..(9 - d) /\ BotScores(b, d) # {}
           /\ PlayerScores(b, d) \subseteq (-(9 - d))..(9 - d) /\ PlayerScores(b, d) # {}
<1>1. ASSUME NEW k \in getAvailableMoves(b)
      PROVE  /\ minimax[[b EXCEPT ![k] = "O"]][FALSE][d + 1] \in (-(9 - d))..(9 - d)
             /\ minimax[[b EXCEPT ![k] = "X"]][TRUE][d + 1] \in (-(9 - d))..(9 - d)
             /\ 9 - d \in Nat
  <2>1. Room(b) \in Nat
    BY FreeCells
  <2>2. /\ [b EXCEPT ![k] = "O"] \in Board /\ Room([b EXCEPT ![k] = "O"]) = Room(b) - 1
        /\ [b EXCEPT ![k] = "X"] \in Board /\ Room([b EXCEPT ![k] = "X"]) = Room(b) - 1
    BY FreeCells DEF Players
  <2>3. Room([b EXCEPT ![k] = "O"]) \in Nat
    BY <2>2, FreeCells
  <2>4. InRange([b EXCEPT ![k] = "O"]) /\ InRange([b EXCEPT ![k] = "X"])
    BY <2>1, <2>2
  <2>5. d + 1 \in Nat /\ (d + 1) + (Room(b) - 1) <= 10 /\ 9 - d \in Nat
    BY <2>1, <2>2, <2>3
  <2>6. (d + 1) - 10 = -(9 - d) /\ 10 - (d + 1) = 9 - d
    OBVIOUS
  <2>7. minimax[[b EXCEPT ![k] = "O"]][FALSE][d + 1] \in ((d + 1) - 10)..(10 - (d + 1))
    BY <2>2, <2>4, <2>5 DEF InRange
  <2>8. minimax[[b EXCEPT ![k] = "X"]][TRUE][d + 1] \in ((d + 1) - 10)..(10 - (d + 1))
    BY <2>2, <2>4, <2>5 DEF InRange
  <2> QED
    BY <2>5, <2>6, <2>7, <2>8
<1> QED
  BY <1>1 DEF BotScores, PlayerScores

\* No score is out of reach of the wins at that depth.
LEMMA ScoresInRange == \A b \in Board : InRange(b)
<1> SUFFICES ASSUME NEW b \in Board, \A c \in Board : Room(c) < Room(b) => InRange(c)
             PROVE  InRange(b)
  <2> DEFINE Bad == {b \in Board : ~InRange(b)}
  <2> SUFFICES ASSUME Bad # {} PROVE FALSE
    OBVIOUS
  <2>1. PICK b \in Bad : \A c \in Board : Room(c) < Room(b) => c \notin Bad
    BY FullestBoard
  <2> QED
    BY <2>1
<1> SUFFICES ASSUME NEW d \in Nat, d + Room(b) <= 10
             PROVE  /\ minimax[b][TRUE][d] \in (d - 10)..(10 - d)
                    /\ minimax[b][FALSE][d] \in (d - 10)..(10 - d)
  BY DEF InRange
<1>1. Room(b) \in Nat /\ d <= 10
  <2>1. Room(b) \in Nat
    BY FreeCells
  <2> QED
    BY <2>1
<1>2. CASE checkWinner(b) # NoWinner \/ getAvailableMoves(b) = {}
  <2>1. \/ minimax[b][TRUE][d] = 10 - d /\ minimax[b][FALSE][d] = 10 - d
        \/ minimax[b][TRUE][d] = d - 10 /\ minimax[b][FALSE][d] = d - 10
        \/ minimax[b][TRUE][d] = 0 /\ minimax[b][FALSE][d] = 0
    BY <1>2, MinimaxAnswers, WinnerFacts DEF Players
  <2>2. \A x \in {10 - d, d - 10, 0} : x \in (d - 10)..(10 - d)
    BY <1>1
  <2> QED
    BY <2>1, <2>2
<1>3. CASE checkWinner(b) = NoWinner /\ getAvailableMoves(b) # {}
  <2>1. /\ 9 - d \in Nat
        /\ BotScores(b, d) \subseteq (-(9 - d))..(9 - d) /\ BotScores(b, d) # {}
        /\ PlayerScores(b, d) \subseteq (-(9 - d))..(9 - d) /\ PlayerScores(b, d) # {}
    BY <1>3, MovesInRange
  <2>2. minimax[b][TRUE][d] = Max(BotScores(b, d)) /\ minimax[b][FALSE][d] = Min(PlayerScores(b, d))
    BY <1>3, MinimaxAnswers DEF BotScores, PlayerScores
  <2>3. Max(BotScores(b, d)) \in BotScores(b, d) /\ Min(PlayerScores(b, d)) \in PlayerScores(b, d)
    BY <2>1, MaxAndMin
  <2> QED
    BY <1>1, <2>1, <2>2, <2>3
<1> QED
  BY <1>2, <1>3

\* The bot reaches a score with one of its moves, the player's turn leaves at
\* least what each of his moves leaves.
LEMMA ScoresAfterMoves ==
    ASSUME NEW b \in Board, NEW d \in Nat, d + Room(b) <= 10, NEW s \in Int,
           checkWinner(b) = NoWinner, getAvailableMoves(b) # {}
    PROVE  /\ minimax[b][TRUE][d] >= s <=>
                 \E k \in getAvailableMoves(b) : minimax[[b EXCEPT ![k] = "O"]][FALSE][d + 1] >= s
           /\ minimax[b][FALSE][d] >= s <=>
                 \A k \in getAvailableMoves(b) : minimax[[b EXCEPT ![k] = "X"]][TRUE][d + 1] >= s
<1>1. /\ 9 - d \in Nat
      /\ BotScores(b, d) \subseteq (-(9 - d))..(9 - d) /\ BotScores(b, d) # {}
      /\ PlayerScores(b, d) \subseteq (-(9 - d))..(9 - d) /\ PlayerScores(b, d) # {}
  BY ScoresInRange, MovesInRange
<1>2. minimax[b][TRUE][d] = Max(BotScores(b, d)) /\ minimax[b][FALSE][d] = Min(PlayerScores(b, d))
  BY MinimaxAnswers DEF BotScores, PlayerScores
<1>3. Max(BotScores(b, d)) \in BotScores(b, d)
      /\ \A x \in BotScores(b, d) : Max(BotScores(b, d)) >= x
  BY <1>1, MaxAndMin
<1>4. Min(PlayerScores(b, d)) \in PlayerScores(b, d)
      /\ \A x \in PlayerScores(b, d) : Min(PlayerScores(b, d)) <= x
  BY <1>1, MaxAndMin
<1>5. \A x \in BotScores(b, d) \cup PlayerScores(b, d) : x \in Int
  BY <1>1
<1>6. minimax[b][TRUE][d] >= s <=> \E x \in BotScores(b, d) : x >= s
  BY <1>2, <1>3, <1>5
<1>7. minimax[b][FALSE][d] >= s <=> \A x \in PlayerScores(b, d) : x >= s
  BY <1>2, <1>4, <1>5
<1> QED
  BY <1>6, <1>7 DEF BotScores, PlayerScores

\* Not lost at a depth is not lost at all.
SignSettled(b) ==
    \A d \in Nat : d + Room(b) <= 9 =>
       /\ minimax[b][TRUE][d] >= 0 <=> minimax[b][TRUE][0] >= 0
       /\ minimax[b][FALSE][d] >= 0 <=> minimax[b][FALSE][0] >= 0

\* Proved from the fullest boards on, through ScoresAfterMoves.
LEMMA SignIsSettled == \A b \in Board : SignSettled(b)
<1> SUFFICES ASSUME NEW b \in Board, \A c \in Board : Room(c) < Room(b) => SignSettled(c)
             PROVE  SignSettled(b)
  <2> DEFINE Bad == {b \in Board : ~SignSettled(b)}
  <2> SUFFICES ASSUME Bad # {} PROVE FALSE
    OBVIOUS
  <2>1. PICK b \in Bad : \A c \in Board : Room(c) < Room(b) => c \notin Bad
    BY FullestBoard
  <2> QED
    BY <2>1
<1> SUFFICES ASSUME NEW d \in Nat, d + Room(b) <= 9
             PROVE  /\ minimax[b][TRUE][d] >= 0 <=> minimax[b][TRUE][0] >= 0
                    /\ minimax[b][FALSE][d] >= 0 <=> minimax[b][FALSE][0] >= 0
  BY DEF SignSettled
<1>1. Room(b) \in Nat /\ d <= 9 /\ 0 \in Nat
  <2>1. Room(b) \in Nat
    BY FreeCells
  <2> QED
    BY <2>1
<1>2. CASE checkWinner(b) = "O"
  <2>1. /\ minimax[b][TRUE][d] = 10 - d /\ minimax[b][FALSE][d] = 10 - d
        /\ minimax[b][TRUE][0] = 10 - 0 /\ minimax[b][FALSE][0] = 10 - 0
    BY <1>1, <1>2, MinimaxAnswers
  <2> QED
    BY <1>1, <2>1
<1>3. CASE checkWinner(b) = "X"
  <2>1. /\ minimax[b][TRUE][d] = d - 10 /\ minimax[b][FALSE][d] = d - 10
        /\ minimax[b][TRUE][0] = 0 - 10 /\ minimax[b][FALSE][0] = 0 - 10
    BY <1>1, <1>3, MinimaxAnswers
  <2> QED
    BY <1>1, <2>1
<1>4. CASE checkWinner(b) = NoWinner /\ getAvailableMoves(b) = {}
  BY <1>1, <1>4, MinimaxAnswers
<1>5. CASE checkWinner(b) = NoWinner /\ getAvailableMoves(b) # {}
  <2>1. ASSUME NEW k \in getAvailableMoves(b)
        PROVE  /\ minimax[[b EXCEPT ![k] = "O"]][FALSE][d + 1] >= 0
                    <=> minimax[[b EXCEPT ![k] = "O"]][FALSE][0 + 1] >= 0
               /\ minimax[[b EXCEPT ![k] = "X"]][TRUE][d + 1] >= 0
                    <=> minimax[[b EXCEPT ![k] = "X"]][TRUE][0 + 1] >= 0
    <3>1. /\ [b EXCEPT ![k] = "O"] \in Board /\ Room([b EXCEPT ![k] = "O"]) = Room(b) - 1
          /\ [b EXCEPT ![k] = "X"] \in Board /\ Room([b EXCEPT ![k] = "X"]) = Room(b) - 1
      BY FreeCells DEF Players
    <3>2. SignSettled([b EXCEPT ![k] = "O"]) /\ SignSettled([b EXCEPT ![k] = "X"])
      BY <1>1, <3>1
    <3>3. /\ d + 1 \in Nat /\ (d + 1) + (Room(b) - 1) <= 9
          /\ 0 + 1 \in Nat /\ (0 + 1) + (Room(b) - 1) <= 9
      BY <1>1
    <3> QED
      BY <3>1, <3>2, <3>3 DEF SignSettled
  <2>2. d + Room(b) <= 10 /\ 0 + Room(b) <= 10 /\ 0 \in Int
    BY <1>1
  <2>3. /\ minimax[b][TRUE][d] >= 0 <=>
             \E k \in getAvailableMoves(b) : minimax[[b EXCEPT ![k] = "O"]][FALSE][d + 1] >= 0
        /\ minimax[b][FALSE][d] >= 0 <=>
             \A k \in getAvailableMoves(b) : minimax[[b EXCEPT ![k] = "X"]][TRUE][d + 1] >= 0
    BY <1>5, <2>2, ScoresAfterMoves
  <2>4. /\ minimax[b][TRUE][0] >= 0 <=>
             \E k \in getAvailableMoves(b) : minimax[[b EXCEPT ![k] = "O"]][FALSE][0 + 1] >= 0
        /\ minimax[b][FALSE][0] >= 0 <=>
             \A k \in getAvailableMoves(b) : minimax[[b EXCEPT ![k] = "X"]][TRUE][0 + 1] >= 0
    BY <1>1, <1>5, <2>2, ScoresAfterMoves
  <2> QED
    BY <2>1, <2>3, <2>4
<1> QED
  BY <1>2, <1>3, <1>4, <1>5, WinnerFacts DEF Players

\* Scores are numbers.
LEMMA ScoresAreIntegers ==
    ASSUME NEW b \in Board
    PROVE  minimax[b][TRUE][0] \in Int /\ minimax[b][FALSE][0] \in Int
<1>1. 0 \in Nat /\ 0 + Room(b) <= 10
  <2>1. Room(b) \in 0..9
    BY FreeCells
  <2> QED
    BY <2>1
<1>2. minimax[b][TRUE][0] \in (0 - 10)..(10 - 0) /\ minimax[b][FALSE][0] \in (0 - 10)..(10 - 0)
  BY <1>1, ScoresInRange DEF InRange
<1>3. \A x \in (0 - 10)..(10 - 0) : x \in Int
  OBVIOUS
<1> QED
  BY <1>2, <1>3

\* getBestMove: a score that one of the bot's moves reaches is reached by the
\* move it picks.  (On the empty board it draws lots.)
LEMMA BestMoveScoresBest ==
    ASSUME NEW b \in Board, getAvailableMoves(b) # {}, getAvailableMoves(b) # Cells,
           NEW m \in getBestMove(b), NEW k \in getAvailableMoves(b), NEW s \in Int,
           minimax[[b EXCEPT ![k] = "O"]][FALSE][0] >= s
    PROVE  m \in getAvailableMoves(b) /\ minimax[[b EXCEPT ![m] = "O"]][FALSE][0] >= s
<1> DEFINE Score(i) == minimax[[b EXCEPT ![i] = "O"]][FALSE][0]
           scored == {<<Score(i), i>> : i \in getAvailableMoves(b)}
           beats(p, q) == p[1] > q[1] \/ (p[1] = q[1] /\ p[2] <= q[2])
<1>1. getBestMove(b) = {p[2] : p \in {q \in scored : \A r \in scored : beats(q, r)}}
  BY DEF getBestMove
<1>2. PICK p \in scored : m = p[2] /\ \A r \in scored : beats(p, r)
  BY <1>1
<1>3. PICK n \in getAvailableMoves(b) : p = <<Score(n), n>>
  BY <1>2
<1>4. n = m
  BY <1>2, <1>3
<1>5. Score(m) > Score(k) \/ Score(m) = Score(k)
  <2>1. beats(<<Score(m), m>>, <<Score(k), k>>)
    BY <1>2, <1>3, <1>4
  <2> QED
    BY <2>1
<1>6. Score(m) \in Int /\ Score(k) \in Int
  BY <1>4, FreeCells, ScoresAreIntegers DEF Players
<1> HIDE DEF Score
<1>7. Score(k) >= s
  BY DEF Score
<1>8. Score(m) >= s
  BY <1>5, <1>6, <1>7
<1> QED
  BY <1>4, <1>8 DEF Score

-----------------------------------------------------------------------------
(* Turns: what an input and its answer do to a board.                      *)

\* A line of a player is a complete one that begins with his mark.
LEMMA LineOf ==
    ASSUME NEW b \in Board, NEW player \in Players
    PROVE  HasLine(b, player) <=>
              \E k \in 1..8 : Completed(b, k) /\ b[winningCombinations[k][1]] = player
<1>1. DOMAIN winningCombinations = 1..8
  BY DEF winningCombinations
<1>2. ASSUME NEW k \in 1..8
      PROVE  (\A i \in 1..3 : b[winningCombinations[k][i]] = player)
                <=> Completed(b, k) /\ b[winningCombinations[k][1]] = player
  <2>1. (\A i \in 1..3 : b[winningCombinations[k][i]] = player) <=>
            /\ b[winningCombinations[k][1]] = player
            /\ b[winningCombinations[k][2]] = player
            /\ b[winningCombinations[k][3]] = player
    <3>1. \A i \in 1..3 : i = 1 \/ i = 2 \/ i = 3
      OBVIOUS
    <3>2. 1 \in 1..3 /\ 2 \in 1..3 /\ 3 \in 1..3
      OBVIOUS
    <3> QED
      BY <3>1, <3>2
  <2> QED
    BY <2>1 DEF Completed, Players, Blank
<1> QED
  BY <1>1, <1>2 DEF HasLine

\* The winner has a line, and without a winner nobody has.
LEMMA WinnerHasLine ==
    ASSUME NEW b \in Board, NEW player \in Players
    PROVE  /\ checkWinner(b) = player => HasLine(b, player)
           /\ checkWinner(b) = NoWinner => ~HasLine(b, player)
  BY WinnerFacts, LineOf DEF Players, NoWinner

\* A mark on a board without lines completes lines of its own player only.
LEMMA MoverCompletesOwnLines ==
    ASSUME NEW b \in Board, checkWinner(b) = NoWinner, NEW k \in getAvailableMoves(b),
           NEW player \in Players, NEW other \in Players \ {player}
    PROVE  LET b1 == [b EXCEPT ![k] = player]
           IN  /\ ~HasLine(b1, other)
               /\ checkWinner(b1) \in {player, NoWinner}
               /\ checkWinner(b1) = player <=> HasLine(b1, player)
<1> DEFINE b1 == [b EXCEPT ![k] = player]
<1>1. b1 \in Board
  BY FreeCells
<1>2. ASSUME NEW j \in 1..8, Completed(b1, j) PROVE b1[winningCombinations[j][1]] = player
  <2>1. \A i \in 1..3 : winningCombinations[j][i] \in Cells
    BY LinesAreCells
  <2>2. ~Completed(b, j)
    BY WinnerFacts
  <2>3. \A cell \in Cells \ {k} : b1[cell] = b[cell]
    BY DEF Board
  <2>4. b1[k] = player
    BY DEF Board, getAvailableMoves
  <2> HIDE DEF b1
  <2>5. \/ winningCombinations[j][1] = k
        \/ winningCombinations[j][2] = k
        \/ winningCombinations[j][3] = k
    <3>1. 1 \in 1..3 /\ 2 \in 1..3 /\ 3 \in 1..3
      OBVIOUS
    <3> QED
      BY <1>2, <2>1, <2>2, <2>3, <3>1 DEF Completed
  <2> QED
    BY <1>2, <2>4, <2>5 DEF Completed
<1> HIDE DEF b1
<1>3. ~HasLine(b1, other)
  BY <1>1, <1>2, LineOf
<1>4. checkWinner(b1) \in {player, NoWinner}
  BY <1>1, <1>2, WinnerFacts DEF NoWinner
<1>5. checkWinner(b1) = player <=> HasLine(b1, player)
  BY <1>1, <1>4, WinnerHasLine
<1> QED
  BY <1>3, <1>4, <1>5 DEF b1

\* Every cell is free or bears a mark.
LEMMA CellsAreCounted ==
    ASSUME NEW b \in Board
    PROVE  Room(b) + Cardinality(Marks(b, "X")) + Cardinality(Marks(b, "O")) = 9
<1>1. 0 \in Int /\ 8 \in Int
  OBVIOUS
<1>2. IsFiniteSet(0..8) /\ Cardinality(0..8) = IF 0 > 8 THEN 0 ELSE 8 - 0 + 1
  BY <1>1, FS_Interval
<1>3. IsFiniteSet(Cells) /\ Cardinality(Cells) = 9
  BY <1>2 DEF Cells
<1>4. getAvailableMoves(b) \in SUBSET Cells
  BY DEF getAvailableMoves
<1>5. IsFiniteSet(getAvailableMoves(b)) /\ IsFiniteSet(Marks(b, "X")) /\ IsFiniteSet(Marks(b, "O"))
  BY <1>3, <1>4, FS_Subset, MarksAreFinite
<1>6. /\ getAvailableMoves(b) \cap Marks(b, "X") = {}
      /\ (getAvailableMoves(b) \cup Marks(b, "X")) \cap Marks(b, "O") = {}
      /\ (getAvailableMoves(b) \cup Marks(b, "X")) \cup Marks(b, "O") = Cells
  BY DEF getAvailableMoves, Marks, Board, Players, Blank
<1>7. /\ IsFiniteSet(getAvailableMoves(b) \cup Marks(b, "X"))
      /\ Cardinality(getAvailableMoves(b) \cup Marks(b, "X"))
            = Room(b) + Cardinality(Marks(b, "X")) - Cardinality({})
  BY <1>5, <1>6, FS_Union DEF Room
<1>8. Cardinality(Cells) = Cardinality(getAvailableMoves(b) \cup Marks(b, "X"))
                               + Cardinality(Marks(b, "O")) - Cardinality({})
  BY <1>5, <1>6, <1>7, FS_Union
<1>9. Cardinality({}) = 0 /\ Room(b) \in Nat /\ Cardinality(Marks(b, "X")) \in Nat
      /\ Cardinality(Marks(b, "O")) \in Nat
  BY FS_EmptySet, FreeCells, MarksAreFinite
<1> QED
  BY <1>3, <1>7, <1>8, <1>9

\* The board after an input on an open one, before the engine answers.
LEMMA PlayersMark ==
    ASSUME NEW b \in Board, ~Finished(b), NEW position \in getAvailableMoves(b)
    PROVE  LET mine == makeMove(b, position, "X")
           IN  /\ mine \in Board /\ mine = [b EXCEPT ![position] = "X"]
               /\ Room(mine) = Room(b) - 1
               /\ ~HasLine(mine, "O") /\ checkWinner(mine) \in {"X", NoWinner}
               /\ getAvailableMoves(mine) # Cells
<1> DEFINE mine == makeMove(b, position, "X")
<1>1. mine = [b EXCEPT ![position] = "X"]
  BY DEF makeMove
<1>2. mine \in Board /\ Room(mine) = Room(b) - 1
  BY <1>1, FreeCells DEF Players
<1>3. ~HasLine(mine, "O") /\ checkWinner(mine) \in {"X", NoWinner}
  BY <1>1, MoverCompletesOwnLines DEF Finished, Players
<1>4. position \in Cells /\ position \notin getAvailableMoves(mine)
  BY <1>1 DEF getAvailableMoves, Board, Blank
<1> QED
  BY <1>1, <1>2, <1>3, <1>4

\* An input on an open board ends in one of three ways.
LEMMA TurnOutcomes ==
    ASSUME NEW b \in Board, ~Finished(b), NEW position \in getAvailableMoves(b), NEW botMoves,
           getAvailableMoves(makeMove(b, position, "X")) # {} =>
               botMoves \subseteq getAvailableMoves(makeMove(b, position, "X")),
           NEW t \in Turn(b, position, botMoves)
    PROVE  LET mine == makeMove(b, position, "X")
           IN  \/ checkWinner(mine) = "X" /\ t = [board |-> mine, verdict |-> "player"]
               \/ isDraw(mine) /\ t = [board |-> mine, verdict |-> "draw"]
               \/ /\ checkWinner(mine) = NoWinner /\ getAvailableMoves(mine) # {}
                  /\ \E m \in botMoves \cap getAvailableMoves(mine) :
                        t = [board   |-> [mine EXCEPT ![m] = "O"],
                             verdict |-> VerdictOf([mine EXCEPT ![m] = "O"])]
<1> DEFINE mine == makeMove(b, position, "X")
<1>1. checkWinner(mine) \in {"X", NoWinner}
  BY PlayersMark
<1>2. CASE checkWinner(mine) = "X"
  BY <1>2 DEF Turn
<1>3. CASE checkWinner(mine) # "X" /\ isDraw(mine)
  BY <1>3 DEF Turn
<1>4. CASE checkWinner(mine) # "X" /\ ~isDraw(mine)
  <2>1. checkWinner(mine) = NoWinner /\ getAvailableMoves(mine) # {}
    BY <1>1, <1>4 DEF isDraw
  <2>2. PICK m \in botMoves : t = [board   |-> makeMove(mine, m, "O"),
                                   verdict |-> VerdictOf(makeMove(mine, m, "O"))]
    BY <1>4 DEF Turn
  <2>3. m \in getAvailableMoves(mine)
    BY <2>1
  <2>4. makeMove(mine, m, "O") = [mine EXCEPT ![m] = "O"]
    BY <2>3 DEF makeMove
  <2>5. \E n \in botMoves \cap getAvailableMoves(mine) :
           t = [board   |-> [mine EXCEPT ![n] = "O"],
                verdict |-> VerdictOf([mine EXCEPT ![n] = "O"])]
    BY <2>2, <2>3, <2>4
  <2> QED
    BY <2>1, <2>5
<1> QED
  BY <1>2, <1>3, <1>4

\* What VerdictFitsBoard says of the variables, of any board and verdict.
Fits(b, v) ==
    LET x == Cardinality(Marks(b, "X"))
        o == Cardinality(Marks(b, "O"))
    IN  CASE v = "none" -> x = o /\ ~HasLine(b, "O")
          [] v = "draw" -> x = 5 /\ o = 4 /\ ~HasLine(b, "O")
          [] v = "bot"  -> x = o /\ HasLine(b, "O")
          [] OTHER      -> TRUE

\* The announcement of a turn fits the board it leaves.  A draw can only follow
\* the player's mark: with as many X as O a cell of the nine is left.
LEMMA TurnFits ==
    ASSUME NEW b \in Board, ~Finished(b), Even(b), NEW position \in getAvailableMoves(b),
           NEW botMoves,
           getAvailableMoves(makeMove(b, position, "X")) # {} =>
               botMoves \subseteq getAvailableMoves(makeMove(b, position, "X")),
           NEW t \in Turn(b, position, botMoves)
    PROVE  Fits(t.board, t.verdict) /\ t.verdict \in {"none", "player", "draw", "bot"}
<1> DEFINE mine == makeMove(b, position, "X")
           xs(c) == Cardinality(Marks(c, "X"))
           os(c) == Cardinality(Marks(c, "O"))
<1>1. mine \in Board /\ ~HasLine(mine, "O")
  BY PlayersMark
<1>2. \A c \in Board : xs(c) \in Nat /\ os(c) \in Nat /\ Room(c) + xs(c) + os(c) = 9
  BY CellsAreCounted, MarksAreFinite
<1>3. xs(b) = os(b) /\ xs(mine) = xs(b) + 1 /\ os(mine) = os(b)
  BY MoveAddsMark DEF Even, Players
<1>4. CASE t = [board |-> mine, verdict |-> "player"]
  BY <1>4 DEF Fits
<1>5. CASE isDraw(mine) /\ t = [board |-> mine, verdict |-> "draw"]
  <2>1. Room(mine) = 0
    BY <1>1, <1>5, FreeCells DEF isDraw
  <2> HIDE DEF mine, xs, os
  <2>2. xs(mine) = 5 /\ os(mine) = 4
    BY <1>1, <1>2, <1>3, <2>1
  <2> QED
    BY <1>1, <1>5, <2>2 DEF Fits, xs, os
<1>6. CASE /\ checkWinner(mine) = NoWinner /\ getAvailableMoves(mine) # {}
           /\ \E m \in botMoves \cap getAvailableMoves(mine) :
                 t = [board   |-> [mine EXCEPT ![m] = "O"],
                      verdict |-> VerdictOf([mine EXCEPT ![m] = "O"])]
  <2>1. PICK m \in getAvailableMoves(mine) : t = [board   |-> [mine EXCEPT ![m] = "O"],
                                          verdict |-> VerdictOf([mine EXCEPT ![m] = "O"])]
    BY <1>6
  <2> DEFINE b2 == [mine EXCEPT ![m] = "O"]
  <2>2. b2 = makeMove(mine, m, "O")
    BY DEF makeMove
  <2> HIDE DEF mine, b2
  <2>3. xs(b2) = xs(mine) /\ os(b2) = os(mine) + 1
    BY <1>1, <2>2, MoveAddsMark DEF Players
  <2>4. b2 \in Board
    BY <1>1, FreeCells DEF Players, b2
  <2>5. checkWinner(b2) \in {"O", NoWinner} /\ (checkWinner(b2) = "O" <=> HasLine(b2, "O"))
    BY <1>1, <1>6, MoverCompletesOwnLines DEF Players, b2
  <2> HIDE DEF xs, os
  <2>6. xs(b2) = os(b2) /\ Room(b2) # 0
    BY <1>2, <1>1, <1>3, <2>3, <2>4
  <2>7. ~isDraw(b2)
    BY <2>4, <2>6, FreeCells DEF isDraw
  <2>8. t.board = b2 /\ t.verdict = VerdictOf(b2)
    BY <2>1 DEF b2
  <2>9. CASE checkWinner(b2) = "O"
    <3>1. t.verdict = "bot"
      BY <2>8, <2>9 DEF VerdictOf, isDraw, NoWinner
    <3> QED
      BY <2>5, <2>6, <2>8, <2>9, <3>1 DEF Fits, xs, os
  <2>10. CASE checkWinner(b2) # "O"
    <3>1. t.verdict = "none"
      BY <2>7, <2>8, <2>10 DEF VerdictOf
    <3> QED
      BY <2>5, <2>6, <2>8, <2>10, <3>1 DEF Fits, xs, os
  <2> QED
    BY <2>9, <2>10
<1> QED
  BY <1>4, <1>5, <1>6, TurnOutcomes

\* From a board the player cannot win, the engine's answer leads to a board the
\* player cannot win: the score of its answer is the best there is.
LEMMA SafeTurn ==
    ASSUME NEW b \in Board, ~Finished(b), minimax[b][FALSE][0] >= 0,
           NEW position \in getAvailableMoves(b),
           NEW t \in Turn(b, position, getBestMove(makeMove(b, position, "X")))
    PROVE  /\ t.verdict # "player" /\ ~HasLine(t.board, "X")
           /\ getAvailableMoves(t.board) # {} => minimax[t.board][FALSE][0] >= 0
<1> DEFINE mine == makeMove(b, position, "X")
<1>1. /\ mine \in Board /\ mine = [b EXCEPT ![position] = "X"]
      /\ checkWinner(mine) \in {"X", NoWinner} /\ getAvailableMoves(mine) # Cells
      /\ Room(mine) = Room(b) - 1 /\ Room(b) \in 0..9
  BY PlayersMark, FreeCells
<1>2. minimax[mine][TRUE][1] >= 0
  <2>1. checkWinner(b) = NoWinner /\ getAvailableMoves(b) # {}
    BY DEF Finished, isDraw
  <2>2. 0 \in Nat /\ 0 + Room(b) <= 10 /\ 0 \in Int /\ 0 + 1 = 1
    BY <1>1
  <2> QED
    BY <1>1, <2>1, <2>2, ScoresAfterMoves
<1>3. checkWinner(mine) = NoWinner /\ ~HasLine(mine, "X")
  <2>1. 1 \in Nat /\ 1 <= 9
    OBVIOUS
  <2>2. checkWinner(mine) # "X"
    <3> SUFFICES ASSUME checkWinner(mine) = "X" PROVE FALSE
      OBVIOUS
    <3>1. minimax[mine][TRUE][1] = 1 - 10
      BY <1>1, <2>1, MinimaxAnswers
    <3> QED
      BY <1>2, <3>1
  <2>3. checkWinner(mine) = NoWinner
    BY <1>1, <2>2
  <2> QED
    BY <1>1, <2>3, WinnerHasLine DEF Players
<1>4. getAvailableMoves(mine) # {} => getBestMove(mine) \subseteq getAvailableMoves(mine)
  BY <1>1, BestMoveIsFree
<1>5. CASE checkWinner(mine) = "X" /\ t = [board |-> mine, verdict |-> "player"]
  BY <1>3, <1>5 DEF NoWinner
<1>6. CASE isDraw(mine) /\ t = [board |-> mine, verdict |-> "draw"]
  BY <1>3, <1>6 DEF isDraw
<1>7. CASE /\ getAvailableMoves(mine) # {}
           /\ \E m \in getBestMove(mine) \cap getAvailableMoves(mine) :
                 t = [board   |-> [mine EXCEPT ![m] = "O"],
                      verdict |-> VerdictOf([mine EXCEPT ![m] = "O"])]
  <2>1. PICK m \in getBestMove(mine) :
           /\ m \in getAvailableMoves(mine)
           /\ t = [board   |-> [mine EXCEPT ![m] = "O"],
                   verdict |-> VerdictOf([mine EXCEPT ![m] = "O"])]
    BY <1>7
  <2> HIDE DEF mine
  <2>2. PICK k \in getAvailableMoves(mine) : minimax[[mine EXCEPT ![k] = "O"]][FALSE][1 + 1] >= 0
    <3>1. 1 \in Nat /\ 1 + Room(mine) <= 10 /\ 0 \in Int
      BY <1>1
    <3> QED
      BY <1>1, <1>2, <1>3, <1>7, <3>1, ScoresAfterMoves
  <2>3. [mine EXCEPT ![k] = "O"] \in Board /\ Room([mine EXCEPT ![k] = "O"]) = Room(mine) - 1
    BY <1>1, FreeCells DEF Players
  <2>4. minimax[[mine EXCEPT ![k] = "O"]][FALSE][0] >= 0
    <3>1. (1 + 1) \in Nat /\ (1 + 1) + Room([mine EXCEPT ![k] = "O"]) <= 9
      BY <1>1, <2>3
    <3> QED
      BY <2>2, <2>3, <3>1, SignIsSettled DEF SignSettled
  <2>5. minimax[[mine EXCEPT ![m] = "O"]][FALSE][0] >= 0
    <3>1. 0 \in Int
      OBVIOUS
    <3> QED
      BY <1>1, <1>7, <2>1, <2>4, <3>1, BestMoveScoresBest
  <2>6. ~HasLine([mine EXCEPT ![m] = "O"], "X")
    BY <1>1, <1>3, <2>1, MoverCompletesOwnLines DEF Players
  <2>7. t.verdict # "player"
    BY <2>1 DEF VerdictOf
  <2> QED
    BY <2>1, <2>5, <2>6, <2>7
<1>8. \/ checkWinner(mine) = "X" /\ t = [board |-> mine, verdict |-> "player"]
      \/ isDraw(mine) /\ t = [board |-> mine, verdict |-> "draw"]
      \/ /\ checkWinner(mine) = NoWinner /\ getAvailableMoves(mine) # {}
         /\ \E m \in getBestMove(mine) \cap getAvailableMoves(mine) :
               t = [board   |-> [mine EXCEPT ![m] = "O"],
                    verdict |-> VerdictOf([mine EXCEPT ![m] = "O"])]
  BY <1>4, TurnOutcomes
<1> QED
  BY <1>5, <1>6, <1>7, <1>8

-----------------------------------------------------------------------------
(* Boards the bot holds: nobody beats it on them.                          *)

\* One exchange: the player marks r, the bot m.
Exchange(b, r, m) == [[b EXCEPT ![r] = "X"] EXCEPT ![m] = "O"]

\* The boards of S hold for the bot: nobody but the bot has a line on them, and
\* while no line is there every mark of the player fills the board or has an
\* answer that stays in S.
Holds(S) ==
    \A b \in S :
       /\ ~HasLine(b, "X")
       /\ \/ HasLine(b, "O")
          \/ \A r \in getAvailableMoves(b) :
                /\ ~HasLine([b EXCEPT ![r] = "X"], "X")
                /\ \/ getAvailableMoves([b EXCEPT ![r] = "X"]) = {}
                   \/ \E m \in getAvailableMoves([b EXCEPT ![r] = "X"]) : Exchange(b, r, m) \in S

\* All boards that hold.
HeldBoards == UNION {S \in SUBSET Board : Holds(S)}

\* They hold together.
LEMMA HeldBoardsHold == HeldBoards \in SUBSET Board /\ Holds(HeldBoards)
  BY DEF HeldBoards, Holds

\* Boards that hold, or lead to boards that do.
LEMMA HeldByHolding ==
    ASSUME NEW S \in SUBSET Board, Holds(S \cup HeldBoards)
    PROVE  S \subseteq HeldBoards
<1>1. S \cup HeldBoards \in SUBSET Board
  BY HeldBoardsHold
<1> HIDE DEF Holds
<1> QED
  BY <1>1 DEF HeldBoards

\* The player to move on a held board cannot win.
LEMMA HeldIsNotLost == \A b \in HeldBoards : minimax[b][FALSE][0] >= 0
<1> SUFFICES ASSUME NEW b \in HeldBoards,
                    \A c \in Board : Room(c) < Room(b) /\ c \in HeldBoards
                                        => minimax[c][FALSE][0] >= 0
             PROVE  minimax[b][FALSE][0] >= 0
  <2> DEFINE Bad == {b \in Board : b \in HeldBoards /\ ~(minimax[b][FALSE][0] >= 0)}
  <2> SUFFICES ASSUME Bad # {} PROVE FALSE
    BY HeldBoardsHold
  <2>1. PICK b \in Bad : \A c \in Board : Room(c) < Room(b) => c \notin Bad
    BY FullestBoard
  <2> QED
    BY <2>1
<1>1. b \in Board /\ ~HasLine(b, "X")
  BY HeldBoardsHold DEF Holds
<1>2. checkWinner(b) \in {"O", NoWinner} /\ (checkWinner(b) = "O" <=> HasLine(b, "O"))
  BY <1>1, WinnerHasLine, WinnerFacts DEF Players, NoWinner
<1>3. 0 \in Nat /\ 1 \in Nat /\ 2 \in Nat /\ 0 + 1 = 1 /\ 1 + 1 = 2 /\ 0 \in Int
  OBVIOUS
<1>4. CASE checkWinner(b) = "O"
  <2>1. minimax[b][FALSE][0] = 10 - 0
    BY <1>1, <1>3, <1>4, MinimaxAnswers
  <2> QED
    BY <2>1
<1>5. CASE checkWinner(b) = NoWinner /\ getAvailableMoves(b) = {}
  <2>1. minimax[b][FALSE][0] = 0
    BY <1>1, <1>3, <1>5, MinimaxAnswers
  <2> QED
    BY <2>1
<1>6. CASE checkWinner(b) = NoWinner /\ getAvailableMoves(b) # {}
  <2>1. ASSUME NEW r \in getAvailableMoves(b)
        PROVE  minimax[[b EXCEPT ![r] = "X"]][TRUE][1] >= 0
    <3> DEFINE b1 == [b EXCEPT ![r] = "X"]
    <3>1. b1 \in Board /\ Room(b1) = Room(b) - 1 /\ Room(b) \in 0..9
      BY <1>1, FreeCells DEF Players
    <3>2. checkWinner(b1) = NoWinner
      BY <1>1, <1>2, <1>6, HeldBoardsHold, MoverCompletesOwnLines DEF Holds, Players, NoWinner
    <3>3. \/ getAvailableMoves(b1) = {}
          \/ \E m \in getAvailableMoves(b1) : [b1 EXCEPT ![m] = "O"] \in HeldBoards
      BY <1>2, <1>6, HeldBoardsHold DEF Holds, NoWinner, Exchange
    <3> HIDE DEF b1
    <3>4. CASE getAvailableMoves(b1) = {}
      <4>1. minimax[b1][TRUE][1] = 0
        BY <1>3, <3>1, <3>2, <3>4, MinimaxAnswers
      <4> QED
        BY <4>1 DEF b1
    <3>5. ASSUME NEW m \in getAvailableMoves(b1), [b1 EXCEPT ![m] = "O"] \in HeldBoards
          PROVE  minimax[b1][TRUE][1] >= 0
      <4>1. [b1 EXCEPT ![m] = "O"] \in Board /\ Room([b1 EXCEPT ![m] = "O"]) = Room(b1) - 1
        BY <3>1, FreeCells DEF Players
      <4>2. minimax[[b1 EXCEPT ![m] = "O"]][FALSE][0] >= 0
        <5>1. Room([b1 EXCEPT ![m] = "O"]) < Room(b)
          BY <3>1, <4>1
        <5> QED
          BY <3>5, <4>1, <5>1
      <4>3. 2 + Room([b1 EXCEPT ![m] = "O"]) <= 9 /\ 1 + Room(b1) <= 10
        BY <3>1, <4>1
      <4>4. minimax[[b1 EXCEPT ![m] = "O"]][FALSE][2] >= 0
        BY <1>3, <4>1, <4>2, <4>3, SignIsSettled DEF SignSettled
      <4> QED
        BY <1>3, <3>1, <3>2, <3>5, <4>3, <4>4, ScoresAfterMoves
    <3> QED
      BY <3>3, <3>4, <3>5 DEF b1
  <2>2. 0 + Room(b) <= 10
    <3>1. Room(b) \in 0..9
      BY <1>1, FreeCells
    <3> QED
      BY <3>1
  <2> QED
    BY <1>1, <1>3, <1>6, <2>1, <2>2, ScoresAfterMoves
<1> QED
  BY <1>2, <1>4, <1>5, <1>6

\* The cells of a line.
OnLine(c, k) == \E i \in 1..3 : winningCombinations[k][i] = c

\* A player has a line when all cells of one are his.
LEMMA LineCells ==
    ASSUME NEW b, NEW player
    PROVE  HasLine(b, player) <=>
              \E k \in 1..8 : \A c \in Cells : OnLine(c, k) => b[c] = player
<1>1. DOMAIN winningCombinations = 1..8
  BY DEF winningCombinations
<1>2. \A k \in 1..8, i \in 1..3 : winningCombinations[k][i] \in Cells
  BY LinesAreCells
<1> QED
  BY <1>1, <1>2 DEF HasLine, OnLine

\* The lines, cell by cell.
LEMMA LineTable ==
    ASSUME NEW c
    PROVE  /\ OnLine(c, 1) <=> c = 0 \/ c = 1 \/ c = 2
           /\ OnLine(c, 2) <=> c = 3 \/ c = 4 \/ c = 5
           /\ OnLine(c, 3) <=> c = 6 \/ c = 7 \/ c = 8
           /\ OnLine(c, 4) <=> c = 0 \/ c = 3 \/ c = 6
           /\ OnLine(c, 5) <=> c = 1 \/ c = 4 \/ c = 7
           /\ OnLine(c, 6) <=> c = 2 \/ c = 5 \/ c = 8
           /\ OnLine(c, 7) <=> c = 0 \/ c = 4 \/ c = 8
           /\ OnLine(c, 8) <=> c = 2 \/ c = 4 \/ c = 6
<1>1. ASSUME NEW k \in 1..8, NEW x, NEW y, NEW z, winningCombinations[k] = <<x, y, z>>
      PROVE  OnLine(c, k) <=> c = x \/ c = y \/ c = z
  <2>1. OnLine(c, k) <=> \/ winningCombinations[k][1] = c
                         \/ winningCombinations[k][2] = c
                         \/ winningCombinations[k][3] = c
    <3>1. \A i \in 1..3 : i = 1 \/ i = 2 \/ i = 3
      OBVIOUS
    <3>2. 1 \in 1..3 /\ 2 \in 1..3 /\ 3 \in 1..3
      OBVIOUS
    <3> QED
      BY <3>1, <3>2 DEF OnLine
  <2> QED
    BY <1>1, <2>1
<1>2. /\ winningCombinations[1] = <<0, 1, 2>> /\ winningCombinations[2] = <<3, 4, 5>>
      /\ winningCombinations[3] = <<6, 7, 8>> /\ winningCombinations[4] = <<0, 3, 6>>
      /\ winningCombinations[5] = <<1, 4, 7>> /\ winningCombinations[6] = <<2, 5, 8>>
      /\ winningCombinations[7] = <<0, 4, 8>> /\ winningCombinations[8] = <<2, 4, 6>>
  BY DEF winningCombinations
<1>3. /\ 1 \in 1..8 /\ 2 \in 1..8 /\ 3 \in 1..8 /\ 4 \in 1..8
      /\ 5 \in 1..8 /\ 6 \in 1..8 /\ 7 \in 1..8 /\ 8 \in 1..8
  OBVIOUS
<1> QED
  BY <1>1, <1>2, <1>3

\* A free cell bears no mark.
LEMMA BlankIsNoMark == Blank # "X" /\ Blank # "O"
  BY DEF Blank

\* A line of the bot ends the game, unless the player has one too.
LEMMA HeldByLine ==
    ASSUME NEW b \in Board, HasLine(b, "O"), ~HasLine(b, "X")
    PROVE  b \in HeldBoards
<1>1. Holds({b} \cup HeldBoards)
  BY HeldBoardsHold DEF Holds
<1> QED
  BY <1>1, HeldByHolding

\* Pairing strategy.  Cells are paired, each free pair belongs to the bot as
\* soon as the player marks one of its cells.  When every line has a mark of the
\* bot or a free pair, the player never completes one.
Blocked(b, mate, k) ==
    \E c \in Cells :
       /\ OnLine(c, k)
       /\ \/ b[c] = "O"
          \/ c # mate[c] /\ OnLine(mate[c], k) /\ b[c] = Blank /\ b[mate[c]] = Blank

\* The boards with a block on every line, under one pairing of the cells.
PairedBoards(mate) == {b \in Board : \A k \in 1..8 : Blocked(b, mate, k)}

\* The bot answers every mark with the paired cell if it is free, with any other
\* free cell if not: every block stays or turns into a mark of its own.
LEMMA PairedBoardsHold ==
    ASSUME NEW mate \in [Cells -> Cells], \A c \in Cells : mate[mate[c]] = c
    PROVE  PairedBoards(mate) \subseteq HeldBoards
<1>1. ASSUME NEW b \in Board, NEW k \in 1..8, Blocked(b, mate, k), NEW r \in getAvailableMoves(b)
      PROVE  \E c \in Cells : OnLine(c, k) /\ [b EXCEPT ![r] = "X"][c] # "X"
  <2>1. \A c \in Cells : [b EXCEPT ![r] = "X"][c] = IF c = r THEN "X" ELSE b[c]
    BY DEF Board
  <2>2. b[r] = Blank /\ r \in Cells
    BY DEF getAvailableMoves
  <2> QED
    BY <1>1, <2>1, <2>2, BlankIsNoMark DEF Blocked
<1>2. ASSUME NEW b \in PairedBoards(mate), NEW r \in getAvailableMoves(b),
             getAvailableMoves([b EXCEPT ![r] = "X"]) # {}
      PROVE  \E m \in getAvailableMoves([b EXCEPT ![r] = "X"]) :
                Exchange(b, r, m) \in PairedBoards(mate)
  <2> DEFINE b1 == [b EXCEPT ![r] = "X"]
  <2>1. b \in Board /\ r \in Cells /\ b[r] = Blank
    BY DEF PairedBoards, getAvailableMoves
  <2>2. \A c \in Cells : b1[c] = IF c = r THEN "X" ELSE b[c]
    BY <2>1 DEF Board
  <2>3. PICK m \in Cells : b1[m] = Blank /\ (b1[mate[r]] = Blank => m = mate[r])
    BY <1>2, <2>1 DEF getAvailableMoves
  <2>4. \A c \in Cells : Exchange(b, r, m)[c] = IF c = m THEN "O" ELSE b1[c]
    BY <2>1 DEF Exchange, Board
  <2>5. ASSUME NEW k \in 1..8 PROVE Blocked(Exchange(b, r, m), mate, k)
    <3>1. PICK c \in Cells :
             /\ OnLine(c, k)
             /\ \/ b[c] = "O"
                \/ c # mate[c] /\ OnLine(mate[c], k) /\ b[c] = Blank /\ b[mate[c]] = Blank
      BY DEF PairedBoards, Blocked
    <3>2. CASE b[c] = "O"
      BY <2>1, <2>2, <2>4, <3>1, <3>2, BlankIsNoMark DEF Blocked
    <3>3. CASE /\ b[c] # "O" /\ c # mate[c] /\ OnLine(mate[c], k)
               /\ b[c] = Blank /\ b[mate[c]] = Blank
      <4>1. CASE r = c
        BY <2>2, <2>3, <2>4, <3>3, <4>1 DEF Blocked
      <4>2. CASE r = mate[c]
        BY <2>2, <2>3, <2>4, <3>1, <3>3, <4>2 DEF Blocked
      <4>3. CASE r # c /\ r # mate[c]
        <5>1. CASE m = c \/ m = mate[c]
          BY <2>4, <3>1, <3>3, <5>1 DEF Blocked
        <5>2. CASE m # c /\ m # mate[c]
          BY <2>2, <2>4, <3>1, <3>3, <4>3, <5>2 DEF Blocked
        <5> QED
          BY <5>1, <5>2
      <4> QED
        BY <4>1, <4>2, <4>3
    <3> QED
      BY <3>1, <3>2, <3>3
  <2>6. Exchange(b, r, m) \in Board
    <3>1. b1 \in Board
      BY <2>1 DEF Board, Players
    <3> QED
      BY <3>1 DEF Board, Players, Exchange
  <2>7. m \in getAvailableMoves(b1)
    BY <2>3 DEF getAvailableMoves
  <2> QED
    BY <2>5, <2>6, <2>7 DEF PairedBoards
<1>3. Holds(PairedBoards(mate))
  <2> SUFFICES ASSUME NEW b \in PairedBoards(mate)
               PROVE  /\ ~HasLine(b, "X")
                      /\ \A r \in getAvailableMoves(b) : ~HasLine([b EXCEPT ![r] = "X"], "X")
    BY <1>2 DEF Holds
  <2>1. ~HasLine(b, "X")
    BY LineCells, BlankIsNoMark DEF PairedBoards, Blocked
  <2>2. ASSUME NEW r \in getAvailableMoves(b) PROVE ~HasLine([b EXCEPT ![r] = "X"], "X")
    <3>1. \A k \in 1..8 : \E c \in Cells : OnLine(c, k) /\ [b EXCEPT ![r] = "X"][c] # "X"
      BY <1>1 DEF PairedBoards
    <3> QED
      BY <3>1, LineCells
  <2> QED
    BY <2>1, <2>2
<1> QED
  BY <1>3 DEF HeldBoards, PairedBoards

\* The board with marks of the player on xs and of the bot on os.
At(xs, os) ==
    [c \in Cells |-> IF c \in xs THEN "X" ELSE IF c \in os THEN "O" ELSE Blank]

\* Sets of cells that can be marked so.
Apart(xs, os) == xs \subseteq Cells /\ os \subseteq Cells /\ xs \cap os = {}

\* The cells they leave free.
Left(xs, os) == Cells \ (xs \cup os)

\* The cells of S hold a line.
HoldsLine(S) == \E k \in 1..8 : \A c \in Cells : OnLine(c, k) => c \in S

\* Such a board, its free cells and its lines.
LEMMA AtFacts ==
    ASSUME NEW xs, NEW os, Apart(xs, os)
    PROVE  /\ At(xs, os) \in Board /\ getAvailableMoves(At(xs, os)) = Left(xs, os)
           /\ HasLine(At(xs, os), "X") <=> HoldsLine(xs)
           /\ HasLine(At(xs, os), "O") <=> HoldsLine(os)
<1>1. At(xs, os) \in Board
  BY DEF At, Board, Players
<1>2. getAvailableMoves(At(xs, os)) = Left(xs, os)
  BY BlankIsNoMark DEF At, getAvailableMoves, Left
<1>3. \A c \in Cells : At(xs, os)[c] = "X" <=> c \in xs
  BY BlankIsNoMark DEF At, Apart
<1>4. \A c \in Cells : At(xs, os)[c] = "O" <=> c \in os
  BY BlankIsNoMark DEF At, Apart
<1> QED
  BY <1>1, <1>2, <1>3, <1>4, LineCells DEF HoldsLine

\* The board after a mark of the player.
LEMMA AtMark ==
    ASSUME NEW xs, NEW os, Apart(xs, os), NEW r \in Left(xs, os)
    PROVE  Apart(xs \cup {r}, os) /\ [At(xs, os) EXCEPT ![r] = "X"] = At(xs \cup {r}, os)
  BY DEF Apart, Left, At

\* The board after an exchange.
LEMMA AtExchange ==
    ASSUME NEW xs, NEW os, Apart(xs, os), NEW r \in Left(xs, os), NEW m \in Left(xs \cup {r}, os)
    PROVE  /\ Apart(xs \cup {r}, os \cup {m})
           /\ Exchange(At(xs, os), r, m) = At(xs \cup {r}, os \cup {m})
<1>1. Apart(xs \cup {r}, os \cup {m})
  BY DEF Apart, Left
<1>2. Exchange(At(xs, os), r, m) = [At(xs \cup {r}, os) EXCEPT ![m] = "O"]
  BY AtMark, Zenon DEF Exchange
<1>3. [At(xs \cup {r}, os) EXCEPT ![m] = "O"] = At(xs \cup {r}, os \cup {m})
  BY DEF At, Left
<1> QED
  BY <1>1, <1>2, <1>3

\* A board holds when every mark of the player has an answer that leads to one
\* that does.
LEMMA HeldByReplies ==
    ASSUME NEW xs, NEW os, Apart(xs, os), Left(xs, os) # {},
           \A r \in Left(xs, os) :
              \E m \in Left(xs \cup {r}, os) : At(xs \cup {r}, os \cup {m}) \in HeldBoards
    PROVE  At(xs, os) \in HeldBoards
<1>1. /\ At(xs, os) \in Board
      /\ getAvailableMoves(At(xs, os)) = Left(xs, os)
  BY AtFacts
<1>2. ASSUME NEW r \in Left(xs, os)
      PROVE  /\ ~HoldsLine(xs \cup {r})
             /\ ~HasLine([At(xs, os) EXCEPT ![r] = "X"], "X")
             /\ \E m \in getAvailableMoves([At(xs, os) EXCEPT ![r] = "X"]) :
                   Exchange(At(xs, os), r, m) \in HeldBoards
  <2>1. PICK m \in Left(xs \cup {r}, os) : At(xs \cup {r}, os \cup {m}) \in HeldBoards
    OBVIOUS
  <2>2. Apart(xs \cup {r}, os) /\ [At(xs, os) EXCEPT ![r] = "X"] = At(xs \cup {r}, os)
    BY AtMark, Zenon
  <2>9. /\ Apart(xs \cup {r}, os \cup {m})
        /\ Exchange(At(xs, os), r, m) = At(xs \cup {r}, os \cup {m})
    BY AtExchange
  <2>3. ~HasLine(At(xs \cup {r}, os \cup {m}), "X")
    BY <2>1, HeldBoardsHold DEF Holds
  <2>4. ~HoldsLine(xs \cup {r})
    BY <2>9, <2>3, AtFacts
  <2>5. ~HasLine(At(xs \cup {r}, os), "X")
        /\ getAvailableMoves(At(xs \cup {r}, os)) = Left(xs \cup {r}, os)
    BY <2>2, <2>4, AtFacts
  <2> QED
    BY <2>1, <2>2, <2>4, <2>5, <2>9
<1>3. ~HasLine(At(xs, os), "X")
  <2>1. PICK r \in Left(xs, os) : TRUE
    OBVIOUS
  <2>2. ~HoldsLine(xs \cup {r})
    BY <1>2
  <2>3. ~HoldsLine(xs)
    BY <2>2 DEF HoldsLine
  <2> QED
    BY <2>3, AtFacts
<1>4. Holds({At(xs, os)} \cup HeldBoards)
  BY <1>1, <1>2, <1>3, HeldBoardsHold DEF Holds
<1> QED
  BY <1>1, <1>4, HeldByHolding

\* The line of cells x, y, z has a mark of the bot or one of two pairs of cells.
Guards(os, p, q, s, t, x, y, z) ==
    \/ x \in os \/ y \in os \/ z \in os
    \/ p # q /\ (p = x \/ p = y \/ p = z) /\ (q = x \/ q = y \/ q = z)
    \/ s # t /\ (s = x \/ s = y \/ s = z) /\ (t = x \/ t = y \/ t = z)

\* So has every line.
AllGuarded(os, p, q, s, t) ==
    /\ Guards(os, p, q, s, t, 0, 1, 2) /\ Guards(os, p, q, s, t, 3, 4, 5)
    /\ Guards(os, p, q, s, t, 6, 7, 8) /\ Guards(os, p, q, s, t, 0, 3, 6)
    /\ Guards(os, p, q, s, t, 1, 4, 7) /\ Guards(os, p, q, s, t, 2, 5, 8)
    /\ Guards(os, p, q, s, t, 0, 4, 8) /\ Guards(os, p, q, s, t, 2, 4, 6)

\* The guarded lines are the engine's.
LEMMA LinesAreGuarded ==
    ASSUME NEW os, NEW p, NEW q, NEW s, NEW t, AllGuarded(os, p, q, s, t), NEW k \in 1..8
    PROVE  \E c \in Cells : /\ OnLine(c, k)
                            /\ \/ c \in os
                               \/ p # q /\ c = p /\ OnLine(q, k)
                               \/ s # t /\ c = s /\ OnLine(t, k)
<1>1. CASE k = 1
  BY <1>1, LineTable DEF AllGuarded, Guards, Cells
<1>2. CASE k = 2
  BY <1>2, LineTable DEF AllGuarded, Guards, Cells
<1>3. CASE k = 3
  BY <1>3, LineTable DEF AllGuarded, Guards, Cells
<1>4. CASE k = 4
  BY <1>4, LineTable DEF AllGuarded, Guards, Cells
<1>5. CASE k = 5
  BY <1>5, LineTable DEF AllGuarded, Guards, Cells
<1>6. CASE k = 6
  BY <1>6, LineTable DEF AllGuarded, Guards, Cells
<1>7. CASE k = 7
  BY <1>7, LineTable DEF AllGuarded, Guards, Cells
<1>8. CASE k = 8
  BY <1>8, LineTable DEF AllGuarded, Guards, Cells
<1> QED
  BY <1>1, <1>2, <1>3, <1>4, <1>5, <1>6, <1>7, <1>8

\* Two pairs of free cells, apart.
Pairs(xs, os, p, q, s, t) ==
    /\ p \in Cells /\ q \in Cells /\ s \in Cells /\ t \in Cells
    /\ p # s /\ p # t /\ q # s /\ q # t
    /\ p # q => p \in Left(xs, os) /\ q \in Left(xs, os)
    /\ s # t => s \in Left(xs, os) /\ t \in Left(xs, os)

\* A board where every line has a mark of the bot or one of two free pairs holds.
LEMMA HeldByPairs ==
    ASSUME NEW xs, NEW os, Apart(xs, os), NEW p, NEW q, NEW s, NEW t,
           Pairs(xs, os, p, q, s, t), AllGuarded(os, p, q, s, t)
    PROVE  At(xs, os) \in HeldBoards
<1> DEFINE mate == [c \in Cells |-> IF c = p THEN q ELSE IF c = q THEN p
                                    ELSE IF c = s THEN t ELSE IF c = t THEN s ELSE c]
<1>1. mate \in [Cells -> Cells] /\ \A c \in Cells : mate[mate[c]] = c
  BY DEF Pairs
<1>2. (p # q => mate[p] = q) /\ (s # t => mate[s] = t)
  BY DEF Pairs
<1> HIDE DEF mate
<1>3. \A c \in os : At(xs, os)[c] = "O"
  BY BlankIsNoMark DEF At, Apart
<1>4. \A c \in Left(xs, os) : At(xs, os)[c] = Blank
  BY DEF At, Left
<1>5. ASSUME NEW k \in 1..8 PROVE Blocked(At(xs, os), mate, k)
  <2>1. PICK c \in Cells : /\ OnLine(c, k)
                           /\ \/ c \in os
                              \/ p # q /\ c = p /\ OnLine(q, k)
                              \/ s # t /\ c = s /\ OnLine(t, k)
    BY LinesAreGuarded
  <2> QED
    BY <1>2, <1>3, <1>4, <2>1 DEF Blocked, Pairs
<1>6. At(xs, os) \in PairedBoards(mate)
  BY <1>5, AtFacts DEF PairedBoards
<1> QED
  BY <1>1, <1>6, PairedBoardsHold

\* The bot answers the mark r with m, and the board holds.
Answers(xs, os, r, m) ==
    m \in Left(xs \cup {r}, os) /\ At(xs \cup {r}, os \cup {m}) \in HeldBoards

\* A board with an answer to every mark.
LEMMA HeldByAnswers ==
    ASSUME NEW xs, NEW os, Apart(xs, os), Left(xs, os) # {},
           \A r \in Left(xs, os) : \E m : Answers(xs, os, r, m)
    PROVE  At(xs, os) \in HeldBoards
  BY HeldByReplies DEF Answers

\* After the answer m to the mark r every line is guarded.
PairedAnswer(xs, os, r, m, p, q, s, t) ==
    /\ Apart(xs \cup {r}, os \cup {m}) /\ m \in Left(xs \cup {r}, os)
    /\ Pairs(xs \cup {r}, os \cup {m}, p, q, s, t)
    /\ AllGuarded(os \cup {m}, p, q, s, t)

\* Such an answer is one that leads to a board that holds.
LEMMA PairsAnswer ==
    ASSUME NEW xs, NEW os, NEW r, NEW m, NEW p, NEW q, NEW s, NEW t,
           PairedAnswer(xs, os, r, m, p, q, s, t)
    PROVE  Answers(xs, os, r, m)
  BY HeldByPairs DEF PairedAnswer, Answers

\* Some line lies in S.
SomeLine(S) ==
    \/ 0 \in S /\ 1 \in S /\ 2 \in S
    \/ 3 \in S /\ 4 \in S /\ 5 \in S
    \/ 6 \in S /\ 7 \in S /\ 8 \in S
    \/ 0 \in S /\ 3 \in S /\ 6 \in S
    \/ 1 \in S /\ 4 \in S /\ 7 \in S
    \/ 2 \in S /\ 5 \in S /\ 8 \in S
    \/ 0 \in S /\ 4 \in S /\ 8 \in S
    \/ 2 \in S /\ 4 \in S /\ 6 \in S

\* That line is the engine's.
LEMMA SomeLineHolds ==
    ASSUME NEW S, SomeLine(S)
    PROVE  HoldsLine(S)
<1>1. /\ 1 \in 1..8 /\ 2 \in 1..8 /\ 3 \in 1..8 /\ 4 \in 1..8
      /\ 5 \in 1..8 /\ 6 \in 1..8 /\ 7 \in 1..8 /\ 8 \in 1..8
  OBVIOUS
<1> QED
  BY <1>1, LineTable DEF SomeLine, HoldsLine

\* The bot threatens to complete a line at t and otherwise answers t with m; on
\* the other lines the player is two marks short.
ThreatAnswered(xs, os, t, m, p, q, u, v) ==
    /\ Apart(xs, os) /\ t \in Left(xs, os) /\ m \in Left(xs \cup {t}, os)
    /\ SomeLine(os \cup {t})
    /\ Pairs(xs, os, p, q, u, v) /\ AllGuarded(os \cup {t}, p, q, u, v)

\* The threat wins unless the player marks t.
LEMMA HeldByThreat ==
    ASSUME NEW xs, NEW os, NEW t, NEW m, NEW p, NEW q, NEW u, NEW v,
           ThreatAnswered(xs, os, t, m, p, q, u, v), Answers(xs, os, t, m)
    PROVE  At(xs, os) \in HeldBoards
<1>0. /\ Apart(xs, os) /\ t \in Left(xs, os)
      /\ SomeLine(os \cup {t})
      /\ Pairs(xs, os, p, q, u, v) /\ AllGuarded(os \cup {t}, p, q, u, v)
  BY DEF ThreatAnswered
<1>1. ASSUME NEW r \in Left(xs, os), r # t
      PROVE  t \in Left(xs \cup {r}, os) /\ At(xs \cup {r}, os \cup {t}) \in HeldBoards
  <2>1. t \in Left(xs \cup {r}, os)
    BY <1>0, <1>1 DEF Left
  <2>2. Apart(xs \cup {r}, os \cup {t})
    BY <1>0, <2>1, AtExchange
  <2>3. ~HoldsLine(xs \cup {r})
    <3> SUFFICES ASSUME NEW k \in 1..8
                 PROVE  \E c \in Cells : OnLine(c, k) /\ c \notin xs \cup {r}
      BY DEF HoldsLine
    <3>1. PICK c \in Cells : /\ OnLine(c, k)
                             /\ \/ c \in os \cup {t}
                                \/ p # q /\ c = p /\ OnLine(q, k)
                                \/ u # v /\ c = u /\ OnLine(v, k)
      BY <1>0, LinesAreGuarded
    <3>2. CASE c \in os \cup {t}
      BY <2>2, <3>1, <3>2 DEF Apart
    <3>3. CASE p # q /\ c = p /\ OnLine(q, k)
      BY <1>0, <3>1, <3>3 DEF Pairs, Left
    <3>4. CASE u # v /\ c = u /\ OnLine(v, k)
      BY <1>0, <3>1, <3>4 DEF Pairs, Left
    <3> QED
      BY <3>1, <3>2, <3>3, <3>4
  <2>4. /\ At(xs \cup {r}, os \cup {t}) \in Board
        /\ HasLine(At(xs \cup {r}, os \cup {t}), "O")
        /\ ~HasLine(At(xs \cup {r}, os \cup {t}), "X")
    BY <1>0, <2>2, <2>3, AtFacts, SomeLineHolds
  <2> QED
    BY <2>1, <2>4, HeldByLine
<1>2. ASSUME NEW r \in Left(xs, os) PROVE \E n : Answers(xs, os, r, n)
  BY <1>1 DEF Answers
<1> QED
  BY <1>0, <1>2, HeldByAnswers

\* XOX .O. ...
LEMMA HeldX02O41 == At({0} \cup {2}, {4} \cup {1}) \in HeldBoards
<1>1. ThreatAnswered({0} \cup {2}, {4} \cup {1}, 7, 6, 3, 6, 5, 8)
  BY DEF ThreatAnswered, Pairs, Left, Apart, AllGuarded, Guards, SomeLine, Cells
<1>2. PairedAnswer({0} \cup {2}, {4} \cup {1}, 7, 6, 5, 8, 0, 0)
  BY DEF PairedAnswer, Pairs, Left, Apart, AllGuarded, Guards, Cells
<1> QED
  BY <1>1, <1>2, PairsAnswer, HeldByThreat

\* X.. OO. X..
LEMMA HeldX06O43 == At({0} \cup {6}, {4} \cup {3}) \in HeldBoards
<1>1. ThreatAnswered({0} \cup {6}, {4} \cup {3}, 5, 2, 1, 2, 7, 8)
  BY DEF ThreatAnswered, Pairs, Left, Apart, AllGuarded, Guards, SomeLine, Cells
<1>2. PairedAnswer({0} \cup {6}, {4} \cup {3}, 5, 2, 7, 8, 0, 0)
  BY DEF PairedAnswer, Pairs, Left, Apart, AllGuarded, Guards, Cells
<1> QED
  BY <1>1, <1>2, PairsAnswer, HeldByThreat

\* XO. .O. ..X
LEMMA HeldX08O41 == At({0} \cup {8}, {4} \cup {1}) \in HeldBoards
<1>1. ThreatAnswered({0} \cup {8}, {4} \cup {1}, 7, 6, 3, 6, 2, 5)
  BY DEF ThreatAnswered, Pairs, Left, Apart, AllGuarded, Guards, SomeLine, Cells
<1>2. PairedAnswer({0} \cup {8}, {4} \cup {1}, 7, 6, 2, 5, 0, 0)
  BY DEF PairedAnswer, Pairs, Left, Apart, AllGuarded, Guards, Cells
<1> QED
  BY <1>1, <1>2, PairsAnswer, HeldByThreat

\* X.. .O. ...
LEMMA HeldX0O4 == At({0}, {4}) \in HeldBoards
<1>1. PairedAnswer({0}, {4}, 1, 2, 7, 8, 3, 6)
  BY DEF PairedAnswer, Pairs, Left, Apart, AllGuarded, Guards, Cells
<1>2. Answers({0}, {4}, 2, 1)
  BY HeldX02O41 DEF Answers, Left, Cells
<1>3. PairedAnswer({0}, {4}, 3, 6, 1, 2, 5, 8)
  BY DEF PairedAnswer, Pairs, Left, Apart, AllGuarded, Guards, Cells
<1>4. PairedAnswer({0}, {4}, 5, 2, 7, 8, 3, 6)
  BY DEF PairedAnswer, Pairs, Left, Apart, AllGuarded, Guards, Cells
<1>5. Answers({0}, {4}, 6, 3)
  BY HeldX06O43 DEF Answers, Left, Cells
<1>6. PairedAnswer({0}, {4}, 7, 6, 1, 2, 5, 8)
  BY DEF PairedAnswer, Pairs, Left, Apart, AllGuarded, Guards, Cells
<1>7. Answers({0}, {4}, 8, 1)
  BY HeldX08O41 DEF Answers, Left, Cells
<1>8. Apart({0}, {4}) /\ Left({0}, {4}) = {1, 2, 3, 5, 6, 7, 8}
  BY DEF Apart, Left, Cells
<1>9. /\ Answers({0}, {4}, 1, 2)
      /\ Answers({0}, {4}, 2, 1)
      /\ Answers({0}, {4}, 3, 6)
      /\ Answers({0}, {4}, 5, 2)
      /\ Answers({0}, {4}, 6, 3)
      /\ Answers({0}, {4}, 7, 6)
      /\ Answers({0}, {4}, 8, 1)
  BY <1>1, <1>2, <1>3, <1>4, <1>5, <1>6, <1>7, PairsAnswer
<1> QED
  BY <1>8, <1>9, HeldByAnswers

\* .X. .O. ...
LEMMA HeldX1O4 == At({1}, {4}) \in HeldBoards
<1>1. PairedAnswer({1}, {4}, 0, 2, 7, 8, 3, 6)
  BY DEF PairedAnswer, Pairs, Left, Apart, AllGuarded, Guards, Cells
<1>2. PairedAnswer({1}, {4}, 2, 0, 6, 7, 5, 8)
  BY DEF PairedAnswer, Pairs, Left, Apart, AllGuarded, Guards, Cells
<1>3. PairedAnswer({1}, {4}, 3, 0, 6, 7, 2, 5)
  BY DEF PairedAnswer, Pairs, Left, Apart, AllGuarded, Guards, Cells
<1>4. PairedAnswer({1}, {4}, 5, 0, 6, 7, 2, 8)
  BY DEF PairedAnswer, Pairs, Left, Apart, AllGuarded, Guards, Cells
<1>5. PairedAnswer({1}, {4}, 6, 0, 7, 8, 2, 5)
  BY DEF PairedAnswer, Pairs, Left, Apart, AllGuarded, Guards, Cells
<1>6. PairedAnswer({1}, {4}, 7, 0, 6, 8, 2, 5)
  BY DEF PairedAnswer, Pairs, Left, Apart, AllGuarded, Guards, Cells
<1>7. PairedAnswer({1}, {4}, 8, 0, 6, 7, 2, 5)
  BY DEF PairedAnswer, Pairs, Left, Apart, AllGuarded, Guards, Cells
<1>8. Apart({1}, {4}) /\ Left({1}, {4}) = {0, 2, 3, 5, 6, 7, 8}
  BY DEF Apart, Left, Cells
<1>9. /\ Answers({1}, {4}, 0, 2)
      /\ Answers({1}, {4}, 2, 0)
      /\ Answers({1}, {4}, 3, 0)
      /\ Answers({1}, {4}, 5, 0)
      /\ Answers({1}, {4}, 6, 0)
      /\ Answers({1}, {4}, 7, 0)
      /\ Answers({1}, {4}, 8, 0)
  BY <1>1, <1>2, <1>3, <1>4, <1>5, <1>6, <1>7, PairsAnswer
<1> QED
  BY <1>8, <1>9, HeldByAnswers

\* OXX .X. OO.
LEMMA HeldX412O076 == At({4} \cup {1} \cup {2}, {0} \cup {7} \cup {6}) \in HeldBoards
<1>1. ThreatAnswered({4} \cup {1} \cup {2}, {0} \cup {7} \cup {6}, 3, 5, 5, 8, 0, 0)
  BY DEF ThreatAnswered, Pairs, Left, Apart, AllGuarded, Guards, SomeLine, Cells
<1>2. PairedAnswer({4} \cup {1} \cup {2}, {0} \cup {7} \cup {6}, 3, 5, 0, 0, 1, 1)
  BY DEF PairedAnswer, Pairs, Left, Apart, AllGuarded, Guards, Cells
<1> QED
  BY <1>1, <1>2, PairsAnswer, HeldByThreat

\* OX. OXX .O.
LEMMA HeldX415O073 == At({4} \cup {1} \cup {5}, {0} \cup {7} \cup {3}) \in HeldBoards
<1>1. ThreatAnswered({4} \cup {1} \cup {5}, {0} \cup {7} \cup {3}, 6, 2, 2, 8, 0, 0)
  BY DEF ThreatAnswered, Pairs, Left, Apart, AllGuarded, Guards, SomeLine, Cells
<1>2. PairedAnswer({4} \cup {1} \cup {5}, {0} \cup {7} \cup {3}, 6, 2, 0, 0, 1, 1)
  BY DEF PairedAnswer, Pairs, Left, Apart, AllGuarded, Guards, Cells
<1> QED
  BY <1>1, <1>2, PairsAnswer, HeldByThreat

\* OX. .X. .O.
LEMMA HeldX41O07 == At({4} \cup {1}, {0} \cup {7}) \in HeldBoards
<1>1. Answers({4} \cup {1}, {0} \cup {7}, 2, 6)
  BY HeldX412O076 DEF Answers, Left, Cells
<1>2. PairedAnswer({4} \cup {1}, {0} \cup {7}, 3, 5, 2, 6, 0, 0)
  BY DEF PairedAnswer, Pairs, Left, Apart, AllGuarded, Guards, Cells
<1>3. Answers({4} \cup {1}, {0} \cup {7}, 5, 3)
  BY HeldX415O073 DEF Answers, Left, Cells
<1>4. PairedAnswer({4} \cup {1}, {0} \cup {7}, 6, 2, 3, 5, 0, 0)
  BY DEF PairedAnswer, Pairs, Left, Apart, AllGuarded, Guards, Cells
<1>5. PairedAnswer({4} \cup {1}, {0} \cup {7}, 8, 2, 3, 5, 0, 0)
  BY DEF PairedAnswer, Pairs, Left, Apart, AllGuarded, Guards, Cells
<1>6. Apart({4} \cup {1}, {0} \cup {7}) /\ Left({4} \cup {1}, {0} \cup {7}) = {2, 3, 5, 6, 8}
  BY DEF Apart, Left, Cells
<1>7. /\ Answers({4} \cup {1}, {0} \cup {7}, 2, 6)
      /\ Answers({4} \cup {1}, {0} \cup {7}, 3, 5)
      /\ Answers({4} \cup {1}, {0} \cup {7}, 5, 3)
      /\ Answers({4} \cup {1}, {0} \cup {7}, 6, 2)
      /\ Answers({4} \cup {1}, {0} \cup {7}, 8, 2)
  BY <1>1, <1>2, <1>3, <1>4, <1>5, PairsAnswer
<1> QED
  BY <1>6, <1>7, HeldByAnswers

\* O.X .X. O..
LEMMA HeldX42O06 == At({4} \cup {2}, {0} \cup {6}) \in HeldBoards
<1>1. ThreatAnswered({4} \cup {2}, {0} \cup {6}, 3, 5, 1, 7, 5, 8)
  BY DEF ThreatAnswered, Pairs, Left, Apart, AllGuarded, Guards, SomeLine, Cells
<1>2. PairedAnswer({4} \cup {2}, {0} \cup {6}, 3, 5, 1, 7, 0, 0)
  BY DEF PairedAnswer, Pairs, Left, Apart, AllGuarded, Guards, Cells
<1> QED
  BY <1>1, <1>2, PairsAnswer, HeldByThreat

\* O.O XXO X..
LEMMA HeldX436O052 == At({4} \cup {3} \cup {6}, {0} \cup {5} \cup {2}) \in HeldBoards
<1>1. ThreatAnswered({4} \cup {3} \cup {6}, {0} \cup {5} \cup {2}, 1, 7, 7, 8, 0, 0)
  BY DEF ThreatAnswered, Pairs, Left, Apart, AllGuarded, Guards, SomeLine, Cells
<1>2. PairedAnswer({4} \cup {3} \cup {6}, {0} \cup {5} \cup {2}, 1, 7, 0, 0, 1, 1)
  BY DEF PairedAnswer, Pairs, Left, Apart, AllGuarded, Guards, Cells
<1> QED
  BY <1>1, <1>2, PairsAnswer, HeldByThreat

\* OO. XXO .X.
LEMMA HeldX437O051 == At({4} \cup {3} \cup {7}, {0} \cup {5} \cup {1}) \in HeldBoards
<1>1. ThreatAnswered({4} \cup {3} \cup {7}, {0} \cup {5} \cup {1}, 2, 6, 6, 8, 0, 0)
  BY DEF ThreatAnswered, Pairs, Left, Apart, AllGuarded, Guards, SomeLine, Cells
<1>2. PairedAnswer({4} \cup {3} \cup {7}, {0} \cup {5} \cup {1}, 2, 6, 0, 0, 1, 1)
  BY DEF PairedAnswer, Pairs, Left, Apart, AllGuarded, Guards, Cells
<1> QED
  BY <1>1, <1>2, PairsAnswer, HeldByThreat

\* O.. XXO ...
LEMMA HeldX43O05 == At({4} \cup {3}, {0} \cup {5}) \in HeldBoards
<1>1. PairedAnswer({4} \cup {3}, {0} \cup {5}, 1, 7, 2, 6, 0, 0)
  BY DEF PairedAnswer, Pairs, Left, Apart, AllGuarded, Guards, Cells
<1>2. PairedAnswer({4} \cup {3}, {0} \cup {5}, 2, 6, 1, 7, 0, 0)
  BY DEF PairedAnswer, Pairs, Left, Apart, AllGuarded, Guards, Cells
<1>3. Answers({4} \cup {3}, {0} \cup {5}, 6, 2)
  BY HeldX436O052 DEF Answers, Left, Cells
<1>4. Answers({4} \cup {3}, {0} \cup {5}, 7, 1)
  BY HeldX437O051 DEF Answers, Left, Cells
<1>5. PairedAnswer({4} \cup {3}, {0} \cup {5}, 8, 6, 1, 7, 0, 0)
  BY DEF PairedAnswer, Pairs, Left, Apart, AllGuarded, Guards, Cells
<1>6. Apart({4} \cup {3}, {0} \cup {5}) /\ Left({4} \cup {3}, {0} \cup {5}) = {1, 2, 6, 7, 8}
  BY DEF Apart, Left, Cells
<1>7. /\ Answers({4} \cup {3}, {0} \cup {5}, 1, 7)
      /\ Answers({4} \cup {3}, {0} \cup {5}, 2, 6)
      /\ Answers({4} \cup {3}, {0} \cup {5}, 6, 2)
      /\ Answers({4} \cup {3}, {0} \cup {5}, 7, 1)
      /\ Answers({4} \cup {3}, {0} \cup {5}, 8, 6)
  BY <1>1, <1>2, <1>3, <1>4, <1>5, PairsAnswer
<1> QED
  BY <1>6, <1>7, HeldByAnswers

\* O.O OXX X..
LEMMA HeldX456O032 == At({4} \cup {5} \cup {6}, {0} \cup {3} \cup {2}) \in HeldBoards
<1>1. ThreatAnswered({4} \cup {5} \cup {6}, {0} \cup {3} \cup {2}, 1, 7, 7, 8, 0, 0)
  BY DEF ThreatAnswered, Pairs, Left, Apart, AllGuarded, Guards, SomeLine, Cells
<1>2. PairedAnswer({4} \cup {5} \cup {6}, {0} \cup {3} \cup {2}, 1, 7, 0, 0, 1, 1)
  BY DEF PairedAnswer, Pairs, Left, Apart, AllGuarded, Guards, Cells
<1> QED
  BY <1>1, <1>2, PairsAnswer, HeldByThreat

\* O.. OXX ...
LEMMA HeldX45O03 == At({4} \cup {5}, {0} \cup {3}) \in HeldBoards
<1>1. ThreatAnswered({4} \cup {5}, {0} \cup {3}, 6, 2, 1, 7, 2, 8)
  BY DEF ThreatAnswered, Pairs, Left, Apart, AllGuarded, Guards, SomeLine, Cells
<1> QED
  BY <1>1, HeldX456O032, HeldByThreat DEF Answers, ThreatAnswered

\* O.O .X. X..
LEMMA HeldX46O02 == At({4} \cup {6}, {0} \cup {2}) \in HeldBoards
<1>1. ThreatAnswered({4} \cup {6}, {0} \cup {2}, 1, 7, 3, 5, 7, 8)
  BY DEF ThreatAnswered, Pairs, Left, Apart, AllGuarded, Guards, SomeLine, Cells
<1>2. PairedAnswer({4} \cup {6}, {0} \cup {2}, 1, 7, 3, 5, 0, 0)
  BY DEF PairedAnswer, Pairs, Left, Apart, AllGuarded, Guards, Cells
<1> QED
  BY <1>1, <1>2, PairsAnswer, HeldByThreat

\* OOX .X. OX.
LEMMA HeldX472O016 == At({4} \cup {7} \cup {2}, {0} \cup {1} \cup {6}) \in HeldBoards
<1>1. ThreatAnswered({4} \cup {7} \cup {2}, {0} \cup {1} \cup {6}, 3, 5, 5, 8, 0, 0)
  BY DEF ThreatAnswered, Pairs, Left, Apart, AllGuarded, Guards, SomeLine, Cells
<1>2. PairedAnswer({4} \cup {7} \cup {2}, {0} \cup {1} \cup {6}, 3, 5, 0, 0, 1, 1)
  BY DEF PairedAnswer, Pairs, Left, Apart, AllGuarded, Guards, Cells
<1> QED
  BY <1>1, <1>2, PairsAnswer, HeldByThreat

\* OO. .X. .X.
LEMMA HeldX47O01 == At({4} \cup {7}, {0} \cup {1}) \in HeldBoards
<1>1. ThreatAnswered({4} \cup {7}, {0} \cup {1}, 2, 6, 3, 5, 6, 8)
  BY DEF ThreatAnswered, Pairs, Left, Apart, AllGuarded, Guards, SomeLine, Cells
<1> QED
  BY <1>1, HeldX472O016, HeldByThreat DEF Answers, ThreatAnswered

\* O.O .X. ..X
LEMMA HeldX48O02 == At({4} \cup {8}, {0} \cup {2}) \in HeldBoards
<1>1. ThreatAnswered({4} \cup {8}, {0} \cup {2}, 1, 7, 3, 5, 6, 7)
  BY DEF ThreatAnswered, Pairs, Left, Apart, AllGuarded, Guards, SomeLine, Cells
<1>2. PairedAnswer({4} \cup {8}, {0} \cup {2}, 1, 7, 3, 5, 0, 0)
  BY DEF PairedAnswer, Pairs, Left, Apart, AllGuarded, Guards, Cells
<1> QED
  BY <1>1, <1>2, PairsAnswer, HeldByThreat

\* O.. .X. ...
LEMMA HeldX4O0 == At({4}, {0}) \in HeldBoards
<1>1. Answers({4}, {0}, 1, 7)
  BY HeldX41O07 DEF Answers, Left, Cells
<1>2. Answers({4}, {0}, 2, 6)
  BY HeldX42O06 DEF Answers, Left, Cells
<1>3. Answers({4}, {0}, 3, 5)
  BY HeldX43O05 DEF Answers, Left, Cells
<1>4. Answers({4}, {0}, 5, 3)
  BY HeldX45O03 DEF Answers, Left, Cells
<1>5. Answers({4}, {0}, 6, 2)
  BY HeldX46O02 DEF Answers, Left, Cells
<1>6. Answers({4}, {0}, 7, 1)
  BY HeldX47O01 DEF Answers, Left, Cells
<1>7. Answers({4}, {0}, 8, 2)
  BY HeldX48O02 DEF Answers, Left, Cells
<1>8. Apart({4}, {0}) /\ Left({4}, {0}) = {1, 2, 3, 5, 6, 7, 8}
  BY DEF Apart, Left, Cells
<1>9. /\ Answers({4}, {0}, 1, 7)
      /\ Answers({4}, {0}, 2, 6)
      /\ Answers({4}, {0}, 3, 5)
      /\ Answers({4}, {0}, 5, 3)
      /\ Answers({4}, {0}, 6, 2)
      /\ Answers({4}, {0}, 7, 1)
      /\ Answers({4}, {0}, 8, 2)
  BY <1>1, <1>2, <1>3, <1>4, <1>5, <1>6, <1>7, PairsAnswer
<1> QED
  BY <1>8, <1>9, HeldByAnswers

\* A quarter turn of the board takes lines to lines.
Quarter == [c \in Cells |-> IF c = 0 THEN 2 ELSE IF c = 1 THEN 5 ELSE IF c = 2 THEN 8
                            ELSE IF c = 3 THEN 1 ELSE IF c = 4 THEN 4 ELSE IF c = 5 THEN 7
                            ELSE IF c = 6 THEN 0 ELSE IF c = 7 THEN 3 ELSE 6]

\* The board b seen after a quarter turn.
Turned(b) == [c \in Cells |-> b[Quarter[c]]]

\* A quarter turn permutes the cells.
LEMMA QuarterFacts ==
    /\ Quarter[0] = 2 /\ Quarter[1] = 5 /\ Quarter[2] = 8
    /\ Quarter[3] = 1 /\ Quarter[4] = 4 /\ Quarter[5] = 7
    /\ Quarter[6] = 0 /\ Quarter[7] = 3 /\ Quarter[8] = 6
    /\ \A c \in Cells : Quarter[c] \in Cells
    /\ \A d \in Cells : \E c \in Cells : Quarter[c] = d
    /\ \A c, d \in Cells : Quarter[c] = Quarter[d] => c = d
<1>1. /\ Quarter[0] = 2 /\ Quarter[1] = 5 /\ Quarter[2] = 8
      /\ Quarter[3] = 1 /\ Quarter[4] = 4 /\ Quarter[5] = 7
      /\ Quarter[6] = 0 /\ Quarter[7] = 3 /\ Quarter[8] = 6
  BY DEF Quarter, Cells
<1>2. \A c \in Cells : \/ c = 0 \/ c = 1 \/ c = 2 \/ c = 3 \/ c = 4
                       \/ c = 5 \/ c = 6 \/ c = 7 \/ c = 8
  BY DEF Cells
<1>3. /\ 0 \in Cells /\ 1 \in Cells /\ 2 \in Cells /\ 3 \in Cells /\ 4 \in Cells
      /\ 5 \in Cells /\ 6 \in Cells /\ 7 \in Cells /\ 8 \in Cells
  BY DEF Cells
<1>4. \A c \in Cells : Quarter[c] \in Cells
  BY <1>1, <1>2, <1>3
<1>5. \A d \in Cells : \E c \in Cells : Quarter[c] = d
  BY <1>1, <1>2, <1>3
<1>6. \A c, d \in Cells : Quarter[c] = Quarter[d] => c = d
  BY <1>1, <1>2
<1> QED
  BY <1>1, <1>4, <1>5, <1>6

\* It permutes the lines.
LEMMA LinesTurn ==
    /\ \A k \in 1..8 : \E j \in 1..8 : \A c \in Cells : OnLine(c, k) <=> OnLine(Quarter[c], j)
    /\ \A j \in 1..8 : \E k \in 1..8 : \A c \in Cells : OnLine(c, k) <=> OnLine(Quarter[c], j)
<1>1. ASSUME NEW c \in Cells
      PROVE  /\ OnLine(c, 1) <=> OnLine(Quarter[c], 6)
             /\ OnLine(c, 2) <=> OnLine(Quarter[c], 5)
             /\ OnLine(c, 3) <=> OnLine(Quarter[c], 4)
             /\ OnLine(c, 4) <=> OnLine(Quarter[c], 1)
             /\ OnLine(c, 5) <=> OnLine(Quarter[c], 2)
             /\ OnLine(c, 6) <=> OnLine(Quarter[c], 3)
             /\ OnLine(c, 7) <=> OnLine(Quarter[c], 8)
             /\ OnLine(c, 8) <=> OnLine(Quarter[c], 7)
  <2>1. \/ c = 0 \/ c = 1 \/ c = 2 \/ c = 3 \/ c = 4
        \/ c = 5 \/ c = 6 \/ c = 7 \/ c = 8
    BY DEF Cells
  <2> QED
    BY <2>1, LineTable, QuarterFacts
<1>2. \A k \in 1..8 : k = 1 \/ k = 2 \/ k = 3 \/ k = 4 \/ k = 5 \/ k = 6 \/ k = 7 \/ k = 8
  OBVIOUS
<1>3. /\ 1 \in 1..8 /\ 2 \in 1..8 /\ 3 \in 1..8 /\ 4 \in 1..8
      /\ 5 \in 1..8 /\ 6 \in 1..8 /\ 7 \in 1..8 /\ 8 \in 1..8
  OBVIOUS
<1>4. \A k \in 1..8 : \E j \in 1..8 : \A c \in Cells : OnLine(c, k) <=> OnLine(Quarter[c], j)
  BY <1>1, <1>2, <1>3
<1>5. \A j \in 1..8 : \E k \in 1..8 : \A c \in Cells : OnLine(c, k) <=> OnLine(Quarter[c], j)
  BY <1>1, <1>2, <1>3
<1> QED
  BY <1>4, <1>5

\* A board turned has the lines of the board.
LEMMA TurnedLines ==
    ASSUME NEW b \in Board, NEW player
    PROVE  Turned(b) \in Board /\ (HasLine(Turned(b), player) <=> HasLine(b, player))
<1>1. Turned(b) \in Board
  BY QuarterFacts DEF Turned, Board
<1>2. \A c \in Cells : Turned(b)[c] = b[Quarter[c]]
  BY DEF Turned
<1>3. ASSUME HasLine(Turned(b), player) PROVE HasLine(b, player)
  <2>1. PICK k \in 1..8 : \A c \in Cells : OnLine(c, k) => b[Quarter[c]] = player
    BY <1>2, <1>3, LineCells
  <2>2. PICK j \in 1..8 : \A c \in Cells : OnLine(c, k) <=> OnLine(Quarter[c], j)
    BY LinesTurn
  <2>3. \A d \in Cells : OnLine(d, j) => b[d] = player
    BY <2>1, <2>2, QuarterFacts
  <2> QED
    BY <2>3, LineCells
<1>4. ASSUME HasLine(b, player) PROVE HasLine(Turned(b), player)
  <2>1. PICK j \in 1..8 : \A d \in Cells : OnLine(d, j) => b[d] = player
    BY <1>4, LineCells
  <2>2. PICK k \in 1..8 : \A c \in Cells : OnLine(c, k) <=> OnLine(Quarter[c], j)
    BY LinesTurn
  <2>3. \A c \in Cells : OnLine(c, k) => Turned(b)[c] = player
    BY <1>2, <2>1, <2>2, QuarterFacts
  <2> QED
    BY <2>3, LineCells
<1> QED
  BY <1>1, <1>3, <1>4

\* A mark on the turned board is a mark on the board, turned.
LEMMA TurnedMark ==
    ASSUME NEW b \in Board, NEW c \in Cells, NEW player \in Players
    PROVE  [Turned(b) EXCEPT ![c] = player] = Turned([b EXCEPT ![Quarter[c]] = player])
<1>1. \A d \in Cells : [b EXCEPT ![Quarter[c]] = player][Quarter[d]]
                          = IF d = c THEN player ELSE b[Quarter[d]]
  BY QuarterFacts DEF Board
<1> QED
  BY <1>1 DEF Turned

\* The boards that hold, turned, hold.
LEMMA HeldTurns == \A b \in HeldBoards : Turned(b) \in HeldBoards
<1> DEFINE S == {Turned(b) : b \in HeldBoards}
<1>1. S \in SUBSET Board
  BY HeldBoardsHold, TurnedLines
<1>2. ASSUME NEW b \in HeldBoards
      PROVE  /\ ~HasLine(Turned(b), "X")
             /\ \/ HasLine(Turned(b), "O")
                \/ \A r \in getAvailableMoves(Turned(b)) :
                      /\ ~HasLine([Turned(b) EXCEPT ![r] = "X"], "X")
                      /\ \/ getAvailableMoves([Turned(b) EXCEPT ![r] = "X"]) = {}
                         \/ \E m \in getAvailableMoves([Turned(b) EXCEPT ![r] = "X"]) :
                               Exchange(Turned(b), r, m) \in S
  <2>1. b \in Board /\ ~HasLine(b, "X")
    BY HeldBoardsHold DEF Holds
  <2>2. ~HasLine(Turned(b), "X")
    BY <2>1, TurnedLines
  <2>3. CASE HasLine(b, "O")
    BY <2>1, <2>2, <2>3, TurnedLines
  <2>4. ASSUME ~HasLine(b, "O"), NEW r \in getAvailableMoves(Turned(b))
        PROVE  /\ ~HasLine([Turned(b) EXCEPT ![r] = "X"], "X")
               /\ \/ getAvailableMoves([Turned(b) EXCEPT ![r] = "X"]) = {}
                  \/ \E m \in getAvailableMoves([Turned(b) EXCEPT ![r] = "X"]) :
                        Exchange(Turned(b), r, m) \in S
    <3> DEFINE b1 == [b EXCEPT ![Quarter[r]] = "X"]
    <3>1. r \in Cells /\ Quarter[r] \in Cells /\ Quarter[r] \in getAvailableMoves(b)
      BY QuarterFacts DEF getAvailableMoves, Turned
    <3>2. b1 \in Board
      BY <2>1 DEF Board, Players
    <3>3. [Turned(b) EXCEPT ![r] = "X"] = Turned(b1)
      BY <2>1, <3>1, TurnedMark DEF Players
    <3>4. ~HasLine(b1, "X")
          /\ (\/ getAvailableMoves(b1) = {}
              \/ \E d \in getAvailableMoves(b1) : [b1 EXCEPT ![d] = "O"] \in HeldBoards)
      BY <2>4, <3>1, HeldBoardsHold DEF Holds, Exchange
    <3> HIDE DEF b1
    <3>5. ~HasLine(Turned(b1), "X")
      BY <3>2, <3>4, TurnedLines
    <3>6. \A c \in Cells :
             c \in getAvailableMoves(Turned(b1)) <=> Quarter[c] \in getAvailableMoves(b1)
      BY QuarterFacts DEF getAvailableMoves, Turned
    <3>7. getAvailableMoves(b1) = {} => getAvailableMoves(Turned(b1)) = {}
      BY <3>6 DEF getAvailableMoves
    <3>8. ASSUME NEW d \in getAvailableMoves(b1), [b1 EXCEPT ![d] = "O"] \in HeldBoards
          PROVE  \E m \in getAvailableMoves(Turned(b1)) : [Turned(b1) EXCEPT ![m] = "O"] \in S
      <4>1. d \in Cells
        BY DEF getAvailableMoves
      <4>2. PICK m \in Cells : Quarter[m] = d
        BY <4>1, QuarterFacts
      <4>3. [Turned(b1) EXCEPT ![m] = "O"] = Turned([b1 EXCEPT ![d] = "O"])
        BY <3>2, <4>2, TurnedMark DEF Players
      <4>4. m \in getAvailableMoves(Turned(b1))
        BY <3>6, <4>2
      <4> QED
        BY <3>8, <4>3, <4>4
    <3>9. \A m : Exchange(Turned(b), r, m) = [Turned(b1) EXCEPT ![m] = "O"]
      BY <3>3 DEF Exchange
    <3>10. \/ getAvailableMoves(Turned(b1)) = {}
           \/ \E m \in getAvailableMoves(Turned(b1)) : Exchange(Turned(b), r, m) \in S
      BY <3>4, <3>7, <3>8, <3>9
    <3> HIDE DEF S
    <3> QED
      BY <3>3, <3>5, <3>10, Zenon
  <2> QED
    BY <2>2, <2>3, <2>4
<1>3. Holds(S)
  BY <1>2 DEF Holds
<1> QED
  BY <1>1, <1>3 DEF HeldBoards

\* The openings of the player, each with the bot's answer.
LEMMA OpeningsAreAnswered ==
    /\ At({4}, {0}) \in HeldBoards
    /\ \A r \in Cells \ {4} : At({r}, {4}) \in HeldBoards
<1>1. ASSUME NEW r \in Cells, NEW q \in Cells, Quarter[q] = r, r # 4,
             At({r}, {4}) \in HeldBoards
      PROVE  At({q}, {4}) \in HeldBoards
  <2>1. \A c \in Cells : (Quarter[c] = r <=> c = q) /\ (Quarter[c] = 4 <=> c = 4)
    BY <1>1, QuarterFacts DEF Cells
  <2>2. \A c \in Cells : At({r}, {4})[Quarter[c]]
                           = IF c = q THEN "X" ELSE IF c = 4 THEN "O" ELSE Blank
    BY <2>1, QuarterFacts DEF At
  <2>3. Turned(At({r}, {4})) = At({q}, {4})
    BY <2>2 DEF Turned, At
  <2> QED
    BY <1>1, <2>3, HeldTurns
<1>2. /\ 0 \in Cells /\ 1 \in Cells /\ 2 \in Cells /\ 3 \in Cells
      /\ 5 \in Cells /\ 6 \in Cells /\ 7 \in Cells /\ 8 \in Cells
  BY DEF Cells
<1>3. /\ Quarter[6] = 0 /\ Quarter[8] = 6 /\ Quarter[2] = 8
      /\ Quarter[3] = 1 /\ Quarter[7] = 3 /\ Quarter[5] = 7
  BY QuarterFacts
<1>4. At({6}, {4}) \in HeldBoards /\ At({3}, {4}) \in HeldBoards
  BY <1>1, <1>2, <1>3, HeldX0O4, HeldX1O4
<1>5. At({8}, {4}) \in HeldBoards /\ At({7}, {4}) \in HeldBoards
  BY <1>1, <1>2, <1>3, <1>4
<1>6. At({2}, {4}) \in HeldBoards
  BY <1>1, <1>2, <1>3, <1>5
<1>7. At({5}, {4}) \in HeldBoards
  BY <1>1, <1>2, <1>3, <1>5
<1>8. \A r \in Cells \ {4} : \/ r = 0 \/ r = 1 \/ r = 2 \/ r = 3
                             \/ r = 5 \/ r = 6 \/ r = 7 \/ r = 8
  BY DEF Cells
<1> QED
  BY <1>3, <1>4, <1>5, <1>6, <1>7, <1>8, HeldX0O4, HeldX1O4, HeldX4O0

\* The player, who begins, cannot force a win.
THEOREM OpeningIsNotLost == minimax[EmptyBoard][FALSE][0] >= 0
<1>1. ASSUME NEW r \in Left({}, {}) PROVE \E m : Answers({}, {}, r, m)
  <2>1. {} \cup {r} = {r} /\ {} \cup {0} = {0} /\ {} \cup {4} = {4}
    OBVIOUS
  <2>2. CASE r = 4
    <3>1. 0 \in Left({r}, {}) /\ At({r}, {0}) \in HeldBoards
      BY <2>2, OpeningsAreAnswered DEF Left, Cells
    <3> QED
      BY <2>1, <3>1 DEF Answers
  <2>3. CASE r # 4
    <3>1. 4 \in Left({r}, {}) /\ At({r}, {4}) \in HeldBoards
      BY <2>3, OpeningsAreAnswered DEF Left, Cells
    <3> QED
      BY <2>1, <3>1 DEF Answers
  <2> QED
    BY <2>2, <2>3
<1>2. Apart({}, {}) /\ Left({}, {}) # {}
  <2>1. 0 \in Left({}, {})
    BY DEF Left, Cells
  <2> QED
    BY <2>1 DEF Apart
<1>3. At({}, {}) \in HeldBoards
  BY <1>1, <1>2, HeldByAnswers
<1>4. EmptyBoard = At({}, {})
  BY DEF EmptyBoard, At
<1> QED
  BY <1>3, <1>4, HeldIsNotLost

-----------------------------------------------------------------------------
(* The scores tell the wins that can be forced.                            *)

\* The boards of ForcedWins[n], from the wins in one move less.
WinsBefore(wins) ==
    {b \in Board :
        /\ ~HasLine(b, "X")
        /\ \E m \in getAvailableMoves(b) :
              LET b1 == [b EXCEPT ![m] = "O"]
              IN  \/ HasLine(b1, "O")
                  \/ /\ getAvailableMoves(b1) # {}
                     /\ \A r \in getAvailableMoves(b1) : [b1 EXCEPT ![r] = "X"] \in wins}

\* The recursion of ForcedWins has a solution: five steps.
LEMMA ForcedWinsUnfold ==
    /\ ForcedWins[0] = {}
    /\ \A n \in 1..5 : ForcedWins[n] = WinsBefore(ForcedWins[n - 1])
<1> DEFINE Step(f, n) == IF n = 0 THEN {} ELSE WinsBefore(f[n - 1])
           Solves(f) == f = [n \in 0..5 |-> Step(f, n)]
           W1 == WinsBefore({})
           W2 == WinsBefore(W1)
           W3 == WinsBefore(W2)
           W4 == WinsBefore(W3)
           W5 == WinsBefore(W4)
           w == [n \in 0..5 |-> IF n = 0 THEN {} ELSE IF n = 1 THEN W1 ELSE IF n = 2 THEN W2
                                ELSE IF n = 3 THEN W3 ELSE IF n = 4 THEN W4 ELSE W5]
<1>1. Solves(w)
  <2> HIDE DEF W1, W2, W3, W4, W5
  <2>1. w[0] = {} /\ w[1] = W1 /\ w[2] = W2 /\ w[3] = W3 /\ w[4] = W4 /\ w[5] = W5
    OBVIOUS
  <2>2. /\ W1 = WinsBefore({}) /\ W2 = WinsBefore(W1) /\ W3 = WinsBefore(W2)
        /\ W4 = WinsBefore(W3) /\ W5 = WinsBefore(W4)
    BY DEF W1, W2, W3, W4, W5
  <2> HIDE DEF w
  <2>3. ASSUME NEW n \in 0..5 PROVE w[n] = Step(w, n)
    <3>1. n = 0 \/ n = 1 \/ n = 2 \/ n = 3 \/ n = 4 \/ n = 5
      OBVIOUS
    <3> QED
      BY <2>1, <2>2, <3>1
  <2>4. w = [n \in 0..5 |-> w[n]]
    BY DEF w
  <2> HIDE DEF Step
  <2> QED
    BY <2>3, <2>4
<1>2. ForcedWins = CHOOSE f : Solves(f)
  BY DEF ForcedWins, WinsBefore
<1> HIDE DEF Solves
<1>3. Solves(ForcedWins)
  BY <1>1, <1>2
<1>4. ForcedWins = [n \in 0..5 |-> Step(ForcedWins, n)]
  BY <1>3 DEF Solves
<1>5. \A n \in 0..5 : ForcedWins[n] = Step(ForcedWins, n)
  BY <1>4
<1> QED
  BY <1>5

\* After the bot's mark the win is there, or within n - 1 moves whatever the
\* player answers.
StillWon(b1, n) ==
    \/ HasLine(b1, "O")
    \/ /\ getAvailableMoves(b1) # {}
       /\ \A r \in getAvailableMoves(b1) : [b1 EXCEPT ![r] = "X"] \in ForcedWins[n - 1]

\* The scores tell the forced wins: a win in n moves of the bot, to move at
\* depth d, scores at least 10 - (d + 2 * n - 1).
ScoresTellWins(n) ==
    \A b \in Board, d \in Nat :
       checkWinner(b) = NoWinner /\ d + Room(b) <= 10 /\ d + 2 * n <= 10
       => (minimax[b][TRUE][d] >= 11 - d - 2 * n <=> b \in ForcedWins[n])

\* The same after the bot's mark, with the player to move at depth d.
LEMMA ScoresTellStillWon ==
    ASSUME NEW n \in 1..5, ScoresTellWins(n - 1),
           NEW b \in Board, checkWinner(b) \in {"O", NoWinner},
           NEW d \in Nat, d + Room(b) <= 10, d + 2 * n <= 11
    PROVE  minimax[b][FALSE][d] >= 12 - d - 2 * n <=> StillWon(b, n)
<1>1. checkWinner(b) = "O" <=> HasLine(b, "O")
  BY WinnerHasLine DEF Players, NoWinner
<1>2. CASE checkWinner(b) = "O"
  <2>1. minimax[b][FALSE][d] = 10 - d
    BY <1>2, MinimaxAnswers
  <2>2. 10 - d >= 12 - d - 2 * n
    OBVIOUS
  <2> QED
    BY <1>1, <1>2, <2>1, <2>2 DEF StillWon
<1>3. CASE checkWinner(b) = NoWinner /\ getAvailableMoves(b) = {}
  <2>1. minimax[b][FALSE][d] = 0
    BY <1>3, MinimaxAnswers
  <2>2. ~(0 >= 12 - d - 2 * n)
    OBVIOUS
  <2> QED
    BY <1>1, <1>3, <2>1, <2>2 DEF StillWon, NoWinner
<1>4. CASE checkWinner(b) = NoWinner /\ getAvailableMoves(b) # {}
  <2>1. minimax[b][FALSE][d] >= 12 - d - 2 * n <=>
           \A r \in getAvailableMoves(b) :
              minimax[[b EXCEPT ![r] = "X"]][TRUE][d + 1] >= 12 - d - 2 * n
    <3>1. 12 - d - 2 * n \in Int
      OBVIOUS
    <3> QED
      BY <1>4, <3>1, ScoresAfterMoves
  <2>2. ASSUME NEW r \in getAvailableMoves(b)
        PROVE  minimax[[b EXCEPT ![r] = "X"]][TRUE][d + 1] >= 12 - d - 2 * n
                   <=> [b EXCEPT ![r] = "X"] \in ForcedWins[n - 1]
    <3> DEFINE b1 == [b EXCEPT ![r] = "X"]
    <3>1. b1 \in Board /\ Room(b1) = Room(b) - 1 /\ Room(b) \in 0..9 /\ Room(b1) \in 0..9
      BY FreeCells DEF Players
    <3>2. checkWinner(b1) \in {"X", NoWinner} /\ (checkWinner(b1) = "X" <=> HasLine(b1, "X"))
      BY <1>4, MoverCompletesOwnLines DEF Players
    <3> HIDE DEF b1
    <3>3. CASE checkWinner(b1) = "X"
      <4>1. minimax[b1][TRUE][d + 1] = (d + 1) - 10
        <5>1. d + 1 \in Nat
          OBVIOUS
        <5> QED
          BY <3>1, <3>3, <5>1, MinimaxAnswers
      <4>2. ~((d + 1) - 10 >= 12 - d - 2 * n)
        OBVIOUS
      <4>3. b1 \notin ForcedWins[n - 1]
        <5>1. CASE n = 1
          BY <5>1, ForcedWinsUnfold
        <5>2. CASE n # 1
          <6>1. n - 1 \in 1..5
            BY <5>2
          <6>2. ForcedWins[n - 1] = WinsBefore(ForcedWins[(n - 1) - 1])
            BY <6>1, ForcedWinsUnfold
          <6> QED
            BY <3>2, <3>3, <6>2 DEF WinsBefore
        <5> QED
          BY <5>1, <5>2
      <4> QED
        BY <4>1, <4>2, <4>3 DEF b1
    <3>4. CASE checkWinner(b1) = NoWinner
      <4>1. d + 1 \in Nat /\ (d + 1) + Room(b1) <= 10 /\ (d + 1) + 2 * (n - 1) <= 10
        BY <3>1
      <4>2. 11 - (d + 1) - 2 * (n - 1) = 12 - d - 2 * n
        OBVIOUS
      <4>3. minimax[b1][TRUE][d + 1] >= 11 - (d + 1) - 2 * (n - 1) <=> b1 \in ForcedWins[n - 1]
        BY <3>1, <3>4, <4>1 DEF ScoresTellWins
      <4> QED
        BY <4>2, <4>3 DEF b1
    <3> QED
      BY <3>2, <3>3, <3>4
  <2> QED
    BY <1>1, <1>4, <2>1, <2>2 DEF StillWon, NoWinner
<1> QED
  BY <1>2, <1>3, <1>4

\* Deciding wins in n - 1 moves decides wins in n.
LEMMA ScoresTellOneMoreMove ==
    ASSUME NEW n \in 1..5, ScoresTellWins(n - 1)
    PROVE  ScoresTellWins(n)
<1> SUFFICES ASSUME NEW b \in Board, NEW d \in Nat, checkWinner(b) = NoWinner,
                    d + Room(b) <= 10, d + 2 * n <= 10
             PROVE  minimax[b][TRUE][d] >= 11 - d - 2 * n <=> b \in ForcedWins[n]
  BY DEF ScoresTellWins
<1>1. b \in ForcedWins[n] <=>
         \E m \in getAvailableMoves(b) : StillWon([b EXCEPT ![m] = "O"], n)
  <2>1. ~HasLine(b, "X")
    BY WinnerHasLine DEF Players
  <2>2. ForcedWins[n] = WinsBefore(ForcedWins[n - 1])
    BY ForcedWinsUnfold
  <2> QED
    BY <2>1, <2>2 DEF WinsBefore, StillWon
<1>2. CASE getAvailableMoves(b) = {}
  <2>1. minimax[b][TRUE][d] = 0
    BY <1>2, MinimaxAnswers
  <2>2. ~(0 >= 11 - d - 2 * n)
    OBVIOUS
  <2> QED
    BY <1>1, <1>2, <2>1, <2>2
<1>3. CASE getAvailableMoves(b) # {}
  <2>1. minimax[b][TRUE][d] >= 11 - d - 2 * n <=>
           \E m \in getAvailableMoves(b) :
              minimax[[b EXCEPT ![m] = "O"]][FALSE][d + 1] >= 11 - d - 2 * n
    <3>1. 11 - d - 2 * n \in Int
      OBVIOUS
    <3> QED
      BY <1>3, <3>1, ScoresAfterMoves
  <2>2. ASSUME NEW m \in getAvailableMoves(b)
        PROVE  minimax[[b EXCEPT ![m] = "O"]][FALSE][d + 1] >= 11 - d - 2 * n
                   <=> StillWon([b EXCEPT ![m] = "O"], n)
    <3> DEFINE b1 == [b EXCEPT ![m] = "O"]
    <3>1. b1 \in Board /\ Room(b1) = Room(b) - 1 /\ Room(b) \in 0..9
      BY FreeCells DEF Players
    <3>2. checkWinner(b1) \in {"O", NoWinner}
      BY MoverCompletesOwnLines DEF Players
    <3> HIDE DEF b1
    <3>3. d + 1 \in Nat /\ (d + 1) + Room(b1) <= 10 /\ (d + 1) + 2 * n <= 11
      BY <3>1
    <3>4. 12 - (d + 1) - 2 * n = 11 - d - 2 * n
      OBVIOUS
    <3>5. minimax[b1][FALSE][d + 1] >= 12 - (d + 1) - 2 * n <=> StillWon(b1, n)
      BY <3>1, <3>2, <3>3, ScoresTellStillWon
    <3> QED
      BY <3>4, <3>5 DEF b1
  <2> QED
    BY <1>1, <2>1, <2>2
<1> QED
  BY <1>2, <1>3

\* The engine's scores decide whether a win in n moves can be forced.
THEOREM ScoresTellAllWins == \A n \in 0..5 : ScoresTellWins(n)
<1>1. ScoresTellWins(0)
  <2> SUFFICES ASSUME NEW b \in Board, NEW d \in Nat, d + Room(b) <= 10
               PROVE  ~(minimax[b][TRUE][d] >= 11 - d - 2 * 0) /\ b \notin ForcedWins[0]
    BY DEF ScoresTellWins
  <2>1. minimax[b][TRUE][d] \in (d - 10)..(10 - d)
    BY ScoresInRange DEF InRange
  <2>2. \A x \in (d - 10)..(10 - d) : ~(x >= 11 - d - 2 * 0)
    OBVIOUS
  <2> QED
    BY <2>1, <2>2, ForcedWinsUnfold
<1> DEFINE Bad == {n \in 0..5 : ~ScoresTellWins(n)}
<1>2. Bad = {}
  <2> SUFFICES ASSUME Bad # {} PROVE FALSE
    OBVIOUS
  <2>1. Bad \in SUBSET Nat
    OBVIOUS
  <2>2. PICK n \in Bad : \A i \in Bad : n <= i
    BY <2>1, NaturalsHaveMin
  <2>3. n \in 1..5
    BY <1>1
  <2>4. n - 1 \notin Bad /\ n - 1 \in 0..5
    BY <2>2, <2>3
  <2>5. ScoresTellWins(n - 1)
    BY <2>4
  <2> QED
    BY <2>3, <2>5, ScoresTellOneMoreMove
<1> QED
  BY <1>2

-----------------------------------------------------------------------------
(* The game.                                                               *)

\* The inductive invariant of a game: the board is open, with as many X as O,
\* until a verdict falls, and every verdict fits its board.
BoardInv ==
    /\ board \in Board
    /\ verdict \in {"none", "player", "draw", "bot"}
    /\ verdict = "none" => ~Finished(board) /\ Even(board)
    /\ Fits(board, verdict)

\* What the engine adds to it: while the game is open the player cannot win it.
SafeInv ==
    /\ verdict # "player" /\ ~HasLine(board, "X")
    /\ verdict = "none" => minimax[board][FALSE][0] >= 0

\* The empty board fits no verdict yet.
LEMMA EmptyBoardFits == Fits(EmptyBoard, "none") /\ ~HasLine(EmptyBoard, "X")
<1>1. EmptyBoard \in Board /\ checkWinner(EmptyBoard) = NoWinner /\ Even(EmptyBoard)
  BY EmptyBoardIsOpen DEF Finished
<1>2. ~HasLine(EmptyBoard, "X") /\ ~HasLine(EmptyBoard, "O")
  BY <1>1, WinnerHasLine DEF Players
<1> QED
  BY <1>1, <1>2 DEF Fits, Even

\* Every step keeps the board open or gives the verdict that fits it.
LEMMA BoardStep == BoardInv /\ [BoardNext]_boardVars => BoardInv'
<1> SUFFICES ASSUME BoardInv, [BoardNext]_boardVars PROVE BoardInv'
  OBVIOUS
<1>1. CASE newGame
  BY <1>1, EmptyBoardIsOpen, EmptyBoardFits DEF newGame, BoardInv
<1>2. ASSUME NEW position \in Cells, Play(position) PROVE BoardInv'
  <2>1. board \in Board /\ ~Finished(board) /\ Even(board)
        /\ position \in getAvailableMoves(board)
    BY <1>2 DEF Play, BoardInv
  <2> DEFINE mine == makeMove(board, position, "X")
  <2>2. PICK t \in Turn(board, position, getBestMove(mine)) :
           board' = t.board /\ verdict' = t.verdict
    BY <1>2 DEF Play
  <2>3. getAvailableMoves(mine) # {} => getBestMove(mine) \subseteq getAvailableMoves(mine)
    BY <2>1, PlayersMark, BestMoveIsFree
  <2>4. Fits(t.board, t.verdict) /\ t.verdict \in {"none", "player", "draw", "bot"}
    BY <2>1, <2>3, TurnFits
  <2>5. t.board \in Board
    BY <2>1, TurnKeepsBoard
  <2>6. t.verdict = "none" => ~Finished(t.board)
    BY <2>1, VerdictTellsEnd
  <2>7. t.verdict = "none" => Even(t.board)
    BY <2>1, <2>3, <2>6, TurnKeepsEven
  <2> QED
    BY <2>2, <2>4, <2>5, <2>6, <2>7 DEF BoardInv
<1>3. CASE UNCHANGED boardVars
  BY <1>3 DEF boardVars, BoardInv
<1> QED
  BY <1>1, <1>2, <1>3 DEF BoardNext

\* Marks are placed in turns and the announcement fits the board.
THEOREM AnnouncementFits == BoardSpec => []VerdictFitsBoard
<1>1. BoardInit => BoardInv
  BY EmptyBoardIsOpen, EmptyBoardFits DEF BoardInit, BoardInv
<1>2. BoardInv => VerdictFitsBoard
  BY DEF BoardInv, Fits, VerdictFitsBoard
<1> QED
  BY <1>1, <1>2, BoardStep, PTL DEF BoardSpec

\* The engine's answers keep the player from winning.
LEMMA SafeStep == BoardInv /\ SafeInv /\ [BoardNext]_boardVars => SafeInv'
<1> SUFFICES ASSUME BoardInv, SafeInv, [BoardNext]_boardVars PROVE SafeInv'
  OBVIOUS
<1>1. CASE newGame
  BY <1>1, OpeningIsNotLost, EmptyBoardFits DEF newGame, SafeInv
<1>2. ASSUME NEW position \in Cells, Play(position) PROVE SafeInv'
  <2>1. board \in Board /\ ~Finished(board) /\ minimax[board][FALSE][0] >= 0
        /\ position \in getAvailableMoves(board)
    BY <1>2 DEF Play, BoardInv, SafeInv
  <2>2. PICK t \in Turn(board, position, getBestMove(makeMove(board, position, "X"))) :
           board' = t.board /\ verdict' = t.verdict
    BY <1>2 DEF Play
  <2>3. t.verdict # "player" /\ ~HasLine(t.board, "X")
        /\ (getAvailableMoves(t.board) # {} => minimax[t.board][FALSE][0] >= 0)
    BY <2>1, SafeTurn
  <2>4. t.verdict = "none" => getAvailableMoves(t.board) # {}
    BY <2>1, VerdictTellsEnd DEF Finished, isDraw
  <2> QED
    BY <2>2, <2>3, <2>4 DEF SafeInv
<1>3. CASE UNCHANGED boardVars
  BY <1>3 DEF boardVars, SafeInv
<1> QED
  BY <1>1, <1>2, <1>3 DEF BoardNext

\* The engine never loses.
THEOREM EngineNeverLoses == BoardSpec => []BotNeverLoses
<1>1. BoardInit => BoardInv /\ SafeInv
  BY EmptyBoardIsOpen, EmptyBoardFits, OpeningIsNotLost DEF BoardInit, BoardInv, SafeInv
<1>2. SafeInv => BotNeverLoses
  BY DEF SafeInv, BotNeverLoses
<1> QED
  BY <1>1, <1>2, BoardStep, SafeStep, PTL DEF BoardSpec

\* The engine keeps every win it can force.
THEOREM ForcedWinsAreKept == BoardSpec => KeepsForcedWins
<1> DEFINE Kept(position, n) ==
        board[position] = Blank /\ board'[position] = "X"
        /\ makeMove(board, position, "X") \in ForcedWins[n]
        => \/ HasLine(board', "O")
           \/ \A r \in getAvailableMoves(board') :
                 makeMove(board', r, "X") \in ForcedWins[n - 1]
<1>1. BoardInv /\ [BoardNext]_boardVars => \A position \in Cells, n \in 1..4 : Kept(position, n)
  <2> SUFFICES ASSUME BoardInv, [BoardNext]_boardVars, NEW position \in Cells, NEW n \in 1..4,
                      board[position] = Blank, board'[position] = "X",
                      makeMove(board, position, "X") \in ForcedWins[n]
               PROVE  \/ HasLine(board', "O")
                      \/ \A r \in getAvailableMoves(board') :
                            makeMove(board', r, "X") \in ForcedWins[n - 1]
    OBVIOUS
  <2> DEFINE mine == makeMove(board, position, "X")
  <2>1. PICK p \in Cells : Play(p)
    <3>1. ~newGame
      BY DEF newGame, EmptyBoard, Blank
    <3>2. ~UNCHANGED boardVars
      BY DEF boardVars, Blank
    <3> QED
      BY <3>1, <3>2 DEF BoardNext
  <2>2. board \in Board /\ ~Finished(board) /\ p \in getAvailableMoves(board)
        /\ position \in getAvailableMoves(board)
    BY <2>1 DEF Play, BoardInv, getAvailableMoves
  <2>3. PICK t \in Turn(board, p, getBestMove(makeMove(board, p, "X"))) :
           board' = t.board /\ verdict' = t.verdict
    BY <2>1 DEF Play
  <2>4. getAvailableMoves(makeMove(board, p, "X")) # {} =>
            getBestMove(makeMove(board, p, "X"))
                \subseteq getAvailableMoves(makeMove(board, p, "X"))
    BY <2>2, PlayersMark, BestMoveIsFree
  <2>5. \/ t.board = makeMove(board, p, "X") /\ checkWinner(makeMove(board, p, "X")) = "X"
        \/ t.board = makeMove(board, p, "X") /\ isDraw(makeMove(board, p, "X"))
        \/ /\ checkWinner(makeMove(board, p, "X")) = NoWinner
           /\ getAvailableMoves(makeMove(board, p, "X")) # {}
           /\ \E m \in getBestMove(makeMove(board, p, "X")) :
                 /\ m \in getAvailableMoves(makeMove(board, p, "X"))
                 /\ t.board = [makeMove(board, p, "X") EXCEPT ![m] = "O"]
    BY <2>2, <2>4, TurnOutcomes
  <2>6. p = position
    BY <2>2, <2>3, <2>5 DEF makeMove, Board, getAvailableMoves, Blank
  <2>7. mine \in Board /\ checkWinner(mine) \in {"X", NoWinner} /\ getAvailableMoves(mine) # Cells
    BY <2>2, PlayersMark
  <2>8. mine \in WinsBefore(ForcedWins[n - 1])
    BY ForcedWinsUnfold
  <2>9. ~HasLine(mine, "X") /\ getAvailableMoves(mine) # {}
        /\ \E k \in getAvailableMoves(mine) : StillWon([mine EXCEPT ![k] = "O"], n)
    BY <2>8 DEF WinsBefore, StillWon
  <2>10. checkWinner(mine) = NoWinner
    BY <2>7, <2>9, WinnerHasLine DEF Players
  <2>11. PICK m \in getBestMove(mine) : /\ m \in getAvailableMoves(mine)
                                        /\ board' = [mine EXCEPT ![m] = "O"]
    BY <2>3, <2>5, <2>6, <2>9, <2>10 DEF isDraw, NoWinner
  <2> HIDE DEF mine
  <2>12. ASSUME NEW k \in getAvailableMoves(mine)
         PROVE  minimax[[mine EXCEPT ![k] = "O"]][FALSE][0] >= 12 - 2 * n
                    <=> StillWon([mine EXCEPT ![k] = "O"], n)
    <3> DEFINE b1 == [mine EXCEPT ![k] = "O"]
    <3>1. b1 \in Board
      BY <2>7, FreeCells DEF Players
    <3>2. Room(b1) \in 0..9
      BY <3>1, FreeCells
    <3>3. checkWinner(b1) \in {"O", NoWinner}
      BY <2>7, <2>10, MoverCompletesOwnLines DEF Players
    <3> HIDE DEF b1
    <3>4. n \in 1..5 /\ n - 1 \in 0..5 /\ 0 \in Nat /\ 0 + Room(b1) <= 10 /\ 0 + 2 * n <= 11
          /\ 12 - 0 - 2 * n = 12 - 2 * n
      BY <3>2
    <3>5. ScoresTellWins(n - 1)
      BY <3>4, ScoresTellAllWins
    <3>6. minimax[b1][FALSE][0] >= 12 - 0 - 2 * n <=> StillWon(b1, n)
      BY <3>1, <3>3, <3>4, <3>5, ScoresTellStillWon
    <3> QED
      BY <3>4, <3>6 DEF b1
  <2>13. StillWon([mine EXCEPT ![m] = "O"], n)
    <3>1. PICK k \in getAvailableMoves(mine) : StillWon([mine EXCEPT ![k] = "O"], n)
      BY <2>9
    <3>2. minimax[[mine EXCEPT ![k] = "O"]][FALSE][0] >= 12 - 2 * n
      BY <2>12, <3>1
    <3>3. 12 - 2 * n \in Int
      OBVIOUS
    <3>4. minimax[[mine EXCEPT ![m] = "O"]][FALSE][0] >= 12 - 2 * n
      BY <2>7, <2>9, <3>1, <3>2, <3>3, BestMoveScoresBest
    <3> QED
      BY <2>11, <2>12, <3>4
  <2>14. \A r \in getAvailableMoves(board') : makeMove(board', r, "X") = [board' EXCEPT ![r] = "X"]
    BY DEF makeMove
  <2> QED
    BY <2>11, <2>13, <2>14 DEF StillWon
<1>2. BoardInit => BoardInv
  BY EmptyBoardIsOpen, EmptyBoardFits DEF BoardInit, BoardInv
<1> QED
  BY <1>1, <1>2, BoardStep, PTL DEF BoardSpec, KeepsForcedWins

=============================================================================
