---------------------------- MODULE MCGameHandler ----------------------------
(* Instances of GameHandler for TLC.                                       *)
EXTENDS GameHandler

\* A bot that takes the first free cell: the properties of the handler hold
\* whatever the bot plays.  (On a full board getBestMove returns -1, which
\* makeMove refuses.)
FirstFree(b) == IF getAvailableMoves(b) = {} THEN {-1} ELSE {Min(getAvailableMoves(b))}

MCTypes == {"tictactoe", "rps"}
=============================================================================
