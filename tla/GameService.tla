------------------------------ MODULE GameService ------------------------------
(***************************************************************************)
(* What the game handler promises to the router that calls it, whatever    *)
(* the games are (GameHandler implements it): a text is "unhandled" at     *)
(* once if its sender plays no game; if he plays, it is answered, and the  *)
(* handler returns "unhandled" only after an error message got through; it *)
(* throws only if the last thing it tried to send failed.                  *)
(***************************************************************************)
CONSTANTS Users, Calls, NoUser

VARIABLES
    playing,   \* the users with a live session
    calls      \* where each call waits, and for whom

vars == <<playing, calls>>

Waits == {"starting", "startError", "replying", "quitting", "errorReply"}
Ends  == {"idle", "done", "unhandled", "thrown"}

Init ==
    /\ playing = {}
    /\ calls = [c \in Calls |-> [at |-> "idle", user |-> NoUser]]

Free(c) == calls[c].at \in Ends

WaitAt(c, at, u) == calls' = [calls EXCEPT ![c] = [at |-> at, user |-> u]]
End(c, at) == calls' = [calls EXCEPT ![c] = [at |-> at, user |-> NoUser]]

startGame(c, u) ==
    /\ Free(c)
    /\ WaitAt(c, "starting", u)
    /\ playing' = playing \cup {u}

InputNotForGame(c, u) ==
    /\ Free(c) /\ u \notin playing
    /\ End(c, "unhandled")
    /\ UNCHANGED playing

InputOfPlayer(c, u) ==
    /\ Free(c) /\ u \in playing
    /\ \E at \in {"replying", "quitting"} : WaitAt(c, at, u)
    /\ UNCHANGED playing

handleGameInput(c, u) == InputNotForGame(c, u) \/ InputOfPlayer(c, u)

\* The verdict of a game and the good-bye end it once they are sent.
Sent(c) ==
    \/ /\ calls[c].at \in {"starting", "startError"}
       /\ End(c, "done") /\ UNCHANGED playing
    \/ /\ calls[c].at \in {"replying", "quitting"}
       /\ End(c, "done") /\ playing' \in {playing, playing \ {calls[c].user}}
    \/ /\ calls[c].at = "errorReply"
       /\ End(c, "unhandled") /\ UNCHANGED playing

\* Fault for the mutation runs: a failed reply is passed over in silence.
RejectedSilently(c) ==
    /\ \/ calls[c].at = "starting" /\ WaitAt(c, "startError", calls[c].user)
       \/ calls[c].at = "replying" /\ End(c, "unhandled")
       \/ calls[c].at \in {"startError", "errorReply", "quitting"} /\ End(c, "thrown")
    /\ UNCHANGED playing

Rejected(c) ==
    /\ \/ calls[c].at = "starting" /\ WaitAt(c, "startError", calls[c].user)
       \/ calls[c].at = "replying" /\ WaitAt(c, "errorReply", calls[c].user)
       \/ calls[c].at \in {"startError", "errorReply", "quitting"} /\ End(c, "thrown")
    /\ UNCHANGED playing

\* Sessions of idle players expire.
Expire == playing' \in (SUBSET playing) \ {playing} /\ UNCHANGED calls

Next ==
    \/ \E c \in Calls, u \in Users : startGame(c, u) \/ handleGameInput(c, u)
    \/ \E c \in Calls : Sent(c) \/ Rejected(c)
    \/ Expire

Spec == Init /\ [][Next]_vars

=============================================================================
