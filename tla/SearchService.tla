---------------------------- MODULE SearchService ----------------------------
(***************************************************************************)
(* What the Telegram side promises to the callers of search_music,         *)
(* whatever it does to match the answers of the music bot with searches:   *)
(* a search settles once, with nothing or with one answer of the bot to a  *)
(* query that was really asked, and no answer is given to two searches.    *)
(* It does not promise that the answer is the one to the search's query.   *)
(***************************************************************************)
CONSTANTS Searches, Nothing

VARIABLES
    status,   \* of each search: "new", "running", "done"
    asked,    \* the searches whose query the music bot has received
    given     \* of each search: the query whose answer it was given

vars == <<status, asked, given>>

Init ==
    /\ status = [s \in Searches |-> "new"]
    /\ asked = {}
    /\ given = [s \in Searches |-> Nothing]

Start(s) ==
    /\ status[s] = "new"
    /\ status' = [status EXCEPT ![s] = "running"]
    /\ UNCHANGED <<asked, given>>

Ask(s) ==
    /\ status[s] = "running"
    /\ asked' = asked \cup {s}
    /\ UNCHANGED <<status, given>>

Give(s, q) ==
    /\ status[s] = "running" /\ given[s] = Nothing
    /\ q \in asked /\ \A t \in Searches : given[t] # q
    /\ given' = [given EXCEPT ![s] = q]
    /\ UNCHANGED <<status, asked>>

\* The search returns what it was given, or nothing.
Finish(s) ==
    /\ status[s] = "running"
    /\ status' = [status EXCEPT ![s] = "done"]
    /\ given' \in {given, [given EXCEPT ![s] = Nothing]}
    /\ UNCHANGED asked

Next == \E s \in Searches : Start(s) \/ Ask(s) \/ Finish(s) \/ \E q \in Searches : Give(s, q)

Spec == Init /\ [][Next]_vars

=============================================================================
