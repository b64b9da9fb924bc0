---------------------------- MODULE SessionManager ----------------------------
(***************************************************************************)
(* The table of game sessions (class SessionManager, session.js): at most  *)
(* one session per user, dropped when it has been idle for longer than     *)
(* SessionTimeout, either by the reader that finds it expired or by the    *)
(* clean-up timer.                                                         *)
(*                                                                         *)
(* Time is counted in whole ticks.  A session keeps its age, the ticks     *)
(* since its lastActivity, instead of a time stamp, and the timer keeps    *)
(* the ticks until it fires; it fires when due, before time goes on.       *)
(***************************************************************************)
EXTENDS Integers

CONSTANTS
    Users,            \* the chats that talk to the bot
    SessionTypes,     \* the kinds of games
    SessionTimeout,   \* sessionTimeout, in ticks
    CleanupInterval,  \* the period of the clean-up timer, in ticks
    NoSession         \* stands for the absence of an entry

ASSUME SessionAssumption ==
    /\ SessionTimeout \in Nat
    /\ CleanupInterval \in Nat \ {0}
    /\ NoSession \notin [type : SessionTypes, age : Nat]

VARIABLES
    sessions,         \* the Map, as a total function
    untilCleanup      \* ticks until setInterval calls cleanupExpiredSessions

Session == [type : SessionTypes, age : Nat]

SessionTypeOK ==
    /\ sessions \in [Users -> Session \cup {NoSession}]
    /\ untilCleanup \in 0..CleanupInterval

SessionInit ==
    /\ sessions = [u \in Users |-> NoSession]
    /\ untilCleanup = CleanupInterval

\* Fault for the mutation runs: a session expires one tick early.
isSessionExpiredEarly(session) == session.age >= SessionTimeout

isSessionExpired(session) == session.age > SessionTimeout

\* The table after createSession, endSession, and after the lastActivity of a
\* session has been set to now.
createSession(table, u, type) == [table EXCEPT ![u] = [type |-> type, age |-> 0]]

\* Fault for the mutation runs: the entry is marked instead of deleted.
endSessionMarked(table, u) == [table EXCEPT ![u] = [type |-> "ended", age |-> 0]]

endSession(table, u) == [table EXCEPT ![u] = NoSession]

refreshed(table, u) == [table EXCEPT ![u] = [@ EXCEPT !.age = 0]]

\* getSession: whether it returns the session, and the table it leaves.
HasSession(u) == sessions[u] # NoSession /\ ~isSessionExpired(sessions[u])

getSession(u) ==
    IF sessions[u] = NoSession THEN sessions
    ELSE IF HasSession(u) THEN refreshed(sessions, u) ELSE endSession(sessions, u)

\* Fault for the mutation runs: the timer finds nothing to remove.
cleanupNothing ==
    /\ untilCleanup = 0
    /\ untilCleanup' = CleanupInterval
    /\ UNCHANGED sessions

cleanupExpiredSessions ==
    /\ untilCleanup = 0
    /\ untilCleanup' = CleanupInterval
    /\ sessions' = [u \in Users |->
           IF sessions[u] # NoSession /\ isSessionExpired(sessions[u])
           THEN NoSession ELSE sessions[u]]

Tick ==
    /\ untilCleanup > 0
    /\ untilCleanup' = untilCleanup - 1
    /\ sessions' = [u \in Users |->
           IF sessions[u] = NoSession THEN NoSession
           ELSE [sessions[u] EXCEPT !.age = @ + 1]]

\* An idle session outlives its timeout by one period of the timer at most.
IdleSessionsAreRemoved ==
    \A u \in Users : sessions[u] # NoSession =>
        sessions[u].age + untilCleanup <= SessionTimeout + CleanupInterval

=============================================================================
