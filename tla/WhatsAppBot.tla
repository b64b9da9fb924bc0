----------------------------- MODULE WhatsAppBot -----------------------------
(***************************************************************************)
(* Connections of the WhatsApp service: the bots of one process (class     *)
(* WhatsAppBot, bot.js), the reconnection timer of each, and index.js,     *)
(* which starts the first bot, replaces the current one on a request to    *)
(* /restart, and logs it out on SIGINT.                                    *)
(*                                                                         *)
(* A bot counts what it has under way: calls of initialize (the one of     *)
(* startBot apart from those of timers), pending timers, and sockets that  *)
(* have not emitted 'close'.  WhatsApp and the socket library are outside  *)
(* the program: a socket opens or closes at will, with the status          *)
(* loggedOut or another one, it closes once, and a logout either closes it *)
(* or throws.                                                              *)
(***************************************************************************)
EXTENDS Naturals

CONSTANTS
    Bots,                  \* the WhatsAppBot objects that may be created
    NoBot,                 \* the value of bot before the first
    Requests,              \* requests to /restart
    maxReconnectAttempts

ASSUME BotAssumption ==
    /\ NoBot \notin Bots
    /\ maxReconnectAttempts \in Nat

VARIABLES
    bot,               \* the current bot
    created,           \* the bots made so far
    links,             \* per bot: what it has in each stage of a connection
    isConnectedFlag,
    reconnectAttempts,
    requests,          \* where each request to /restart is, and on which bot
    sigint,            \* where the handler of SIGINT is, and on which bot
    exited             \* process.exit has been called

botVars == <<bot, created>>
flagVars == <<isConnectedFlag, reconnectAttempts>>
exitVars == <<sigint, exited>>
vars == <<botVars, links, flagVars, requests, exitVars>>

\* initialize called by startBot; a pending timer; initialize called by the
\* timer; a socket that has not opened yet; one that is open.
Stages == {"starting", "timer", "retrying", "connecting", "open"}
Sockets == {"connecting", "open"}

Request == [at : {"new", "logout", "starting", "answered"}, on : Bots \cup {NoBot}]

Init ==
    /\ bot = NoBot
    /\ created = {}
    /\ links = [b \in Bots |-> [s \in Stages |-> 0]]
    /\ isConnectedFlag = [b \in Bots |-> FALSE]
    /\ reconnectAttempts = [b \in Bots |-> 0]
    /\ requests = [r \in Requests |-> [at |-> "new", on |-> NoBot]]
    /\ sigint = [at |-> "new", on |-> NoBot]
    /\ exited = FALSE

\* One of what b has in stage s goes on to stage t, or is gone.
Move(b, s, t) ==
    /\ links[b][s] > 0
    /\ links' = [links EXCEPT ![b][s] = @ - 1, ![b][t] = @ + 1]

Drop(b, s) ==
    /\ links[b][s] > 0
    /\ links' = [links EXCEPT ![b][s] = @ - 1]

-----------------------------------------------------------------------------
(* startBot, initialize.                                                   *)

\* A new object becomes the bot.
Create(b) ==
    /\ b \notin created
    /\ created' = created \cup {b}
    /\ bot' = b

\* The HTTP server listens: startBot, up to its await of initialize.
Listen(b) ==
    /\ bot = NoBot
    /\ Create(b)
    /\ links' = [links EXCEPT ![b]["starting"] = @ + 1]
    /\ UNCHANGED <<flagVars, requests, exitVars>>

\* The first initialize of b makes its socket; a restart waiting for it answers.
Started(b) ==
    /\ Move(b, "starting", "connecting")
    /\ requests' = [r \in Requests |->
           IF requests[r] = [at |-> "starting", on |-> b]
           THEN [at |-> "answered", on |-> b] ELSE requests[r]]
    /\ UNCHANGED <<botVars, flagVars, exitVars>>

\* It throws, and startBot calls process.exit(1).
StartFails(b) ==
    /\ links[b]["starting"] > 0
    /\ exited' = TRUE
    /\ UNCHANGED <<botVars, links, flagVars, requests, sigint>>

\* Fault for the mutation runs: setInterval in place of setTimeout.
IntervalFires(b) ==
    /\ links[b]["timer"] > 0
    /\ links' = [links EXCEPT ![b]["retrying"] = @ + 1]
    /\ UNCHANGED <<botVars, flagVars, requests, exitVars>>

TimerFires(b) ==
    /\ Move(b, "timer", "retrying")
    /\ UNCHANGED <<botVars, flagVars, requests, exitVars>>

\* initialize called by a timer makes a new socket; or throws, which nobody
\* catches but the logger of unhandled rejections.
Retried(b) ==
    /\ Move(b, "retrying", "connecting") \/ Drop(b, "retrying")
    /\ UNCHANGED <<botVars, flagVars, requests, exitVars>>

-----------------------------------------------------------------------------
(* handleConnectionUpdate.                                                 *)

SocketOpens(b) ==
    /\ Move(b, "connecting", "open")
    /\ isConnectedFlag' = [isConnectedFlag EXCEPT ![b] = TRUE]
    /\ reconnectAttempts' = [reconnectAttempts EXCEPT ![b] = 0]
    /\ UNCHANGED <<botVars, requests, exitVars>>

\* Fault for the mutation runs: one attempt too many.
ReconnectsLate(b, loggedOut) ==
    ~loggedOut /\ reconnectAttempts[b] <= maxReconnectAttempts

Reconnects(b, loggedOut) ==
    ~loggedOut /\ reconnectAttempts[b] < maxReconnectAttempts

\* Faults for the mutation runs: attempts that are not counted, and a flag that
\* is cleared by a logout only.
SocketClosesUncounted(b, loggedOut) ==
    /\ \E s \in Sockets :
          IF Reconnects(b, loggedOut) THEN Move(b, s, "timer") ELSE Drop(b, s)
    /\ isConnectedFlag' = [isConnectedFlag EXCEPT ![b] = FALSE]
    /\ UNCHANGED <<botVars, reconnectAttempts, requests, exitVars>>

SocketClosesSilently(b, loggedOut) ==
    /\ \E s \in Sockets :
          IF Reconnects(b, loggedOut) THEN Move(b, s, "timer") ELSE Drop(b, s)
    /\ isConnectedFlag' = [isConnectedFlag EXCEPT ![b] = ~loggedOut]
    /\ reconnectAttempts' = [reconnectAttempts EXCEPT ![b] =
           IF Reconnects(b, loggedOut) THEN @ + 1 ELSE @]
    /\ UNCHANGED <<botVars, requests, exitVars>>

SocketCloses(b, loggedOut) ==
    /\ \E s \in Sockets :
          IF Reconnects(b, loggedOut) THEN Move(b, s, "timer") ELSE Drop(b, s)
    /\ isConnectedFlag' = [isConnectedFlag EXCEPT ![b] = FALSE]
    /\ reconnectAttempts' = [reconnectAttempts EXCEPT ![b] =
           IF Reconnects(b, loggedOut) THEN @ + 1 ELSE @]
    /\ UNCHANGED <<botVars, requests, exitVars>>

-----------------------------------------------------------------------------
(* disconnect, /restart and SIGINT.                                        *)

\* How disconnect may leave the links: logout has closed the socket of b, as
\* logged out; or there is none, or logout throws, which disconnect catches.
disconnect(b) ==
    {links} \cup
    {[links EXCEPT ![b][s] = @ - 1] : s \in {t \in Sockets : b # NoBot /\ links[b][t] > 0}}

FlagAfter(left, b) ==
    IF left = links THEN isConnectedFlag ELSE [isConnectedFlag EXCEPT ![b] = FALSE]

RestartRequested(r) ==
    /\ bot # NoBot
    /\ requests[r].at = "new"
    /\ requests' = [requests EXCEPT ![r] = [at |-> "logout", on |-> bot]]
    /\ UNCHANGED <<botVars, links, flagVars, exitVars>>

\* The logout of the bot found at the request has settled: startBot.
Restart(r, b) ==
    /\ requests[r].at = "logout"
    /\ Create(b)
    /\ \E left \in disconnect(requests[r].on) :
          /\ links' = [left EXCEPT ![b]["starting"] = @ + 1]
          /\ isConnectedFlag' = FlagAfter(left, requests[r].on)
    /\ requests' = [requests EXCEPT ![r] = [at |-> "starting", on |-> b]]
    /\ UNCHANGED <<reconnectAttempts, exitVars>>

Interrupted ==
    /\ sigint.at = "new"
    /\ sigint' = [at |-> "logout", on |-> bot]
    /\ UNCHANGED <<botVars, links, flagVars, requests, exited>>

Exit ==
    /\ sigint.at = "logout"
    /\ exited' = TRUE
    /\ \E left \in disconnect(sigint.on) :
          links' = left /\ isConnectedFlag' = FlagAfter(left, sigint.on)
    /\ UNCHANGED <<botVars, reconnectAttempts, requests, sigint>>

-----------------------------------------------------------------------------

Lifecycle(b) ==
    ~exited /\ (Started(b) \/ StartFails(b) \/ TimerFires(b) \/ Retried(b))

SocketEvent(b) ==
    ~exited /\ (SocketOpens(b) \/ \E loggedOut \in BOOLEAN : SocketCloses(b, loggedOut))

Control ==
    /\ ~exited
    /\ \/ \E b \in Bots : Listen(b)
       \/ \E r \in Requests : RestartRequested(r) \/ \E b \in Bots : Restart(r, b)
       \/ Interrupted
       \/ Exit

Next == Control \/ \E b \in Bots : Lifecycle(b) \/ SocketEvent(b)

\* Timers fire, initialize ends, and a socket that is connecting opens or
\* closes (connectTimeoutMs); an open one may stay so.
Fairness ==
    \A b \in Bots :
        /\ WF_vars(Lifecycle(b))
        /\ WF_vars(links[b]["connecting"] > 0 /\ SocketEvent(b))

Spec == Init /\ [][Next]_vars
FairSpec == Spec /\ Fairness

-----------------------------------------------------------------------------
(* Properties.                                                             *)

\* Counts are counts, and reconnectAttempts stays within its maximum.
TypeOK ==
    /\ bot \in Bots \cup {NoBot}
    /\ created \subseteq Bots
    /\ links \in [Bots -> [Stages -> Nat]]
    /\ isConnectedFlag \in [Bots -> BOOLEAN]
    /\ reconnectAttempts \in [Bots -> 0..maxReconnectAttempts]
    /\ requests \in [Requests -> Request]
    /\ sigint \in Request
    /\ exited \in BOOLEAN

\* The bot has, or may get, a connection.
IsBusy(b) == \E s \in Stages : links[b][s] > 0

\* However closes, timers, logouts and restarts interleave, one bot never has
\* two connections, nor one beside a timer that will make another.
OneLinkPerBot ==
    \A b \in Bots, s, t \in Stages :
        /\ links[b][s] <= 1
        /\ links[b][s] > 0 /\ links[b][t] > 0 => s = t

\* What /health and /status report as connected is the state of the socket.
FlagIsHonest == \A b \in Bots : isConnectedFlag[b] <=> links[b]["open"] > 0

\* A bot that lost its connection is connected again some time later, or has
\* given up: it does not try forever, and no attempt is left hanging.
ReconnectionEnds ==
    \A b \in Bots :
        links[b]["timer"] > 0 ~> links[b]["open"] > 0 \/ ~IsBusy(b) \/ exited

\* "Bot restarted successfully" (index.js): when a restart has answered so, only
\* the current bot is connected or on its way to be.
RestartReplacesBot ==
    \A r \in Requests, b \in Bots :
        requests[r].at = "answered" /\ IsBusy(b) => b = bot

=============================================================================
