------------------------------- MODULE Startup -------------------------------
(***************************************************************************)
(* start.sh and the two services it starts and watches: the Telegram       *)
(* bridge (server.py, main of bridge.py) and the WhatsApp bot (index.js).  *)
(*                                                                         *)
(* The script checks the ports, starts the bridge, polls TELEGRAM_PORT,    *)
(* starts the bot, polls its port, and only then installs its trap and     *)
(* watches both processes.  The bridge binds PORT, as the bot does; each   *)
(* has a default of its own.  A service may fail or die at any time, the   *)
(* script may be sent a signal at any time, and other programs come to     *)
(* free ports and leave them as they like, between check and use as well.  *)
(***************************************************************************)
EXTENDS Naturals

CONSTANTS
    Ports,               \* port numbers
    NoPort,
    Unset,               \* a variable that the environment lacks
    PORT,                \* the values PORT may have in the environment
    TELEGRAM_PORT,       \* and those of TELEGRAM_PORT
    WhatsAppDefault,     \* 5000
    TelegramDefault,     \* 8000
    max_attempts         \* of wait_for_service

ASSUME StartupAssumption ==
    /\ NoPort \notin Ports
    /\ PORT \subseteq Ports \cup {Unset}
    /\ TELEGRAM_PORT \subseteq Ports \cup {Unset}
    /\ {WhatsAppDefault, TelegramDefault} \subseteq Ports
    /\ max_attempts \in Nat \ {0}

VARIABLES
    env,          \* the environment of the script and of its services
    inUse,        \* ports that other programs (strangers) listen on
    taken,        \* ports that strangers have listened on since the script
                  \* last found them free; an observer, no guard reads it
    script,       \* where the script is
    attempt,      \* of the wait_for_service under way
    process,      \* per service: the state of its process
    bound,        \* and the port it listens on
    signalled     \* processes with a signal that they will end on

strangers == <<inUse, taken>>
services == <<process, bound>>
vars == <<env, strangers, script, attempt, services, signalled>>

Services == {"bridge", "bot"}

\* The two variables, and whether nc is installed (the script does not require
\* it).
Environment == [port : PORT, telegramPort : TELEGRAM_PORT, nc : BOOLEAN]

\* ${var:-default}, process.env.PORT || 5000, os.getenv('PORT', 8000)
Default(value, default) == IF value = Unset THEN default ELSE value

PolledPort(s) ==
    IF s = "bridge" THEN Default(env.telegramPort, TelegramDefault)
                    ELSE Default(env.port, WhatsAppDefault)

ServicePort(s) ==
    Default(env.port, IF s = "bridge" THEN TelegramDefault ELSE WhatsAppDefault)

InUse(p) == p \in inUse \/ \E s \in Services : bound[s] = p

\* Before it starts anything the script checks the port of the bot and that of
\* the bridge, and installs what they need.  script = s: it waits for service s.
Preparing == {"botPort", "bridgePort", "installs"}
Scripts == Preparing \cup Services \cup {"monitor", "exited", "killed"}

\* A service that has been started and has not ended.
Runs(s) == process[s] \in {"starting", "up"}

Init ==
    /\ env \in Environment
    /\ inUse \in SUBSET Ports /\ taken = inUse
    /\ script = "botPort"
    /\ attempt = 0
    /\ process = [s \in Services |-> "none"]
    /\ bound = [s \in Services |-> NoPort]
    /\ signalled = {}

-----------------------------------------------------------------------------
(* The script.                                                             *)

\* kill $PID 2>/dev/null || true, of each of them
Kill(some) == signalled' = signalled \cup {s \in some : Runs(s)}

Start(s) ==
    /\ process' = [process EXCEPT ![s] = "starting"]
    /\ script' = s
    /\ attempt' = 0

\* port_available: nc finds nobody on the port, or there is no nc and nothing is
\* found out.
port_available(p) == env.nc => ~InUse(p)

PortPasses(s, next) ==
    /\ port_available(PolledPort(s))
    /\ script' = next
    /\ taken' = IF env.nc THEN taken \ {PolledPort(s)} ELSE taken
    /\ UNCHANGED <<env, inUse, attempt, services, signalled>>

PortsPass ==
    \/ script = "botPort" /\ PortPasses("bot", "bridgePort")
    \/ script = "bridgePort" /\ PortPasses("bridge", "installs")

Installed ==
    /\ script = "installs"
    /\ Start("bridge")
    /\ UNCHANGED <<env, strangers, bound, signalled>>

\* A port is in use; or a program or variable is missing, or an install fails.
ChecksFail ==
    /\ script \in Preparing
    /\ script' = "exited"
    /\ UNCHANGED <<env, strangers, attempt, services, signalled>>

\* Fault for the mutation runs: wait_for_service without its return 1.
WaitPasses(s) == script = s /\ (InUse(PolledPort(s)) \/ attempt = max_attempts)

\* curl -s succeeds on any answer, whatever its status and whoever gives it.
Answers(s) == script = s /\ InUse(PolledPort(s)) /\ attempt < max_attempts

BridgeReady ==
    /\ Answers("bridge")
    /\ Start("bot")
    /\ UNCHANGED <<env, strangers, bound, signalled>>

\* From here the trap of the script is set.
BotReady ==
    /\ Answers("bot")
    /\ script' = "monitor"
    /\ UNCHANGED <<env, strangers, attempt, services, signalled>>

\* Fault for the mutation runs: a loop that does not end.
WaitForEver(s) ==
    /\ script = s
    /\ attempt <= max_attempts
    /\ attempt' = attempt + 1
    /\ UNCHANGED <<env, strangers, script, services, signalled>>

\* curl fails: nothing answers in HTTP, or there is no curl (nor is it required).
Waits(s) ==
    /\ script = s
    /\ attempt < max_attempts
    /\ attempt' = attempt + 1
    /\ UNCHANGED <<env, strangers, script, services, signalled>>

\* Fault for the mutation runs: only the service waited for is killed.
GiveUpHalf(s) ==
    /\ script = s
    /\ attempt = max_attempts
    /\ script' = "exited"
    /\ Kill({s})
    /\ UNCHANGED <<env, strangers, attempt, services>>

GivesUp(s) ==
    /\ script = s
    /\ attempt = max_attempts
    /\ script' = "exited"
    /\ Kill(Services)
    /\ UNCHANGED <<env, strangers, attempt, services>>

\* Fault for the mutation runs: a loop that watches the bridge only.
WatchBridge ==
    /\ script = "monitor"
    /\ ~Runs("bridge")
    /\ script' = "exited"
    /\ Kill(Services)
    /\ UNCHANGED <<env, strangers, attempt, services>>

\* One of the two has ended: the other one is killed.
Watch ==
    /\ script = "monitor"
    /\ \E s \in Services : ~Runs(s)
    /\ script' = "exited"
    /\ Kill(Services)
    /\ UNCHANGED <<env, strangers, attempt, services>>

\* SIGTERM to the script, or Ctrl+C, which the services get too and end on if
\* their handlers are installed: it ends the script where it is, or runs
\* cleanup once the trap is set.
Interrupted(reached) ==
    /\ script \notin {"exited", "killed"}
    /\ IF script = "monitor" THEN script' = "exited" /\ Kill(Services)
                             ELSE script' = "killed" /\ Kill(reached)
    /\ UNCHANGED <<env, strangers, attempt, services>>

-----------------------------------------------------------------------------
(* The services.                                                           *)

\* main of bridge.py: initialize has returned, and the port is free.
BridgeListens ==
    /\ process["bridge"] = "starting"
    /\ ~InUse(ServicePort("bridge"))
    /\ process' = [process EXCEPT !["bridge"] = "up"]
    /\ bound' = [bound EXCEPT !["bridge"] = ServicePort("bridge")]
    /\ UNCHANGED <<env, strangers, script, attempt, signalled>>

\* app.listen: its callback starts the bot, without a port if that one is taken.
BotListens ==
    /\ process["bot"] = "starting"
    /\ process' = [process EXCEPT !["bot"] = "up"]
    /\ bound' = [bound EXCEPT !["bot"] =
           IF InUse(ServicePort("bot")) THEN NoPort ELSE ServicePort("bot")]
    /\ UNCHANGED <<env, strangers, script, attempt, signalled>>

\* initialize or site.start throws, startBot exits, a crash; or the signal.
Ends(s) ==
    /\ Runs(s)
    /\ process' = [process EXCEPT ![s] = "ended"]
    /\ bound' = [bound EXCEPT ![s] = NoPort]
    /\ signalled' = signalled \ {s}
    /\ UNCHANGED <<env, strangers, script, attempt>>

-----------------------------------------------------------------------------
(* Other programs.                                                         *)

StrangerBinds(p) ==
    /\ ~InUse(p)
    /\ inUse' = inUse \cup {p} /\ taken' = taken \cup {p}
    /\ UNCHANGED <<env, script, attempt, services, signalled>>

StrangerLeaves(p) ==
    /\ inUse' = inUse \ {p} /\ p \in inUse
    /\ UNCHANGED <<env, taken, script, attempt, services, signalled>>

-----------------------------------------------------------------------------

Script ==
    \/ PortsPass \/ Installed \/ ChecksFail
    \/ BridgeReady \/ BotReady
    \/ \E s \in Services : Waits(s) \/ GivesUp(s)
    \/ Watch

Service == BridgeListens \/ BotListens \/ \E s \in Services : Ends(s)

Stranger == \E p \in Ports : StrangerBinds(p) \/ StrangerLeaves(p)

Next ==
    \/ Script \/ Service \/ Stranger
    \/ \E reached \in SUBSET Services : Interrupted(reached)

\* The loop goes on, and a signal ends its process.  Before the loop the script
\* may hang (in an install, or in curl, which has no timeout), nothing makes a
\* service come up, stay up or end by itself, and strangers do as they like.
Fairness ==
    /\ WF_vars(Watch)
    /\ \A s \in Services : WF_vars(s \in signalled /\ Ends(s))

Spec == Init /\ [][Next]_vars
FairSpec == Spec /\ Fairness

-----------------------------------------------------------------------------
(* Properties.                                                             *)

\* Attempts stay within max_attempts, and only a process that is up has a port.
TypeOK ==
    /\ env \in Environment
    /\ inUse \in SUBSET Ports /\ taken \in SUBSET Ports
    /\ script \in Scripts
    /\ attempt \in 0..max_attempts
    /\ process \in [Services -> {"none", "starting", "up", "ended"}]
    /\ bound \in [Services -> Ports \cup {NoPort}]
    /\ signalled \subseteq Services
    /\ \A s \in Services : bound[s] # NoPort => process[s] = "up"

\* The environment makes both services want one port.
Clash == ServicePort("bridge") = ServicePort("bot")

\* With such an environment the bridge answers for the bot, until it ends.
BridgeAnswersForBot ==
    Clash /\ (process["bridge"] = "ended" \/ bound["bridge"] = PolledPort("bot"))

\* What "All services started successfully!" (start.sh) is worth: while the script
\* watches, each service listens on the port it was polled on or has ended since,
\* or somebody else has answered for it: a stranger that took the port after it
\* was checked, or the bridge for the bot.  A service that is still starting, or
\* listens elsewhere, is never passed as ready for another reason.
WatchedAreReady ==
    script = "monitor" =>
        \A s \in Services :
            \/ process[s] = "ended"
            \/ bound[s] = PolledPort(s)
            \/ PolledPort(s) \in taken
            \/ s = "bot" /\ BridgeAnswersForBot

\* A script that exits, because a service did not come up or has died or after
\* its trap, leaves no process behind.
NoneLeftBehind == script = "exited" ~> \A s \in Services : ~Runs(s)

\* A service that dies while the other one is watched takes it down with it: the
\* bot does not stay without the bridge, nor the bridge without the bot.
OneDeathEndsBoth ==
    \A s \in Services :
        script = "monitor" /\ process[s] = "ended"
            ~> \A t \in Services : process[t] = "ended"

=============================================================================
