---------------------------- MODULE StartupProofs ----------------------------
(***************************************************************************)
(* Proofs about Startup for every set of ports, every environment and      *)
(* every max_attempts, whatever strangers do on the ports: types, and what *)
(* "All services started successfully!" means.                             *)
(***************************************************************************)
EXTENDS Startup, TLAPS

\* A service that is not started has no process, and one that listens does so
\* on its port.
StagesOK ==
    /\ script \in Preparing => \A s \in Services : process[s] = "none"
    /\ script = "bridge" => process["bot"] = "none"
    /\ \A s \in Services : bound[s] \in {NoPort, ServicePort(s)}

\* What strangers listen on they have taken, once it has been found free.
StrangersNoted == inUse \subseteq taken

\* From its poll on the bridge is where it was polled, or has ended, or a stranger
\* has had its port.
BridgeWasReady ==
    script \in {"bot", "monitor"} =>
        \/ process["bridge"] = "ended"
        \/ bound["bridge"] = PolledPort("bridge")
        \/ PolledPort("bridge") \in taken

\* WatchedAreReady is not inductive: what the script has seen of the bridge
\* before it polls the bot is needed, and who can have answered for whom.
IInv == TypeOK /\ StagesOK /\ StrangersNoted /\ BridgeWasReady /\ WatchedAreReady

\* The ports used and polled are ports, whatever the environment.
LEMMA PortTypes ==
    ASSUME TypeOK, NEW s \in Services
    PROVE  ServicePort(s) \in Ports /\ PolledPort(s) \in Ports
BY StartupAssumption DEF TypeOK, Environment, ServicePort, PolledPort, Default, Services

\* Nothing is up when the script starts.
LEMMA InitIInv == Init => IInv
BY StartupAssumption
   DEF Init, IInv, TypeOK, StagesOK, StrangersNoted, BridgeWasReady, WatchedAreReady,
       Scripts, Preparing, Services

\* Ports depend on the environment alone.
LEMMA PortsStay ==
    ASSUME UNCHANGED env, NEW s \in Services
    PROVE  PolledPort(s)' = PolledPort(s) /\ ServicePort(s)' = ServicePort(s)
BY DEF PolledPort, ServicePort, Default

\* Every step keeps the types.
LEMMA TypeStep == TypeOK /\ StagesOK /\ [Next]_vars => TypeOK'
<1> SUFFICES ASSUME TypeOK, StagesOK, [Next]_vars PROVE TypeOK'
  OBVIOUS
<1> USE DEF TypeOK, strangers
<1>1. CASE PortsPass \/ ChecksFail
  BY <1>1 DEF PortsPass, PortPasses, ChecksFail, services, Scripts, Preparing
<1>2. CASE Installed
  BY <1>2, StartupAssumption DEF Installed, Start, Scripts, Services, Preparing, StagesOK
<1>3. CASE BridgeReady
  BY <1>3, StartupAssumption DEF BridgeReady, Answers, Start, Scripts, Services, StagesOK
<1>4. CASE BotReady
  BY <1>4 DEF BotReady, services, Scripts
<1>5. ASSUME NEW s \in Services, Waits(s) PROVE TypeOK'
  BY <1>5, StartupAssumption DEF Waits, services
<1>6. ASSUME NEW s \in Services, GivesUp(s) PROVE TypeOK'
  BY <1>6 DEF GivesUp, Kill, services, Scripts
<1>7. CASE Watch
  BY <1>7 DEF Watch, Kill, services, Scripts
<1>8. ASSUME NEW reached \in SUBSET Services, Interrupted(reached) PROVE TypeOK'
  BY <1>8 DEF Interrupted, Kill, services, Scripts
<1>9. CASE BridgeListens
  BY <1>9, PortTypes DEF BridgeListens, Services
<1>10. CASE BotListens
  BY <1>10, PortTypes DEF BotListens, Services
<1>11. ASSUME NEW s \in Services, Ends(s) PROVE TypeOK'
  BY <1>11 DEF Ends
<1>12. CASE Stranger
  BY <1>12 DEF Stranger, StrangerBinds, StrangerLeaves, services
<1>13. CASE UNCHANGED vars
  BY <1>13 DEF vars, services
<1>14. QED
  BY <1>1, <1>2, <1>3, <1>4, <1>5, <1>6, <1>7, <1>8, <1>9, <1>10, <1>11, <1>12, <1>13
     DEF Next, Script, Service

\* Every step starts its service in its stage, on its port.
LEMMA StagesStep == TypeOK /\ StagesOK /\ [Next]_vars => StagesOK'
<1> SUFFICES ASSUME TypeOK, StagesOK, [Next]_vars PROVE StagesOK'
  OBVIOUS
<1> DEFINE Bound == \A s \in Services : bound[s] \in {NoPort, ServicePort(s)}
<1> USE DEF StagesOK
<1>0. ASSUME UNCHANGED env, UNCHANGED bound PROVE Bound'
  BY <1>0, PortsStay
<1>1. CASE PortsPass \/ ChecksFail
  BY <1>1, <1>0 DEF PortsPass, PortPasses, ChecksFail, services, Preparing, Services
<1>2. CASE Installed
  BY <1>2, <1>0 DEF Installed, Start, TypeOK, Preparing, Services
<1>3. CASE BridgeReady
  BY <1>3, <1>0 DEF BridgeReady, Answers, Start, Preparing, Services
<1>4. CASE BotReady
  BY <1>4, <1>0 DEF BotReady, services, Preparing, Services
<1>5. ASSUME NEW s \in Services, Waits(s) PROVE StagesOK'
  BY <1>5, <1>0 DEF Waits, services
<1>6. ASSUME NEW s \in Services, GivesUp(s) PROVE StagesOK'
  BY <1>6, <1>0 DEF GivesUp, services, Preparing, Services
<1>7. CASE Watch
  BY <1>7, <1>0 DEF Watch, services, Preparing, Services
<1>8. ASSUME NEW reached \in SUBSET Services, Interrupted(reached) PROVE StagesOK'
  BY <1>8, <1>0 DEF Interrupted, services, Preparing, Services
<1>9. CASE BridgeListens
  <2>1. Bound'
    BY <1>9, PortsStay DEF BridgeListens, TypeOK
  <2>2. QED
    BY <1>9, <2>1 DEF BridgeListens, TypeOK, Services
<1>10. CASE BotListens
  <2>1. Bound'
    BY <1>10, PortsStay DEF BotListens, TypeOK
  <2>2. QED
    BY <1>10, <2>1 DEF BotListens, TypeOK, Services
<1>11. ASSUME NEW s \in Services, Ends(s) PROVE StagesOK'
  <2>1. Bound'
    BY <1>11, PortsStay DEF Ends, TypeOK
  <2>2. QED
    BY <1>11, <2>1 DEF Ends, Runs, TypeOK, Services
<1>12. CASE Stranger
  BY <1>12, <1>0 DEF Stranger, StrangerBinds, StrangerLeaves, services
<1>13. CASE UNCHANGED vars
  BY <1>13, <1>0 DEF vars, services
<1>14. QED
  BY <1>1, <1>2, <1>3, <1>4, <1>5, <1>6, <1>7, <1>8, <1>9, <1>10, <1>11, <1>12, <1>13
     DEF Next, Script, Service

\* Strangers are noted when they come, and no port is forgotten while one is there.
LEMMA StrangersStep == StrangersNoted /\ [Next]_vars => StrangersNoted'
<1> SUFFICES ASSUME StrangersNoted, [Next]_vars PROVE StrangersNoted'
  OBVIOUS
<1> USE DEF StrangersNoted
<1>1. CASE PortsPass
  BY <1>1 DEF PortsPass, PortPasses, port_available, InUse
<1>2. CASE Stranger
  BY <1>2 DEF Stranger, StrangerBinds, StrangerLeaves
<1>3. CASE UNCHANGED strangers
  BY <1>3 DEF strangers
<1>4. QED
  BY <1>1, <1>2, <1>3 DEF Next, Script, Service, Installed, ChecksFail, BridgeReady, BotReady, Waits,
         GivesUp, Watch, Interrupted, BridgeListens, BotListens, Ends, vars

\* Once it waits for a service or watches, the script forgets no stranger.
LEMMA TakenGrows ==
    ASSUME [Next]_vars, script \notin Preparing
    PROVE  taken \subseteq taken'
<1>1. CASE Stranger
  BY <1>1 DEF Stranger, StrangerBinds, StrangerLeaves
<1>2. CASE UNCHANGED strangers
  BY <1>2 DEF strangers
<1>3. QED
  BY <1>1, <1>2 DEF Next, Script, Service, PortsPass, Preparing, Installed, ChecksFail, BridgeReady,
         BotReady, Waits, GivesUp, Watch, Interrupted, BridgeListens, BotListens, Ends, vars

\* The environment never changes.
LEMMA EnvStays == [Next]_vars => UNCHANGED env
BY DEF Next, Script, Service, PortsPass, PortPasses, Installed, ChecksFail, BridgeReady, BotReady,
       Waits, GivesUp, Watch, Interrupted, BridgeListens, BotListens, Ends, Stranger,
       StrangerBinds, StrangerLeaves, vars

\* A service that waits for its port has none, and has not ended.
LEMMA ListensOnce ==
    ASSUME TypeOK, NEW s \in Services, NEW p \in Ports, process[s] = "starting"
    PROVE  process[s] # "ended" /\ bound[s] # p
BY StartupAssumption DEF TypeOK

\* The steps that leave services and their ports alone, and do not end a wait.
Quiet ==
    /\ UNCHANGED services
    /\ script' = "bot" => script = "bot"
    /\ script' = "monitor" => script = "monitor"

\* All other steps start a service, take its answer, or are its own.
LEMMA StepKinds ==
    ASSUME [Next]_vars
    PROVE  \/ Quiet
           \/ Installed \/ BridgeReady \/ BotReady
           \/ BridgeListens \/ BotListens
           \/ \E s \in Services : Ends(s)
BY DEF Next, Script, Service, PortsPass, PortPasses, ChecksFail, Waits, GivesUp, Watch, Interrupted,
       Stranger, StrangerBinds, StrangerLeaves, vars, services, Quiet

\* Where the script is watching the bridge, its process can only end.
LEMMA BridgeStep == IInv /\ [Next]_vars => BridgeWasReady'
<1> SUFFICES ASSUME IInv, [Next]_vars, script' \in {"bot", "monitor"}
             PROVE  \/ process'["bridge"] = "ended"
                    \/ bound'["bridge"] = PolledPort("bridge")
                    \/ PolledPort("bridge") \in taken'
  BY EnvStays, PortsStay DEF BridgeWasReady, Services
<1> USE DEF IInv
<1>0. PolledPort("bridge") \in Ports
  BY PortTypes DEF Services
<1>1. CASE script \in {"bot", "monitor"}
  <2>1. taken \subseteq taken'
    BY <1>1, TakenGrows DEF Preparing
  <2>2. CASE UNCHANGED services \/ BotListens
    BY <1>1, <2>1, <2>2 DEF BridgeWasReady, services, BotListens, TypeOK, Services
  <2>3. ASSUME NEW s \in Services, Ends(s)
        PROVE  \/ process'["bridge"] = "ended"
               \/ bound'["bridge"] = bound["bridge"] /\ process'["bridge"] = process["bridge"]
    BY <2>3 DEF Ends, TypeOK, Services
  <2>4. CASE BridgeListens
    BY <1>0, <1>1, <2>1, <2>4, ListensOnce DEF BridgeListens, BridgeWasReady, Services
  <2>5. QED
    BY <1>1, <2>1, <2>2, <2>3, <2>4, StepKinds
       DEF Quiet, Installed, BridgeReady, BotReady, Answers, BridgeWasReady, Preparing
<1>2. CASE script \notin {"bot", "monitor"}
  <2>1. BridgeReady
    BY <1>2, StepKinds DEF Quiet, Installed, Start, BotReady, Answers, BridgeListens, BotListens, Ends
  <2>2. bound["bot"] = NoPort /\ UNCHANGED <<bound, taken>>
    BY <2>1 DEF BridgeReady, Answers, StagesOK, TypeOK, Services, strangers
  <2>3. QED
    BY <1>0, <2>1, <2>2, StartupAssumption
       DEF BridgeReady, Answers, InUse, StrangersNoted, Services
<1>3. QED
  BY <1>1, <1>2

\* The bot's poll is answered by the bot, by a bridge on the same port, or by a
\* stranger.
LEMMA WatchedStep == IInv /\ [Next]_vars => WatchedAreReady'
<1> SUFFICES ASSUME IInv, [Next]_vars, script' = "monitor" PROVE WatchedAreReady'
  BY DEF WatchedAreReady
<1> DEFINE Ready(s) == \/ process[s] = "ended"
                       \/ bound[s] = PolledPort(s)
                       \/ PolledPort(s) \in taken
<1> USE DEF IInv
<1>1. /\ \A s \in Services : PolledPort(s)' = PolledPort(s) /\ PolledPort(s) \in Ports
      /\ Clash' <=> Clash
  BY EnvStays, PortsStay, PortTypes DEF Clash, Services
<1>3. Ready("bridge")'
  BY <1>1, BridgeStep DEF BridgeWasReady, Services
<1>2. SUFFICES Ready("bot")' \/ BridgeAnswersForBot'
  BY <1>1, <1>3 DEF WatchedAreReady, Services
<1>4. CASE script = "monitor"
  <2>1. Ready("bot") \/ BridgeAnswersForBot
    BY <1>4 DEF WatchedAreReady, Services
  <2>2. taken \subseteq taken'
    BY <1>4, TakenGrows DEF Preparing
  <2>3. CASE UNCHANGED services
    BY <1>1, <2>1, <2>2, <2>3 DEF services, BridgeAnswersForBot, Services
  <2>4. CASE BridgeListens
    <3>1. process["bridge"] # "ended" /\ bound["bridge"] # PolledPort("bot")
      BY <1>1, <2>4, ListensOnce DEF BridgeListens, Services
    <3>2. Ready("bot")
      BY <2>1, <3>1 DEF BridgeAnswersForBot
    <3>3. QED
      BY <1>1, <2>2, <2>4, <3>2 DEF BridgeListens, TypeOK, Services
  <2>5. CASE BotListens
    <3>1. process["bot"] # "ended" /\ bound["bot"] # PolledPort("bot")
      BY <1>1, <2>5, ListensOnce DEF BotListens, Services
    <3>2. PolledPort("bot") \in taken \/ BridgeAnswersForBot
      BY <2>1, <3>1
    <3>3. bound'["bridge"] = bound["bridge"] /\ process'["bridge"] = process["bridge"]
      BY <2>5 DEF BotListens, TypeOK, Services
    <3>4. QED
      BY <1>1, <2>2, <3>2, <3>3 DEF BridgeAnswersForBot, Services
  <2>6. ASSUME NEW s \in Services, Ends(s) PROVE Ready("bot")' \/ BridgeAnswersForBot'
    <3>1. \A t \in Services :
             process'[t] = "ended" \/ (process'[t] = process[t] /\ bound'[t] = bound[t])
      BY <2>6 DEF Ends, TypeOK
    <3>2. QED
      BY <1>1, <2>1, <2>2, <3>1 DEF BridgeAnswersForBot, Services
  <2>7. QED
    BY <1>4, <2>3, <2>4, <2>5, <2>6, StepKinds
       DEF Quiet, Installed, BridgeReady, BotReady, Answers, Preparing
<1>5. CASE script # "monitor"
  <2>1. BotReady
    BY <1>5, StepKinds
       DEF Quiet, Installed, Start, BridgeReady, BridgeListens, BotListens, Ends, Services
  <2>2. UNCHANGED services /\ UNCHANGED taken
    BY <2>1 DEF BotReady, strangers
  <2>3. \/ PolledPort("bot") \in taken
        \/ bound["bot"] = PolledPort("bot")
        \/ bound["bridge"] = PolledPort("bot")
    BY <2>1 DEF BotReady, Answers, InUse, StrangersNoted, Services
  <2>4. ASSUME bound["bridge"] = PolledPort("bot") PROVE Clash
    <3>1. PolledPort("bot") = ServicePort("bot")
      BY DEF PolledPort, ServicePort
    <3>2. bound["bridge"] = ServicePort("bridge")
      BY <1>1, <2>4, StartupAssumption DEF StagesOK, Services
    <3>3. QED
      BY <2>4, <3>1, <3>2 DEF Clash
  <2>5. QED
    BY <1>1, <2>2, <2>3, <2>4 DEF services, BridgeAnswersForBot, Services
<1>6. QED
  BY <1>4, <1>5

\* The inductive invariant holds in every reachable state.
THEOREM StartupInvariant == Spec => []IInv
<1>1. IInv /\ [Next]_vars => IInv'
  BY TypeStep, StagesStep, StrangersStep, BridgeStep, WatchedStep DEF IInv
<1>2. QED
  BY InitIInv, <1>1, PTL DEF Spec

\* Attempts are bounded, and only a process that is up has a port: start.sh and
\* the two services, in every environment.
THEOREM StartupTypes == Spec => []TypeOK
<1>1. IInv => TypeOK
  BY DEF IInv
<1>2. QED
  BY StartupInvariant, <1>1, PTL

\* When the script watches, after "All services started successfully!", each
\* service has its port or has ended, or a stranger took its port after it was
\* checked, or the bridge has answered for the bot on a port that both want.
THEOREM StartedMeansReady == Spec => []WatchedAreReady
<1>1. IInv => WatchedAreReady
  BY DEF IInv
<1>2. QED
  BY StartupInvariant, <1>1, PTL

-----------------------------------------------------------------------------
(* What the script leaves behind, and what it cannot start.                *)

\* A script that has exited has sent a signal to each service that still runs.
ExitSignalsAll ==
    script = "exited" => \A s \in Services : Runs(s) => s \in signalled

\* What NoneLeftBehind rests on: when the script exits, because a service did not
\* come up or has died or after its trap, every service has ended or has a signal
\* that it will end on, and none is started any more.
THEOREM ExitsSignalAll == Spec => []ExitSignalsAll
<1> USE DEF ExitSignalsAll, Runs
<1>1. Init => ExitSignalsAll
  BY DEF Init
<1>2. IInv /\ ExitSignalsAll /\ [Next]_vars => ExitSignalsAll'
  <2> SUFFICES ASSUME IInv, ExitSignalsAll, [Next]_vars PROVE ExitSignalsAll'
    OBVIOUS
  <2>1. CASE Script
    <3>1. CASE PortsPass \/ Installed \/ BridgeReady
      BY <3>1 DEF PortsPass, PortPasses, Installed, BridgeReady, Start, Services
    <3>2. CASE ChecksFail
      BY <3>2 DEF ChecksFail, services, IInv, StagesOK
    <3>3. CASE BotReady
      BY <3>3 DEF BotReady
    <3>4. ASSUME NEW s \in Services, Waits(s) PROVE ExitSignalsAll'
      BY <3>4 DEF Waits, services, Services
    <3>5. ASSUME NEW s \in Services, GivesUp(s) PROVE ExitSignalsAll'
      BY <3>5 DEF GivesUp, Kill, services
    <3>6. CASE Watch
      BY <3>6 DEF Watch, Kill, services
    <3> QED
      BY <2>1, <3>1, <3>2, <3>3, <3>4, <3>5, <3>6 DEF Script
  <2>2. CASE BridgeListens
    BY <2>2 DEF BridgeListens, IInv, TypeOK
  <2>3. CASE BotListens
    BY <2>3 DEF BotListens, IInv, TypeOK
  <2>4. ASSUME NEW s \in Services, Ends(s) PROVE ExitSignalsAll'
    BY <2>4 DEF Ends, IInv, TypeOK
  <2>5. ASSUME NEW reached \in SUBSET Services, Interrupted(reached) PROVE ExitSignalsAll'
    BY <2>5 DEF Interrupted, Kill, services
  <2>6. CASE Stranger
    BY <2>6 DEF Stranger, StrangerBinds, StrangerLeaves, services
  <2>7. CASE UNCHANGED vars
    BY <2>7 DEF vars, services
  <2> QED
    BY <2>1, <2>2, <2>3, <2>4, <2>5, <2>6, <2>7 DEF Next, Service
<1> QED
  BY <1>1, <1>2, StartupInvariant, PTL DEF Spec

\* A bridge that will bind another port than the one start.sh polls.
Mispolled == PolledPort("bridge") # ServicePort("bridge")

\* The script has got past its wait for the bridge.
BridgeAccepted == script \in {"bot", "monitor"}

\* The bridge's polled port has been a stranger's since it was found free, or
\* nobody has looked.
PolledPortTaken == PolledPort("bridge") \in taken

\* An environment that sets PORT to anything but the port polled for the bridge,
\* as .env.example does, lets no start succeed by its own means: the bridge does
\* not listen there, and the script comes to start the bot only after a stranger
\* has taken that port behind its check.
THEOREM MispolledNeverStarts == Spec => [](Mispolled /\ BridgeAccepted => PolledPortTaken)
<1> USE DEF BridgeAccepted
<1>1. Init => ~BridgeAccepted
  BY DEF Init
<1>2. /\ IInv /\ (Mispolled /\ BridgeAccepted => PolledPortTaken) /\ [Next]_vars
      => (Mispolled /\ BridgeAccepted => PolledPortTaken)'
  <2> SUFFICES ASSUME IInv, Mispolled /\ BridgeAccepted => PolledPortTaken, [Next]_vars,
                      Mispolled', BridgeAccepted'
               PROVE  PolledPortTaken'
    OBVIOUS
  <2>1. Mispolled /\ PolledPort("bridge")' = PolledPort("bridge")
    BY EnvStays, PortsStay DEF Mispolled, Services
  <2>2. CASE BridgeAccepted
    <3>1. taken \subseteq taken'
      BY <2>2, TakenGrows DEF Preparing
    <3> QED
      BY <2>1, <2>2, <3>1 DEF PolledPortTaken
  <2>3. CASE ~BridgeAccepted
    <3>1. BridgeReady
      BY <2>3, StepKinds
         DEF Quiet, Installed, Start, BotReady, Answers, BridgeListens, BotListens, Ends
    <3>2. PolledPort("bridge") \in Ports
      BY PortTypes DEF IInv, Services
    <3>3. bound["bot"] = NoPort /\ taken' = taken
      BY <3>1 DEF BridgeReady, Answers, IInv, StagesOK, TypeOK, Services, strangers
    <3>4. bound["bridge"] # PolledPort("bridge")
      BY <2>1, <3>2, StartupAssumption DEF Mispolled, IInv, StagesOK, Services
    <3>5. PolledPort("bridge") \in inUse
      BY <3>1, <3>2, <3>3, <3>4, StartupAssumption DEF BridgeReady, Answers, InUse, Services
    <3> QED
      BY <2>1, <3>3, <3>5 DEF PolledPortTaken, IInv, StrangersNoted
  <2> QED
    BY <2>2, <2>3
<1> QED
  BY <1>1, <1>2, StartupInvariant, PTL DEF Spec

=============================================================================
