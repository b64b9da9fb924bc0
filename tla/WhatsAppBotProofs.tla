-------------------------- MODULE WhatsAppBotProofs --------------------------
(***************************************************************************)
(* Theorems about WhatsAppBot for any number of bots and of requests to    *)
(* /restart, and any limit of reconnection attempts.                       *)
(***************************************************************************)
EXTENDS WhatsAppBot, TLAPS

\* A bot that has not been made has nothing under way, which is why the start
\* of a bot gives it its only link.
NewBotsAreIdle == \A b \in Bots \ created : ~IsBusy(b)

LinksTypeOK == links \in [Bots -> [Stages -> Nat]]

-----------------------------------------------------------------------------
(* What the three changes of links do.                                     *)

\* A link that moves from one stage to another is still the only one.
LEMMA MoveFacts ==
    ASSUME LinksTypeOK, OneLinkPerBot,
           NEW b \in Bots, NEW s \in Stages, NEW t \in Stages, s # t, Move(b, s, t)
    PROVE  /\ LinksTypeOK'
           /\ OneLinkPerBot'
           /\ \A c \in Bots \ {b} : links'[c] = links[c]
           /\ \A p \in Stages : links[b][p] > 0 <=> p = s
           /\ \A p \in Stages : links'[b][p] > 0 <=> p = t
<1>1. /\ links[b] \in [Stages -> Nat]
      /\ links[b][s] = 1
      /\ \A p \in Stages \ {s} : links[b][p] = 0
  BY DEF LinksTypeOK, OneLinkPerBot, Move
<1>2. /\ LinksTypeOK'
      /\ \A c \in Bots \ {b} : links'[c] = links[c]
      /\ links'[b] = [links[b] EXCEPT ![s] = @ - 1, ![t] = @ + 1]
  BY <1>1 DEF LinksTypeOK, Move
<1>3. \A p \in Stages : links'[b][p] = IF p = t THEN 1 ELSE 0
  BY <1>1, <1>2
<1>4. OneLinkPerBot'
  <2> SUFFICES ASSUME NEW c \in Bots, NEW p \in Stages, NEW q \in Stages
               PROVE  /\ links'[c][p] <= 1
                      /\ links'[c][p] > 0 /\ links'[c][q] > 0 => p = q
    BY DEF OneLinkPerBot
  <2>1. CASE c = b
    BY <1>3, <2>1
  <2>2. CASE c # b
    BY <1>2, <2>2 DEF OneLinkPerBot
  <2> QED
    BY <2>1, <2>2
<1>5. \A p \in Stages : links[b][p] > 0 <=> p = s
  BY <1>1
<1>6. \A p \in Stages : links'[b][p] > 0 <=> p = t
  BY <1>3
<1> QED
  BY <1>2, <1>4, <1>5, <1>6

\* A bot that loses its link has none.
LEMMA DropFacts ==
    ASSUME LinksTypeOK, OneLinkPerBot,
           NEW b \in Bots, NEW s \in Stages, links[b][s] > 0
    PROVE  LET left == [links EXCEPT ![b][s] = @ - 1]
           IN  /\ left \in [Bots -> [Stages -> Nat]]
               /\ \A c \in Bots \ {b} : left[c] = links[c]
               /\ \A p \in Stages : links[b][p] > 0 <=> p = s
               /\ \A p \in Stages : left[b][p] = 0
<1> DEFINE left == [links EXCEPT ![b][s] = @ - 1]
<1>1. /\ links[b] \in [Stages -> Nat]
      /\ links[b][s] = 1
      /\ \A p \in Stages \ {s} : links[b][p] = 0
  BY DEF LinksTypeOK, OneLinkPerBot
<1>2. /\ left \in [Bots -> [Stages -> Nat]]
      /\ \A c \in Bots \ {b} : left[c] = links[c]
      /\ left[b] = [links[b] EXCEPT ![s] = @ - 1]
  BY <1>1 DEF LinksTypeOK
<1> HIDE DEF left
<1>3. \A p \in Stages : left[b][p] = 0
  BY <1>1, <1>2
<1>4. \A p \in Stages : links[b][p] > 0 <=> p = s
  BY <1>1
<1> QED
  BY <1>2, <1>3, <1>4 DEF left

\* After disconnect no bot has a link that it did not have.
LEMMA DisconnectFacts ==
    ASSUME LinksTypeOK, OneLinkPerBot,
           NEW b \in Bots \cup {NoBot}, NEW left \in disconnect(b)
    PROVE  /\ left \in [Bots -> [Stages -> Nat]]
           /\ \A c \in Bots, p \in Stages : left[c][p] = links[c][p] \/ left[c][p] = 0
           /\ left # links => b \in Bots /\ \A p \in Stages : left[b][p] = 0
           /\ \A c \in Bots \ {b} : left[c] = links[c]
<1>1. CASE left = links
  BY <1>1 DEF LinksTypeOK
<1>2. CASE left # links
  <2>1. PICK s \in Sockets : /\ b # NoBot /\ links[b][s] > 0
                             /\ left = [links EXCEPT ![b][s] = @ - 1]
    BY <1>2 DEF disconnect
  <2>2. b \in Bots /\ s \in Stages
    BY <2>1 DEF Sockets, Stages
  <2>3. /\ left \in [Bots -> [Stages -> Nat]]
        /\ \A c \in Bots \ {b} : left[c] = links[c]
        /\ \A p \in Stages : left[b][p] = 0
    BY <2>1, <2>2, DropFacts
  <2> QED
    BY <2>2, <2>3
<1> QED
  BY <1>1, <1>2

\* A bot that had nothing under way and starts has its only link.
LEMMA StartFacts ==
    ASSUME NEW left \in [Bots -> [Stages -> Nat]], NEW b \in Bots,
           \A p \in Stages : left[b][p] = 0,
           links' = [left EXCEPT ![b]["starting"] = @ + 1]
    PROVE  /\ LinksTypeOK'
           /\ \A c \in Bots \ {b} : links'[c] = left[c]
           /\ \A p \in Stages : links'[b][p] = IF p = "starting" THEN 1 ELSE 0
<1>1. "starting" \in Stages
  BY DEF Stages
<1>2. left[b] \in [Stages -> Nat]
  OBVIOUS
<1>3. links'[b] = [left[b] EXCEPT !["starting"] = @ + 1]
  BY <1>1
<1> QED
  BY <1>1, <1>2, <1>3 DEF LinksTypeOK

-----------------------------------------------------------------------------

\* The types of everything but links and flags.
OthersTypeOK ==
    /\ bot \in Bots \cup {NoBot}
    /\ created \subseteq Bots
    /\ requests \in [Requests -> Request]
    /\ sigint \in Request
    /\ exited \in BOOLEAN

AttemptsTypeOK == reconnectAttempts \in [Bots -> 0..maxReconnectAttempts]

FlagsTypeOK == isConnectedFlag \in [Bots -> BOOLEAN]

\* The inductive invariant about links.
LinksInv == LinksTypeOK /\ NewBotsAreIdle /\ OneLinkPerBot

\* Types that have nothing to do with links.
LEMMA OthersKeepTypes ==
    ASSUME OthersTypeOK, AttemptsTypeOK, FlagsTypeOK, [Next]_vars
    PROVE  OthersTypeOK' /\ AttemptsTypeOK' /\ FlagsTypeOK'
<1> USE BotAssumption DEF OthersTypeOK, AttemptsTypeOK, FlagsTypeOK
<1>1. CASE UNCHANGED vars
  BY <1>1 DEF vars, botVars, flagVars, exitVars
<1>2. CASE Control
  <2>1. ASSUME NEW b \in Bots, Listen(b)
        PROVE  OthersTypeOK' /\ AttemptsTypeOK' /\ FlagsTypeOK'
    BY <2>1 DEF Listen, Create, flagVars, exitVars
  <2>2. ASSUME NEW r \in Requests, RestartRequested(r)
        PROVE  OthersTypeOK' /\ AttemptsTypeOK' /\ FlagsTypeOK'
    <3>1. [at |-> "logout", on |-> bot] \in Request
      BY DEF Request
    <3> QED
      BY <2>2, <3>1 DEF RestartRequested, botVars, flagVars, exitVars
  <2>3. ASSUME NEW r \in Requests, NEW b \in Bots, Restart(r, b)
        PROVE  OthersTypeOK' /\ AttemptsTypeOK' /\ FlagsTypeOK'
    <3>1. [at |-> "starting", on |-> b] \in Request
      BY DEF Request
    <3>2. OthersTypeOK' /\ AttemptsTypeOK'
      BY <2>3, <3>1 DEF Restart, Create, exitVars
    <3>3. FlagsTypeOK'
      BY <2>3 DEF Restart, FlagAfter
    <3> QED
      BY <3>2, <3>3
  <2>4. CASE Interrupted
    <3>1. [at |-> "logout", on |-> bot] \in Request
      BY DEF Request, OthersTypeOK
    <3> QED
      BY <2>4, <3>1 DEF Interrupted, botVars, flagVars
  <2>5. CASE Exit
    <3>1. OthersTypeOK' /\ AttemptsTypeOK'
      BY <2>5 DEF Exit, botVars
    <3>2. FlagsTypeOK'
      BY <2>5 DEF Exit, FlagAfter
    <3> QED
      BY <3>1, <3>2
  <2> QED
    BY <1>2, <2>1, <2>2, <2>3, <2>4, <2>5 DEF Control
<1>3. ASSUME NEW b \in Bots, Lifecycle(b)
      PROVE  OthersTypeOK' /\ AttemptsTypeOK' /\ FlagsTypeOK'
  <2>1. CASE Started(b)
    <3>1. [at |-> "answered", on |-> b] \in Request
      BY DEF Request
    <3> QED
      BY <2>1, <3>1 DEF Started, botVars, flagVars, exitVars
  <2>2. CASE StartFails(b)
    BY <2>2 DEF StartFails, botVars, flagVars
  <2>3. CASE TimerFires(b)
    BY <2>3 DEF TimerFires, botVars, flagVars, exitVars
  <2>4. CASE Retried(b)
    BY <2>4 DEF Retried, botVars, flagVars, exitVars
  <2> QED
    BY <1>3, <2>1, <2>2, <2>3, <2>4 DEF Lifecycle
<1>4. ASSUME NEW b \in Bots, SocketEvent(b)
      PROVE  OthersTypeOK' /\ AttemptsTypeOK' /\ FlagsTypeOK'
  <2>1. CASE SocketOpens(b)
    BY <2>1 DEF SocketOpens, botVars, exitVars
  <2>2. ASSUME NEW loggedOut \in BOOLEAN, SocketCloses(b, loggedOut)
        PROVE  OthersTypeOK' /\ AttemptsTypeOK' /\ FlagsTypeOK'
    <3>1. OthersTypeOK' /\ FlagsTypeOK'
      BY <2>2 DEF SocketCloses, botVars, exitVars
    <3>2. AttemptsTypeOK'
      BY <2>2 DEF SocketCloses, Reconnects
    <3> QED
      BY <3>1, <3>2
  <2> QED
    BY <1>4, <2>1, <2>2 DEF SocketEvent
<1> QED
  BY <1>1, <1>2, <1>3, <1>4 DEF Next

\* Wherever links end up after they were moved or dropped, or a bot started,
\* no bot that has not been made is busy.
LEMMA MoveKeepsInv ==
    ASSUME LinksInv, NEW b \in Bots, NEW s \in Stages, NEW t \in Stages, s # t,
           Move(b, s, t), UNCHANGED created
    PROVE  LinksInv'
<1>1. /\ LinksTypeOK' /\ OneLinkPerBot'
      /\ \A c \in Bots \ {b} : links'[c] = links[c]
      /\ links[b][s] > 0
  BY MoveFacts DEF LinksInv
<1>2. b \in created
  BY <1>1 DEF LinksInv, NewBotsAreIdle, IsBusy
<1>3. NewBotsAreIdle'
  BY <1>1, <1>2 DEF LinksInv, NewBotsAreIdle, IsBusy
<1> QED
  BY <1>1, <1>3 DEF LinksInv

\* Links that are as they were, or gone.
LEMMA FewerKeepInv ==
    ASSUME LinksInv, UNCHANGED created,
           links' \in [Bots -> [Stages -> Nat]],
           \A c \in Bots, p \in Stages : links'[c][p] = links[c][p] \/ links'[c][p] = 0
    PROVE  LinksInv'
<1>1. LinksTypeOK'
  BY DEF LinksTypeOK
<1>2. \A c \in Bots, p \in Stages : links'[c][p] > 0 => links[c][p] > 0
  OBVIOUS
<1>3. NewBotsAreIdle'
  BY <1>2 DEF LinksInv, NewBotsAreIdle, IsBusy
<1>4. OneLinkPerBot'
  BY <1>2 DEF LinksInv, OneLinkPerBot
<1> QED
  BY <1>1, <1>3, <1>4 DEF LinksInv

\* A socket that closes for good, or a retry that throws.
LEMMA DropKeepsInv ==
    ASSUME LinksInv, NEW b \in Bots, NEW s \in Stages, Drop(b, s), UNCHANGED created
    PROVE  LinksInv'
<1>1. links[b][s] > 0 /\ links' = [links EXCEPT ![b][s] = @ - 1]
  BY DEF Drop
<1>2. /\ links' \in [Bots -> [Stages -> Nat]]
      /\ \A c \in Bots \ {b} : links'[c] = links[c]
      /\ \A p \in Stages : links'[b][p] = 0
  BY <1>1, DropFacts DEF LinksInv
<1> QED
  BY <1>2, FewerKeepInv

\* A new bot starts, after a disconnect or without one.
LEMMA StartKeepsInv ==
    ASSUME LinksInv, NEW b \in Bots, Create(b),
           NEW left \in [Bots -> [Stages -> Nat]],
           \A c \in Bots, p \in Stages : left[c][p] = links[c][p] \/ left[c][p] = 0,
           links' = [left EXCEPT ![b]["starting"] = @ + 1]
    PROVE  LinksInv'
<1>1. \A c \in Bots, p \in Stages : left[c][p] > 0 => links[c][p] > 0
  OBVIOUS
<1>2. \A p \in Stages : ~(links[b][p] > 0)
  BY DEF LinksInv, NewBotsAreIdle, IsBusy, Create
<1>3. \A p \in Stages : left[b][p] = 0
  BY <1>1, <1>2
<1>4. /\ LinksTypeOK'
      /\ \A c \in Bots \ {b} : links'[c] = left[c]
      /\ \A p \in Stages : links'[b][p] = IF p = "starting" THEN 1 ELSE 0
  BY <1>3, StartFacts
<1>5. NewBotsAreIdle'
  BY <1>1, <1>4 DEF LinksInv, NewBotsAreIdle, IsBusy, Create
<1>6. OneLinkPerBot'
  <2> SUFFICES ASSUME NEW c \in Bots, NEW p \in Stages, NEW q \in Stages
               PROVE  /\ links'[c][p] <= 1
                      /\ links'[c][p] > 0 /\ links'[c][q] > 0 => p = q
    BY DEF OneLinkPerBot
  <2>1. CASE c = b
    BY <1>4, <2>1
  <2>2. CASE c # b
    <3>1. /\ links'[c][p] = links[c][p] \/ links'[c][p] = 0
          /\ links'[c][q] = links[c][q] \/ links'[c][q] = 0
      BY <1>4, <2>2
    <3> QED
      BY <3>1 DEF LinksInv, OneLinkPerBot
  <2> QED
    BY <2>1, <2>2
<1> QED
  BY <1>4, <1>5, <1>6 DEF LinksInv

\* Every step keeps the types of links, one link per bot, and none for a bot not made.
LEMMA StepKeepsLinks ==
    ASSUME LinksInv, OthersTypeOK, [Next]_vars
    PROVE  LinksInv'
<1> USE DEF botVars
<1>0. LinksInv /\ UNCHANGED <<links, created>> => LinksInv'
  BY DEF LinksInv, LinksTypeOK, NewBotsAreIdle, OneLinkPerBot, IsBusy
<1>1. CASE UNCHANGED vars
  BY <1>0, <1>1 DEF vars
<1>2. CASE Control
  <2>1. ASSUME NEW b \in Bots, Listen(b) PROVE LinksInv'
    BY <2>1, StartKeepsInv DEF Listen, LinksInv, LinksTypeOK
  <2>2. ASSUME NEW r \in Requests, RestartRequested(r) PROVE LinksInv'
    BY <1>0, <2>2 DEF RestartRequested
  <2>3. ASSUME NEW r \in Requests, NEW b \in Bots, Restart(r, b) PROVE LinksInv'
    <3>1. requests[r].on \in Bots \cup {NoBot}
      BY DEF OthersTypeOK, Request
    <3>2. PICK left \in disconnect(requests[r].on) :
             links' = [left EXCEPT ![b]["starting"] = @ + 1]
      BY <2>3 DEF Restart
    <3>3. /\ left \in [Bots -> [Stages -> Nat]]
          /\ \A c \in Bots, p \in Stages : left[c][p] = links[c][p] \/ left[c][p] = 0
      BY <3>1, <3>2, DisconnectFacts DEF LinksInv
    <3> QED
      BY <2>3, <3>2, <3>3, StartKeepsInv DEF Restart
  <2>4. CASE Interrupted
    BY <1>0, <2>4 DEF Interrupted
  <2>5. CASE Exit
    <3>1. links' \in disconnect(sigint.on)
      BY <2>5 DEF Exit
    <3>0. sigint.on \in Bots \cup {NoBot}
      BY DEF OthersTypeOK, Request
    <3>2. /\ links' \in [Bots -> [Stages -> Nat]]
          /\ \A c \in Bots, p \in Stages : links'[c][p] = links[c][p] \/ links'[c][p] = 0
      BY <3>0, <3>1, DisconnectFacts DEF LinksInv
    <3> QED
      BY <2>5, <3>2, FewerKeepInv DEF Exit
  <2> QED
    BY <1>2, <2>1, <2>2, <2>3, <2>4, <2>5 DEF Control
<1>3. ASSUME NEW b \in Bots, Lifecycle(b) PROVE LinksInv'
  <2> USE DEF Stages
  <2>1. CASE Started(b)
    BY <2>1, MoveKeepsInv DEF Started
  <2>2. CASE StartFails(b)
    BY <1>0, <2>2 DEF StartFails
  <2>3. CASE TimerFires(b)
    BY <2>3, MoveKeepsInv DEF TimerFires
  <2>4. CASE Retried(b)
    BY <2>4, MoveKeepsInv, DropKeepsInv DEF Retried
  <2> QED
    BY <1>3, <2>1, <2>2, <2>3, <2>4 DEF Lifecycle
<1>4. ASSUME NEW b \in Bots, SocketEvent(b) PROVE LinksInv'
  <2> USE DEF Stages, Sockets
  <2>1. CASE SocketOpens(b)
    BY <2>1, MoveKeepsInv DEF SocketOpens
  <2>2. ASSUME NEW loggedOut \in BOOLEAN, SocketCloses(b, loggedOut) PROVE LinksInv'
    <3>1. PICK s \in Sockets : Move(b, s, "timer") \/ Drop(b, s)
      BY <2>2 DEF SocketCloses
    <3> QED
      BY <2>2, <3>1, MoveKeepsInv, DropKeepsInv DEF SocketCloses
  <2> QED
    BY <1>4, <2>1, <2>2 DEF SocketEvent
<1> QED
  BY <1>1, <1>2, <1>3, <1>4 DEF Next

-----------------------------------------------------------------------------

\* A step that changes no flag, and not which bots have an open socket.
LEMMA FlagKept ==
    ASSUME FlagIsHonest, UNCHANGED isConnectedFlag,
           \A c \in Bots : links'[c]["open"] > 0 <=> links[c]["open"] > 0
    PROVE  FlagIsHonest'
  BY Zenon DEF FlagIsHonest

\* A bot whose socket opens or closes sets its flag to match.
LEMMA FlagSet ==
    ASSUME FlagIsHonest, FlagsTypeOK, NEW b \in Bots, NEW value \in BOOLEAN,
           isConnectedFlag' = [isConnectedFlag EXCEPT ![b] = value],
           \A c \in Bots \ {b} : links'[c] = links[c],
           links'[b]["open"] > 0 <=> value
    PROVE  FlagIsHonest'
<1>1. isConnectedFlag'[b] = value
  BY DEF FlagsTypeOK
<1>2. \A c \in Bots \ {b} : isConnectedFlag'[c] = isConnectedFlag[c]
  BY DEF FlagsTypeOK
<1> SUFFICES ASSUME NEW c \in Bots
             PROVE  isConnectedFlag'[c] <=> links'[c]["open"] > 0
  BY DEF FlagIsHonest
<1>3. CASE c = b
  BY <1>1, <1>3, Zenon
<1>4. CASE c # b
  BY <1>2, <1>4, Zenon DEF FlagIsHonest
<1> QED
  BY <1>3, <1>4

\* disconnect leaves an honest flag: it is cleared with the socket that closed.
LEMMA DisconnectFlag ==
    ASSUME LinksInv, FlagsTypeOK, FlagIsHonest,
           NEW b \in Bots \cup {NoBot}, NEW left \in disconnect(b),
           isConnectedFlag' = FlagAfter(left, b),
           \A c \in Bots : links'[c]["open"] > 0 <=> left[c]["open"] > 0
    PROVE  FlagIsHonest'
<1>1. "open" \in Stages
  BY DEF Stages
<1>2. /\ left # links => b \in Bots /\ \A p \in Stages : left[b][p] = 0
      /\ \A c \in Bots \ {b} : left[c] = links[c]
  BY DisconnectFacts DEF LinksInv
<1>3. CASE left = links
  BY <1>3, FlagKept DEF FlagAfter
<1>4. CASE left # links
  <2>1. b \in Bots /\ left[b]["open"] = 0
    BY <1>1, <1>2, <1>4
  <2>2. isConnectedFlag' = [isConnectedFlag EXCEPT ![b] = FALSE]
    BY <1>4 DEF FlagAfter
  <2>3. isConnectedFlag'[b] = FALSE
    BY <2>1, <2>2 DEF FlagsTypeOK
  <2>4. \A c \in Bots \ {b} : isConnectedFlag'[c] = isConnectedFlag[c]
    BY <2>2 DEF FlagsTypeOK
  <2>5. ~(links'[b]["open"] > 0)
    BY <2>1
  <2>6. \A c \in Bots \ {b} : links'[c]["open"] > 0 <=> links[c]["open"] > 0
    BY <1>2
  <2> SUFFICES ASSUME NEW c \in Bots
               PROVE  isConnectedFlag'[c] <=> links'[c]["open"] > 0
    BY DEF FlagIsHonest
  <2>7. CASE c = b
    BY <2>3, <2>5, <2>7, Zenon
  <2>8. CASE c # b
    BY <2>4, <2>6, <2>8, Zenon DEF FlagIsHonest
  <2> QED
    BY <2>7, <2>8
<1> QED
  BY <1>3, <1>4

\* Every step keeps the flags honest, given that a bot has one link.
LEMMA StepKeepsFlags ==
    ASSUME LinksInv, OthersTypeOK, FlagsTypeOK, FlagIsHonest, [Next]_vars
    PROVE  FlagIsHonest'
<1> USE DEF flagVars
<1>0. UNCHANGED <<links, isConnectedFlag>> => FlagIsHonest'
  BY FlagKept
<1>1. CASE UNCHANGED vars
  BY <1>0, <1>1 DEF vars
<1>2. CASE Control
  <2>1. ASSUME NEW b \in Bots, Listen(b) PROVE FlagIsHonest'
    <3>1. \A c \in Bots : links'[c]["open"] = links[c]["open"]
      BY <2>1 DEF Listen, LinksInv, LinksTypeOK, Stages
    <3> QED
      BY <2>1, <3>1, FlagKept DEF Listen
  <2>2. ASSUME NEW r \in Requests, RestartRequested(r) PROVE FlagIsHonest'
    BY <1>0, <2>2 DEF RestartRequested
  <2>3. ASSUME NEW r \in Requests, NEW b \in Bots, Restart(r, b) PROVE FlagIsHonest'
    <3>1. requests[r].on \in Bots \cup {NoBot}
      BY DEF OthersTypeOK, Request
    <3>2. PICK left \in disconnect(requests[r].on) :
             /\ links' = [left EXCEPT ![b]["starting"] = @ + 1]
             /\ isConnectedFlag' = FlagAfter(left, requests[r].on)
      BY <2>3 DEF Restart
    <3>3. left \in [Bots -> [Stages -> Nat]]
      BY <3>1, <3>2, DisconnectFacts DEF LinksInv
    <3>4. \A c \in Bots : links'[c]["open"] = left[c]["open"]
      BY <3>2, <3>3 DEF Stages
    <3> QED
      BY <3>1, <3>2, <3>4, DisconnectFlag
  <2>4. CASE Interrupted
    BY <1>0, <2>4 DEF Interrupted
  <2>5. CASE Exit
    <3>1. links' \in disconnect(sigint.on) /\ isConnectedFlag' = FlagAfter(links', sigint.on)
      BY <2>5 DEF Exit
    <3>2. sigint.on \in Bots \cup {NoBot}
      BY DEF OthersTypeOK, Request
    <3> QED
      BY <3>1, <3>2, DisconnectFlag
  <2> QED
    BY <1>2, <2>1, <2>2, <2>3, <2>4, <2>5 DEF Control
<1>3. ASSUME NEW b \in Bots, NEW s \in Stages, NEW t \in Stages, Move(b, s, t),
             s # t, s # "open", t # "open", UNCHANGED isConnectedFlag
      PROVE  FlagIsHonest'
  <2>1. /\ \A c \in Bots \ {b} : links'[c] = links[c]
        /\ \A p \in Stages : links[b][p] > 0 <=> p = s
        /\ \A p \in Stages : links'[b][p] > 0 <=> p = t
    BY <1>3, MoveFacts DEF LinksInv
  <2>2. \A c \in Bots : links'[c]["open"] > 0 <=> links[c]["open"] > 0
    BY <1>3, <2>1 DEF Stages
  <2> QED
    BY <1>3, <2>2, FlagKept
<1>4. ASSUME NEW b \in Bots, Lifecycle(b) PROVE FlagIsHonest'
  <2> USE DEF Stages
  <2>1. CASE Started(b)
    BY <1>3, <2>1 DEF Started
  <2>2. CASE StartFails(b)
    BY <1>0, <2>2 DEF StartFails
  <2>3. CASE TimerFires(b)
    BY <1>3, <2>3 DEF TimerFires
  <2>4. CASE Retried(b)
    <3>1. CASE Move(b, "retrying", "connecting")
      BY <1>3, <2>4, <3>1 DEF Retried
    <3>2. CASE Drop(b, "retrying")
      <4>1. links[b]["retrying"] > 0 /\ links' = [links EXCEPT ![b]["retrying"] = @ - 1]
        BY <3>2 DEF Drop
      <4>2. \A c \in Bots : links'[c]["open"] = links[c]["open"]
        BY <4>1 DEF LinksInv, LinksTypeOK
      <4> QED
        BY <2>4, <4>2, FlagKept DEF Retried
    <3> QED
      BY <2>4, <3>1, <3>2 DEF Retried
  <2> QED
    BY <1>4, <2>1, <2>2, <2>3, <2>4 DEF Lifecycle
<1>5. ASSUME NEW b \in Bots, SocketEvent(b) PROVE FlagIsHonest'
  <2> USE DEF Stages, Sockets
  <2>1. CASE SocketOpens(b)
    <3>1. Move(b, "connecting", "open")
      BY <2>1 DEF SocketOpens
    <3>2. /\ \A c \in Bots \ {b} : links'[c] = links[c]
          /\ links'[b]["open"] > 0
      BY <3>1, MoveFacts DEF LinksInv
    <3> QED
      BY <2>1, <3>2, FlagSet DEF SocketOpens
  <2>2. ASSUME NEW loggedOut \in BOOLEAN, SocketCloses(b, loggedOut)
        PROVE  FlagIsHonest'
    <3>1. PICK s \in Sockets : Move(b, s, "timer") \/ Drop(b, s)
      BY <2>2 DEF SocketCloses
    <3>2. CASE Move(b, s, "timer")
      <4>1. /\ \A c \in Bots \ {b} : links'[c] = links[c]
            /\ ~(links'[b]["open"] > 0)
        BY <3>2, MoveFacts DEF LinksInv
      <4> QED
        BY <2>2, <4>1, FlagSet DEF SocketCloses
    <3>3. CASE Drop(b, s)
      <4>1. links[b][s] > 0 /\ links' = [links EXCEPT ![b][s] = @ - 1]
        BY <3>3 DEF Drop
      <4>2. /\ \A c \in Bots \ {b} : links'[c] = links[c]
            /\ ~(links'[b]["open"] > 0)
        BY <4>1, DropFacts DEF LinksInv
      <4> QED
        BY <2>2, <4>2, FlagSet DEF SocketCloses
    <3> QED
      BY <3>1, <3>2, <3>3
  <2> QED
    BY <1>5, <2>1, <2>2 DEF SocketEvent
<1> QED
  BY <1>1, <1>2, <1>4, <1>5 DEF Next

-----------------------------------------------------------------------------

\* The inductive invariant.
Inv == OthersTypeOK /\ AttemptsTypeOK /\ FlagsTypeOK /\ LinksInv /\ FlagIsHonest

\* At the start nothing is under way and no flag is set.
LEMMA InitInv == Init => Inv
<1> SUFFICES ASSUME Init PROVE Inv
  OBVIOUS
<1>1. OthersTypeOK /\ AttemptsTypeOK /\ FlagsTypeOK
  <2>1. OthersTypeOK
    BY DEF Init, OthersTypeOK, Request
  <2>2. 0 \in 0..maxReconnectAttempts
    BY BotAssumption
  <2>3. AttemptsTypeOK
    BY <2>2 DEF Init, AttemptsTypeOK
  <2>4. FlagsTypeOK
    BY DEF Init, FlagsTypeOK
  <2> QED
    BY <2>1, <2>3, <2>4
<1>2. LinksTypeOK /\ \A b \in Bots, s \in Stages : links[b][s] = 0
  BY DEF Init, LinksTypeOK
<1>3. LinksInv
  BY <1>2 DEF LinksInv, NewBotsAreIdle, OneLinkPerBot, IsBusy
<1>4. \A b \in Bots : isConnectedFlag[b] = FALSE
  BY DEF Init
<1>5. \A b \in Bots : ~(links[b]["open"] > 0)
  <2>1. "open" \in Stages
    BY DEF Stages
  <2>2. \A b \in Bots : links[b]["open"] = 0
    BY <1>2, <2>1
  <2>3. ~(0 > 0)
    OBVIOUS
  <2> QED
    BY <2>2, <2>3, Zenon
<1>6. FlagIsHonest
  BY <1>4, <1>5, Zenon DEF FlagIsHonest
<1> QED
  BY <1>1, <1>3, <1>6 DEF Inv

\* Types, links and flags together are inductive.
LEMMA Invariance == Spec => []Inv
<1>1. Inv /\ [Next]_vars => Inv'
  BY OthersKeepTypes, StepKeepsLinks, StepKeepsFlags DEF Inv
<1> QED
  BY InitInv, <1>1, PTL DEF Spec

\* Everything keeps its type; reconnectAttempts never passes its maximum.
THEOREM TypeCorrect == Spec => []TypeOK
<1>1. Inv => TypeOK
  BY DEF Inv, OthersTypeOK, AttemptsTypeOK, FlagsTypeOK, LinksInv, LinksTypeOK, TypeOK
<1> QED
  BY Invariance, <1>1, PTL

\* One bot never has two connections, or one beside a timer that will make
\* another, however many restarts and reconnections overlap.
THEOREM OneLinkEach == Spec => []OneLinkPerBot
<1>1. Inv => OneLinkPerBot
  BY DEF Inv, LinksInv
<1> QED
  BY Invariance, <1>1, PTL

\* The flag that /health reports is the state of the bot's only socket.
THEOREM FlagsAreHonest == Spec => []FlagIsHonest
<1>1. Inv => FlagIsHonest
  BY DEF Inv
<1> QED
  BY Invariance, <1>1, PTL

-----------------------------------------------------------------------------
(* Why reconnecting ends.                                                  *)

\* How many steps bot b can take before it has given up, if no socket opens.
StepsLeft(b) ==
    4 * (maxReconnectAttempts - reconnectAttempts[b])
    + 3 * links[b]["timer"] + 2 * links[b]["retrying"] + 2 * links[b]["starting"]
    + links[b]["connecting"] + links[b]["open"]

\* Nothing happens to bot b.
Rests(b) == links'[b] = links[b] /\ reconnectAttempts'[b] = reconnectAttempts[b]

\* A step for b that opens a socket, or that brings b closer to its end.
Closer(b) ==
    \/ Rests(b)
    \/ links'[b]["open"] > links[b]["open"]
    \/ StepsLeft(b)' < StepsLeft(b)

\* A link that moves on or is dropped, or a reconnection that is counted, takes
\* a step off those of its bot; the other bots rest.
LEMMA LinkSteps ==
    ASSUME LinksTypeOK, AttemptsTypeOK, NEW b \in Bots, NEW s \in Stages,
           AttemptsTypeOK',
           \A c \in Bots \ {b} : reconnectAttempts'[c] = reconnectAttempts[c],
           \/ /\ Drop(b, s)
              /\ reconnectAttempts'[b] = reconnectAttempts[b]
           \/ /\ s \in {"starting", "retrying"} /\ Move(b, s, "connecting")
              /\ reconnectAttempts'[b] = reconnectAttempts[b]
           \/ /\ s = "timer" /\ Move(b, s, "retrying")
              /\ reconnectAttempts'[b] = reconnectAttempts[b]
           \/ s = "connecting" /\ Move(b, s, "open")
           \/ /\ s \in Sockets /\ Move(b, s, "timer")
              /\ reconnectAttempts'[b] = reconnectAttempts[b] + 1
    PROVE  \A c \in Bots : Closer(c)
<1>1. /\ links[b] \in [Stages -> Nat]
      /\ reconnectAttempts[b] \in 0..maxReconnectAttempts
      /\ reconnectAttempts'[b] \in 0..maxReconnectAttempts
  BY DEF LinksTypeOK, AttemptsTypeOK
<1>2. \A c \in Bots \ {b} : Closer(c)
  BY DEF Closer, Rests, Drop, Move, LinksTypeOK
<1> USE BotAssumption DEF StepsLeft, Stages, Sockets, LinksTypeOK
<1>3. ASSUME Drop(b, s), reconnectAttempts'[b] = reconnectAttempts[b] PROVE Closer(b)
  <2>1. links'[b] = [links[b] EXCEPT ![s] = @ - 1] /\ links[b][s] > 0
    BY <1>3 DEF Drop
  <2> QED
    BY <1>1, <1>3, <2>1 DEF Closer
<1>4. ASSUME NEW t \in Stages, Move(b, s, t), s # t
      PROVE  links'[b] = [links[b] EXCEPT ![s] = @ - 1, ![t] = @ + 1] /\ links[b][s] > 0
  BY <1>4 DEF Move
<1>5. ASSUME s \in {"starting", "retrying"}, Move(b, s, "connecting"),
             reconnectAttempts'[b] = reconnectAttempts[b]
      PROVE  Closer(b)
  BY <1>1, <1>4, <1>5 DEF Closer
<1>6. ASSUME s = "timer", Move(b, s, "retrying"), reconnectAttempts'[b] = reconnectAttempts[b]
      PROVE  Closer(b)
  <2>1. links'[b] = [links[b] EXCEPT !["timer"] = @ - 1, !["retrying"] = @ + 1]
    BY <1>4, <1>6
  <2> QED
    BY <1>1, <1>6, <2>1 DEF Closer
<1>7. ASSUME s = "connecting", Move(b, s, "open") PROVE Closer(b)
  <2>1. links'[b] = [links[b] EXCEPT !["connecting"] = @ - 1, !["open"] = @ + 1]
    BY <1>4, <1>7
  <2>2. links'[b]["open"] > links[b]["open"]
    BY <1>1, <2>1
  <2> QED
    BY <2>2 DEF Closer
<1>8. ASSUME s \in Sockets, Move(b, s, "timer"),
             reconnectAttempts'[b] = reconnectAttempts[b] + 1
      PROVE  Closer(b)
  BY <1>1, <1>4, <1>8 DEF Closer
<1> QED
  BY <1>2, <1>3, <1>5, <1>6, <1>7, <1>8

\* After disconnect every bot rests or has a link less.
LEMMA DisconnectSteps ==
    ASSUME LinksTypeOK, AttemptsTypeOK, NEW b \in Bots \cup {NoBot}, NEW left \in disconnect(b),
           NEW c \in Bots, links'[c] = left[c], UNCHANGED reconnectAttempts
    PROVE  Closer(c)
<1>1. CASE left = links \/ b # c
  BY <1>1 DEF disconnect, Closer, Rests, LinksTypeOK
<1>2. CASE left # links /\ b = c
  <2>1. PICK s \in Sockets : links[b][s] > 0 /\ left = [links EXCEPT ![b][s] = @ - 1]
    BY <1>2 DEF disconnect
  <2>2. links'[c] = [links[c] EXCEPT ![s] = @ - 1] /\ links[c][s] > 0
    BY <1>2, <2>1 DEF LinksTypeOK
  <2>3. links[c] \in [Stages -> Nat] /\ reconnectAttempts[c] \in 0..maxReconnectAttempts
    BY DEF LinksTypeOK, AttemptsTypeOK
  <2> QED
    BY <2>1, <2>2, <2>3, BotAssumption DEF Closer, StepsLeft, Stages, Sockets
<1> QED
  BY <1>1, <1>2

\* A bot that has been made takes finitely many steps until a socket of its own
\* opens: each of them is one of StepsLeft, however restarts and closes interleave.
ReconnectionsRunOut == [][\A b \in created : Closer(b)]_vars

\* What ReconnectionEnds rests on, for bot.js and index.js: between two openings
\* a bot takes at most StepsLeft steps, so that timers and calls of initialize
\* that come to their end lead to a connection or to a bot that has given up.
THEOREM AttemptsRunOut == Spec => ReconnectionsRunOut /\ []\A b \in Bots : StepsLeft(b) \in Nat
<1>1. Inv => \A b \in Bots : StepsLeft(b) \in Nat
  <2> SUFFICES ASSUME Inv, NEW b \in Bots PROVE StepsLeft(b) \in Nat
    OBVIOUS
  <2>1. links[b] \in [Stages -> Nat] /\ reconnectAttempts[b] \in 0..maxReconnectAttempts
    BY DEF Inv, LinksInv, LinksTypeOK, AttemptsTypeOK
  <2> QED
    BY <2>1, BotAssumption DEF StepsLeft, Stages
<1>2. Inv /\ Inv' /\ [Next]_vars => \A b \in created : Closer(b)
  <2> SUFFICES ASSUME Inv, Inv', [Next]_vars PROVE \A b \in created : Closer(b)
    OBVIOUS
  <2> USE DEF Inv, LinksInv
  <2>0. created \subseteq Bots
    BY DEF OthersTypeOK
  <2>1. ASSUME UNCHANGED <<links, reconnectAttempts>> PROVE \A b \in created : Closer(b)
    BY <2>1 DEF Closer, Rests
  <2>2. ASSUME NEW d \in Bots, Listen(d) PROVE \A b \in created : Closer(b)
    BY <2>0, <2>2 DEF Listen, Create, Closer, Rests, LinksTypeOK, flagVars
  <2>3. ASSUME NEW r \in Requests, NEW d \in Bots, Restart(r, d)
        PROVE  \A b \in created : Closer(b)
    <3>1. PICK left \in disconnect(requests[r].on) :
             links' = [left EXCEPT ![d]["starting"] = @ + 1]
      BY <2>3 DEF Restart
    <3>2. requests[r].on \in Bots \cup {NoBot}
      BY DEF OthersTypeOK, Request
    <3>3. left \in [Bots -> [Stages -> Nat]]
      BY <3>1, <3>2, DisconnectFacts
    <3>4. \A b \in created : links'[b] = left[b]
      BY <2>0, <2>3, <3>1, <3>3 DEF Restart, Create
    <3> QED
      BY <2>0, <2>3, <3>1, <3>2, <3>4, DisconnectSteps DEF Restart
  <2>4. ASSUME Exit PROVE \A b \in created : Closer(b)
    <3>1. links' \in disconnect(sigint.on) /\ sigint.on \in Bots \cup {NoBot}
      BY <2>4 DEF Exit, OthersTypeOK, Request
    <3> QED
      BY <2>0, <2>4, <3>1, DisconnectSteps DEF Exit
  <2>5. ASSUME NEW d \in Bots, Lifecycle(d) PROVE \A b \in created : Closer(b)
    <3>1. CASE Started(d)
      BY <2>0, <3>1, LinkSteps DEF Started, flagVars, Stages
    <3>2. CASE StartFails(d)
      BY <2>1, <3>2 DEF StartFails, flagVars
    <3>3. CASE TimerFires(d)
      BY <2>0, <3>3, LinkSteps DEF TimerFires, flagVars, Stages
    <3>4. CASE Retried(d)
      BY <2>0, <3>4, LinkSteps DEF Retried, flagVars, Stages
    <3> QED
      BY <2>5, <3>1, <3>2, <3>3, <3>4 DEF Lifecycle
  <2>6. ASSUME NEW d \in Bots, SocketOpens(d) PROVE \A b \in created : Closer(b)
    BY <2>0, <2>6, LinkSteps DEF SocketOpens, Stages, AttemptsTypeOK
  <2>7. ASSUME NEW d \in Bots, NEW loggedOut \in BOOLEAN, SocketCloses(d, loggedOut)
        PROVE  \A b \in created : Closer(b)
    <3>1. PICK s \in Sockets :
             IF Reconnects(d, loggedOut) THEN Move(d, s, "timer") ELSE Drop(d, s)
      BY <2>7 DEF SocketCloses
    <3>2. /\ s \in Stages
          /\ reconnectAttempts' = [reconnectAttempts EXCEPT ![d] =
                IF Reconnects(d, loggedOut) THEN @ + 1 ELSE @]
      BY <2>7 DEF SocketCloses, Sockets, Stages
    <3>3. \A b \in Bots : Closer(b)
      BY <3>1, <3>2, LinkSteps DEF AttemptsTypeOK
    <3> QED
      BY <2>0, <3>3
  <2> QED
    BY <2>1, <2>2, <2>3, <2>4, <2>5, <2>6, <2>7
       DEF Next, Control, RestartRequested, Interrupted, SocketEvent, flagVars, vars
<1> QED
  BY <1>1, <1>2, Invariance, PTL DEF Spec, ReconnectionsRunOut

=============================================================================
