----------------------------- MODULE MTProtoSender -----------------------------
(***************************************************************************)
(* The connection the Telegram client sends its requests over (class       *)
(* MTProtoSender, mtprotosender.py, with the queue of messagepacker.py and *)
(* the transport of connection.py).  A request is a future in _send_queue; *)
(* the send loop moves it to _pending_state under a message id, the        *)
(* receive loop settles it.  When the transport is lost, a background task *)
(* connects again and queues what is pending once more.                    *)
(*                                                                         *)
(* Telegram and its client object are outside the program: the server      *)
(* answers or rejects the messages it got, the client connects, sends,     *)
(* pings, moves to another data centre and disconnects, though never in    *)
(* the middle of a connect of its own.  Messages are small: none is too    *)
(* long to send.                                                           *)
(***************************************************************************)
EXTENDS Naturals, FiniteSets, SequencesExt

CONSTANTS
    Requests,        \* the client's requests
    Ping,            \* the keep-alive request
    Retries,         \* attempts of a connect or a reconnect, over both loops
    MAXIMUM_LENGTH,  \* of a MessageContainer
    MaxEvents,       \* bound: faults, rejections and pings
    MaxConnects      \* bound: calls of connect

ASSUME SenderAssumption ==
    /\ Ping \notin Requests
    /\ {Retries, MAXIMUM_LENGTH, MaxEvents, MaxConnects} \subseteq Nat \ {0}

States == Requests \cup {Ping}

\* Who runs _connect: the client's own call, or a reconnect task.
Tasks == {"reconnect 1", "reconnect 2"}
Connectors == {"connect"} \cup Tasks

VARIABLES
    future,          \* of each request
    queue,           \* _send_queue
    pending,         \* _pending_state: message ids and their requests
    container,       \* container_id of each request, 0 for None
    lastId,          \* the last message id given
    ping,            \* whether _ping is set
    userConnected,   \* _user_connected
    reconnecting,    \* _reconnecting
    attached,        \* whether _connection is not None
    transport,       \* whether the connection is _connected
    sent,            \* the message ids the server has got in this session
    authKey,         \* whether there is an auth_key
    senders,         \* send loops that run
    receivers,       \* receive loops that run
    disconnected,    \* whether the future _disconnected is done
    at, tries,       \* where each connector is, and its failed attempts
    closing,         \* the _disconnect calls under way: "user", "server"
    migration,       \* of the client to another data centre: "none", "told",
                     \* and "begun" from its disconnect to its connect
    ignored,         \* ids of messages whose answer was not handled
    dropped,         \* requests taken from the queue and never pending (observer)
    beside,          \* whether a connect has met a reconnect (observer)
    connects, events \* for the bounds

requestVars == <<future, queue, pending, container, lastId, ping>>
linkVars == <<attached, transport, sent, authKey>>
loopVars == <<senders, receivers>>
bounds == <<connects, events>>
sideVars == <<migration, ignored, dropped, beside>>
vars == <<requestVars, linkVars, loopVars, userConnected, reconnecting, disconnected,
          at, tries, closing, sideVars, bounds>>

Init ==
    /\ future = [r \in States |-> "new"]
    /\ queue = << >> /\ pending = {} /\ lastId = 0 /\ ping = FALSE
    /\ container = [r \in States |-> 0]
    /\ userConnected = FALSE /\ reconnecting = FALSE
    /\ attached = FALSE /\ transport = FALSE /\ sent = {}
    /\ authKey \in BOOLEAN
    /\ senders = 0 /\ receivers = 0
    /\ disconnected = TRUE
    /\ at = [p \in Connectors |-> "none"]
    /\ tries = [p \in Connectors |-> 0]
    /\ closing = {}
    /\ migration = "none" /\ ignored = {} /\ dropped = {} /\ beside = FALSE
    /\ connects = 0 /\ events = 0

PendingRequests == {m.request : m \in pending}

Settle(S, how) == future' = [r \in States |-> IF r \in S THEN how ELSE future[r]]

CountEvent == events < MaxEvents /\ events' = events + 1 /\ UNCHANGED connects

-----------------------------------------------------------------------------
(* send, and the keep-alive ping.                                          *)

send(r) ==
    /\ userConnected
    /\ future' = [future EXCEPT ![r] = "open"]
    /\ queue' = Append(queue, r)
    /\ container' = [container EXCEPT ![r] = 0]

Send(r) ==
    /\ future[r] = "new"
    /\ send(r)
    /\ UNCHANGED <<pending, lastId, ping, linkVars, loopVars, userConnected, reconnecting,
                   disconnected, at, tries, closing, sideVars, bounds>>

\* A new task has the first name that is free.
Schedule ==
    \E t \in Tasks :
        /\ at[t] = "none" /\ (t = "reconnect 2" => at["reconnect 1"] # "none")
        /\ at' = [at EXCEPT ![t] = "scheduled"]

\* Fault for the mutation runs: reconnecting is set by the task, later.
StartReconnectLate ==
    IF userConnected /\ ~reconnecting
    THEN UNCHANGED reconnecting /\ Schedule
    ELSE UNCHANGED <<reconnecting, at>>

_start_reconnect ==
    IF userConnected /\ ~reconnecting
    THEN reconnecting' = TRUE /\ Schedule
    ELSE UNCHANGED <<reconnecting, at>>

_transport_connected == ~reconnecting /\ attached /\ transport

\* The client pings once a minute, if the transport is connected.
KeepalivePing ==
    /\ userConnected /\ _transport_connected
    /\ CountEvent
    /\ IF ping
       THEN _start_reconnect /\ UNCHANGED requestVars
       ELSE /\ ping' = TRUE
            /\ send(Ping)
            /\ UNCHANGED <<pending, lastId, reconnecting, at>>
    /\ UNCHANGED <<linkVars, loopVars, userConnected, disconnected, tries, closing, sideVars>>

-----------------------------------------------------------------------------
(* The send loop.                                                          *)

\* MessagePacker.get: what is queued, while the batch is not too long.
Batch == SubSeq(queue, 1, IF Len(queue) <= MAXIMUM_LENGTH THEN Len(queue)
                          ELSE MAXIMUM_LENGTH + 1)

\* The ids of a batch follow each other, and the container's comes last.
Ids(n) == lastId + 1 .. lastId + n + (IF n > 1 THEN 1 ELSE 0)

\* Fault for the mutation runs: only what was sent becomes pending.
SendBatchSentOnly ==
    LET n == Len(Batch) IN
    /\ senders > 0 /\ queue # << >>
    /\ queue' = SubSeq(queue, n + 1, Len(queue))
    /\ lastId' = lastId + Cardinality(Ids(n))
    /\ UNCHANGED container
    /\ IF attached /\ transport
       THEN /\ pending' = pending \cup {[id |-> lastId + i, request |-> Batch[i]] : i \in 1..n}
            /\ sent' = sent \cup Ids(n)
            /\ UNCHANGED <<senders, reconnecting, at>>
       ELSE senders' = senders - 1 /\ _start_reconnect /\ UNCHANGED <<sent, pending>>
    /\ UNCHANGED <<future, ping, attached, transport, authKey, receivers, userConnected,
                   disconnected, tries, closing, sideVars, bounds>>

TakeBatch ==
    LET n == Len(Batch) IN
    /\ senders > 0 /\ queue # << >>
    /\ queue' = SubSeq(queue, n + 1, Len(queue))
    /\ lastId' = lastId + Cardinality(Ids(n))
    /\ container' = [r \in States |->
                        IF n > 1 /\ r \in ToSet(Batch) THEN lastId' ELSE container[r]]
    /\ UNCHANGED <<future, ping, attached, transport, authKey, receivers, userConnected,
                   disconnected, tries, closing, migration, ignored, beside, bounds>>

\* The batch is pending before it is sent; a transport that is gone starts a
\* reconnect and ends the loop, a connection that is None only ends it.
SendBatch ==
    LET n == Len(Batch) IN
    /\ authKey /\ TakeBatch
    /\ pending' = pending \cup {[id |-> lastId + i, request |-> Batch[i]] : i \in 1..n}
    /\ IF attached /\ transport
       THEN /\ sent' = sent \cup Ids(n)
            /\ senders' = IF userConnected /\ ~reconnecting THEN senders ELSE senders - 1
            /\ UNCHANGED <<reconnecting, at>>
       ELSE /\ senders' = senders - 1 /\ UNCHANGED sent
            /\ IF attached THEN _start_reconnect ELSE UNCHANGED <<reconnecting, at>>
    /\ UNCHANGED dropped

\* Without a key nothing can be encrypted: the loop dies of it, and the batch is
\* neither in the queue any more nor pending.
DropBatch ==
    /\ ~authKey /\ TakeBatch
    /\ dropped' = dropped \cup ToSet(Batch)
    /\ senders' = senders - 1
    /\ UNCHANGED <<pending, sent, reconnecting, at>>

-----------------------------------------------------------------------------
(* The receive loop and its handlers.                                      *)

Receives == receivers > 0 /\ attached /\ transport

\* The loops stay as they are after a message, or end at their condition.
ReceiverGoesOn ==
    /\ receivers' = IF userConnected /\ ~reconnecting THEN receivers ELSE receivers - 1
    /\ UNCHANGED <<linkVars, senders, userConnected, reconnecting, disconnected, at, tries,
                   closing, dropped, beside>>

\* The error of a request may be that the client is at the wrong data centre: it
\* then calls _switch_dc (_call, in a part of Telethon that is not under src/).
ToldToMigrate ==
    /\ migration = "none" /\ connects < MaxConnects
    /\ migration' = "told"

\* _handle_rpc_result and _handle_pong: the result or the error of a message.
Answer(m) ==
    /\ Receives /\ m.id \in sent \ ignored
    /\ pending' = pending \ {m}
    /\ \/ /\ Settle({m.request}, "result") /\ ping' = (ping /\ m.request # Ping)
          /\ UNCHANGED migration
       \/ /\ Settle({m.request}, "error") /\ UNCHANGED ping
          /\ (m.request # Ping /\ ToldToMigrate) \/ UNCHANGED migration
    /\ UNCHANGED <<queue, container, lastId, ignored, bounds>>
    /\ ReceiverGoesOn

\* A message is known by its own id, or else by the id of its container.
_pop_states(id) ==
    LET own == {m \in pending : m.id = id} IN
    IF own # {} THEN own ELSE {m \in pending : container[m.request] = id}

\* _handle_bad_server_salt and _handle_bad_notification: the messages are sent
\* again once the salt, the clock or the sequence number is corrected; any
\* other notification is their error.
Rejected(id) ==
    LET states == _pop_states(id) IN
    /\ Receives /\ id \in sent /\ CountEvent
    /\ \A m \in states : m.id \notin ignored
    /\ pending' = pending \ states
    /\ \/ /\ queue' = queue \o SetToSeq({m.request : m \in states})
          /\ UNCHANGED future
       \/ /\ Settle({m.request : m \in states}, "error")
          /\ UNCHANGED queue
    /\ UNCHANGED <<container, lastId, ping, migration, ignored>>
    /\ ReceiverGoesOn

\* What Telegram says of a message is of a type nobody knows, or looks old,
\* repeated or forged: the loop goes on, and the message stays pending.
Ignored(id) ==
    /\ Receives /\ id \in sent /\ CountEvent
    /\ ignored' = ignored \cup {m.id : m \in _pop_states(id)}
    /\ UNCHANGED <<requestVars, migration>>
    /\ ReceiverGoesOn

\* Fault for the mutation runs: the loop ends without a reconnect.
ReceiveFailsQuietly ==
    /\ receivers > 0 /\ attached /\ ~transport /\ closing = {}
    /\ receivers' = receivers - 1
    /\ UNCHANGED <<requestVars, linkVars, senders, userConnected, reconnecting, at, disconnected,
                   tries, closing, sideVars, bounds>>

\* recv raises and ends the loop.
ReceiverEnds ==
    /\ receivers' = receivers - 1
    /\ _start_reconnect
    /\ UNCHANGED <<requestVars, linkVars, senders, userConnected, disconnected, tries, closing,
                   sideVars>>

\* The transport is gone, or the connection None.
ReceiveFails ==
    /\ receivers > 0 /\ ~(attached /\ transport) /\ closing = {}
    /\ ReceiverEnds
    /\ UNCHANGED bounds

\* What a live transport brings cannot be read.
ReceiveInvalid == Receives /\ CountEvent /\ ReceiverEnds

\* Telegram refuses the key or the flood: the loop disconnects for good.
ReceiveFatal ==
    /\ Receives /\ "server" \notin closing /\ CountEvent
    /\ closing' = closing \cup {"server"}
    /\ userConnected' = FALSE
    /\ transport' = FALSE /\ sent' = {}
    /\ UNCHANGED <<requestVars, attached, authKey, loopVars, reconnecting, disconnected, at, tries,
                   sideVars>>

\* The network or Telegram ends the connection.
TransportLost ==
    /\ transport /\ CountEvent
    /\ transport' = FALSE /\ sent' = {}
    /\ UNCHANGED <<requestVars, attached, authKey, loopVars, userConnected, reconnecting,
                   disconnected, at, tries, closing, sideVars>>

-----------------------------------------------------------------------------
(* connect, _connect and _reconnect.                                       *)

\* The client connects once, and once more for each data centre it moves to.
connect ==
    /\ at["connect"] = "none" /\ ~userConnected /\ closing = {}
    /\ connects = 0 \/ migration = "begun"
    /\ connects < MaxConnects /\ connects' = connects + 1
    /\ migration' = "none"
    /\ beside' = (beside \/ reconnecting \/ \E t \in Tasks : at[t] # "none")
    /\ attached' = TRUE /\ transport' = FALSE /\ sent' = {}
    /\ at' = [at EXCEPT !["connect"] = "connecting"]
    /\ tries' = [tries EXCEPT !["connect"] = 0]
    /\ UNCHANGED <<requestVars, authKey, loopVars, userConnected, reconnecting, disconnected,
                   closing, ignored, dropped, events>>

\* The first step of the task: it closes the transport, or finds it None and
\* dies of it.
ReconnectStarts(t) ==
    /\ at[t] = "scheduled"
    /\ at' = [at EXCEPT ![t] = IF attached THEN "closing" ELSE "none"]
    /\ transport' = (transport /\ ~attached)
    /\ sent' = IF attached THEN {} ELSE sent
    /\ UNCHANGED <<requestVars, attached, authKey, loopVars, userConnected, reconnecting,
                   disconnected, tries, closing, sideVars, bounds>>

\* The handles are those of the loops that were started last.
CancelLoops ==
    /\ senders' = IF senders > 1 THEN senders - 1 ELSE 0
    /\ receivers' = IF receivers > 1 THEN receivers - 1 ELSE 0

\* It cancels the loops and waits for them, and starts with a clean session.
ReconnectGoesOn(t) ==
    /\ at[t] = "closing"
    /\ at' = [at EXCEPT ![t] = IF attached THEN "connecting" ELSE "delay"]
    /\ tries' = [tries EXCEPT ![t] = 0]
    /\ CancelLoops
    /\ reconnecting' = FALSE
    /\ UNCHANGED <<requestVars, linkVars, userConnected, disconnected, closing, sideVars, bounds>>

\* Fault for the mutation runs: what is pending is not queued again.
RequeueNothing == UNCHANGED <<queue, pending>>

\* After a reconnect, what is pending is sent again.
RequeuePending ==
    queue' = queue \o SetToSeq(PendingRequests) /\ pending' = {}

\* The loops are started, and end at once if the user is not connected.
Connected(p) ==
    LET runs == IF (userConnected \/ p = "connect") /\ ~reconnecting THEN 1 ELSE 0 IN
    /\ transport' = TRUE
    /\ authKey' = TRUE
    /\ at' = [at EXCEPT ![p] = "none"]
    /\ senders' = senders + runs /\ receivers' = receivers + runs
    /\ disconnected' = FALSE
    /\ IF p = "connect"
       THEN userConnected' = TRUE /\ UNCHANGED <<queue, pending>>
       ELSE RequeuePending /\ UNCHANGED userConnected
    /\ UNCHANGED <<future, container, lastId, ping, attached, sent, reconnecting, tries, closing,
                   sideVars, bounds>>

ConnectSucceeds(p) == at[p] = "connecting" /\ authKey /\ Connected(p)

\* Where there is no key, one is made by a handshake.
HandshakeStarts(p) ==
    /\ at[p] = "connecting" /\ ~authKey
    /\ at' = [at EXCEPT ![p] = "handshake"]
    /\ transport' = TRUE
    /\ UNCHANGED <<requestVars, attached, sent, authKey, loopVars, userConnected, reconnecting,
                   disconnected, tries, closing, sideVars, bounds>>

HandshakeSucceeds(p) == at[p] = "handshake" /\ transport /\ Connected(p)

\* _disconnect once the transport is closed: what is pending fails with the
\* error, or is cancelled, and the loops end.  The queue is left alone.
Detach(how) ==
    /\ Settle(PendingRequests, how)
    /\ pending' = {}
    /\ CancelLoops
    /\ attached' = FALSE
    /\ disconnected' = TRUE
    /\ UNCHANGED <<queue, container, lastId, ping>>

\* connect raises its error when no transport came up; otherwise, and in a
\* reconnect, it disconnects with the error, if there still is a connection.
GiveUp(p, unlinked) ==
    /\ at' = [at EXCEPT ![p] = "none"]
    /\ IF attached /\ ~(p = "connect" /\ unlinked)
       THEN /\ userConnected' = FALSE /\ transport' = FALSE /\ sent' = {}
            /\ Detach("error")
            /\ UNCHANGED authKey
       ELSE UNCHANGED <<requestVars, linkVars, loopVars, userConnected, disconnected>>

\* An attempt fails: a connection refused or out of time; the handshake broken
\* off, which closes the transport, or refused, which does not; no connection
\* to connect, after a disconnect, which connect itself does not survive.
AttemptFails(p) ==
    \E link \in {FALSE, transport} :
    /\ \/ at[p] = "connecting" /\ link = transport
       \/ at[p] = "delay" /\ ~attached /\ link = transport
       \/ at[p] = "handshake"
    /\ IF tries[p] + 1 < Retries /\ ~(p = "connect" /\ at[p] = "delay")
       THEN /\ tries' = [tries EXCEPT ![p] = @ + 1]
            /\ at' = [at EXCEPT ![p] = IF at[p] = "handshake" /\ link THEN @ ELSE "delay"]
            /\ transport' = link
            /\ UNCHANGED <<requestVars, attached, sent, authKey, loopVars, userConnected,
                           disconnected>>
       ELSE GiveUp(p, at[p] # "handshake" \/ ~link) /\ UNCHANGED tries
    /\ UNCHANGED <<reconnecting, closing, sideVars, bounds>>

TriesAgain(p) ==
    /\ at[p] = "delay" /\ attached
    /\ at' = [at EXCEPT ![p] = "connecting"]
    /\ UNCHANGED <<requestVars, linkVars, loopVars, userConnected, reconnecting, disconnected,
                   tries, closing, sideVars, bounds>>

Connects(p) ==
    \/ ConnectSucceeds(p) \/ HandshakeStarts(p) \/ HandshakeSucceeds(p)
    \/ AttemptFails(p) \/ TriesAgain(p)

-----------------------------------------------------------------------------
(* disconnect, and the switch to another data centre.                      *)

StartDisconnect ==
    /\ closing' = closing \cup {"user"}
    /\ userConnected' = FALSE
    /\ transport' = FALSE /\ sent' = {}

disconnect ==
    /\ attached /\ at["connect"] = "none" /\ "user" \notin closing
    /\ StartDisconnect
    /\ UNCHANGED <<requestVars, attached, authKey, loopVars, reconnecting, disconnected, at, tries,
                   sideVars, bounds>>

\* The client forgets the key and disconnects, if it still has a connection; when
\* that is done it connects again.
_switch_dc ==
    /\ migration = "told" /\ at["connect"] = "none" /\ "user" \notin closing
    /\ migration' = "begun"
    /\ authKey' = FALSE
    /\ IF attached THEN StartDisconnect ELSE UNCHANGED <<closing, userConnected, transport, sent>>
    /\ UNCHANGED <<requestVars, attached, loopVars, reconnecting, disconnected, at, tries,
                   ignored, dropped, beside, bounds>>

\* To wait for a loop to end lets a task that is scheduled take its first step.
DisconnectEnds(who) ==
    /\ who \in closing
    /\ senders > 0 \/ receivers > 0 => \A t \in Tasks : at[t] # "scheduled"
    /\ closing' = closing \ {who}
    /\ Detach(IF who = "user" THEN "cancelled" ELSE "error")
    /\ UNCHANGED <<transport, sent, authKey, userConnected, reconnecting, at, tries, sideVars,
                   bounds>>

-----------------------------------------------------------------------------

Receive ==
    \/ \E m \in pending : Answer(m)
    \/ \E id \in sent : Rejected(id) \/ Ignored(id)
    \/ ReceiveFails \/ ReceiveInvalid \/ ReceiveFatal

Reconnects(t) == ReconnectStarts(t) \/ ReconnectGoesOn(t)

Next ==
    \/ \E r \in Requests : Send(r)
    \/ KeepalivePing \/ SendBatch \/ DropBatch \/ Receive \/ TransportLost
    \/ connect \/ disconnect \/ _switch_dc
    \/ \E p \in Connectors : Connects(p)
    \/ \E t \in Tasks : Reconnects(t)
    \/ \E who \in closing : DisconnectEnds(who)

\* Tasks run on, connecting and closing come to an end, and Telegram answers
\* what it got unless the transport is lost; the answer is handled unless it has
\* been ignored.  Nobody need send, move or disconnect.
Fairness ==
    /\ WF_vars(SendBatch \/ DropBatch) /\ WF_vars(ReceiveFails)
    /\ \A r \in States : WF_vars(\E m \in pending : m.request = r /\ Answer(m))
    /\ \A p \in Connectors : WF_vars(Connects(p))
    /\ \A t \in Tasks : WF_vars(Reconnects(t))
    /\ \A who \in {"user", "server"} : WF_vars(DisconnectEnds(who))

Spec == Init /\ [][Next]_vars
FairSpec == Spec /\ Fairness

-----------------------------------------------------------------------------
(* Properties.                                                             *)

\* No request is lost and none is sent twice over, whatever transports,
\* rejections, reconnects and disconnects interleave: one whose future is open
\* is in the queue or pending, once, and one that is settled is in neither.  The
\* exception is what the send loop takes while _switch_dc has no key.
RequestsAreTracked ==
    \A r \in States :
        Cardinality({i \in DOMAIN queue : queue[i] = r})
          + Cardinality({m \in pending : m.request = r})
              = IF future[r] = "open" /\ r \notin dropped THEN 1 ELSE 0

\* "There can't be two tasks receiving data from the reader"
\* (_start_reconnect, mtprotosender.py): one reconnect at a time, however the
\* loops and the ping find the transport lost, and one loop of each kind.
OneReceiver ==
    /\ senders <= 1 /\ receivers <= 1
    /\ \A t, u \in Tasks : at[t] # "none" /\ at[u] # "none" => t = u

\* That is so until a connect is called while a reconnect is still under way,
\* which is what _switch_dc comes to when the transport was lost just before.
OneReceiverUntilBeside == ~beside => OneReceiver

\* A request is settled in the end, unless its answer is ignored, or it waits in
\* the queue of a sender that is disconnected ("cancels all pending requests",
\* says disconnect of itself, but not those), or it was dropped.
RequestsSettle ==
    \A r \in States :
        future[r] = "open" ~>
            \/ future[r] # "open"
            \/ \E m \in pending : m.request = r /\ m.id \in ignored
            \/ ~userConnected /\ r \in ToSet(queue)
            \/ r \in dropped
            \/ beside

\* A sender that has lost its transport connects again or gives up, without
\* anybody sending or pinging, unless a connect has met a reconnect.
LinkIsRestored ==
    (userConnected /\ ~transport) ~> (transport \/ ~userConnected \/ beside)

=============================================================================
