# Formal models of the WhatsApp music and games bot

TLA+ models of the bot's own logic (a Node.js WhatsApp service and a Python
Telegram bridge), of the start script and of the Telegram connection underneath,
TLC configurations that check them on small instances, and TLAPS proofs of the
main results. `PROJECT.json` lists the components, runs, mutants, source lines
of every definition, hazards, findings and theorems. Source paths are relative
to `src/`.

## 1. The system

Two processes, started by `start.sh`:

- **Node.js service** (`index.js`): an Express server with `/`, `/health`,
  `/status` and `/restart`, and one `WhatsAppBot` (`bot.js`) at a time, which
  holds a Baileys socket. Each message goes through `MessageHandler` to
  `GameHandler`, `MusicHandler` or `SimpleMusicHandler`.
- **Python bridge** (`server.py` runs `bridge.py`): an aiohttp server with
  `/search`, `/health` and `/status` over `TelegramMusicClient`
  (`telegram_client.py`), whose `MusicFetcher` (`music_fetcher.py`) writes
  queries to the Telegram bot @vkmusbot and waits for its answers.

Most of the repository is vendored (aiohttp, Telethon, type declarations,
package caches). Two parts of it matter here: the request dispatch of aiohttp,
because the bridge's one middleware depends on it, and Telethon's
`MTProtoSender`, because every query of the fetcher goes through its queue.

| Component | State | Operations | Interacts through |
|---|---|---|---|
| `GameHandler` | two Maps of games by user | start, input, quit | session table; `sock.sendMessage` |
| `SessionManager` | Map of sessions, clean-up timer | create, get (refreshes or drops), end, clean-up | called by `GameHandler`; `setInterval` |
| `TicTacToe` | board | `makeMove`, `checkWinner`, `isDraw`, `getBestMove` | called by `GameHandler` |
| `RockPaperScissors` | scores, history | `playRound` | called by `GameHandler` |
| `MusicHandler` | Set of searching users | `handleMusicSearch` | `sock.sendMessage`; HTTP to the bridge; HTTP download |
| `SimpleMusicHandler` | none | one YouTube search | HTTP |
| `MessageHandler` | the handlers | routing, error message | called per message by `WhatsAppBot` |
| `WhatsAppBot` | socket, connected flag, attempts, timers | initialize, connection events, disconnect | Baileys events; `index.js` |
| `index.js` | the current bot | start, restart, SIGINT | HTTP; signals |
| `bridge.py` | client, HTTP session | `/search`, `/health`, `/status` | HTTP; `TelegramMusicClient` |
| `TelegramMusicClient` | connected flag, statistics | connect, search, disconnect | Telethon; `MusicFetcher` |
| `MusicFetcher` | pending searches with futures | `search_music`, `process_vk_response` | Telethon messages, one task per event |
| `MTProtoSender` | send queue, pending requests, loops, flags | send, connect, reconnect, disconnect | futures; transport |
| `start.sh` | the two process ids | start in order, poll, monitor | HTTP, signals |

**What is hard.** Both runtimes are single-threaded, so all concurrency is at
awaits. Messages of one user are not serialized: each `messages.upsert` event
runs `handleIncomingMessages` on its own (bot.js:75), so two calls for one user
overlap whenever the first waits for a send, and sends can be rejected. Timers
(session expiry and clean-up, reconnection, `wait_for`) fire in between. The
music bot's answers carry nothing that relates them to a query. Nothing but the
login credentials is persistent, so there is no crash recovery to model.

**What makes each part correct.** Games: a session always has its game; a user
has one game; turns alternate; a finished game goes away; idle sessions go and
active ones stay. Engine: it never loses, and never gives a forced win away.
Searches: the guard is always released and only then; every search returns; an
answer goes to one search, the right one. Connection: one link per bot, an
honest flag, reconnections that end, one bot after a restart. Router: every
message is answered, and one message's failure is told before its text is taken
for something else. Telegram connection: no request is lost over a reconnect or queued
twice, and one loop reads the connection. Start: what is said to be ready is,
and nothing is left running.

## 2. The modules

| Module | Models | State and actions |
|---|---|---|
| `TicTacToe` | `ticTacToe.js`, and the synchronous part of a turn in `handleTicTacToeInput` | operators; `minimax` is a recursive function on boards; `Turn` is the set of outcomes of one accepted input |
| `TicTacToeGame` | one game against the real engine, inputs one at a time | `board`, `verdict`; `newGame`, `Play`; a reference `ForcedWins` without scores or depths |
| `RockPaperScissors` | `rockPaperScissors.js` | operators on scores |
| `SessionManager` | `session.js` | `sessions` (type and age), `untilCleanup`; `Tick`, `cleanupExpiredSessions` |
| `GameHandler` | `gameHandler.js` over the four above | `ticTacToeGames`, `rpsGames`, `calls` |
| `GameService` | abstract: what the game handler promises the router | `playing`, `calls`; implemented by `GameHandler` |
| `MusicHandler` | `musicHandler.js` | `isSearching`, `calls`; one action for each outcome of an await |
| `SearchService` | abstract: what the Telegram side promises a caller | `status`, `asked`, `given`; implemented by `MusicFetcher` |
| `MusicFetcher` | `music_fetcher.py` | one stage per search, `pending`, `future`, and the music bot's `reply` to each query |
| `SearchPath` | `MusicHandler` over HTTP to `bridge.py`, `telegram_client.py` and `SearchService`, with both timeouts | `request`, `result`, `stats`, `client`, `delivered`, timers |
| `MessageRouter` | `handleIncomingMessages`, `messageHandler.js`, `simpleMusicHandler.js` over `GameService` and `MusicHandler` | per batch: `stage`, `left`, `message`; two observers, `told` and `player` |
| `MTProtoSender` | `mtprotosender.py`, `messagepacker.py`, the connected flag of `connection.py`, `_switch_dc` of `telegrambaseclient.py` | queue, pending, loops, flags, key, reconnect tasks, `migration`; two observers, `dropped` and `beside` |
| `Startup` | `start.sh` with `main` of `server.py`/`bridge.py` and `app.listen` of `index.js`, beside other programs | the script's place, both processes and their ports, strangers' ports; one observer, `taken` |
| `WhatsAppBot` | `bot.js` and the life cycle in `index.js` | per bot: `links` by stage, flag, attempts; `/restart` requests; SIGINT |
| `Bridge` | `bridge.py`'s endpoints under aiohttp's dispatch | per request: handler, middlewares applied, status |
| `MCGameHandler` | TLC instance of `GameHandler` | |
| `*Proofs` | theorems | section 4 |

How they are composed: `MessageRouter` is checked over what `GameService` says,
and `GameHandler` is shown to implement `GameService` (checked in `games`,
proved in `GameHandlerProofs`). `SearchPath` extends `MusicHandler` itself and
is checked over `SearchService`, which `MusicFetcher` implements (checked in
`fetcher`, proved in `MusicFetcherProofs`). So no composed model carries the detail of both sides, and the
promises that join them are checked on each side.

Conventions. A handler's code from its call to the first await is one action,
and so is each stretch between two awaits. A pending call is an entry of
`calls` (a slot, its place and its user); a slot is free again when its call
ends, so the number of slots bounds overlap and nothing else. Texts are left
out, except for the kind of input they are. Definitions called "fault" in a
comment belong to no specification: each is a plausible bug that replaces the
definition after it, to show that a property would notice.

**GameHandler.** A call is `startReply`, `reply`, `final`, `quitReply` or in an
error message. `startTicTacToe`/`startRockPaperScissors` end all games, make the
new one and its session, then wait. `handleGameInput` is `InputNotForGame`,
`endGame` (quit), `InvalidInput`, `handleTicTacToeInput` or `handleRPSInput`;
each starts with `getSession`, which refreshes or drops the session. When a send
settles: `ReplySent`, `endGameForUser` (verdict or good-bye sent), or
`SendRejected` (error message, then an exception). `onCurrent` marks whether a
waiting call is still about the user's game; the code has no such notion, no
guard reads it and only properties do. `BotMoves` is a constant operator, so
what holds does not depend on the bot's strategy; `TicTacToeGame` has the real
one. Ages are counted in ticks; the clean-up fires as soon as it is due, as
`setInterval` on an idle event loop does.

**MessageRouter.** A batch is in `next` between two messages, in `game` or
`music` while that handler has the message, or at one of the awaits of
`handleMessage` and the simple music handler. A message is its chat and the way
its text takes, chosen when the loop gets to it. `told` records whether
something was sent since the message came, `player` whether its sender was
playing then; no guard reads either. A failed error message ends the batch.

**MusicFetcher.** `SendFails` may come before or after the query got through.
`Timeout` cancels the future; the search runs later (`Return`) and only then
leaves `pending`, as `wait_for` and the `finally` do. An audio answer is
downloaded before it is matched, so answers are matched in the order in which
downloads end. `time.time()` is taken to increase between two starts.

**SearchPath.** axios counts from the post, the fetcher from the moment its send
returned; `sendTook` and `waited` are the ticks in each stretch. Time stops at a
timer that is due until it is acted on, and a send may take any time. A post
that no search serves stands for a refused connection and for every error
status, the 500 of `Bridge` among them: `Bridge` explains why, at this commit,
that is the only case, and `SearchPath` is about the path behind it.

The bridge disconnects its client while the server still serves
(bridge.py:216-217). `client` is `up`, then `cut` once Telethon has closed its
sender, when searches may be cancelled (a CancelledError passes the `except`
that counts), then `disconnected` once `connected` is reset, when `search_music`
raises before it counts (`BridgeRefuses`): that failure is counted of a search
that was never performed. Hence the three parts of `StatsAddUp`, one for each stage.

**MTProtoSender.** One step per stretch between awaits of a loop or task.
`connect` and the reconnect tasks run the same `_connect` (`Connects`).
Message ids count up, containers get one of their own, and rejections are
matched by either. `_disconnect` is two steps, before and after the transport is
closed. Of what the receive loop can meet, `Answer` and `Rejected` are handled,
`Ignored` is skipped with the request left pending (529-541), `ReceiveFails` and
`ReceiveInvalid` end the loop and start a reconnect, `ReceiveFatal` disconnects.

A request may be answered with the error that the client is at the wrong data
centre. The client then calls `_switch_dc` (telegrambaseclient.py:753-767) on the
same sender: the key is forgotten, the sender disconnected, and when that is done
connected again; `migration` is where the client is in this. Two things can go
wrong, and two observers, which no guard reads, say when. A send loop that wakes
while there is no key takes a batch, fails to encrypt it and dies: the batch is
neither queued nor pending any more (`DropBatch`, `dropped`). And a reconnect that
began before may outlive the disconnect, so that `connect` runs beside it, or
finds `reconnecting` still set (`beside`).

**Startup.** `script` is the script's place: the check of each port, the installs,
the wait for a service, the loop, or its end. Other programs (strangers) take free
ports and leave them at any step, between a check and the use of the port as
well; where `nc` is missing, `port_available` finds every port free. `curl -s`
succeeds on any answer, so `Answers` only asks whether something listens on the
polled port. `taken` notes which ports strangers have had since the script last
found them free. `Interrupted` leaves open which services the signal reaches.
Express (`^5.1.0`, package.json) passes a listen error to the callback of
`app.listen`, which starts the bot without a port.

**WhatsAppBot.** `links[b][s]` counts what bot `b` has in stage `s` of a
connection: an `initialize` called by `startBot`, a pending timer, an
`initialize` called by a timer, a socket that is connecting, one that is open.
They are counts so that several could exist; `OneLinkPerBot` says they never do.
`requests` and `sigint` keep the bot found when a handler began, because the
current one may have changed when its `disconnect` settles. The library's part:
a socket emits `close` once, and `logout` closes the socket as logged out
(`disconnect` then clears the flag) or throws (and `disconnect` swallows it).

**Bridge.** aiohttp applies `cors_handler` first. Without the `@web.middleware`
mark it is awaited with `(app, handler)`: it calls the endpoint with the
application, and its Response becomes the handler of the request.

## 3. The runs

| Run | Bounds | Shows |
|---|---|---|
| `tictactoe_game` | none: all games | `BotNeverLoses`, `VerdictFitsBoard`, `KeepsForcedWins` |
| `games` | 1 user, 2 calls, timeout 1 tick, clean-up period 1, scores to 4 | `SessionHasItsGame`, `OneGamePerUser`, `TurnsAlternate`, `FinishedGamesAreEnded`, `OnlyIdleSessionsExpire`, `IdleSessionsAreRemoved`, `QuietPlayersAreForgotten`, `ImplementsGameService` |
| `fetcher` | 2 searches | `PendingIsExact`, `ImplementsService`, `SearchesReturn`, `AnswersMatchOneAtATime` |
| `search_path` | 1 user, 2 calls, 2 searches, timeouts 1 and 2 ticks | `StatsAddUp`, `AnswerToOneChat`, `OutlivedByTheBridge`, `GuardHasItsCall`, `GuardLostOnlyToOverlap`, `GuardIsReleased` |
| `message_router` | 1 chat, 2 batches of up to 2 messages | `AnsweredBeforeNext`, `PlayersAreToldFirst`, `RefusedForAnotherBatch`, `BatchesEnd` |
| `mtproto_sender` | 2 requests and the ping, 2 attempts, containers of 1+1, 2 faults, 2 connects | `RequestsAreTracked`, `OneReceiverUntilBeside`, `RequestsSettle`, `LinkIsRestored` |
| `whatsapp_bot` | 3 bots, 2 restarts, 2 attempts | `OneLinkPerBot`, `FlagIsHonest`, `ReconnectionEnds` |
| `startup` | 3 ports, both variables set to any of them or not at all, with and without `nc`, strangers on any port, 5 attempts | `WatchedAreReady`, `NoneLeftBehind`, `OneDeathEndsBoth` |
| `whatsapp_restart`, `bridge_middleware`, `one_search`, `one_receiver` | the smallest that show it | the findings below |

`games`, `fetcher`, `search_path`, `whatsapp_bot` and `startup` also check the
type invariant of their module.

*Why the bounds are enough.* The state of a user in `GameHandler` is disjoint
from that of others, and an interference needs one call that waits and one that
acts, so one user and two slots show every pair; the theorems cover any number.
`MaxScore` only stops rounds; 4 is beyond the winning score, so that what
overlapping rounds do after the end is seen. A timeout of one tick lets a
session be fresh, at its limit and beyond it. Two searches give every order of
two answers (three have been checked as well). In `SearchPath` one tick lies
between the timeouts, so that both orders of the timers happen. Its two calls are
of one user, the case with the most interference: they share the guard as well as
the bridge, and a refused one lets the other in; the theorems cover any users and
timeouts. Two
batches of two messages let a message meet its predecessor in its own batch and
another one beside it. In `MTProtoSender` three requests can be queued when a
batch takes two, two faults lose the transport again during the repair of
the first loss, and two connects are one before and one after a switch of the
data centre. Five attempts of `wait_for_service` stand for 30, as nothing but the
last one differs from the others. Two restarts overlap each other, and a reconnection limit of 2
has both its last attempt and the one before.

*Where a sender's promises end.* `OneReceiver` by itself fails (finding 4), and
what a sender promises is stated until `beside`: from the first `connect` that
meets a reconnect on, loops may run twice, or end at once because `reconnecting` was
left set by a task that died of the connection being None. That is a case of the
program, since any request may be told to move, and no bound hides it: the
theorems hold for any number of connects. Two limits remain: the client does not
disconnect in the middle of a `connect` of its own, and it moves once at a time.
`RequestsSettle` names every way in which a request may stay open for good: its
answer was ignored, it waits in the queue of a sender that is disconnected, it was
dropped without a key, or a connect has met a reconnect.

*Deadlock* is not checked where the system may really stop: searches all
returned (`fetcher`, `search_path` goes on with refusals), a sender that is
disconnected, the process or script has exited, the request is answered.

*Fairness.* `GameHandler`, `MessageRouter`: time passes, timers fire and each
send settles. A send settles because Baileys rejects pending work when its
socket closes and the keep-alive closes a dead socket; no user is assumed to
write. `MusicFetcher`: the timer of `wait_for` fires and a settled future wakes its
search; the music bot may stay silent, and the send before the wait may hang for
ever (no timeout covers music_fetcher.py:40), so `SearchesReturn` is about searches
whose query was sent. In `SearchPath` the same send may hang, and the guard is
released all the same. `MTProtoSender`: loops and tasks run on, connecting and
closing end, and a message the server got is answered unless the transport is
lost or an answer to it has been ignored; nobody need send, move or disconnect.
`Startup`: the monitoring loop goes on and a signal ends its process; the script
may hang before, nothing makes a service come up or stay up, and strangers do as
they like. `WhatsAppBot`: timers fire, `initialize` ends, and a connecting socket
opens or closes (`connectTimeoutMs`); an open one may stay open forever, and
restarts and SIGINT need not come.

### Findings

Each is a run that TLC refutes, against a sentence of the repository:

1. `RestartReplacesBot` ("Bot restarted successfully", index.js:142): an
   `initialize` of the replaced bot that is under way (the trace), or its pending
   reconnection timer, connects it beside the new one.
2. `SearchesAreServed` (replit.md:36, bridge.py:101): every request to the
   bridge is answered 500.
3. `OneSearchPerUser` ("Prevent multiple simultaneous searches from same user",
   musicHandler.js:21): the `finally` of a refused call clears the guard of the
   search that runs, and a third message starts a second one.
   `GuardLostOnlyToOverlap` and `RefusedForAnotherBatch` say how far this goes.
4. `OneReceiver` ("There can't be two tasks receiving data from the reader",
   mtprotosender.py:425): a reconnect begins, `_switch_dc` disconnects the sender,
   and the task goes on beside the `connect` that follows; when the link is lost
   again a second reconnect runs beside the first.

Further disagreements of a text with the code, which the models contain and no
run is spent on:

- `/search` ("/search [query] - Recherche personnalisée", messageHandler.js:136)
  hands `handleMusicSearch` its words in an array (line 99), on which
  `query.replace` throws: every `/search` gets the error message (`SearchWords`).
- With the ports of `.env.example` (26: "Telegram bridge service port") the
  bridge binds `PORT`, 5000, and the script polls 8000: `MispolledNeverStarts`
  says that only a stranger's answer lets it go on.
- "All services started successfully!" (start.sh:181) is said although a stranger
  has answered on a port that it took after the check, or the bridge for a bot that
  wants the same port (`Clash`): the exceptions that `WatchedAreReady` names.
- "even if the network fails they won't be lost" (mtprotosender.py:474-478): a
  batch that is popped while the key is None raises at the encryption, before it
  becomes pending (`DropBatch`).
- "cancels all pending requests" (mtprotosender.py:150, of `disconnect`): those in
  the queue stay open (`RequestsSettle`, `DisconnectSettlesSent`).

### Known behaviour that no property forbids

- A round entered while the verdict is being sent is played: the score passes 3,
  or is 3-3, announced as the bot's win ("first to 3 wins", gameHandler.js:233).
- The end of a game, carried out after its send, deletes a game its user started
  meanwhile (gameHandler.js:284). `GameService` allows it: the router sees a
  game that ends.
- An expired session leaves its game in memory (session.js:99).
- Answers go to the search that started last; `AnswersMatchOneAtATime` states
  when that is right, `AnswerToOneChat` what holds always.
- A container may hold one message more than the maximum (messagepacker.py:56),
  and an answer that is skipped leaves its request pending (529-541).
- A disconnected Telegram client counts failures of searches that it never
  performed (telegram_client.py:133), and misses cancelled ones.
- A signal before the trap is set leaves services behind that it did not reach
  (start.sh:202).

`BotNeverLoses` means that the branch of `handleTicTacToeInput` that
congratulates the player is unreachable while inputs do not overlap. When they
do, the player may still mark a board that the bot has won and complete a line
there (`checkWinner` then names whichever line comes first in its list).
`EngineIsNeverBeaten` says that this is the only way: there is no board of any
game where the player has a line and the bot has none.

## 4. The proofs

Each module is proved from the named assumptions on its constants only.

`GameHandlerProofs` (any users, slots, timeouts, clean-up period and bot
strategy):

- `TypeCorrect`: `Spec => []TypeOK`. One lemma for messages, one for settled
  sends, one for time; the engine's part is `TurnKeepsBoard`, which holds for
  any set of bot moves.
- `SessionHasGame` and `OneGameEach`: by `StepKinds`, which sorts every step
  into three: the tables of one user are replaced as a whole, a turn changes a
  game but neither its existence nor its kind, or sessions are only refreshed or
  dropped. Each invariant is inductive over these together with `TypeOK`.
- `IdleSessionsGo`: `age + untilCleanup <= SessionTimeout + CleanupInterval` is
  inductive as it stands: `Tick` moves one unit from one summand to the other,
  messages reset ages and leave the timer alone, and the clean-up removes
  sessions beyond the timeout exactly when it resets the timer.
- `ActiveSessionsStay`: an action property, from `TypeOK` on both sides: of the
  steps that remove a session only `endGameForUser` removes one that is not idle.

- `TurnsAlternateAlways`: every step leaves a user's board, replaces it by none or
  by an empty one, or plays one turn on it (`StepBoards`), and a turn that leaves
  the board open adds one X and one O to it (`TurnKeepsEven`). A turn on a board
  that an overlapping call has finished leaves it finished, since complete lines
  persist (`LinesStay`, `FinishedStays`).
- `FinishedGamesGo`: `VerdictTellsEnd` says that a turn announces a verdict exactly
  when it finishes the board, because the bot's mark never completes a line of X
  (`BotCompletesOwnLines`). So the step that finishes a game leaves a call that
  announces it, and that call removes the game or fails.
- Both need a bot that marks free cells, `BotAssumption`. The engine is one
  (`BestMoveIsFree`, below).
- `EngineIsNeverBeaten`, which no run states, has the premise `BotPlaysBest`:
  `BotMoves` is `getBestMove`. The invariant says of every user's board that it is
  one the engine does not lose, or that the bot has a line. Inputs in turn keep the
  first by what is proved of `getBestMove`; an input that overlaps an announcement
  finds a finished board and cannot take a line away (`LateTurn`).
- `HandlerImplementsService`: every step maps to a step of `GameService` or to a
  stutter: reads keep the set of players with a live session, creating a session
  adds one, ending removes one, and time removes some (`Expire`).

`MusicFetcherProofs` (any number of searches): the inductive invariant `IInv` is
`TypeOK`, `PendingIsExact` and `GivenAreGone`, which says that an answer in a
future is no longer on its way. `PendingExact` needs the types alone;
`FetcherImplementsService` needs `GivenAreGone`: an answer being matched is one
that no search has been given. Each action maps to an action of
`SearchService` (a query that arrives to `Ask`, an answer that is matched to
`Give`, a search that returns or fails to its end) or to a stutter.
`GuessesRightAlone` is a theorem about behaviours that keep `OneAtATime`: then an
answer in flight is that of the only search an answer can be matched with.

`MTProtoSenderProofs` (any requests, retries, container sizes and faults):

- `NoRequestIsLost` from `RequestInv`: the queue has no repetition, a request is
  pending as one message at most and not queued meanwhile, an open future is
  exactly one that is queued or pending, and the ping is free when it is not
  awaited, all but for what was `dropped`. `RequestsAreTracked` counts what this says with sets; the lemmas on
  sequences (`AppendOnce`, `ConcatOnce`, `SetInARow`, `RestOnce`) say what sending,
  requeueing and taking a batch do to a queue without repetition, and need no
  induction, for a batch is a prefix and requeueing a concatenation.
- `RequestsSettleOnce`, an action property that no run states: a request that is
  settled stays as it is, since only open ones are tracked and only tracked ones
  are settled. A future that is set twice raises InvalidStateError in the loop.
- `IdsNameOneMessage`: ids are handed out in ascending order (`IdsGrow`), a
  container after its messages, so that what the server names is one message or
  one container.
- `OneReceiverAlways`, `ConnectedIsServedAlways` and `DisconnectSettlesSent` from
  `InvUntilBeside`, for any number of connects: `SenderInv` holds as long as no
  connect has met a reconnect, in three parts that need each other. `LinkInv`: no
  loop runs while a link is made or once the sender is disconnected, there is one
  loop of each kind and one reconnect task at most, `reconnecting` is set until the
  task has ended the loops, the transport is down from there until it succeeds, or
  shakes hands for a user who is not connected, and a connected user has a key.
  `NoConnectBesideReconnect`: every step keeps it but a `connect` that sets
  `beside`. `ServiceInv`: a connected sender runs both loops or has a task, which
  resets `reconnecting` (`FlagHasTask`); he then has a connection; one that has
  been disconnected has nothing pending. The last two theorems are what safety
  there is behind `LinkIsRestored` and `RequestsSettle`.

`SearchPathProofs`, of `MusicHandler` by itself: `NobodyLockedOut` is inductive with
the types, because a call keeps its user until the `finally` takes both away
(`CallSteps`); `LostToOverlapOnly` follows, for the only step that shrinks the Set
is a `finally`, and it ends its own call.

Of the whole path (any number of users, calls and searches, any timeouts with
`SearchTimeout < HttpTimeout`): every step of the path is a step of
`MusicHandler` and one of `SearchService`, or leaves them alone
(`PathImplementsHandler`, `PathImplementsService`), so what is proved of the
handler holds on the path (`PathLocksNobodyOut`). `PathInv` is the inductive
invariant for `PathTypes`, `OneChatPerAnswer` and `OnlySlowSendsOutlive`: a
request belongs to one search that was started for it, an answer to one search,
and an answer that was delivered was so by a search that is done and that no
call waits for; without the last part a second request could deliver it again.
`StatisticsAddUp` counts the running searches: every step adds one, removes one
or leaves them alone; a cancelled one is removed uncounted, a refused one counted
without having been added, which the two inequalities allow for.

`StartupProofs` (any ports, environments and strangers): `StartupTypes`, and
`StartedMeansReady` from `IInv`: whatever listens on a port is a service that
wants it or a stranger that has been noted in `taken` (`StrangersNoted`), so what
answers on a polled port is one of them, and which service follows from the order
of the start (`BridgeWasReady`). Two results that no run states: `ExitsSignalAll`,
that a script which exits has sent a signal to all that still runs and starts
nothing any more, so that `NoneLeftBehind` only needs signals to end their
processes; and `MispolledNeverStarts`: when `PORT` is not the port polled for the
bridge, the script goes on to the bot only if a stranger has taken that port.

`WhatsAppBotProofs` (any number of bots, overlapping restarts and attempts):
`TypeCorrect`, `OneLinkEach` and `FlagsAreHonest`. The inductive invariant `Inv`
adds to the types, one link per bot and honest flags that a bot which has not
been made has no link (`NewBotsAreIdle`): without it, starting a bot could give
it a second one. Every action moves one link from a stage to another, drops one,
or starts a bot that had none, so a bot with one link keeps at most one. The
flag then follows: with one link, a socket that closes was the only one, so that
clearing the flag is right. `AttemptsRunOut` is the variant behind
`ReconnectionEnds`: `StepsLeft` counts four for every attempt left and up to three
for the stage of a link, is a natural number, and every step of a bot that has
been made takes some of it, unless it opens a socket. So a bot that has given
up never gets a link again, whatever other bots and restarts do.

`MessageRouterProofs` (any chats, any number of batches of any length):
`NobodyIsIgnored`, `PlayersFirst` and `RefusalsAreForeign`, from one inductive
`IInv`. It says for each batch what its handlers have left behind: a call that
has returned "done" has sent something (`ToldAtTheEnd`), one that returned
"unhandled" to a player has told him (`ToldByTheGame`), and only the stage
"music" has a search under way (`HandlersFit`), so that consuming the promise of
a handler takes no user off a running search. Each action changes one batch
(`OthersStay`), so its step is checked for that batch alone (`OneBatchEnough`).
A refusal then needs a guard of `isSearching`, behind which
`GuardHasItsCall` finds a call, and the batch that asks has none.
`RouterLocksNobodyOut` states that part by itself: `NobodyLockedOut` is about
`MusicHandler` alone, and the router also consumes the calls it has awaited.

`TicTacToeProofs` (all games, no enumeration): `EngineNeverLoses`,
`ForcedWinsAreKept`, `AnnouncementFits` and `BestMoveIsFree`, in five parts.

- *The recursion has a solution.* TLA+ defines `minimax` as some function that
  satisfies its equation, so nothing follows from the definition before there is
  one. The library's induction theorems are out of reach, but the depth of the
  recursion is at most nine: rows are built for boards with 0, 1, ... 9 free cells, and
  `MinimaxIsSolved` gives the equation. In place of induction, later lemmas take a
  fullest board that is a counterexample (`FullestBoard`, from `NaturalsHaveMin`).
- *What a score says.* Scores lie between -10 and 10, only their size depends on
  the depth, and a board whose score is not negative has, when the bot is to
  move, an answer that keeps it so, which `getBestMove` takes.
- *The opening is not lost* (`OpeningIsNotLost`). A set of boards is held if every
  mark of the player can be answered within it; `HeldBoards` is the greatest such
  set, and on its boards `minimax` is not negative. Boards where every open line
  has two cells that the bot can pair are held (`PairedBoardsHold`), which leaves a
  small tree of answers, drawn in comments, and a quarter turn of the board
  (`HeldTurns`) for the other openings. The engine need not play these answers.
  Its random reply to the empty board is never asked for, as the player begins.
- *Scores and forced wins* (`ScoresTellAllWins`). `minimax` on a board is at least
  `11 - 2n` if and only if the board is in `ForcedWins[n]`, for n from 0 to 5 one after
  the other; the answer with the best score is therefore one that keeps the win
  in one move less. With a score that disregards the depth this fails
  (`getBestMoveAnyWin`).
- *The game.* The invariant is `VerdictFitsBoard`, and that an open board's score is
  not negative.

Only model-checked: the liveness properties (`QuietPlayersAreForgotten`,
`SearchesReturn`, `GuardIsReleased`, `BatchesEnd`, `RequestsSettle`, `LinkIsRestored`,
`ReconnectionEnds`, `NoneLeftBehind`, `OneDeathEndsBoth`), since liveness under
fairness needs ENABLED, which is outside the prover's reach. For some the safety
they rest on is proved: `IdleSessionsGo` (`QuietPlayersAreForgotten`),
`NobodyLockedOut` and `PathLocksNobodyOut` (`GuardIsReleased`),
`ConnectedIsServedAlways` and `DisconnectSettlesSent` (`LinkIsRestored`,
`RequestsSettle`), `AttemptsRunOut` (`ReconnectionEnds`) and `ExitsSignalAll`
(`NoneLeftBehind`). Every invariant and action property that a passing run checks
is the subject of a theorem.

## 5. What is not modelled

Configuration (most of it unread, such as `maxGames` and the rate limits) and
logging, the web page, methods that are never called (`updateSession`,
`clearAllSessions`, `cleanup_expired_searches`, `handleMusicRequest` of the
music handler, `reset`, the send helpers of `WhatsAppBot`). Telegram's
authorization ends in a start that succeeds or fails. What a user's phone shows
in which order is not modelled, nor are the login credentials. The audio URL
that the fetcher makes is a placeholder (music_fetcher.py:145) that no download
can succeed with; `MusicHandler` allows the download to succeed all the same,
which only adds behaviours.

Of the 759 source files more than 700 are vendored libraries, type declarations
and caches. The bot's own program is some 3000 lines, of which layout, texts and
logging are a large part; the vendored code is modelled only where the program's
correctness depends on its control flow (aiohttp's dispatch, Telethon's
sender). Its encodings, generated tables and type declarations carry no state
to check, so the share of all lines that is mapped stays small.

## 6. Plan

1. Done: the games and their promise to the router; the fetcher, the search
   guard and the whole path between them; the router; connections to WhatsApp
   and Telegram; the bridge's dispatch; the start script.
2. Done: every safety invariant and action property that a passing run checks is a
   theorem, as are both refinements, the correctness of the engine, and much of
   the safety behind the liveness properties.
3. Done: the same with what is around the program let in: other programs on the
   ports, a client that is disconnected under its server, sends that hang, answers
   that are ignored, and a sender that moves to another data centre.
4. Open, should the models be extended: a client that disconnects in the middle of
   its own connect, Telethon's update loop (updates lost over a
   reconnect, which the fetcher's answers depend on), the transport's own two
   queues in `connection.py`, and `/restart` under the router (messages of an old
   socket handled after the new bot has connected).
