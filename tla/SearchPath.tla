------------------------------ MODULE SearchPath ------------------------------
(***************************************************************************)
(* A search on its way: from handleMusicSearch (MusicHandler) over HTTP to *)
(* bridge.py, through the statistics of telegram_client.py, to the fetcher *)
(* and back.  The fetcher is what SearchService says of it; MusicFetcher   *)
(* implements that.                                                        *)
(*                                                                         *)
(* Two timers run against each other: axios gives up HttpTimeout after it  *)
(* posted the query, the fetcher SearchTimeout after it sent it.  A query  *)
(* is posted to a bridge that serves it, or gets an error for an answer:   *)
(* refused, or the 500 that module Bridge explains.                        *)
(*                                                                         *)
(* The bridge ends by disconnecting its Telegram client while it still     *)
(* serves: first Telethon is cut off, later connected is reset.            *)
(***************************************************************************)
EXTENDS MusicHandler, FiniteSets

CONSTANTS
    MaxSearches,    \* bound: the queries that reach the bridge
    HttpTimeout,    \* of axios: 35 s
    SearchTimeout   \* of wait_for: 30 s

ASSUME PathAssumption ==
    /\ MaxSearches \in Nat
    /\ SearchTimeout \in Nat \ {0} /\ HttpTimeout \in Nat
    /\ SearchTimeout < HttpTimeout

\* Searches are numbered as they start.
Searches == 1..MaxSearches
NoSearch == 0

VARIABLES
    request,     \* the search each call of handleMusicSearch waits for
    status, asked, given,   \* the searches, as SearchService has them
    waiting,     \* the searches whose query is sent
    sendTook,    \* ticks between post and sent query, of each search that runs
    waited,      \* ticks since then
    result,      \* what search_music returned: a song or nothing
    stats,
    client,      \* of Telegram: "up"; "cut" once Telethon has closed its sender
                 \* without an error (in cleanup, to switch data centres, or giving
                 \* up); "disconnected" once connected is False
    delivered    \* how many calls got the answer to each query

Service == INSTANCE SearchService WITH Nothing <- NoSearch

bridgeVars == <<status, asked, given, waiting, sendTook, waited, result, stats, client>>
pathVars == <<vars, request, delivered, bridgeVars>>

PathInit ==
    /\ Init
    /\ Service!Init
    /\ request = [c \in Calls |-> NoSearch]
    /\ waiting = {}
    /\ sendTook = [s \in Searches |-> 0]
    /\ waited = [s \in Searches |-> 0]
    /\ result = [s \in Searches |-> "open"]
    /\ stats = [performed |-> 0, successful |-> 0, failed |-> 0]
    /\ client = "up"
    /\ delivered = [s \in Searches |-> 0]

-----------------------------------------------------------------------------
(* The Node side.                                                          *)

\* Messages come, and sends and the download settle.
HandlerStep(c) ==
    /\ \/ \E u \in Users : handleMusicSearch(c, u)
       \/ calls[c].at # "searching" /\ Settles(c)
    /\ calls'[c].at # "searching"
    /\ UNCHANGED <<request, delivered, bridgeVars>>

\* search_music of bridge and client counts the search and starts it.
BridgeStarts(s) ==
    /\ client # "disconnected"
    /\ Service!Start(s)
    /\ stats' = [stats EXCEPT !.performed = @ + 1]
    /\ UNCHANGED <<waiting, sendTook, waited, result, client>>

\* A client that is not connected raises before it counts the search as
\* performed, and its except clause counts it as failed.
BridgeRefuses ==
    /\ client = "disconnected"
    /\ stats.failed < MaxSearches
    /\ stats' = [stats EXCEPT !.failed = @ + 1]
    /\ UNCHANGED <<status, asked, given, waiting, sendTook, waited, result, client>>

\* axios posts the query: a search of the bridge serves it, its client refuses
\* it, or it does not get that far.
Post(c) ==
    /\ calls[c].at = "announcing" /\ GoOn(c, "searching")
    /\ \/ \E s \in Searches :
            /\ s = stats.performed + 1 /\ BridgeStarts(s)
            /\ request' = [request EXCEPT ![c] = s]
       \/ BridgeRefuses /\ UNCHANGED request
       \/ UNCHANGED <<request, bridgeVars>>
    /\ UNCHANGED delivered

EndRequest(c, at) ==
    /\ calls[c].at = "searching" /\ GoOn(c, at)
    /\ request' = [request EXCEPT ![c] = NoSearch]
    /\ UNCHANGED bridgeVars

\* Fault for the mutation runs: any search's answer is taken for the call's.
AnsweredByAny(c) ==
    \E s \in Searches :
        /\ result[s] \in {"song", "nothing"}
        /\ \/ /\ result[s] = "song" /\ EndRequest(c, "foundReply")
              /\ delivered' = [delivered EXCEPT ![given[s]] = @ + 1]
           \/ EndRequest(c, "notFoundReply") /\ UNCHANGED delivered

\* The bridge answers: with the song, or success: false, or no audio_url.  Also
\* success: false if the client has refused the search, for search_music of the
\* bridge catches the exception.
Answered(c) ==
    \/ \E s \in Searches :
          /\ s = request[c] /\ result[s] \in {"song", "nothing"}
          /\ \/ /\ result[s] = "song" /\ EndRequest(c, "foundReply")
                /\ delivered' = [delivered EXCEPT ![given[s]] = @ + 1]
             \/ EndRequest(c, "notFoundReply") /\ UNCHANGED delivered
    \/ /\ request[c] = NoSearch /\ client = "disconnected"
       /\ EndRequest(c, "notFoundReply") /\ UNCHANGED delivered

\* How long ago the query was posted that search s serves.
Age(s) == sendTook[s] + waited[s]

\* Fault for the mutation runs: axios waits no longer than the bridge does.
UnansweredEarly(c) ==
    /\ request[c] # NoSearch => Age(request[c]) >= SearchTimeout
    /\ EndRequest(c, "unavailableReply")
    /\ UNCHANGED delivered

\* The request is answered with an error, or not at all when its search was
\* cancelled (the connection breaks), or axios gives up on it.
Unanswered(c) ==
    /\ request[c] # NoSearch =>
          Age(request[c]) = HttpTimeout \/ result[request[c]] = "cancelled"
    /\ EndRequest(c, "unavailableReply")
    /\ UNCHANGED delivered

-----------------------------------------------------------------------------
(* The bridge: search_music of client and fetcher, and the music bot.      *)
(* Nothing passes a client that has been disconnected.                     *)

QueryReachesBot(s) ==
    /\ client # "disconnected"
    /\ s \notin waiting \cup asked
    /\ Service!Ask(s)
    /\ UNCHANGED <<waiting, sendTook, waited, result, stats>>

BotAnswers(q) ==
    /\ client # "disconnected"
    /\ \E s \in Searches : Service!Give(s, q)
    /\ UNCHANGED <<waiting, sendTook, waited, result, stats>>

SendReturns(s) ==
    /\ client # "disconnected"
    /\ status[s] = "running" /\ s \in asked \ waiting
    /\ waiting' = waiting \cup {s}
    /\ UNCHANGED <<status, asked, given, sendTook, waited, result, stats>>

\* Fault for the mutation runs: a search that returns nothing is not counted.
CountSongs(s, found) ==
    /\ result' = [result EXCEPT ![s] = found]
    /\ stats' = IF found = "song" THEN [stats EXCEPT !.successful = @ + 1] ELSE stats

\* The client counts what the fetcher returned.
Count(s, found) ==
    /\ result' = [result EXCEPT ![s] = found]
    /\ stats' = IF found = "song" THEN [stats EXCEPT !.successful = @ + 1]
                ELSE [stats EXCEPT !.failed = @ + 1]

\* The fetcher's send raises, and its search_music returns None.
SendFails(s) ==
    /\ status[s] = "running" /\ s \notin waiting
    /\ Service!Finish(s) /\ given'[s] = NoSearch
    /\ Count(s, "nothing")
    /\ sendTook' = [sendTook EXCEPT ![s] = 0]
    /\ UNCHANGED <<waiting, waited>>

\* The wait ends with an answer, a song or "not found", or by the timeout.
WaitEnds(s) ==
    /\ status[s] = "running" /\ s \in waiting
    /\ given[s] # NoSearch \/ waited[s] = SearchTimeout
    /\ Service!Finish(s) /\ given' = given
    /\ \E found \in {"song", "nothing"} :
          (found = "song" => given[s] # NoSearch) /\ Count(s, found)
    /\ waiting' = waiting \ {s}
    /\ sendTook' = [sendTook EXCEPT ![s] = 0]
    /\ waited' = [waited EXCEPT ![s] = 0]

\* A sender that is closed without an error cancels its requests, and the server
\* its handlers when it stops.  CancelledError is no Exception: it passes the
\* clauses that count.
Cancelled(s) ==
    /\ client # "up"
    /\ status[s] = "running"
    /\ Service!Finish(s) /\ given'[s] = NoSearch
    /\ result' = [result EXCEPT ![s] = "cancelled"]
    /\ waiting' = waiting \ {s}
    /\ sendTook' = [sendTook EXCEPT ![s] = 0]
    /\ waited' = [waited EXCEPT ![s] = 0]
    /\ UNCHANGED stats

Bridge(s) ==
    /\ \/ QueryReachesBot(s) \/ BotAnswers(s)
       \/ SendReturns(s) \/ SendFails(s) \/ WaitEnds(s) \/ Cancelled(s)
    /\ UNCHANGED <<vars, request, client, delivered>>

\* client.disconnect() of Telethon is awaited, and then connected is reset;
\* searches come and go in between.
Disconnects ==
    /\ \/ client = "up" /\ client' = "cut"
       \/ client = "cut" /\ client' = "disconnected"
    /\ UNCHANGED <<vars, request, delivered, status, asked, given, waiting, sendTook, waited,
                   result, stats>>

-----------------------------------------------------------------------------
(* Time.  It waits for the timers that are due, and stands still while     *)
(* nobody waits; a send that nobody counts any more stops at HttpTimeout.  *)

Sending == {s \in Searches : status[s] = "running" /\ s \notin waiting /\ sendTook[s] < HttpTimeout}

Due == \/ \E c \in Calls : request[c] # NoSearch /\ Age(request[c]) = HttpTimeout
       \/ \E s \in waiting : waited[s] = SearchTimeout

Tick ==
    /\ ~Due
    /\ waiting \cup Sending # {}
    /\ sendTook' = [s \in Searches |-> IF s \in Sending THEN sendTook[s] + 1 ELSE sendTook[s]]
    /\ waited' = [s \in Searches |-> IF s \in waiting THEN waited[s] + 1 ELSE waited[s]]
    /\ UNCHANGED <<vars, request, delivered, status, asked, given, waiting, result, stats, client>>

PathNext ==
    \/ \E c \in Calls : HandlerStep(c) \/ Post(c) \/ Answered(c) \/ Unanswered(c)
    \/ \E s \in Searches : Bridge(s)
    \/ Disconnects
    \/ Tick

\* Sends to WhatsApp and the download settle, answers and timers are acted on,
\* time goes on.  A query sent to Telegram may hang for ever.
PathFairness ==
    /\ \A c \in Calls :
          /\ WF_pathVars(calls[c].at \notin Ends /\ (HandlerStep(c) \/ Post(c)))
          /\ WF_pathVars(Answered(c) \/ Unanswered(c))
    /\ \A s \in Searches : WF_pathVars(Bridge(s) /\ WaitEnds(s))
    /\ WF_pathVars(Tick)

PathSpec == PathInit /\ [][PathNext]_pathVars /\ PathFairness

-----------------------------------------------------------------------------
(* Properties.                                                             *)

\* Everything has its shape.
PathTypeOK ==
    /\ TypeOK
    /\ request \in [Calls -> Searches \cup {NoSearch}]
    /\ status \in [Searches -> {"new", "running", "done"}]
    /\ asked \subseteq Searches /\ waiting \subseteq Searches
    /\ given \in [Searches -> Searches \cup {NoSearch}]
    /\ sendTook \in [Searches -> 0..HttpTimeout]
    /\ waited \in [Searches -> 0..SearchTimeout]
    /\ result \in [Searches -> {"open", "song", "nothing", "cancelled"}]
    /\ stats \in [performed : Nat, successful : Nat, failed : Nat]
    /\ client \in {"up", "cut", "disconnected"}
    /\ delivered \in [Searches -> Nat]

Running == {s \in Searches : status[s] = "running"}

\* The statistics account for every search: each one counted as performed has
\* succeeded, has failed, or still runs, whoever has stopped waiting for it.
\* Cancelled searches are missing from the sum, once Telethon may cancel them;
\* a client that is disconnected counts failures of searches it never performed;
\* but what get_stats divides for the success rate never exceeds 100 %.
StatsAddUp ==
    LET ended   == stats.successful + stats.failed
        running == Cardinality(Running)
    IN  /\ client = "up" => stats.performed = ended + running
        /\ client # "disconnected" => stats.performed >= ended + running
        /\ stats.performed >= stats.successful + running

\* No answer of the music bot is sent to two chats, or twice to one, whatever
\* requests time out and however answers are given to searches.
AnswerToOneChat == \A q \in Searches : delivered[q] <= 1

\* axios outlasts the bridge: a search still runs after its user was told that
\* the service is unavailable only if its query took long to be sent, longer
\* than the difference of the two timeouts.
OutlivedByTheBridge ==
    \A s \in Running :
        (\A c \in Calls : request[c] # s) => sendTook[s] >= HttpTimeout - SearchTimeout

=============================================================================
