----------------------------- MODULE MusicFetcher -----------------------------
(***************************************************************************)
(* Music searches through the VK music bot (class MusicFetcher,            *)
(* music_fetcher.py).  Every search is one call of search_music, known by  *)
(* its search_id; the bot answers in one chat, with nothing that tells     *)
(* which query an answer is for, each answer handled by a task of its own. *)
(* The fetcher gives an answer to the search that started last.            *)
(*                                                                         *)
(* The music bot is outside the program: it answers a query with an audio  *)
(* file, with a "not found" text, or never, and at most once.              *)
(***************************************************************************)
EXTENDS Naturals

CONSTANTS
    Searches,    \* the calls of search_music
    NoSearch     \* what a future that holds no answer is an answer to

ASSUME FetcherAssumption == NoSearch \notin Searches

VARIABLES
    at,          \* where each call of search_music is
    pending,     \* the keys of pending_searches
    timestamp,   \* when each search started; the clock counts their starts
                 \* (time.time() is taken to increase from start to start)
    clock,
    future,      \* the future of each search
    reply        \* the bot's answer to each query, on its way to the fetcher

vars == <<at, pending, timestamp, clock, future, reply>>

Stages == {"new", "sending", "waiting", "returned", "failed"}
AnswerKinds == {"audio", "noUrl", "notFound"}
Replies == {"unasked", "asked", "audio", "notFound", "downloading", "gone"}

Answer(q, kind) == [of |-> q, kind |-> kind]
Open == Answer(NoSearch, "open")
Cancelled == Answer(NoSearch, "cancelled")

Future == {Open, Cancelled} \cup [of : Searches, kind : AnswerKinds]

Init ==
    /\ at = [s \in Searches |-> "new"]
    /\ pending = {}
    /\ timestamp = [s \in Searches |-> 0]
    /\ clock = 0
    /\ future = [s \in Searches |-> Open]
    /\ reply = [s \in Searches |-> "unasked"]

-----------------------------------------------------------------------------
(* search_music.                                                           *)

\* Fault for the mutation runs: a search may be given an earlier one's result.
search_musicCached(s) ==
    /\ at[s] = "new"
    /\ at' = [at EXCEPT ![s] = "sending"]
    /\ pending' = pending \cup {s}
    /\ clock' = clock + 1
    /\ timestamp' = [timestamp EXCEPT ![s] = clock']
    /\ \E t \in Searches : future' = [future EXCEPT ![s] = future[t]]
    /\ UNCHANGED reply

search_music(s) ==
    /\ at[s] = "new"
    /\ at' = [at EXCEPT ![s] = "sending"]
    /\ pending' = pending \cup {s}
    /\ clock' = clock + 1
    /\ timestamp' = [timestamp EXCEPT ![s] = clock']
    /\ UNCHANGED <<future, reply>>

\* send_search_query returns, and the search waits for its future.
SendReturns(s) ==
    /\ at[s] = "sending" /\ reply[s] # "unasked"
    /\ at' = [at EXCEPT ![s] = "waiting"]
    /\ UNCHANGED <<pending, timestamp, clock, future, reply>>

\* send_search_query raises, before or after the query got through; the
\* clean-up only follows the wait, so the entry stays.
SendFails(s) ==
    /\ at[s] = "sending"
    /\ at' = [at EXCEPT ![s] = "failed"]
    /\ UNCHANGED <<pending, timestamp, clock, future, reply>>

\* Faults for the mutation runs: a timeout of another kind, and none at all.
TimeoutUntyped(s) ==
    /\ at[s] = "waiting" /\ future[s] = Open
    /\ future' = [future EXCEPT ![s] = Answer(s, "timeout")]
    /\ UNCHANGED <<at, pending, timestamp, clock, reply>>

TimeoutNever(s) ==
    /\ at[s] = "waiting" /\ future[s] # Open
    /\ UNCHANGED vars

\* wait_for gives up and cancels the future; the search runs later.
Timeout(s) ==
    /\ at[s] = "waiting" /\ future[s] = Open
    /\ future' = [future EXCEPT ![s] = Cancelled]
    /\ UNCHANGED <<at, pending, timestamp, clock, reply>>

\* Fault for the mutation runs: the entry is not cleaned up.
ReturnWithoutCleanUp(s) ==
    /\ at[s] = "waiting" /\ future[s] # Open
    /\ at' = [at EXCEPT ![s] = "returned"]
    /\ UNCHANGED <<pending, timestamp, clock, future, reply>>

\* The search finds its future done, cleans up and returns.
Return(s) ==
    /\ at[s] = "waiting" /\ future[s] # Open
    /\ at' = [at EXCEPT ![s] = "returned"]
    /\ pending' = pending \ {s}
    /\ UNCHANGED <<timestamp, clock, future, reply>>

-----------------------------------------------------------------------------
(* The music bot, and process_vk_response.                                 *)

QueryReachesBot(s) ==
    /\ at[s] = "sending" /\ reply[s] = "unasked"
    /\ reply' = [reply EXCEPT ![s] = "asked"]
    /\ UNCHANGED <<at, pending, timestamp, clock, future>>

BotAnswers(q) ==
    /\ reply[q] = "asked"
    /\ \E kind \in {"audio", "notFound"} : reply' = [reply EXCEPT ![q] = kind]
    /\ UNCHANGED <<at, pending, timestamp, clock, future>>

\* match_search_result and handle_not_found: the search that started last gets
\* the answer, if its future is not done; nobody does otherwise.
IsLatest(s) == \A p \in pending : timestamp[p] <= timestamp[s]

\* Fault for the mutation runs: a future that is done is completed again.
CompleteAgain(answer) ==
    \/ pending = {} /\ UNCHANGED future
    \/ \E s \in pending : IsLatest(s) /\ future' = [future EXCEPT ![s] = answer]

CompleteLatest(answer) ==
    \/ pending = {} /\ UNCHANGED future
    \/ \E s \in pending :
          /\ IsLatest(s)
          /\ future' = IF future[s] = Open THEN [future EXCEPT ![s] = answer] ELSE future

\* An audio message: the media is downloaded before anything is matched.
ReceiveAudio(q) ==
    /\ reply[q] = "audio"
    /\ reply' = [reply EXCEPT ![q] = "downloading"]
    /\ UNCHANGED <<at, pending, timestamp, clock, future>>

\* The download succeeds, fails (get_audio_url returns None and the answer goes
\* without an URL), or extract_audio_info fails and the answer is dropped.
DownloadEnds(q) ==
    /\ reply[q] = "downloading"
    /\ reply' = [reply EXCEPT ![q] = "gone"]
    /\ \/ \E kind \in {"audio", "noUrl"} : CompleteLatest(Answer(q, kind))
       \/ UNCHANGED future
    /\ UNCHANGED <<at, pending, timestamp, clock>>

ReceiveNotFound(q) ==
    /\ reply[q] = "notFound"
    /\ reply' = [reply EXCEPT ![q] = "gone"]
    /\ CompleteLatest(Answer(q, "notFound"))
    /\ UNCHANGED <<at, pending, timestamp, clock>>

-----------------------------------------------------------------------------

Search(s) ==
    search_music(s) \/ SendReturns(s) \/ SendFails(s) \/ Timeout(s) \/ Return(s)

process_vk_response(q) == ReceiveAudio(q) \/ DownloadEnds(q) \/ ReceiveNotFound(q)

Next ==
    \E s \in Searches :
        Search(s) \/ QueryReachesBot(s) \/ BotAnswers(s) \/ process_vk_response(s)

\* The timer of wait_for fires, and a settled future wakes its search.  A send
\* may hang for ever (it is awaited without a timeout, and a sender that is
\* disconnected leaves queued requests open), the bot may stay silent, and
\* nobody need search.
Fairness ==
    \A s \in Searches : WF_vars(Timeout(s) \/ Return(s))

Spec == Init /\ [][Next]_vars
FairSpec == Spec /\ Fairness

-----------------------------------------------------------------------------
(* Properties.                                                             *)

\* Everything has its shape.
TypeOK ==
    /\ at \in [Searches -> Stages]
    /\ pending \subseteq Searches
    /\ timestamp \in [Searches -> Nat]
    /\ clock \in Nat
    /\ future \in [Searches -> Future]
    /\ reply \in [Searches -> Replies]

Running(s) == at[s] \in {"sending", "waiting"}

\* A search can be found by an answer from its start to its return, however
\* sends, timers and answers interleave; a search whose send failed, and only
\* such a search, stays in the table for good.
PendingIsExact ==
    pending = {s \in Searches : Running(s) \/ at[s] = "failed"}

\* The fetcher keeps what SearchService promises.  A failed search returned
\* nothing, whatever its abandoned future receives later.
Service ==
    INSTANCE SearchService WITH
        Nothing <- NoSearch,
        status  <- [s \in Searches |->
                       CASE at[s] = "new" -> "new"
                         [] Running(s)    -> "running"
                         [] OTHER         -> "done"],
        asked   <- {s \in Searches : reply[s] # "unasked"},
        given   <- [s \in Searches |->
                       IF at[s] = "failed" THEN NoSearch ELSE future[s].of]

ImplementsService == Service!Spec

\* Every search whose query was sent returns, with an answer or without,
\* whatever becomes of the other searches and of the bot.  (One whose send hangs
\* does not; search_timeout only counts from the end of the send.)
SearchesReturn ==
    \A s \in Searches : at[s] = "waiting" ~> at[s] = "returned"

\* "Find matching pending search" (process_vk_response, music_fetcher.py): a
\* search that has not failed is given the answer to its own query or nothing.
MatchesItsSearch ==
    \A s \in Searches : at[s] # "failed" => future[s].of \in {s, NoSearch}

OneAtATime ==
    \A s, q \in Searches :
        Running(s) /\ (Running(q) \/ reply[q] \notin {"unasked", "gone"}) => q = s

\* The fetcher's guess is right as long as no search runs while another runs,
\* or while the answer to another query is still to come.
AnswersMatchOneAtATime == []OneAtATime => []MatchesItsSearch

=============================================================================
