----------------------------- MODULE MessageRouter -----------------------------
(***************************************************************************)
(* What becomes of a message: the batches of messages.upsert               *)
(* (handleIncomingMessages, bot.js), each handled message after message by *)
(* handleMessage (messageHandler.js), which calls the game handler, the    *)
(* music handler and the simple music handler.  Batches run beside each    *)
(* other.  The game handler is what GameService says of it, the music      *)
(* handler is module MusicHandler; a batch is a call of each.              *)
(*                                                                         *)
(* A message is its chat and the way its text takes; what else is in a     *)
(* batch is only chosen when its turn comes.  Any send may fail.           *)
(***************************************************************************)
EXTENDS Naturals

CONSTANTS
    Users,       \* the chats
    Batches,     \* slots for batches that are handled at the same time
    NoUser,
    MaxBatch     \* bound: messages in a batch

ASSUME RouterAssumption == NoUser \notin Users /\ MaxBatch \in Nat \ {0}

VARIABLES
    stage,            \* where each batch is
    left,             \* how many of its messages are still to come
    message,          \* the chat and the kind of the one it is at
    told,             \* whether something has been sent for that one
    player,           \* whether its sender was playing when it came
    playing, gameCalls,       \* the state of GameService
    isSearching, musicCalls   \* the state of MusicHandler

batchVars == <<stage, left, message, told, player>>
gameVars == <<playing, gameCalls>>
musicVars == <<isSearching, musicCalls>>
vars == <<batchVars, gameVars, musicVars>>

Game == INSTANCE GameService WITH Calls <- Batches, calls <- gameCalls
Music == INSTANCE MusicHandler WITH Calls <- Batches, calls <- musicCalls

\* Commands: /tictactoe and /rps; /search; those answered with one message,
\* as are unknown ones.  Texts: for the music handler; with a music note or a
\* music word in it; those too short for a search, answered with one message.
Commands == {"startGame", "search", "info"}
Texts == {"query", "song", "short"}
Kinds == Commands \cup Texts
NoMessage == [chat |-> NoUser, kind |-> "none"]

\* The awaits of handleMessage and of the simple music handler.
Awaits == {"game", "music", "reply", "youtube", "songReply", "thumbnail", "songError",
           "errorMessage"}

Init ==
    /\ stage = [b \in Batches |-> "idle"]
    /\ left = [b \in Batches |-> 0]
    /\ message = [b \in Batches |-> NoMessage]
    /\ told = [b \in Batches |-> TRUE]
    /\ player = [b \in Batches |-> FALSE]
    /\ Game!Init /\ Music!Init

Go(b, to) == stage' = [stage EXCEPT ![b] = to]

\* handleMessage has returned.
Handled(b) ==
    /\ Go(b, "next")
    /\ message' = [message EXCEPT ![b] = NoMessage]
    /\ player' = [player EXCEPT ![b] = FALSE]

Meanwhile(b, to) == Go(b, to) /\ UNCHANGED <<message, player>>

Tell(b) == told' = [told EXCEPT ![b] = TRUE]

-----------------------------------------------------------------------------
(* handleIncomingMessages and the dispatch of handleMessage.               *)

Upsert(b) ==
    /\ stage[b] = "idle"
    /\ \E n \in 1..MaxBatch : left' = [left EXCEPT ![b] = n]
    /\ Go(b, "next")
    /\ told' = [told EXCEPT ![b] = TRUE]
    /\ UNCHANGED <<message, player, gameVars, musicVars>>

\* The loop over the batch ends.
EndBatch(b) ==
    /\ stage[b] = "next" /\ left[b] = 0
    /\ Go(b, "idle")
    /\ UNCHANGED <<left, message, told, player, gameVars, musicVars>>

\* A message of the bot itself, or one without text, is passed over.
Skip(b) ==
    /\ stage[b] = "next" /\ left[b] > 0
    /\ left' = [left EXCEPT ![b] = @ - 1]
    /\ UNCHANGED <<stage, message, told, player, gameVars, musicVars>>

\* handleMusicSearch is called with the text; the /search command gives it its
\* words in an array, on which query.replace throws.
SearchText(b, u) ==
    Music!handleMusicSearch(b, u)
    /\ musicCalls'[b].at \in {"busyReply", "announcing", "shortReply"}

SearchWords(b, u) ==
    Music!handleMusicSearch(b, u) /\ musicCalls'[b].at \in {"busyReply", "errorReply"}

handleCommand(b, u, kind) ==
    \/ /\ kind = "startGame" /\ Go(b, "game")
       /\ Game!startGame(b, u) /\ UNCHANGED musicVars
    \/ /\ kind = "search" /\ Go(b, "music")
       /\ SearchWords(b, u) /\ UNCHANGED gameVars
    \/ /\ kind = "info" /\ Go(b, "reply")
       /\ UNCHANGED <<gameVars, musicVars>>

\* A message is taken: a command goes to its handler, a text to the game.
handleMessage(b) ==
    /\ stage[b] = "next" /\ left[b] > 0
    /\ left' = [left EXCEPT ![b] = @ - 1]
    /\ told' = [told EXCEPT ![b] = FALSE]
    /\ \E u \in Users, kind \in Kinds :
          /\ message' = [message EXCEPT ![b] = [chat |-> u, kind |-> kind]]
          /\ player' = [player EXCEPT ![b] = kind \in Texts /\ u \in playing]
          /\ \/ handleCommand(b, u, kind)
             \/ /\ kind \in Texts /\ Go(b, "game")
                /\ Game!handleGameInput(b, u) /\ UNCHANGED musicVars

\* A text the game handler returned false for goes to one of the others.
RouteText(b) ==
    LET u == message[b].chat IN
    /\ stage[b] = "game" /\ gameCalls[b].at = "unhandled"
    /\ \/ /\ message[b].kind = "query" /\ Go(b, "music")
          /\ SearchText(b, u)
       \/ message[b].kind = "song" /\ Go(b, "youtube") /\ UNCHANGED musicVars
       \/ message[b].kind = "short" /\ Go(b, "reply") /\ UNCHANGED musicVars
    /\ gameCalls' = [gameCalls EXCEPT ![b].at = "idle"]
    /\ UNCHANGED <<left, message, told, player, playing>>

-----------------------------------------------------------------------------
(* The handlers go on, and return or throw.                                *)

GameGoesOn(b) ==
    /\ stage[b] = "game"
    /\ \/ Game!Sent(b) /\ Tell(b)
       \/ Game!Rejected(b) /\ UNCHANGED told
    /\ UNCHANGED <<stage, left, message, player, musicVars>>

\* A step of handleMusicSearch sends something, unless it waits for the bridge
\* or for the download.
MusicGoesOn(b) ==
    /\ stage[b] = "music"
    /\ \/ /\ Music!Resolved(b)
          /\ IF musicCalls[b].at \in {"searching", "downloading"} THEN UNCHANGED told ELSE Tell(b)
       \/ Music!Rejected(b) /\ UNCHANGED told
    /\ UNCHANGED <<stage, left, message, player, gameVars>>

\* The promise of the batch's handler call is consumed.
CallsConsumed(b) ==
    /\ gameCalls' = [gameCalls EXCEPT ![b].at = "idle"]
    /\ musicCalls' = [musicCalls EXCEPT ![b].at = "idle"]
    /\ UNCHANGED <<playing, isSearching>>

Outcome(b) == IF stage[b] = "game" THEN gameCalls[b].at
              ELSE IF stage[b] = "music" THEN musicCalls[b].at
              ELSE "none"

HandlerReturns(b) ==
    /\ Outcome(b) = "done"
    /\ Handled(b)
    /\ CallsConsumed(b)
    /\ UNCHANGED <<left, told>>

\* Fault for the mutation runs: what a handler throws is only logged.
HandlerThrowsQuietly(b) ==
    /\ Outcome(b) = "thrown"
    /\ Handled(b)
    /\ CallsConsumed(b)
    /\ UNCHANGED <<left, told>>

\* The catch of handleMessage sends the error message.
HandlerThrows(b) ==
    /\ Outcome(b) = "thrown"
    /\ Go(b, "errorMessage")
    /\ CallsConsumed(b)
    /\ UNCHANGED <<left, message, told, player>>

-----------------------------------------------------------------------------
(* The sends of handleMessage itself and of the simple music handler.      *)

\* searchYouTubeMusic never throws: it found something or not.
YouTubeAnswers(b) ==
    /\ stage[b] = "youtube"
    /\ Go(b, "songReply")
    /\ UNCHANGED <<left, message, told, player, gameVars, musicVars>>

\* A found song may have a thumbnail to send.
Sent(b) ==
    /\ \/ stage[b] \in {"reply", "songReply", "thumbnail", "songError", "errorMessage"} /\ Handled(b)
       \/ stage[b] = "songReply" /\ Meanwhile(b, "thumbnail")
    /\ Tell(b)
    /\ UNCHANGED <<left, gameVars, musicVars>>

\* Fault for the mutation runs: a song whose thumbnail fails is sent again.
RejectedRetried(b) ==
    /\ \/ stage[b] \in {"reply", "songError"} /\ Meanwhile(b, "errorMessage") /\ UNCHANGED left
       \/ stage[b] = "songReply" /\ Meanwhile(b, "songError") /\ UNCHANGED left
       \/ stage[b] = "thumbnail" /\ Meanwhile(b, "songReply") /\ UNCHANGED left
       \/ /\ stage[b] = "errorMessage" /\ Meanwhile(b, "idle")
          /\ left' = [left EXCEPT ![b] = 0]
    /\ UNCHANGED <<told, gameVars, musicVars>>

\* Each failed send has its own consequence; the error message failing makes
\* handleMessage throw, and handleIncomingMessages leaves the loop.
Rejected(b) ==
    /\ \/ stage[b] \in {"reply", "songError"} /\ Meanwhile(b, "errorMessage") /\ UNCHANGED left
       \/ stage[b] = "songReply" /\ Meanwhile(b, "songError") /\ UNCHANGED left
       \/ stage[b] = "thumbnail" /\ Handled(b) /\ UNCHANGED left
       \/ /\ stage[b] = "errorMessage" /\ Meanwhile(b, "idle")
          /\ left' = [left EXCEPT ![b] = 0]
    /\ UNCHANGED <<told, gameVars, musicVars>>

-----------------------------------------------------------------------------

SessionsExpire == Game!Expire /\ UNCHANGED <<batchVars, musicVars>>

\* Everything but the arrival of a batch.
Continues(b) ==
    \/ EndBatch(b) \/ Skip(b) \/ handleMessage(b) \/ RouteText(b)
    \/ GameGoesOn(b) \/ MusicGoesOn(b) \/ HandlerReturns(b) \/ HandlerThrows(b)
    \/ YouTubeAnswers(b) \/ Sent(b) \/ Rejected(b)

Next ==
    \/ \E b \in Batches : Upsert(b) \/ Continues(b)
    \/ SessionsExpire

\* Sends and requests settle, one way or the other.
Fairness == \A b \in Batches : WF_vars(Continues(b))

Spec == Init /\ [][Next]_vars /\ Fairness

-----------------------------------------------------------------------------
(* Properties.                                                             *)

\* Nobody's message is passed over in silence: when handleMessage returns,
\* something was sent for the message, whichever handlers had it and whatever
\* failed on the way.
AnsweredBeforeNext == \A b \in Batches : stage[b] = "next" => told[b]

\* A text sent into a game is taken for a song or for small talk only after its
\* player has been told that the game failed.
PlayersAreToldFirst ==
    \A b \in Batches :
        player[b] /\ stage[b] \in {"music", "reply", "youtube"} => told[b]

\* "Recherche en cours... Veuillez patienter" is said of a search in another batch: no
\* message is refused because of one that its own batch has dealt with.
RefusedForAnotherBatch ==
    [][ \A b \in Batches :
          musicCalls'[b].at = "busyReply" /\ musicCalls[b].at # "busyReply" =>
              \E d \in Batches \ {b} : musicCalls[d].user = message'[b].chat ]_vars

\* Every batch is worked off or given up, so a message never blocks for good
\* those that came with it.
BatchesEnd == \A b \in Batches : stage[b] # "idle" ~> stage[b] = "idle"

=============================================================================
