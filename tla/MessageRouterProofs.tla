-------------------------- MODULE MessageRouterProofs --------------------------
(***************************************************************************)
(* Theorems about MessageRouter for any number of chats and of batches of  *)
(* any length: no message is passed over in silence, players are told      *)
(* first, and a search is refused only because of one in another batch.    *)
(***************************************************************************)
EXTENDS MessageRouter, TLAPS

GameCall == [at : Game!Waits \cup Game!Ends, user : Users \cup {NoUser}]

TypeOK ==
    /\ stage \in [Batches -> {"idle", "next"} \cup Awaits]
    /\ message \in [Batches -> [chat : Users \cup {NoUser}, kind : Kinds \cup {"none"}]]
    /\ told \in [Batches -> BOOLEAN]
    /\ player \in [Batches -> BOOLEAN]
    /\ gameCalls \in [Batches -> GameCall]
    /\ Music!TypeOK

\* What a batch has under way in its handlers: a message that has got as far as
\* the game handler has a chat, and only the stage "music" has a search.
HandlersFit ==
    \A b \in Batches :
        /\ stage[b] = "game" => message[b].chat \in Users
        /\ stage[b] # "music" => musicCalls[b].at \in Music!Ends

\* Why something has been sent when handleMessage returns: its last send got
\* through, or one before it did.
ToldAtTheEnd ==
    \A b \in Batches :
        /\ stage[b] \in {"next", "thumbnail"} => told[b]
        /\ stage[b] = "game" /\ gameCalls[b].at = "done" => told[b]
        /\ stage[b] = "music" /\ musicCalls[b].at = "done" => told[b]

\* Why players are told first: so they are when the game handler is left.
ToldByTheGame ==
    \A b \in Batches :
        player[b] /\ stage[b] = "game" /\ gameCalls[b].at = "unhandled" => told[b]

IInv ==
    /\ TypeOK
    /\ HandlersFit
    /\ Music!GuardHasItsCall
    /\ ToldAtTheEnd
    /\ ToldByTheGame
    /\ PlayersAreToldFirst

-----------------------------------------------------------------------------
(* The searches of the batches.                                            *)

\* Without messages nothing has been left behind.
LEMMA InitIInv == Init => IInv
<1> SUFFICES ASSUME Init PROVE IInv
  OBVIOUS
<1> USE DEF Init, Music!Init, Game!Init
<1>1. TypeOK
  BY DEF TypeOK, NoMessage, GameCall, Game!Ends, Music!TypeOK, Music!Call, Music!Ends
<1>2. HandlersFit /\ Music!GuardHasItsCall
  BY DEF HandlersFit, Music!GuardHasItsCall, Music!Ends
<1> QED
  BY <1>1, <1>2 DEF IInv, ToldAtTheEnd, ToldByTheGame, PlayersAreToldFirst

\* A search starts in a batch that has none, and is its only change.
LEMMA SearchStarts ==
    ASSUME Music!TypeOK, Music!GuardHasItsCall,
           NEW b \in Batches, NEW u \in Users, Music!handleMusicSearch(b, u)
    PROVE  /\ Music!TypeOK'
           /\ Music!GuardHasItsCall'
           /\ musicCalls[b].user = NoUser
           /\ musicCalls'[b].at \in Music!Waits
           /\ musicCalls'[b].at = "busyReply" => u \in isSearching
           /\ \A d \in Batches \ {b} : musicCalls'[d] = musicCalls[d]
<1> USE DEF Music!handleMusicSearch, Music!RefuseSecondSearch, Music!StartSearch
<1>1. PICK at \in Music!Waits :
         /\ musicCalls' = [musicCalls EXCEPT ![b] = [at |-> at, user |-> u]]
         /\ at = "busyReply" => u \in isSearching
  BY DEF Music!WaitAt, Music!Waits, Music!SearchWaits
<1>2. isSearching' \in {isSearching, isSearching \cup {u}}
  OBVIOUS
<1>3. musicCalls[b].user = NoUser
  BY RouterAssumption
     DEF Music!Free, Music!TypeOK, Music!Call, Music!Waits, Music!SearchWaits, Music!Ends
<1>4. [at |-> at, user |-> u] \in Music!Call
  BY DEF Music!Call
<1>5. /\ musicCalls'[b] = [at |-> at, user |-> u]
      /\ \A d \in Batches \ {b} : musicCalls'[d] = musicCalls[d]
  BY <1>1 DEF Music!TypeOK
<1>6. Music!TypeOK'
  BY <1>1, <1>2, <1>4 DEF Music!TypeOK
<1>7. Music!GuardHasItsCall'
  BY <1>2, <1>3, <1>5, RouterAssumption DEF Music!GuardHasItsCall, Music!TypeOK
<1> QED
  BY <1>1, <1>3, <1>5, <1>6, <1>7

\* A search that goes on keeps its guard or gives it back at its end, and ends
\* well only after a message of its own.
LEMMA SearchSettles ==
    ASSUME Music!TypeOK, Music!GuardHasItsCall,
           NEW b \in Batches, Music!Resolved(b) \/ Music!Rejected(b)
    PROVE  /\ Music!TypeOK'
           /\ Music!GuardHasItsCall'
           /\ musicCalls'[b].at \in Music!Waits \cup {"done", "thrown"}
           /\ musicCalls'[b].at = "done" =>
                 ~Music!Rejected(b) /\ musicCalls[b].at \notin {"searching", "downloading"}
           /\ musicCalls'[b].at = "busyReply" => musicCalls[b].at = "busyReply"
           /\ \A d \in Batches \ {b} : musicCalls'[d] = musicCalls[d]
<1>1. musicCalls[b].at \in Music!Waits /\ musicCalls[b].user \in Users
  BY DEF Music!TypeOK, Music!Call, Music!Resolved, Music!Rejected, Music!Waits,
         Music!SearchWaits, Music!Ends
<1>2. \/ \E at \in Music!Waits \ {"busyReply"} : Music!GoOn(b, at)
      \/ Music!Finally(b, "thrown")
      \/ /\ Music!Finally(b, "done")
         /\ musicCalls[b].at \notin {"searching", "downloading"}
  BY DEF Music!Resolved, Music!Rejected, Music!Waits, Music!SearchWaits
<1>3. ASSUME NEW at \in Music!Waits \ {"busyReply"}, Music!GoOn(b, at)
      PROVE  /\ Music!TypeOK' /\ Music!GuardHasItsCall'
             /\ musicCalls'[b].at = at
             /\ \A d \in Batches \ {b} : musicCalls'[d] = musicCalls[d]
  <2>1. /\ musicCalls' = [musicCalls EXCEPT ![b] = [at |-> at, user |-> musicCalls[b].user]]
        /\ isSearching' = isSearching
    BY <1>3 DEF Music!GoOn, Music!WaitAt
  <2>2. [at |-> at, user |-> musicCalls[b].user] \in Music!Call
    BY <1>1 DEF Music!Call
  <2>3. \A d \in Batches : musicCalls'[d].user = musicCalls[d].user
    BY <2>1 DEF Music!TypeOK
  <2> QED
    BY <2>1, <2>2, <2>3 DEF Music!TypeOK, Music!GuardHasItsCall
<1>4. ASSUME NEW end \in {"done", "thrown"}, Music!Finally(b, end)
      PROVE  /\ Music!TypeOK' /\ Music!GuardHasItsCall'
             /\ musicCalls'[b].at = end
             /\ \A d \in Batches \ {b} : musicCalls'[d] = musicCalls[d]
  <2>1. /\ musicCalls' = [musicCalls EXCEPT ![b] = [at |-> end, user |-> NoUser]]
        /\ isSearching' = isSearching \ {musicCalls[b].user}
    BY <1>4 DEF Music!Finally
  <2>2. [at |-> end, user |-> NoUser] \in Music!Call
    BY DEF Music!Call, Music!Ends
  <2>3. \A d \in Batches \ {b} : musicCalls'[d] = musicCalls[d]
    BY <2>1 DEF Music!TypeOK
  <2> QED
    BY <2>1, <2>2, <2>3 DEF Music!TypeOK, Music!GuardHasItsCall
<1>5. Music!Rejected(b) =>
         \/ \E at \in Music!Waits \ {"busyReply"} : Music!GoOn(b, at)
         \/ Music!Finally(b, "thrown")
  BY DEF Music!Rejected, Music!Waits, Music!SearchWaits
<1> QED
  BY <1>2, <1>3, <1>4, <1>5 DEF Music!Waits, Music!SearchWaits

\* What the game handler returned is consumed.
LEMMA GameConsumed ==
    ASSUME gameCalls \in [Batches -> GameCall], NEW b \in Batches,
           gameCalls' = [gameCalls EXCEPT ![b].at = "idle"]
    PROVE  /\ gameCalls' \in [Batches -> GameCall]
           /\ gameCalls'[b].at = "idle"
           /\ \A d \in Batches \ {b} : gameCalls'[d] = gameCalls[d]
<1> DEFINE r == gameCalls[b]
<1>1. r \in [at : Game!Waits \cup Game!Ends, user : Users \cup {NoUser}]
  BY DEF GameCall
<1>2. [r EXCEPT !.at = "idle"] = [at |-> "idle", user |-> r.user]
  BY <1>1
<1>3. gameCalls' = [gameCalls EXCEPT ![b] = [at |-> "idle", user |-> r.user]]
  BY <1>2
<1>4. [at |-> "idle", user |-> r.user] \in GameCall
  BY <1>1 DEF GameCall, Game!Ends
<1> HIDE DEF r
<1> QED
  BY <1>3, <1>4

\* The promise of a batch's handler call is consumed when both have ended.
LEMMA ConsumedKeeps ==
    ASSUME Music!TypeOK, Music!GuardHasItsCall, gameCalls \in [Batches -> GameCall],
           NEW b \in Batches, musicCalls[b].at \in Music!Ends, CallsConsumed(b)
    PROVE  /\ Music!TypeOK'
           /\ Music!GuardHasItsCall'
           /\ gameCalls' \in [Batches -> GameCall]
           /\ gameCalls'[b].at = "idle" /\ musicCalls'[b].at = "idle"
           /\ \A d \in Batches \ {b} : gameCalls'[d] = gameCalls[d] /\ musicCalls'[d] = musicCalls[d]
<1>1. musicCalls[b] \in Music!Call /\ musicCalls[b].user = NoUser
  BY DEF Music!TypeOK, Music!Call, Music!Waits, Music!SearchWaits, Music!Ends
<1>2. /\ musicCalls' = [musicCalls EXCEPT ![b] = [at |-> "idle", user |-> NoUser]]
      /\ isSearching' = isSearching
  <2> DEFINE r == musicCalls[b]
  <2>1. r \in [at : Music!Waits \cup Music!Ends, user : Users \cup {NoUser}]
    BY <1>1 DEF Music!Call
  <2>2. [r EXCEPT !.at = "idle"] = [at |-> "idle", user |-> r.user]
    BY <2>1
  <2> QED
    BY <1>1, <2>2 DEF CallsConsumed
<1>3. [at |-> "idle", user |-> NoUser] \in Music!Call
  BY DEF Music!Call, Music!Ends
<1>4. \A d \in Batches : musicCalls'[d].user = musicCalls[d].user
  BY <1>1, <1>2 DEF Music!TypeOK
<1>5. Music!TypeOK' /\ Music!GuardHasItsCall'
  BY <1>2, <1>3, <1>4 DEF Music!TypeOK, Music!GuardHasItsCall
<1> QED
  BY <1>2, <1>5, GameConsumed DEF CallsConsumed, Music!TypeOK

-----------------------------------------------------------------------------
(* Every step keeps the invariant.  A step is one of one batch, or of the  *)
(* sessions; what the other batches have stays.                            *)

\* What the steps of a batch leave to the others.
OthersStay(b) ==
    \A d \in Batches \ {b} :
        /\ stage'[d] = stage[d] /\ message'[d] = message[d]
        /\ told'[d] = told[d] /\ player'[d] = player[d]
        /\ gameCalls'[d] = gameCalls[d] /\ musicCalls'[d] = musicCalls[d]

\* What is said of one batch.
BatchInv(b) ==
    /\ stage[b] = "game" => message[b].chat \in Users
    /\ stage[b] # "music" => musicCalls[b].at \in Music!Ends
    /\ stage[b] \in {"next", "thumbnail"} => told[b]
    /\ stage[b] = "game" /\ gameCalls[b].at = "done" => told[b]
    /\ stage[b] = "music" /\ musicCalls[b].at = "done" => told[b]
    /\ player[b] /\ stage[b] = "game" /\ gameCalls[b].at = "unhandled" => told[b]
    /\ player[b] /\ stage[b] \in {"music", "reply", "youtube"} => told[b]

\* A step that leaves the other batches alone is checked for its own batch.
LEMMA OneBatchEnough ==
    ASSUME IInv, NEW b \in Batches, OthersStay(b),
           TypeOK', Music!GuardHasItsCall', BatchInv(b)'
    PROVE  IInv'
<1>1. \A d \in Batches : BatchInv(d)
  BY DEF IInv, HandlersFit, ToldAtTheEnd, ToldByTheGame, PlayersAreToldFirst, BatchInv
<1>2. \A d \in Batches : BatchInv(d)'
  BY <1>1 DEF OthersStay, BatchInv
<1> QED
  BY <1>2 DEF IInv, HandlersFit, ToldAtTheEnd, ToldByTheGame, PlayersAreToldFirst, BatchInv

\* The invariant, for one batch.
LEMMA BatchHasInv == ASSUME IInv, NEW b \in Batches PROVE BatchInv(b)
BY DEF IInv, HandlersFit, ToldAtTheEnd, ToldByTheGame, PlayersAreToldFirst, BatchInv

\* The steps that leave the handlers alone.
LEMMA PlainStep ==
    ASSUME IInv, NEW b \in Batches,
           \/ Upsert(b) \/ EndBatch(b) \/ Skip(b) \/ YouTubeAnswers(b) \/ Sent(b) \/ Rejected(b)
    PROVE  IInv'
<1> USE DEF Upsert, EndBatch, Skip, YouTubeAnswers, Sent, Rejected, Handled, Meanwhile, Go, Tell
<1>1. gameVars' = gameVars /\ musicVars' = musicVars
  OBVIOUS
<1>2. Music!TypeOK' /\ Music!GuardHasItsCall' /\ gameCalls' \in [Batches -> GameCall]
  BY <1>1 DEF IInv, TypeOK, Music!TypeOK, Music!GuardHasItsCall, gameVars, musicVars
<1>3. PICK to \in {"idle", "next"} \cup Awaits : stage' = [stage EXCEPT ![b] = to]
  BY DEF IInv, TypeOK, Awaits
<1>4. /\ message' = message \/ message' = [message EXCEPT ![b] = NoMessage]
      /\ player' = player \/ player' = [player EXCEPT ![b] = FALSE]
      /\ told' = told \/ told' = [told EXCEPT ![b] = TRUE]
  OBVIOUS
<1> HIDE DEF Upsert, EndBatch, Skip, YouTubeAnswers, Sent, Rejected, Handled, Meanwhile, Go, Tell
<1>5. NoMessage \in [chat : Users \cup {NoUser}, kind : Kinds \cup {"none"}]
  BY DEF NoMessage
<1>6. TypeOK'
  <2>1. stage' \in [Batches -> {"idle", "next"} \cup Awaits]
    BY <1>3 DEF IInv, TypeOK
  <2>2. message' \in [Batches -> [chat : Users \cup {NoUser}, kind : Kinds \cup {"none"}]]
    BY <1>4, <1>5 DEF IInv, TypeOK
  <2>3. told' \in [Batches -> BOOLEAN]
    BY <1>4 DEF IInv, TypeOK
  <2>4. player' \in [Batches -> BOOLEAN]
    BY <1>4 DEF IInv, TypeOK
  <2> QED
    BY <1>2, <2>1, <2>2, <2>3, <2>4 DEF TypeOK
<1>7. OthersStay(b)
  BY <1>1, <1>3, <1>4 DEF IInv, TypeOK, OthersStay, gameVars, musicVars
<1>8. BatchInv(b)'
  <2> USE DEF Upsert, EndBatch, Skip, YouTubeAnswers, Sent, Rejected, Handled, Meanwhile, Go, Tell
  <2>1. BatchInv(b) /\ TypeOK
    BY BatchHasInv DEF IInv
  <2>2. gameCalls'[b] = gameCalls[b] /\ musicCalls'[b] = musicCalls[b]
    BY <1>1 DEF gameVars, musicVars
  <2>3. stage'[b] # "game" /\ stage'[b] # "music" /\ stage[b] # "music"
    BY <2>1 DEF TypeOK
  <2>4. stage'[b] \in {"next", "thumbnail"} => told'[b]
    BY <2>1 DEF TypeOK, BatchInv
  <2>5. stage'[b] \in {"reply", "youtube"} => ~player'[b] \/ told'[b]
    BY <2>1 DEF TypeOK, BatchInv
  <2> QED
    BY <2>1, <2>2, <2>3, <2>4, <2>5 DEF BatchInv
<1> QED
  BY <1>2, <1>6, <1>7, <1>8, OneBatchEnough

\* The game handler goes on: after an answer it ends, otherwise it waits or throws.
LEMMA GameStep ==
    ASSUME IInv, NEW b \in Batches, GameGoesOn(b) PROVE IInv'
<1>1. /\ stage[b] = "game" /\ stage' = stage /\ message' = message /\ player' = player
      /\ musicVars' = musicVars
  BY DEF GameGoesOn
<1>2. Music!TypeOK' /\ Music!GuardHasItsCall'
  BY <1>1 DEF IInv, TypeOK, Music!TypeOK, Music!GuardHasItsCall, musicVars
<1>3. PICK at \in Game!Waits \cup Game!Ends, u \in Users \cup {NoUser} :
         /\ gameCalls' = [gameCalls EXCEPT ![b] = [at |-> at, user |-> u]]
         /\ \/ told' = [told EXCEPT ![b] = TRUE]
            \/ told' = told /\ at \notin {"done", "unhandled"}
  <2>1. gameCalls[b].user \in Users \cup {NoUser}
    BY DEF IInv, TypeOK, GameCall
  <2>2. CASE Game!Sent(b) /\ Tell(b)
    BY <2>2 DEF Game!Sent, Game!End, Game!Ends, Tell
  <2>3. CASE Game!Rejected(b) /\ UNCHANGED told
    BY <2>1, <2>3 DEF Game!Rejected, Game!End, Game!WaitAt, Game!Ends, Game!Waits
  <2> QED
    BY <2>2, <2>3 DEF GameGoesOn
<1>4. [at |-> at, user |-> u] \in GameCall
  BY DEF GameCall
<1>5. gameCalls' \in [Batches -> GameCall] /\ gameCalls'[b].at = at
  BY <1>3, <1>4 DEF IInv, TypeOK
<1>6. told' \in [Batches -> BOOLEAN]
  BY <1>3 DEF IInv, TypeOK
<1>7. TypeOK'
  BY <1>1, <1>2, <1>5, <1>6 DEF IInv, TypeOK
<1>8. OthersStay(b)
  BY <1>1, <1>3 DEF IInv, TypeOK, OthersStay, musicVars
<1>9. at \in {"done", "unhandled"} => told'[b]
  BY <1>3 DEF IInv, TypeOK
<1>10. BatchInv(b)'
  BY <1>1, <1>5, <1>9, BatchHasInv DEF BatchInv, musicVars
<1> QED
  BY <1>2, <1>7, <1>8, <1>10, OneBatchEnough

\* The music handler goes on: only a message of its own lets it return.
LEMMA MusicStep ==
    ASSUME IInv, NEW b \in Batches, MusicGoesOn(b) PROVE IInv'
<1>1. /\ stage[b] = "music" /\ stage' = stage /\ message' = message /\ player' = player
      /\ gameVars' = gameVars
      /\ Music!Resolved(b) \/ Music!Rejected(b)
  BY DEF MusicGoesOn
<1>2. told' = told \/ told' = [told EXCEPT ![b] = TRUE]
  BY DEF MusicGoesOn, Tell
<1>3. /\ Music!TypeOK' /\ Music!GuardHasItsCall'
      /\ \A d \in Batches \ {b} : musicCalls'[d] = musicCalls[d]
  BY <1>1, SearchSettles DEF IInv, TypeOK
<1>4. musicCalls'[b].at = "done" => told' = [told EXCEPT ![b] = TRUE]
  BY <1>1, SearchSettles DEF IInv, TypeOK, MusicGoesOn, Tell
<1>5. told' \in [Batches -> BOOLEAN]
  BY <1>2 DEF IInv, TypeOK
<1>6. TypeOK'
  BY <1>1, <1>3, <1>5 DEF IInv, TypeOK, gameVars
<1>7. OthersStay(b)
  BY <1>1, <1>2, <1>3 DEF IInv, TypeOK, OthersStay, gameVars
<1>8. BatchInv(b)'
  <2>1. BatchInv(b)
    BY BatchHasInv
  <2>2. told[b] => told'[b]
    BY <1>2 DEF IInv, TypeOK
  <2>3. musicCalls'[b].at = "done" => told'[b]
    BY <1>4 DEF IInv, TypeOK
  <2> QED
    BY <1>1, <2>1, <2>2, <2>3 DEF BatchInv
<1> QED
  BY <1>3, <1>6, <1>7, <1>8, OneBatchEnough

\* A handler that returns has told; one that throws leaves it to the error message.
LEMMA HandlerEnds ==
    ASSUME IInv, NEW b \in Batches, HandlerReturns(b) \/ HandlerThrows(b) PROVE IInv'
<1>1. /\ Outcome(b) \in {"done", "thrown"} /\ CallsConsumed(b) /\ told' = told
      /\ \/ HandlerReturns(b) /\ stage' = [stage EXCEPT ![b] = "next"]
            /\ message' = [message EXCEPT ![b] = NoMessage]
            /\ player' = [player EXCEPT ![b] = FALSE]
         \/ HandlerThrows(b) /\ stage' = [stage EXCEPT ![b] = "errorMessage"]
            /\ message' = message /\ player' = player
  BY DEF HandlerReturns, HandlerThrows, Handled, Go
<1>2. musicCalls[b].at \in Music!Ends
  BY <1>1 DEF Outcome, IInv, HandlersFit, Music!Ends
<1>3. /\ Music!TypeOK' /\ Music!GuardHasItsCall' /\ gameCalls' \in [Batches -> GameCall]
      /\ musicCalls'[b].at = "idle"
      /\ \A d \in Batches \ {b} : gameCalls'[d] = gameCalls[d] /\ musicCalls'[d] = musicCalls[d]
  BY <1>1, <1>2, ConsumedKeeps DEF IInv, TypeOK
<1>4. TypeOK'
  <2>1. stage' \in [Batches -> {"idle", "next"} \cup Awaits]
    BY <1>1 DEF IInv, TypeOK, Awaits
  <2>2. NoMessage \in [chat : Users \cup {NoUser}, kind : Kinds \cup {"none"}]
    BY DEF NoMessage
  <2>3. message' \in [Batches -> [chat : Users \cup {NoUser}, kind : Kinds \cup {"none"}]]
    BY <1>1, <2>2 DEF IInv, TypeOK
  <2>4. player' \in [Batches -> BOOLEAN] /\ told' \in [Batches -> BOOLEAN]
    BY <1>1 DEF IInv, TypeOK
  <2> QED
    BY <1>3, <2>1, <2>3, <2>4 DEF TypeOK
<1>5. OthersStay(b)
  BY <1>1, <1>3 DEF IInv, TypeOK, OthersStay
<1>6. HandlerReturns(b) => told'[b]
  BY <1>1 DEF HandlerReturns, Outcome, IInv, TypeOK, ToldAtTheEnd
<1>7. stage'[b] \in {"next", "errorMessage"} /\ (stage'[b] = "next" => told'[b])
  BY <1>1, <1>6 DEF IInv, TypeOK
<1>8. BatchInv(b)'
  BY <1>3, <1>7 DEF BatchInv, Music!Ends
<1> QED
  BY <1>3, <1>4, <1>5, <1>8, OneBatchEnough

\* A call of the game handler starts and gets no further than its first await.
LEMMA GameStarts ==
    ASSUME IInv, NEW b \in Batches, NEW u \in Users,
           Game!startGame(b, u) \/ Game!handleGameInput(b, u)
    PROVE  /\ gameCalls' \in [Batches -> GameCall]
           /\ gameCalls'[b].at # "done"
           /\ gameCalls'[b].at = "unhandled" => u \notin playing
           /\ \A d \in Batches \ {b} : gameCalls'[d] = gameCalls[d]
<1>1. PICK at \in Game!Waits \cup Game!Ends, v \in Users \cup {NoUser} :
         /\ gameCalls' = [gameCalls EXCEPT ![b] = [at |-> at, user |-> v]]
         /\ at # "done"
         /\ at = "unhandled" => u \notin playing
  BY DEF Game!startGame, Game!handleGameInput, Game!InputNotForGame, Game!InputOfPlayer,
         Game!WaitAt, Game!End, Game!Waits, Game!Ends
<1>2. [at |-> at, user |-> v] \in GameCall
  BY DEF GameCall
<1> QED
  BY <1>1, <1>2 DEF IInv, TypeOK

\* A text that the game handler leaves alone is passed on; if its sender plays,
\* he has been told.
LEMMA RouteStep ==
    ASSUME IInv, NEW b \in Batches, RouteText(b) PROVE IInv'
<1>1. /\ stage[b] = "game" /\ gameCalls[b].at = "unhandled"
      /\ gameCalls' = [gameCalls EXCEPT ![b].at = "idle"]
      /\ told' = told /\ message' = message /\ player' = player
      /\ \/ Go(b, "music") /\ Music!handleMusicSearch(b, message[b].chat)
         \/ (Go(b, "youtube") \/ Go(b, "reply")) /\ musicVars' = musicVars
  BY DEF RouteText, SearchText
<1>2. message[b].chat \in Users /\ BatchInv(b)
  BY <1>1, BatchHasInv DEF BatchInv
<1>3. /\ gameCalls' \in [Batches -> GameCall] /\ gameCalls'[b].at = "idle"
      /\ \A d \in Batches \ {b} : gameCalls'[d] = gameCalls[d]
  BY <1>1, GameConsumed DEF IInv, TypeOK
<1>4. PICK to \in {"music", "youtube", "reply"} :
         /\ stage' = [stage EXCEPT ![b] = to]
         /\ Music!TypeOK' /\ Music!GuardHasItsCall'
         /\ to = "music" => musicCalls'[b].at # "done"
         /\ to # "music" => musicCalls'[b].at \in Music!Ends
         /\ \A d \in Batches \ {b} : musicCalls'[d] = musicCalls[d]
  <2>1. CASE Go(b, "music") /\ Music!handleMusicSearch(b, message[b].chat)
    BY <1>2, <2>1, SearchStarts DEF IInv, TypeOK, Go, Music!Waits, Music!SearchWaits
  <2>2. CASE (Go(b, "youtube") \/ Go(b, "reply")) /\ musicVars' = musicVars
    <3>1. musicCalls[b].at \in Music!Ends
      BY <1>1, <1>2 DEF BatchInv
    <3> QED
      BY <2>2, <3>1
         DEF IInv, TypeOK, Go, Music!TypeOK, Music!GuardHasItsCall, musicVars
  <2> QED
    BY <1>1, <2>1, <2>2
<1>5. TypeOK'
  BY <1>1, <1>3, <1>4 DEF IInv, TypeOK, Awaits
<1>6. OthersStay(b)
  BY <1>1, <1>3, <1>4 DEF IInv, TypeOK, OthersStay
<1>7. BatchInv(b)'
  <2>1. stage'[b] = to
    BY <1>4 DEF IInv, TypeOK
  <2>2. player[b] => told[b]
    BY <1>1, <1>2 DEF BatchInv
  <2> QED
    BY <1>1, <1>4, <2>1, <2>2 DEF BatchInv
<1> QED
  BY <1>4, <1>5, <1>6, <1>7, OneBatchEnough

\* A message is taken: nobody who plays is told by it that he does not.
LEMMA TakeStep ==
    ASSUME IInv, NEW b \in Batches, handleMessage(b) PROVE IInv'
<1>1. PICK u \in Users, kind \in Kinds :
         /\ message' = [message EXCEPT ![b] = [chat |-> u, kind |-> kind]]
         /\ player' = [player EXCEPT ![b] = kind \in Texts /\ u \in playing]
         /\ \/ handleCommand(b, u, kind)
            \/ /\ kind \in Texts /\ Go(b, "game")
               /\ Game!handleGameInput(b, u) /\ UNCHANGED musicVars
  BY DEF handleMessage
<1>2. stage[b] = "next" /\ told' = [told EXCEPT ![b] = FALSE]
  BY DEF handleMessage
<1>3. musicCalls[b].at \in Music!Ends
  BY <1>2 DEF IInv, HandlersFit
<1>4. PICK to \in {"game", "music", "reply"} :
         /\ stage' = [stage EXCEPT ![b] = to]
         /\ gameCalls' \in [Batches -> GameCall]
         /\ Music!TypeOK' /\ Music!GuardHasItsCall'
         /\ to = "game" => /\ gameCalls'[b].at # "done"
                           /\ gameCalls'[b].at = "unhandled" => u \notin playing
         /\ to = "music" => musicCalls'[b].at # "done"
         /\ to # "music" => musicCalls'[b].at \in Music!Ends
         /\ to # "game" => kind \notin Texts
         /\ \A d \in Batches \ {b} : gameCalls'[d] = gameCalls[d] /\ musicCalls'[d] = musicCalls[d]
  <2>1. CASE /\ Go(b, "game") /\ UNCHANGED musicVars
             /\ Game!startGame(b, u) \/ Game!handleGameInput(b, u)
    BY <1>3, <2>1, GameStarts
       DEF IInv, TypeOK, Go, Music!TypeOK, Music!GuardHasItsCall, musicVars
  <2>2. CASE kind = "search" /\ Go(b, "music") /\ SearchWords(b, u) /\ UNCHANGED gameVars
    BY <2>2, SearchStarts
       DEF IInv, TypeOK, Go, SearchWords, Texts, Music!Waits, Music!SearchWaits, gameVars
  <2>3. CASE kind = "info" /\ Go(b, "reply") /\ UNCHANGED <<gameVars, musicVars>>
    BY <1>3, <2>3
       DEF IInv, TypeOK, Go, Texts, Music!TypeOK, Music!GuardHasItsCall, gameVars, musicVars
  <2> QED
    BY <1>1, <2>1, <2>2, <2>3 DEF handleCommand
<1>5. TypeOK'
  <2>1. stage' \in [Batches -> {"idle", "next"} \cup Awaits]
    BY <1>4 DEF IInv, TypeOK, Awaits
  <2>2. message' \in [Batches -> [chat : Users \cup {NoUser}, kind : Kinds \cup {"none"}]]
    BY <1>1 DEF IInv, TypeOK
  <2>3. player' \in [Batches -> BOOLEAN] /\ told' \in [Batches -> BOOLEAN]
    BY <1>1, <1>2 DEF IInv, TypeOK
  <2> QED
    BY <1>4, <2>1, <2>2, <2>3 DEF TypeOK
<1>6. OthersStay(b)
  BY <1>1, <1>2, <1>4 DEF IInv, TypeOK, OthersStay
<1>7. BatchInv(b)'
  <2>1. stage'[b] = to /\ message'[b].chat = u
    BY <1>1, <1>4 DEF IInv, TypeOK
  <2>2. player'[b] => kind \in Texts /\ u \in playing
    BY <1>1 DEF IInv, TypeOK
  <2> QED
    BY <1>4, <2>1, <2>2 DEF BatchInv
<1> QED
  BY <1>4, <1>5, <1>6, <1>7, OneBatchEnough

\* An expired session takes no call away.
LEMMA QuietStep == IInv /\ (SessionsExpire \/ UNCHANGED vars) => IInv'
BY DEF IInv, TypeOK, HandlersFit, ToldAtTheEnd, ToldByTheGame, PlayersAreToldFirst, vars,
       Music!TypeOK, Music!GuardHasItsCall, SessionsExpire, Game!Expire, batchVars, gameVars, musicVars

\* The invariant holds always.
LEMMA RouterInvariant == Spec => []IInv
<1>1. IInv /\ [Next]_vars => IInv'
  BY PlainStep, GameStep, MusicStep, HandlerEnds, RouteStep, TakeStep, QuietStep
     DEF Next, Continues
<1> QED
  BY InitIInv, <1>1, PTL DEF Spec

\* Nobody's message is passed over in silence: when handleMessage returns,
\* something was sent for it, whatever failed on the way.
THEOREM NobodyIsIgnored == Spec => []AnsweredBeforeNext
<1>1. IInv => AnsweredBeforeNext
  BY DEF IInv, ToldAtTheEnd, AnsweredBeforeNext
<1> QED
  BY <1>1, RouterInvariant, PTL

\* A text sent into a game goes to the other handlers only after its player has
\* been told that the game failed.
THEOREM PlayersFirst == Spec => []PlayersAreToldFirst
<1>1. IInv => PlayersAreToldFirst
  BY DEF IInv
<1> QED
  BY <1>1, RouterInvariant, PTL

\* Nobody is locked out of searching by what happens behind the router: every
\* entry of isSearching has a call of handleMusicSearch, however sends fail, calls
\* of one chat overlap, and batches end.
THEOREM RouterLocksNobodyOut == Spec => []Music!GuardHasItsCall
<1>1. IInv => Music!GuardHasItsCall
  BY DEF IInv
<1> QED
  BY <1>1, RouterInvariant, PTL

\* A search is refused only while another batch has a call of handleMusicSearch
\* for the same chat.
THEOREM RefusalsAreForeign == Spec => RefusedForAnotherBatch
<1> DEFINE Foreign(b) ==
        musicCalls'[b].at = "busyReply" /\ musicCalls[b].at # "busyReply" =>
            \E d \in Batches \ {b} : musicCalls[d].user = message'[b].chat
<1>1. IInv /\ [Next]_vars => \A b \in Batches : Foreign(b)
  <2> SUFFICES ASSUME IInv, [Next]_vars, NEW b \in Batches,
                      musicCalls'[b].at = "busyReply", musicCalls[b].at # "busyReply"
               PROVE  \E d \in Batches \ {b} : musicCalls[d].user = message'[b].chat
    OBVIOUS
  <2>1. ASSUME NEW u \in Users, Music!handleMusicSearch(b, u), message'[b].chat = u
        PROVE  \E d \in Batches \ {b} : musicCalls[d].user = message'[b].chat
    <3>1. u \in isSearching /\ musicCalls[b].user = NoUser
      BY <2>1, SearchStarts DEF IInv, TypeOK
    <3> QED
      BY <2>1, <3>1, RouterAssumption DEF IInv, Music!GuardHasItsCall
  <2>2. PICK c \in Batches : RouteText(c) \/ handleMessage(c)
    <3>1. ASSUME NEW c \in Batches, MusicGoesOn(c) PROVE FALSE
      BY <3>1, SearchSettles DEF MusicGoesOn, IInv, TypeOK
    <3>2. ASSUME NEW c \in Batches, CallsConsumed(c) PROVE FALSE
      BY <3>2 DEF CallsConsumed, IInv, TypeOK, Music!TypeOK
    <3>3. musicVars' # musicVars
      BY DEF musicVars
    <3> QED
      BY <3>1, <3>2, <3>3
         DEF Next, Continues, vars, musicVars, Upsert, EndBatch, Skip, GameGoesOn, HandlerReturns,
             HandlerThrows, YouTubeAnswers, Sent, Rejected, SessionsExpire
  <2>3. ASSUME RouteText(c) PROVE \E d \in Batches \ {b} : musicCalls[d].user = message'[b].chat
    <3>1. Music!handleMusicSearch(c, message[c].chat) /\ message' = message
      BY <2>3 DEF RouteText, SearchText, musicVars
    <3>2. message[c].chat \in Users
      BY <2>3, BatchHasInv DEF RouteText, BatchInv
    <3>3. c = b
      BY <3>1, <3>2, SearchStarts DEF IInv, TypeOK
    <3> QED
      BY <2>1, <3>1, <3>2, <3>3
  <2>4. ASSUME handleMessage(c) PROVE \E d \in Batches \ {b} : musicCalls[d].user = message'[b].chat
    <3>1. PICK u \in Users : /\ Music!handleMusicSearch(c, u)
                             /\ message'[c].chat = u
      BY <2>4 DEF handleMessage, handleCommand, SearchWords, musicVars, IInv, TypeOK
    <3>2. c = b
      BY <3>1, SearchStarts DEF IInv, TypeOK
    <3> QED
      BY <2>1, <3>1, <3>2
  <2> QED
    BY <2>2, <2>3, <2>4
<1> QED
  BY <1>1, RouterInvariant, PTL DEF Spec, RefusedForAnotherBatch

=============================================================================
