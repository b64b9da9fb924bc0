--------------------------- MODULE SearchPathProofs ---------------------------
(***************************************************************************)
(* Proofs about SearchPath for any number of users, calls and searches and *)
(* any two timeouts: the composition keeps the handler to MusicHandler and *)
(* the bridge to SearchService, answers go to one chat, the statistics add *)
(* up, and a search outlives its request only by a slow send.              *)
(***************************************************************************)
EXTENDS SearchPath, TLAPS, FiniteSetTheorems

-----------------------------------------------------------------------------
(* handleMusicSearch by itself, for any number of overlapping calls.       *)

\* Nobody searches at the start.
LEMMA MusicInit == Init => TypeOK /\ GuardHasItsCall
BY DEF Init, TypeOK, GuardHasItsCall, Call, Ends

\* A call that goes on keeps its user; one that ends takes its user along.
LEMMA CallSteps ==
    ASSUME TypeOK, NEW c \in Calls, Settles(c)
    PROVE  /\ calls[c].user \in Users
           /\ \/ \E at \in Waits : GoOn(c, at)
              \/ \E end \in {"done", "thrown"} : Finally(c, end)
<1>1. calls[c] \in Call /\ calls[c].at \in Waits
  BY DEF TypeOK, Settles, Resolved, Rejected, Waits, SearchWaits
<1>2. calls[c].user \in Users
  BY <1>1 DEF Call, Waits, SearchWaits, Ends
<1>3. QED
  BY <1>2 DEF Settles, Resolved, Rejected, Waits, SearchWaits

\* Every step keeps the types and a call behind every guard.
LEMMA MusicStep == TypeOK /\ GuardHasItsCall /\ [Next]_vars => TypeOK' /\ GuardHasItsCall'
<1> SUFFICES ASSUME TypeOK, GuardHasItsCall, [Next]_vars PROVE TypeOK' /\ GuardHasItsCall'
  OBVIOUS
<1> USE DEF TypeOK, GuardHasItsCall
<1>1. ASSUME NEW c \in Calls, Settles(c) PROVE TypeOK' /\ GuardHasItsCall'
  <2>0. calls[c].user \in Users
    BY <1>1, CallSteps
  <2>1. ASSUME NEW at \in Waits, GoOn(c, at) PROVE TypeOK' /\ GuardHasItsCall'
    <3>1. calls' = [calls EXCEPT ![c] = [at |-> at, user |-> calls[c].user]]
          /\ isSearching' = isSearching
      BY <2>1 DEF GoOn, WaitAt
    <3>2. [at |-> at, user |-> calls[c].user] \in Call
      BY <2>0 DEF Call
    <3>3. TypeOK'
      BY <3>1, <3>2
    <3>4. \A d \in Calls : calls'[d].user = calls[d].user
      BY <3>1
    <3>5. QED
      BY <3>1, <3>3, <3>4
  <2>2. ASSUME NEW end \in {"done", "thrown"}, Finally(c, end)
        PROVE  TypeOK' /\ GuardHasItsCall'
    <3>1. calls' = [calls EXCEPT ![c] = [at |-> end, user |-> NoUser]]
          /\ isSearching' = isSearching \ {calls[c].user}
      BY <2>2 DEF Finally
    <3>2. [at |-> end, user |-> NoUser] \in Call
      BY DEF Call, Ends
    <3>3. TypeOK'
      BY <3>1, <3>2
    <3>4. \A d \in Calls \ {c} : calls'[d].user = calls[d].user
      BY <3>1
    <3>5. QED
      BY <3>1, <3>3, <3>4
  <2>3. QED
    BY <1>1, <2>1, <2>2, CallSteps
<1>2. ASSUME NEW c \in Calls, NEW u \in Users, handleMusicSearch(c, u)
      PROVE  TypeOK' /\ GuardHasItsCall'
  <2>1. PICK at \in Waits : calls' = [calls EXCEPT ![c] = [at |-> at, user |-> u]]
    BY <1>2 DEF handleMusicSearch, RefuseSecondSearch, StartSearch, WaitAt, Waits, SearchWaits
  <2>2. isSearching' \in {isSearching, isSearching \cup {u}}
    BY <1>2 DEF handleMusicSearch, RefuseSecondSearch, StartSearch
  <2>3. [at |-> at, user |-> u] \in Call
    BY DEF Call
  <2>4. TypeOK'
    BY <2>1, <2>2, <2>3
  <2>5. calls[c].user \notin Users
    BY <1>2, MusicAssumption
       DEF handleMusicSearch, RefuseSecondSearch, StartSearch, Free, Call, Waits, SearchWaits, Ends
  <2>6. calls'[c].user = u /\ \A d \in Calls \ {c} : calls'[d].user = calls[d].user
    BY <2>1
  <2>7. QED
    BY <2>2, <2>4, <2>5, <2>6
<1>3. CASE UNCHANGED vars
  BY <1>3 DEF vars
<1>4. QED
  BY <1>1, <1>2, <1>3 DEF Next

\* Sets of users and waiting calls keep their types (class MusicHandler).
THEOREM MusicTypes == Spec => []TypeOK
BY MusicInit, MusicStep, PTL DEF Spec

\* Nobody is locked out: behind every entry of isSearching runs a call of
\* handleMusicSearch whose finally clause will take it off.
THEOREM NobodyLockedOut == Spec => []GuardHasItsCall
BY MusicInit, MusicStep, PTL DEF Spec

\* The guard of a running search is released by nobody but another call of the
\* same user, when that one ends.
THEOREM LostToOverlapOnly == Spec => GuardLostOnlyToOverlap
<1> DEFINE Lost(u, c) ==
        Searching(c, u) /\ u \in isSearching /\ Searching(c, u)' /\ u \notin isSearching'
            => \E d \in Calls \ {c} : calls[d].user = u /\ calls'[d].user = NoUser
<1>1. TypeOK /\ [Next]_vars => \A u \in Users, c \in Calls : Lost(u, c)
  <2> SUFFICES ASSUME TypeOK, [Next]_vars, NEW u \in Users, NEW c \in Calls,
                      Searching(c, u)', u \in isSearching, u \notin isSearching'
               PROVE  \E d \in Calls \ {c} : calls[d].user = u /\ calls'[d].user = NoUser
    OBVIOUS
  <2>1. PICK d \in Calls : Settles(d)
    BY DEF Next, vars, handleMusicSearch, RefuseSecondSearch, StartSearch
  <2>2. PICK end \in {"done", "thrown"} : Finally(d, end)
    BY <2>1, CallSteps DEF GoOn
  <2>3. calls[d].user = u /\ calls'[d].user = NoUser
    BY <2>2 DEF Finally, TypeOK
  <2>4. d # c
    BY <2>3, MusicAssumption DEF Searching
  <2>5. QED
    BY <2>3, <2>4
<1>2. QED
  BY <1>1, MusicTypes, PTL DEF Spec, GuardLostOnlyToOverlap

-----------------------------------------------------------------------------
(* The composition and its two components.                                 *)

\* Every step of the path is one of handleMusicSearch or leaves it alone.
LEMMA PathStepIsMusicStep == [PathNext]_pathVars => [Next]_vars
<1> SUFFICES ASSUME [PathNext]_pathVars PROVE [Next]_vars
  OBVIOUS
<1>1. ASSUME NEW c \in Calls, HandlerStep(c) PROVE Next
  BY <1>1 DEF HandlerStep, Next
<1>2. ASSUME NEW c \in Calls, Post(c) PROVE Next
  BY <1>2 DEF Post, Next, Settles, Resolved
<1>3. ASSUME NEW c \in Calls, NEW at \in {"foundReply", "notFoundReply", "unavailableReply"},
             EndRequest(c, at)
      PROVE  Next
  BY <1>3 DEF EndRequest, Next, Settles, Resolved, Rejected
<1>4. ASSUME NEW c \in Calls, Answered(c) \/ Unanswered(c) PROVE Next
  BY <1>3, <1>4 DEF Answered, Unanswered
<1>5. ASSUME NEW s \in Searches, Bridge(s) PROVE UNCHANGED vars
  BY <1>5 DEF Bridge
<1>6. CASE Tick \/ Disconnects
  BY <1>6 DEF Tick, Disconnects
<1>7. CASE UNCHANGED pathVars
  BY <1>7 DEF pathVars
<1>8. QED
  BY <1>1, <1>2, <1>4, <1>5, <1>6, <1>7 DEF PathNext

\* Seen from WhatsApp, the whole path is MusicHandler: what the proofs say of
\* it holds with the bridge, its timeouts and its lost answers behind it.
THEOREM PathImplementsHandler == PathSpec => Spec
<1>1. PathInit => Init
  BY DEF PathInit
<1>2. QED
  BY <1>1, PathStepIsMusicStep, PTL DEF PathSpec, Spec

\* Nobody is locked out of searching by what happens on the way to Telegram.
THEOREM PathLocksNobodyOut == PathSpec => []GuardHasItsCall
BY PathImplementsHandler, NobodyLockedOut, PTL

\* Seen from the path, the bridge is SearchService.
LEMMA PathStepIsServiceStep == [PathNext]_pathVars => [Service!Next]_(Service!vars)
<1> SUFFICES ASSUME [PathNext]_pathVars PROVE Service!Next \/ UNCHANGED Service!vars
  OBVIOUS
<1> USE DEF Service!vars
<1>1. ASSUME NEW c \in Calls, HandlerStep(c) \/ Answered(c) \/ Unanswered(c)
      PROVE  UNCHANGED Service!vars
  BY <1>1 DEF HandlerStep, Answered, Unanswered, EndRequest, bridgeVars
<1>2. ASSUME NEW c \in Calls, Post(c) PROVE Service!Next \/ UNCHANGED Service!vars
  BY <1>2 DEF Post, BridgeStarts, BridgeRefuses, bridgeVars, Service!Next
<1>3. ASSUME NEW s \in Searches, Bridge(s) PROVE Service!Next \/ UNCHANGED Service!vars
  <2>1. CASE QueryReachesBot(s)
    BY <2>1 DEF QueryReachesBot, Service!Next
  <2>2. CASE BotAnswers(s)
    BY <2>2 DEF BotAnswers, Service!Next
  <2>3. CASE SendReturns(s)
    BY <2>3 DEF SendReturns
  <2>4. CASE SendFails(s) \/ WaitEnds(s) \/ Cancelled(s)
    BY <2>4 DEF SendFails, WaitEnds, Cancelled, Service!Next
  <2>5. QED
    BY <1>3, <2>1, <2>2, <2>3, <2>4 DEF Bridge
<1>4. CASE Tick \/ Disconnects
  BY <1>4 DEF Tick, Disconnects
<1>5. CASE UNCHANGED pathVars
  BY <1>5 DEF pathVars, bridgeVars
<1>6. QED
  BY <1>1, <1>2, <1>3, <1>4, <1>5 DEF PathNext

\* What the path says of the bridge is a behaviour of SearchService, the promise
\* that MusicFetcher keeps.
THEOREM PathImplementsService == PathSpec => Service!Spec
<1>1. PathInit => Service!Init
  BY DEF PathInit
<1>2. QED
  BY <1>1, PathStepIsServiceStep, PTL DEF PathSpec, Service!Spec

-----------------------------------------------------------------------------
(* The inductive invariant: what relates requests, searches and answers.   *)

\* A call waits for a search that was started for it, and for it alone.
Requests ==
    /\ \A c \in Calls :
          request[c] # NoSearch => calls[c].at = "searching" /\ status[request[c]] # "new"
    /\ \A c, d \in Calls : request[c] # NoSearch /\ request[c] = request[d] => c = d

\* A search has a result when it is done, and waits only while it runs.
Results ==
    \A s \in Searches :
        /\ result[s] = "open" <=> status[s] # "done"
        /\ result[s] = "song" => given[s] # NoSearch
        /\ s \in waiting => status[s] = "running"

\* The answer to a query is given to one search.
GivenOnce ==
    \A s, t \in Searches : given[s] # NoSearch /\ given[s] = given[t] => s = t

\* An answer that was delivered was so once, by a search that is done and that
\* no call waits for any more.
DeliveredOnce ==
    \A q \in Searches :
        \/ delivered[q] = 0
        \/ /\ delivered[q] = 1
           /\ \E s \in Searches :
                 given[s] = q /\ status[s] = "done" /\ \A c \in Calls : request[c] # s

PathInv ==
    PathTypeOK /\ Requests /\ Results /\ GivenOnce /\ DeliveredOnce /\ OutlivedByTheBridge

\* Nothing has been requested or delivered at the start.
LEMMA PathInvInit == PathInit => PathInv
<1> SUFFICES ASSUME PathInit PROVE PathInv
  OBVIOUS
<1> USE PathAssumption DEF PathInit, Service!Init, NoSearch
<1>1. PathTypeOK
  BY MusicInit DEF PathTypeOK
<1>2. Requests /\ Results /\ GivenOnce /\ DeliveredOnce
  BY DEF Requests, Results, GivenOnce, DeliveredOnce
<1>3. OutlivedByTheBridge
  BY DEF OutlivedByTheBridge, Running
<1>4. QED
  BY <1>1, <1>2, <1>3 DEF PathInv

\* The part of the types that the handler does not have yet.
LEMMA HandlerTypes == PathTypeOK /\ [PathNext]_pathVars => TypeOK'
<1> SUFFICES ASSUME TypeOK, [Next]_vars PROVE TypeOK'
  BY PathStepIsMusicStep DEF PathTypeOK
<1>1. ASSUME NEW c \in Calls, Settles(c) PROVE TypeOK'
  <2>1. PICK at \in Waits \cup {"done", "thrown"} :
             \/ at \in Waits /\ GoOn(c, at) /\ calls[c].user \in Users
             \/ at \notin Waits /\ Finally(c, at)
    BY <1>1, CallSteps DEF Waits, SearchWaits
  <2>2. QED
    BY <2>1 DEF GoOn, WaitAt, Finally, TypeOK, Call, Ends, Waits, SearchWaits
<1>2. ASSUME NEW c \in Calls, NEW u \in Users, handleMusicSearch(c, u) PROVE TypeOK'
  BY <1>2 DEF handleMusicSearch, RefuseSecondSearch, StartSearch, WaitAt, TypeOK, Call, Waits, SearchWaits
<1>3. QED
  BY <1>1, <1>2 DEF Next, vars, TypeOK

\* A step of the handler that leaves requests alone is one of a call that has none.
LEMMA HandlerKeeps ==
    ASSUME PathInv, TypeOK', NEW c \in Calls, HandlerStep(c)
    PROVE  PathInv'
<1> USE DEF PathInv
<1>1. UNCHANGED <<request, delivered, bridgeVars>>
  BY DEF HandlerStep
<1>2. calls[c].at # "searching"
  BY DEF HandlerStep, handleMusicSearch, RefuseSecondSearch, StartSearch, Free, Ends
<1>3. \A d \in Calls \ {c} : calls'[d] = calls[d]
  <2>1. CASE Settles(c)
    BY <2>1, CallSteps DEF PathTypeOK, TypeOK, GoOn, WaitAt, Finally
  <2>2. ASSUME NEW u \in Users, handleMusicSearch(c, u) PROVE \A d \in Calls \ {c} : calls'[d] = calls[d]
    BY <2>2 DEF PathTypeOK, TypeOK, handleMusicSearch, RefuseSecondSearch, StartSearch, WaitAt
  <2>3. QED
    BY <2>1, <2>2 DEF HandlerStep
<1>4. PathTypeOK' /\ Results' /\ GivenOnce' /\ DeliveredOnce' /\ OutlivedByTheBridge'
  BY <1>1 DEF bridgeVars, PathTypeOK, Results, GivenOnce, DeliveredOnce, OutlivedByTheBridge, Running, Age
<1>5. Requests'
  BY <1>1, <1>2, <1>3 DEF bridgeVars, Requests
<1>6. QED
  BY <1>4, <1>5

\* A search that is posted is new to everybody.
LEMMA PostKeeps ==
    ASSUME PathInv, TypeOK', NEW c \in Calls, Post(c)
    PROVE  PathInv'
<1> USE DEF PathInv
<1>1. /\ calls[c].at = "announcing" /\ request[c] = NoSearch
      /\ calls' = [calls EXCEPT ![c] = [at |-> "searching", user |-> calls[c].user]]
  BY DEF Post, GoOn, WaitAt, Requests
<1>2. calls'[c].at = "searching" /\ \A d \in Calls \ {c} : calls'[d] = calls[d]
  BY <1>1 DEF PathTypeOK, TypeOK
<1>3. delivered' = delivered
  BY DEF Post
<1>4. CASE UNCHANGED <<request, bridgeVars>>
  <2>1. PathTypeOK' /\ Results' /\ GivenOnce' /\ DeliveredOnce' /\ OutlivedByTheBridge'
    BY <1>3, <1>4 DEF bridgeVars, PathTypeOK, Results, GivenOnce, DeliveredOnce, OutlivedByTheBridge, Running
  <2>2. Requests'
    BY <1>2, <1>4 DEF bridgeVars, Requests
  <2>3. QED
    BY <2>1, <2>2
<1>5. ASSUME NEW s \in Searches, BridgeStarts(s), request' = [request EXCEPT ![c] = s]
      PROVE  PathInv'
  <2>1. /\ status[s] = "new" /\ status' = [status EXCEPT ![s] = "running"]
        /\ UNCHANGED <<asked, given, waiting, sendTook, waited, result, client>>
        /\ stats' = [stats EXCEPT !.performed = @ + 1]
    BY <1>5 DEF BridgeStarts, Service!Start
  <2>2. s # NoSearch /\ request'[c] = s /\ \A d \in Calls \ {c} : request'[d] = request[d] /\ request[d] # s
    BY <1>5, <2>1, PathAssumption DEF Searches, NoSearch, PathTypeOK, Requests
  <2>3. PathTypeOK'
    BY <1>3, <1>5, <2>1 DEF PathTypeOK
  <2>4. status'[s] = "running" /\ \A t \in Searches \ {s} : status'[t] = status[t]
    BY <2>1 DEF PathTypeOK
  <2>5. Requests'
    <3>1. ASSUME NEW d \in Calls, request'[d] # NoSearch
          PROVE  calls'[d].at = "searching" /\ status'[request'[d]] # "new"
      <4>1. CASE d = c
        BY <1>2, <2>2, <2>4, <4>1
      <4>2. CASE d # c
        BY <1>2, <2>2, <2>4, <3>1, <4>2 DEF Requests, PathTypeOK
      <4>3. QED
        BY <4>1, <4>2
    <3>2. \A d, e \in Calls : request'[d] # NoSearch /\ request'[d] = request'[e] => d = e
      BY <2>2 DEF Requests
    <3>3. QED
      BY <3>1, <3>2 DEF Requests
  <2>6. Results' /\ GivenOnce'
    BY <2>1, <2>4 DEF Results, GivenOnce
  <2>7. DeliveredOnce'
    BY <1>1, <1>3, <2>1, <2>2, <2>4 DEF DeliveredOnce
  <2>8. OutlivedByTheBridge'
    <3> SUFFICES ASSUME NEW t \in Searches, status'[t] = "running", \A d \in Calls : request'[d] # t
                 PROVE  sendTook[t] >= HttpTimeout - SearchTimeout
      BY <2>1 DEF OutlivedByTheBridge, Running
    <3>1. t # s /\ status[t] = "running"
      BY <2>2, <2>4
    <3>2. \A d \in Calls : request[d] # t
      BY <1>1, <2>2, PathAssumption DEF Searches, NoSearch
    <3>3. QED
      BY <3>1, <3>2 DEF OutlivedByTheBridge, Running
  <2>9. QED
    BY <2>3, <2>5, <2>6, <2>7, <2>8
<1>6. CASE BridgeRefuses /\ UNCHANGED request
  <2>1. UNCHANGED <<status, asked, given, waiting, sendTook, waited, result, request>>
    BY <1>6 DEF BridgeRefuses
  <2>2. PathTypeOK'
    BY <1>3, <1>6, <2>1 DEF BridgeRefuses, PathTypeOK
  <2>3. Results' /\ GivenOnce' /\ DeliveredOnce' /\ OutlivedByTheBridge'
    BY <1>3, <2>1 DEF Results, GivenOnce, DeliveredOnce, OutlivedByTheBridge, Running
  <2>4. Requests'
    BY <1>2, <2>1 DEF Requests
  <2>5. QED
    BY <2>2, <2>3, <2>4
<1>7. QED
  BY <1>4, <1>5, <1>6 DEF Post

\* A call stops waiting for its search: answered, refused or out of time.
LEMMA EndRequestKeeps ==
    ASSUME PathInv, TypeOK', NEW c \in Calls, NEW at, at # "searching", EndRequest(c, at)
    PROVE  /\ Requests' /\ Results' /\ GivenOnce'
           /\ delivered' \in [Searches -> Nat] => PathTypeOK'
           /\ delivered' = delivered => DeliveredOnce'
<1> USE DEF PathInv
<1>1. /\ request' = [request EXCEPT ![c] = NoSearch] /\ UNCHANGED bridgeVars
      /\ calls' = [calls EXCEPT ![c] = [at |-> at, user |-> calls[c].user]]
  BY DEF EndRequest, GoOn, WaitAt
<1>2. /\ request'[c] = NoSearch
      /\ \A d \in Calls \ {c} : request'[d] = request[d] /\ calls'[d] = calls[d]
  BY <1>1 DEF PathTypeOK, TypeOK
<1>3. Requests' /\ Results' /\ GivenOnce'
  BY <1>1, <1>2 DEF Requests, Results, GivenOnce, bridgeVars
<1>4. delivered' \in [Searches -> Nat] => PathTypeOK'
  BY <1>1 DEF PathTypeOK, bridgeVars
<1>5. delivered' = delivered => DeliveredOnce'
  BY <1>1, <1>2, PathAssumption DEF DeliveredOnce, bridgeVars, Searches, NoSearch
<1>6. QED
  BY <1>3, <1>4, <1>5

\* The answer of a search goes to the one call that waits for it.
LEMMA SearchAnswersKeeps ==
    ASSUME PathInv, TypeOK', NEW c \in Calls, NEW s \in Searches,
           s = request[c], result[s] # "open",
           \/ /\ result[s] = "song" /\ EndRequest(c, "foundReply")
              /\ delivered' = [delivered EXCEPT ![given[s]] = @ + 1]
           \/ EndRequest(c, "notFoundReply") /\ delivered' = delivered
    PROVE  PathInv'
<1> USE DEF PathInv
<1>1. /\ s = request[c] /\ result[s] # "open"
      /\ \/ /\ result[s] = "song" /\ EndRequest(c, "foundReply")
            /\ delivered' = [delivered EXCEPT ![given[s]] = @ + 1]
         \/ EndRequest(c, "notFoundReply") /\ delivered' = delivered
  OBVIOUS
<1>2. s # NoSearch /\ status[s] = "done"
  BY <1>1, PathAssumption DEF Searches, NoSearch, Results, PathTypeOK
<1>3. \E at \in {"foundReply", "notFoundReply"} : EndRequest(c, at)
  BY <1>1
<1>4. Requests' /\ Results' /\ GivenOnce'
  BY <1>3, EndRequestKeeps
<1>5. delivered' \in [Searches -> Nat] /\ DeliveredOnce'
  <2>1. CASE EndRequest(c, "notFoundReply") /\ delivered' = delivered
    BY <2>1, EndRequestKeeps DEF PathTypeOK
  <2>2. CASE /\ result[s] = "song" /\ EndRequest(c, "foundReply")
             /\ delivered' = [delivered EXCEPT ![given[s]] = @ + 1]
    <3> DEFINE q == given[s]
    <3>1. q \in Searches /\ q # NoSearch
      BY <2>2, PathAssumption DEF Results, PathTypeOK, Searches, NoSearch
    <3>2. delivered[q] = 0
      BY <1>1, <3>1 DEF DeliveredOnce, GivenOnce
    <3>3. delivered' \in [Searches -> Nat]
      BY <2>2, <3>1, <3>2 DEF PathTypeOK
    <3>4. delivered'[q] = 1 /\ \A r \in Searches \ {q} : delivered'[r] = delivered[r]
      BY <2>2, <3>1, <3>2 DEF PathTypeOK
    <3>5. /\ UNCHANGED <<status, given>> /\ request'[c] = NoSearch
          /\ \A d \in Calls \ {c} : request'[d] = request[d]
      BY <2>2 DEF EndRequest, bridgeVars, PathTypeOK
    <3>6. \A d \in Calls : request'[d] # s
      BY <1>1, <1>2, <3>5 DEF Requests
    <3>7. ASSUME NEW r \in Searches \ {q}, delivered[r] = 1
          PROVE  \E t \in Searches : given[t] = r /\ status[t] = "done" /\ \A d \in Calls : request'[d] # t
      <4>1. PICK t \in Searches : given[t] = r /\ status[t] = "done" /\ \A d \in Calls : request[d] # t
        BY <3>7 DEF DeliveredOnce
      <4>2. \A d \in Calls : request'[d] # t
        BY <3>5, <4>1, PathAssumption DEF Searches, NoSearch
      <4>3. QED
        BY <4>1, <4>2
    <3>8. DeliveredOnce'
      BY <1>2, <3>4, <3>5, <3>6, <3>7 DEF DeliveredOnce
    <3>9. QED
      BY <3>3, <3>8
  <2>3. QED
    BY <1>1, <2>1, <2>2
<1>6. PathTypeOK'
  BY <1>3, <1>5, EndRequestKeeps
<1>7. OutlivedByTheBridge'
  <2> SUFFICES ASSUME NEW t \in Searches, status[t] = "running", \A d \in Calls : request'[d] # t
               PROVE  sendTook[t] >= HttpTimeout - SearchTimeout
    BY <1>3 DEF EndRequest, bridgeVars, OutlivedByTheBridge, Running
  <2>1. \A d \in Calls : request[d] # t
    BY <1>1, <1>2, <1>3 DEF EndRequest, PathTypeOK
  <2>2. QED
    BY <2>1 DEF OutlivedByTheBridge, Running
<1>8. QED
  BY <1>4, <1>5, <1>6, <1>7

\* A refused search leaves nothing behind but its count.
LEMMA RefusalKeeps ==
    ASSUME PathInv, TypeOK', NEW c \in Calls, request[c] = NoSearch,
           EndRequest(c, "notFoundReply"), delivered' = delivered
    PROVE  PathInv'
<1> USE DEF PathInv
<1>1. PathTypeOK' /\ Requests' /\ Results' /\ GivenOnce' /\ DeliveredOnce'
  BY EndRequestKeeps DEF PathTypeOK
<1>2. request' = request /\ UNCHANGED bridgeVars
  BY DEF EndRequest, PathTypeOK
<1>3. OutlivedByTheBridge'
  BY <1>2 DEF bridgeVars, OutlivedByTheBridge, Running
<1>4. QED
  BY <1>1, <1>3

\* So every answer keeps the invariant.
LEMMA AnsweredKeeps ==
    ASSUME PathInv, TypeOK', NEW c \in Calls, Answered(c)
    PROVE  PathInv'
<1>1. CASE request[c] = NoSearch /\ EndRequest(c, "notFoundReply") /\ delivered' = delivered
  BY <1>1, RefusalKeeps
<1>2. ASSUME NEW s \in Searches, s = request[c], result[s] \in {"song", "nothing"},
             \/ /\ result[s] = "song" /\ EndRequest(c, "foundReply")
                /\ delivered' = [delivered EXCEPT ![given[s]] = @ + 1]
             \/ EndRequest(c, "notFoundReply") /\ delivered' = delivered
      PROVE  PathInv'
  BY <1>2, SearchAnswersKeeps
<1>3. QED
  BY <1>1, <1>2 DEF Answered

\* A search that axios gives up on took its time before its wait began: the
\* wait alone is shorter than axios is patient.
LEMMA UnansweredKeeps ==
    ASSUME PathInv, TypeOK', NEW c \in Calls, Unanswered(c)
    PROVE  PathInv'
<1> USE DEF PathInv
<1>1. EndRequest(c, "unavailableReply") /\ delivered' = delivered
  BY DEF Unanswered
<1>2. PathTypeOK' /\ Requests' /\ Results' /\ GivenOnce' /\ DeliveredOnce'
  BY <1>1, EndRequestKeeps DEF PathTypeOK
<1>3. OutlivedByTheBridge'
  <2> SUFFICES ASSUME NEW t \in Searches, status[t] = "running", \A d \in Calls : request'[d] # t
               PROVE  sendTook[t] >= HttpTimeout - SearchTimeout
    BY <1>1 DEF EndRequest, bridgeVars, OutlivedByTheBridge, Running
  <2>1. CASE request[c] = t
    <3>1. sendTook[t] + waited[t] = HttpTimeout
      <4>1. t # NoSearch /\ result[t] # "cancelled"
        BY PathAssumption DEF Searches, NoSearch, Results
      <4>2. QED
        BY <2>1, <4>1 DEF Unanswered, Age
    <3>2. sendTook[t] \in Int /\ waited[t] \in 0..SearchTimeout
      BY DEF PathTypeOK
    <3>3. QED
      BY <3>1, <3>2, PathAssumption
  <2>2. CASE request[c] # t
    <3>1. \A d \in Calls : request[d] # t
      BY <1>1, <2>2 DEF EndRequest, PathTypeOK
    <3>2. QED
      BY <3>1 DEF OutlivedByTheBridge, Running
  <2>3. QED
    BY <2>1, <2>2
<1>4. QED
  BY <1>2, <1>3

\* A search that ends was running, and has what it returns.
LEMMA SearchEnds ==
    ASSUME PathInv, NEW s \in Searches, SendFails(s) \/ WaitEnds(s) \/ Cancelled(s)
    PROVE  /\ status[s] = "running" /\ status' = [status EXCEPT ![s] = "done"]
           /\ given' \in {given, [given EXCEPT ![s] = NoSearch]} /\ asked' = asked
           /\ waiting' = waiting \ {s}
           /\ sendTook' = [sendTook EXCEPT ![s] = 0]
           /\ waited' \in {waited, [waited EXCEPT ![s] = 0]}
           /\ \E found \in {"song", "nothing", "cancelled"} :
                 /\ result' = [result EXCEPT ![s] = found]
                 /\ found = "song" => given'[s] # NoSearch
           /\ \/ \E found \in {"song", "nothing"} : Count(s, found)
              \/ Cancelled(s) /\ stats' = stats
<1>1. CASE SendFails(s)
  <2>1. waiting' = waiting \ {s}
    BY <1>1 DEF SendFails
  <2>2. QED
    BY <1>1, <2>1 DEF SendFails, Service!Finish, Count
<1>2. CASE WaitEnds(s)
  BY <1>2 DEF WaitEnds, Service!Finish, Count
<1>3. CASE Cancelled(s)
  BY <1>3 DEF Cancelled, Service!Finish
<1>4. QED
  BY <1>1, <1>2, <1>3

\* What the bridge does by itself keeps the invariant.
LEMMA BridgeKeeps ==
    ASSUME PathInv, TypeOK', NEW s \in Searches, Bridge(s)
    PROVE  PathInv'
<1> USE DEF PathInv
<1>1. UNCHANGED <<vars, request, client, delivered>>
  BY DEF Bridge
<1>2. CASE QueryReachesBot(s)
  <2>1. asked' = asked \cup {s} /\ UNCHANGED <<status, given, waiting, sendTook, waited, result, stats>>
    BY <1>2 DEF QueryReachesBot, Service!Ask
  <2>2. PathTypeOK'
    BY <1>1, <2>1 DEF PathTypeOK
  <2>3. Requests' /\ Results' /\ GivenOnce' /\ DeliveredOnce' /\ OutlivedByTheBridge'
    BY <1>1, <2>1 DEF vars, Requests, Results, GivenOnce, DeliveredOnce, OutlivedByTheBridge, Running
  <2>4. QED
    BY <2>2, <2>3
<1>3. CASE BotAnswers(s)
  <2>1. PICK t \in Searches : Service!Give(t, s)
    BY <1>3 DEF BotAnswers
  <2>2. /\ status[t] = "running" /\ given' = [given EXCEPT ![t] = s]
        /\ \A r \in Searches : given[r] # s
        /\ UNCHANGED <<status, asked, waiting, sendTook, waited, result, stats>>
    BY <1>3, <2>1 DEF BotAnswers, Service!Give
  <2>3. given'[t] = s /\ \A r \in Searches \ {t} : given'[r] = given[r]
    BY <2>2 DEF PathTypeOK
  <2>4. PathTypeOK'
    BY <1>1, <2>2 DEF PathTypeOK
  <2>5. Requests' /\ OutlivedByTheBridge'
    BY <1>1, <2>2 DEF vars, Requests, OutlivedByTheBridge, Running
  <2>6. Results' /\ GivenOnce'
    BY <2>2, <2>3 DEF Results, GivenOnce
  <2>7. DeliveredOnce'
    BY <1>1, <2>2, <2>3 DEF DeliveredOnce
  <2>8. QED
    BY <2>4, <2>5, <2>6, <2>7
<1>4. CASE SendReturns(s)
  <2>1. /\ status[s] = "running" /\ waiting' = waiting \cup {s}
        /\ UNCHANGED <<status, asked, given, sendTook, waited, result, stats>>
    BY <1>4 DEF SendReturns
  <2>2. PathTypeOK'
    BY <1>1, <2>1 DEF PathTypeOK
  <2>3. Requests' /\ GivenOnce' /\ DeliveredOnce' /\ OutlivedByTheBridge'
    BY <1>1, <2>1 DEF vars, Requests, GivenOnce, DeliveredOnce, OutlivedByTheBridge, Running
  <2>4. Results'
    BY <2>1 DEF Results
  <2>5. QED
    BY <2>2, <2>3, <2>4
<1>5. CASE SendFails(s) \/ WaitEnds(s) \/ Cancelled(s)
  <2>1. PICK found \in {"song", "nothing", "cancelled"} :
             result' = [result EXCEPT ![s] = found] /\ (found = "song" => given'[s] # NoSearch)
    BY <1>5, SearchEnds
  <2>2. /\ result' = [result EXCEPT ![s] = found]
        /\ stats' \in [performed : Nat, successful : Nat, failed : Nat]
    <3>1. CASE \E kind \in {"song", "nothing"} : Count(s, kind)
      BY <2>1, <3>1 DEF Count, PathTypeOK
    <3>2. CASE stats' = stats
      BY <2>1, <3>2 DEF PathTypeOK
    <3>3. QED
      BY <1>5, <3>1, <3>2, SearchEnds
  <2>3. /\ status[s] = "running" /\ status'[s] = "done" /\ result'[s] = found
        /\ \A r \in Searches \ {s} :
              /\ status'[r] = status[r] /\ given'[r] = given[r]
              /\ result'[r] = result[r] /\ sendTook'[r] = sendTook[r]
    <3>1. /\ status[s] = "running" /\ status' = [status EXCEPT ![s] = "done"]
          /\ given' \in {given, [given EXCEPT ![s] = NoSearch]}
          /\ sendTook' = [sendTook EXCEPT ![s] = 0]
      BY <1>5, SearchEnds
    <3>2. QED
      BY <2>2, <3>1 DEF PathTypeOK
  <2>4. given'[s] \in {given[s], NoSearch}
    BY <1>5, SearchEnds DEF PathTypeOK
  <2>5. PathTypeOK'
    <3>1. /\ status' \in [Searches -> {"new", "running", "done"}]
          /\ asked' \subseteq Searches /\ waiting' \subseteq Searches
          /\ given' \in [Searches -> Searches \cup {NoSearch}]
          /\ result' \in [Searches -> {"open", "song", "nothing", "cancelled"}]
      BY <1>5, <2>2, SearchEnds DEF PathTypeOK
    <3>2. 0 \in 0..HttpTimeout /\ 0 \in 0..SearchTimeout
      BY PathAssumption
    <3>3. sendTook' \in [Searches -> 0..HttpTimeout] /\ waited' \in [Searches -> 0..SearchTimeout]
      BY <1>5, <3>2, SearchEnds DEF PathTypeOK
    <3>4. QED
      BY <1>1, <2>2, <3>1, <3>3 DEF PathTypeOK
  <2>6. Requests'
    BY <1>1, <2>3, PathAssumption DEF vars, Requests, PathTypeOK, Searches, NoSearch
  <2>7. Results'
    BY <1>5, <2>1, <2>3, SearchEnds DEF Results
  <2>8. GivenOnce'
    BY <2>3, <2>4 DEF GivenOnce
  <2>9. DeliveredOnce'
    BY <1>1, <2>3 DEF DeliveredOnce
  <2>10. OutlivedByTheBridge'
    BY <1>1, <2>3 DEF OutlivedByTheBridge, Running
  <2>11. QED
    BY <2>5, <2>6, <2>7, <2>8, <2>9, <2>10
<1>6. QED
  BY <1>2, <1>3, <1>4, <1>5 DEF Bridge

\* Time passes for searches that run, and only until a timer is due.
LEMMA TickKeeps ==
    ASSUME PathInv, TypeOK', Tick
    PROVE  PathInv'
<1> USE DEF PathInv
<1>1. UNCHANGED <<vars, request, delivered, status, asked, given, waiting, result, stats, client>>
  BY DEF Tick
<1>2. \A s \in Searches : sendTook'[s] \in 0..HttpTimeout /\ sendTook'[s] >= sendTook[s]
  BY PathAssumption DEF Tick, Sending, PathTypeOK
<1>3. \A s \in Searches : waited'[s] \in 0..SearchTimeout
  <2> SUFFICES ASSUME NEW s \in Searches PROVE waited'[s] \in 0..SearchTimeout
    OBVIOUS
  <2>1. s \in waiting => waited[s] # SearchTimeout
    BY DEF Tick, Due
  <2>2. waited'[s] = IF s \in waiting THEN waited[s] + 1 ELSE waited[s]
    BY DEF Tick
  <2>3. waited[s] \in 0..SearchTimeout
    BY DEF PathTypeOK
  <2>4. QED
    BY <2>1, <2>2, <2>3, PathAssumption
<1>4. sendTook' \in [Searches -> 0..HttpTimeout] /\ waited' \in [Searches -> 0..SearchTimeout]
  BY <1>2, <1>3 DEF Tick
<1>5. PathTypeOK'
  BY <1>1, <1>4 DEF PathTypeOK
<1>6. Requests' /\ Results' /\ GivenOnce' /\ DeliveredOnce'
  BY <1>1 DEF vars, Requests, Results, GivenOnce, DeliveredOnce
<1>7. OutlivedByTheBridge'
  <2> SUFFICES ASSUME NEW s \in Searches, status[s] = "running", \A c \in Calls : request[c] # s
               PROVE  sendTook'[s] >= HttpTimeout - SearchTimeout
    BY <1>1 DEF OutlivedByTheBridge, Running
  <2>1. sendTook[s] >= HttpTimeout - SearchTimeout
    BY DEF OutlivedByTheBridge, Running
  <2>2. QED
    BY <1>2, <2>1, PathAssumption DEF PathTypeOK
<1>8. QED
  BY <1>5, <1>6, <1>7

\* Cutting the client off takes nothing from a request or a search by itself.
LEMMA DisconnectsKeeps ==
    ASSUME PathInv, TypeOK', Disconnects
    PROVE  PathInv'
BY DEF Disconnects, vars, PathInv, PathTypeOK, Requests, Results, GivenOnce, DeliveredOnce,
       OutlivedByTheBridge, Running

\* Every step of the path keeps the invariant.
LEMMA PathInvStep == PathInv /\ [PathNext]_pathVars => PathInv'
<1> SUFFICES ASSUME PathInv, [PathNext]_pathVars PROVE PathInv'
  OBVIOUS
<1>1. TypeOK'
  BY HandlerTypes DEF PathInv
<1>2. CASE UNCHANGED pathVars
  BY <1>2 DEF pathVars, bridgeVars, vars, PathInv, PathTypeOK, TypeOK, Requests, Results, GivenOnce,
              DeliveredOnce, OutlivedByTheBridge, Running
<1>3. QED
  BY <1>1, <1>2, HandlerKeeps, PostKeeps, AnsweredKeeps, UnansweredKeeps, BridgeKeeps, TickKeeps,
     DisconnectsKeeps DEF PathNext

\* The invariant holds always.
LEMMA PathInvariant == PathSpec => []PathInv
BY PathInvInit, PathInvStep, PTL DEF PathSpec

\* Requests, searches, timers and statistics keep their types.
THEOREM PathTypes == PathSpec => []PathTypeOK
<1>1. PathInv => PathTypeOK
  BY DEF PathInv
<1>2. QED
  BY <1>1, PathInvariant, PTL

\* The answer to a query reaches one chat and reaches it once, whichever search
\* it was given to and whoever has stopped waiting.
THEOREM OneChatPerAnswer == PathSpec => []AnswerToOneChat
<1>1. PathInv => AnswerToOneChat
  BY DEF PathInv, DeliveredOnce, AnswerToOneChat
<1>2. QED
  BY <1>1, PathInvariant, PTL

\* For any two timeouts: only a slow send lets a search outlive its request.
THEOREM OnlySlowSendsOutlive == PathSpec => []OutlivedByTheBridge
<1>1. PathInv => OutlivedByTheBridge
  BY DEF PathInv
<1>2. QED
  BY <1>1, PathInvariant, PTL

-----------------------------------------------------------------------------
(* The statistics.                                                         *)

\* Nothing is counted and nothing runs at the start.
LEMMA StatsInit == PathInit => StatsAddUp
<1> SUFFICES ASSUME PathInit PROVE StatsAddUp
  OBVIOUS
<1>1. Running = {}
  BY DEF PathInit, Service!Init, Running
<1>2. QED
  BY <1>1, FS_EmptySet DEF PathInit, StatsAddUp

\* The running searches can be counted.
LEMMA RunningIsFinite == IsFiniteSet(Running)
<1>1. IsFiniteSet(Searches)
  BY PathAssumption, FS_Interval DEF Searches
<1>2. QED
  BY <1>1, FS_Subset DEF Running

\* Every step counts the search that it starts or ends, but for the two kinds
\* of steps that need a client which is no longer up: a cancelled search goes
\* uncounted, and a refused one is counted as failed alone.
LEMMA StatsStep == PathInv /\ StatsAddUp /\ [PathNext]_pathVars => StatsAddUp'
<1> SUFFICES ASSUME PathInv, StatsAddUp, [PathNext]_pathVars PROVE StatsAddUp'
  OBVIOUS
<1>0. /\ stats \in [performed : Nat, successful : Nat, failed : Nat]
      /\ Cardinality(Running) \in Nat
  BY RunningIsFinite, FS_CardinalityType DEF PathInv, PathTypeOK
<1>1. CASE UNCHANGED <<status, stats, client>>
  BY <1>1 DEF StatsAddUp, Running
<1>2. ASSUME NEW s \in Searches, BridgeStarts(s) PROVE StatsAddUp'
  <2>1. s \notin Running /\ Running' = Running \cup {s}
    BY <1>2 DEF BridgeStarts, Service!Start, PathInv, PathTypeOK, Running
  <2>2. Cardinality(Running') = Cardinality(Running) + 1
    BY <2>1, RunningIsFinite, FS_AddElement
  <2>3. /\ stats'.performed = stats.performed + 1 /\ client' = client
        /\ stats'.successful = stats.successful /\ stats'.failed = stats.failed
    BY <1>0, <1>2 DEF BridgeStarts
  <2>4. QED
    BY <1>0, <2>2, <2>3 DEF StatsAddUp
<1>3. ASSUME NEW s \in Searches, SendFails(s) \/ WaitEnds(s) \/ Cancelled(s), client' = client
      PROVE  StatsAddUp'
  <2>1. s \in Running /\ Running' = Running \ {s}
    BY <1>3, SearchEnds DEF PathInv, PathTypeOK, Running
  <2>2. Cardinality(Running') = Cardinality(Running) - 1
    BY <2>1, RunningIsFinite, FS_RemoveElement
  <2>3. CASE \E found \in {"song", "nothing"} : Count(s, found)
    <3>1. /\ stats'.performed = stats.performed
          /\ stats'.successful + stats'.failed = stats.successful + stats.failed + 1
          /\ stats'.successful \in {stats.successful, stats.successful + 1}
      BY <1>0, <2>3 DEF Count
    <3>2. QED
      BY <1>0, <1>3, <2>2, <3>1 DEF StatsAddUp
  <2>4. CASE Cancelled(s) /\ stats' = stats
    BY <1>0, <1>3, <2>2, <2>4 DEF StatsAddUp, Cancelled
  <2>5. QED
    BY <1>3, <2>3, <2>4, SearchEnds
<1>4. ASSUME NEW s \in Searches, Bridge(s) PROVE StatsAddUp'
  <2>1. client' = client
    BY <1>4 DEF Bridge
  <2>2. CASE QueryReachesBot(s) \/ BotAnswers(s) \/ SendReturns(s)
    BY <1>1, <2>1, <2>2 DEF QueryReachesBot, BotAnswers, SendReturns, Service!Ask, Service!Give
  <2>3. QED
    BY <1>3, <1>4, <2>1, <2>2 DEF Bridge
<1>5. ASSUME BridgeRefuses PROVE StatsAddUp'
  <2>1. /\ stats'.performed = stats.performed /\ stats'.successful = stats.successful
        /\ client' = "disconnected" /\ Running' = Running
    BY <1>0, <1>5 DEF BridgeRefuses, Running
  <2>2. QED
    BY <1>5, <2>1 DEF StatsAddUp
<1>6. ASSUME NEW c \in Calls, HandlerStep(c) \/ Post(c) \/ Answered(c) \/ Unanswered(c)
      PROVE  StatsAddUp'
  <2>1. CASE Post(c)
    BY <1>1, <1>2, <1>5, <2>1 DEF Post, bridgeVars
  <2>2. CASE HandlerStep(c) \/ Answered(c) \/ Unanswered(c)
    BY <1>1, <2>2 DEF HandlerStep, Answered, Unanswered, EndRequest, bridgeVars
  <2>3. QED
    BY <1>6, <2>1, <2>2
<1>7. CASE Disconnects
  <2>1. UNCHANGED <<status, stats>> /\ client # "disconnected" /\ client' # "up"
    BY <1>7 DEF Disconnects
  <2>2. QED
    BY <1>0, <2>1 DEF StatsAddUp, Running
<1>8. CASE Tick
  BY <1>1, <1>8 DEF Tick
<1>9. CASE UNCHANGED pathVars
  BY <1>1, <1>9 DEF pathVars, bridgeVars
<1>10. QED
  BY <1>4, <1>6, <1>7, <1>8, <1>9 DEF PathNext

\* However many searches run and however they end, the counters of get_stats
\* account for each of them once while Telethon keeps its sender; they miss the
\* cancelled ones afterwards; and the success rate is never above 100 %, not even
\* when failures are counted of searches that were refused.
THEOREM StatisticsAddUp == PathSpec => []StatsAddUp
BY StatsInit, StatsStep, PathInvariant, PTL DEF PathSpec

=============================================================================
