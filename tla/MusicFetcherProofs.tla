--------------------------- MODULE MusicFetcherProofs ---------------------------
(***************************************************************************)
(* Theorems about MusicFetcher for any number of overlapping searches: the *)
(* table of pending searches is exact, the fetcher implements              *)
(* SearchService, and it guesses right while nothing overlaps.             *)
(***************************************************************************)
EXTENDS MusicFetcher, TLAPS

\* Why no answer is given twice: a future holds only answers that have been
\* handled, and an answer is handled once.
GivenAreGone ==
    \A s \in Searches : future[s].of # NoSearch => reply[future[s].of] = "gone"

IInv == TypeOK /\ PendingIsExact /\ GivenAreGone

\* An answer is that of its query, and a future without one is nobody's.
LEMMA AnswerFacts ==
    /\ Open.of = NoSearch /\ Cancelled.of = NoSearch
    /\ \A q \in Searches, kind \in AnswerKinds :
          Answer(q, kind) \in Future /\ Answer(q, kind).of = q
BY DEF Open, Cancelled, Answer, Future

\* What a future holds is the answer to a search or to none.
LEMMA FutureOf ==
    ASSUME TypeOK, NEW s \in Searches
    PROVE  future[s].of \in Searches \cup {NoSearch}
BY AnswerFacts DEF TypeOK, Future

\* Nothing is pending and no answer given when the fetcher starts.
LEMMA InitIInv == Init => IInv
BY AnswerFacts
   DEF Init, IInv, TypeOK, PendingIsExact, GivenAreGone, Future, Stages, Replies, Running

-----------------------------------------------------------------------------
(* The answers.                                                            *)

\* What handling an answer to q does to the futures: nothing, or the open
\* future of one pending search gets it.
LEMMA CompleteFacts ==
    ASSUME TypeOK, NEW q \in Searches, NEW kind \in AnswerKinds,
           CompleteLatest(Answer(q, kind))
    PROVE  \/ future' = future
           \/ \E s \in pending :
                 future[s] = Open /\ future' = [future EXCEPT ![s] = Answer(q, kind)]
BY DEF CompleteLatest

\* Handling it also takes the answer away, and changes nothing else.
LEMMA HandledFacts ==
    ASSUME TypeOK, NEW q \in Searches, DownloadEnds(q) \/ ReceiveNotFound(q)
    PROVE  /\ reply[q] \in {"downloading", "notFound"}
           /\ reply' = [reply EXCEPT ![q] = "gone"]
           /\ UNCHANGED <<at, pending, timestamp, clock>>
           /\ \/ future' = future
              \/ \E s \in pending, kind \in AnswerKinds :
                    future[s] = Open /\ future' = [future EXCEPT ![s] = Answer(q, kind)]
<1>1. /\ reply[q] \in {"downloading", "notFound"}
      /\ reply' = [reply EXCEPT ![q] = "gone"]
      /\ UNCHANGED <<at, pending, timestamp, clock>>
      /\ \/ future' = future
         \/ \E kind \in AnswerKinds : CompleteLatest(Answer(q, kind))
  BY DEF DownloadEnds, ReceiveNotFound, AnswerKinds
<1> QED
  BY <1>1, CompleteFacts

\* Handling what Telegram sends keeps the invariant.
LEMMA AnswerStep ==
    ASSUME IInv, NEW q \in Searches, process_vk_response(q)
    PROVE  IInv'
<1> USE DEF IInv
<1>1. CASE ReceiveAudio(q)
  BY <1>1 DEF ReceiveAudio, TypeOK, Replies, PendingIsExact, Running, GivenAreGone
<1>2. CASE DownloadEnds(q) \/ ReceiveNotFound(q)
  <2>1. PendingIsExact'
    BY <1>2, HandledFacts DEF PendingIsExact, Running
  <2>2. reply' = [reply EXCEPT ![q] = "gone"] /\ reply' \in [Searches -> Replies]
    BY <1>2, HandledFacts DEF TypeOK, Replies
  <2>3. CASE future' = future
    BY <1>2, <2>1, <2>2, <2>3, HandledFacts, FutureOf DEF TypeOK, GivenAreGone
  <2>4. ASSUME NEW s \in pending, NEW kind \in AnswerKinds,
               future' = [future EXCEPT ![s] = Answer(q, kind)]
        PROVE  IInv'
    <3>1. TypeOK'
      BY <1>2, <2>2, <2>4, HandledFacts, AnswerFacts DEF TypeOK
    <3>2. GivenAreGone'
      BY <2>2, <2>4, AnswerFacts, FutureOf DEF TypeOK, GivenAreGone
    <3> QED
      BY <2>1, <3>1, <3>2
  <2> QED
    BY <1>2, <2>3, <2>4, HandledFacts
<1> QED
  BY <1>1, <1>2 DEF process_vk_response

-----------------------------------------------------------------------------
(* The searches.                                                           *)

\* A search that is under way leaves the table at its return, and only then.
LEMMA SearchStep ==
    ASSUME IInv, NEW s \in Searches, Search(s)
    PROVE  IInv'
<1> USE DEF IInv
<1>1. at' \in [Searches -> Stages] /\ pending' \subseteq Searches
  BY DEF Search, search_music, SendReturns, SendFails, Timeout, Return, TypeOK, Stages
<1>2. timestamp' \in [Searches -> Nat] /\ clock' \in Nat /\ reply' = reply
  BY DEF Search, search_music, SendReturns, SendFails, Timeout, Return, TypeOK
<1>3. future' = future \/ future' = [future EXCEPT ![s] = Cancelled]
  BY DEF Search, search_music, SendReturns, SendFails, Timeout, Return
<1>4. TypeOK'
  BY <1>1, <1>2, <1>3 DEF TypeOK, Future
<1>5. PendingIsExact'
  BY DEF Search, search_music, SendReturns, SendFails, Timeout, Return, TypeOK,
         PendingIsExact, Running
<1>6. GivenAreGone'
  BY <1>2, <1>3, AnswerFacts DEF TypeOK, GivenAreGone
<1> QED
  BY <1>4, <1>5, <1>6

\* The music bot knows nothing of the futures.
LEMMA BotStep ==
    ASSUME IInv, NEW s \in Searches, QueryReachesBot(s) \/ BotAnswers(s)
    PROVE  IInv'
BY FutureOf
   DEF IInv, QueryReachesBot, BotAnswers, TypeOK, Replies, PendingIsExact, Running,
       GivenAreGone

\* Every step keeps the invariant.
LEMMA FetcherStep == IInv /\ [Next]_vars => IInv'
<1>1. IInv /\ UNCHANGED vars => IInv'
  BY DEF IInv, vars, TypeOK, PendingIsExact, Running, GivenAreGone
<1> QED
  BY <1>1, AnswerStep, SearchStep, BotStep DEF Next

\* The invariant holds always.
LEMMA FetcherInvariant == Spec => []IInv
BY InitIInv, FetcherStep, PTL DEF Spec

\* Every table and future keeps its shape.
THEOREM FetcherTypes == Spec => []TypeOK
BY FetcherInvariant, PTL DEF IInv

\* A search is in the table exactly while an answer may still be matched with
\* it, from its start to its return, but for the searches whose send failed.
THEOREM PendingExact == Spec => []PendingIsExact
BY FetcherInvariant, PTL DEF IInv

-----------------------------------------------------------------------------
(* The refinement of SearchService.                                        *)

\* What the refinement mapping puts for the variables of SearchService.
StatusOf(s) == CASE at[s] = "new" -> "new"
                 [] Running(s)    -> "running"
                 [] OTHER         -> "done"
GivenTo(s) == IF at[s] = "failed" THEN NoSearch ELSE future[s].of

Status == [s \in Searches |-> StatusOf(s)]
Asked == {s \in Searches : reply[s] # "unasked"}
Given == [s \in Searches |-> GivenTo(s)]

\* What the abstract status of a search is, by the place it is at.
LEMMA StatusCases ==
    ASSUME NEW s \in Searches
    PROVE  /\ at[s] = "new" => StatusOf(s) = "new"
           /\ Running(s) => StatusOf(s) = "running"
           /\ at[s] \in {"returned", "failed"} => StatusOf(s) = "done"
BY DEF StatusOf, Running

\* A search that keeps its stage keeps its status.
LEMMA StatusStays ==
    ASSUME NEW s \in Searches, at'[s] = at[s] PROVE StatusOf(s)' = StatusOf(s)
BY DEF StatusOf, Running

\* The initial states map to the initial state of the service.
LEMMA InitRefines == Init => Service!Init
<1> SUFFICES ASSUME Init PROVE Service!Init
  OBVIOUS
<1>1. Status = [s \in Searches |-> "new"]
  BY StatusCases DEF Status, Init
<1>2. Asked = {} /\ Given = [s \in Searches |-> NoSearch]
  BY AnswerFacts DEF Asked, Given, GivenTo, Init
<1> QED
  BY <1>1, <1>2 DEF Service!Init, Status, StatusOf, Asked, Given, GivenTo

\* The start, the end and the silent steps of a search.
LEMMA SearchRefines ==
    ASSUME IInv, NEW s \in Searches, Search(s)
    PROVE  Service!Next \/ UNCHANGED Service!vars
<1> USE DEF IInv
<1>1. Asked' = Asked
  BY DEF Search, search_music, SendReturns, SendFails, Timeout, Return, Asked
<1>2. \A t \in Searches \ {s} : StatusOf(t)' = StatusOf(t) /\ GivenTo(t)' = GivenTo(t)
  <2>1. \A t \in Searches \ {s} : at'[t] = at[t] /\ future'[t] = future[t]
    BY DEF Search, search_music, SendReturns, SendFails, Timeout, Return, TypeOK
  <2> QED
    BY <2>1, StatusStays DEF GivenTo
<1>3. CASE search_music(s)
  <2>1. StatusOf(s) = "new" /\ StatusOf(s)' = "running" /\ GivenTo(s)' = GivenTo(s)
    BY <1>3 DEF search_music, TypeOK, StatusOf, Running, GivenTo
  <2>2. Status[s] = "new" /\ Status' = [Status EXCEPT ![s] = "running"] /\ Given' = Given
    BY <1>2, <2>1 DEF Status, Given
  <2>3. Service!Start(s)
    BY <1>1, <2>2 DEF Service!Start, Status, StatusOf, Asked, Given, GivenTo
  <2> QED
    BY <2>3 DEF Service!Next
<1>4. CASE SendReturns(s) \/ Timeout(s)
  <2>1. StatusOf(s)' = StatusOf(s) /\ GivenTo(s)' = GivenTo(s)
    BY <1>4, AnswerFacts DEF SendReturns, Timeout, TypeOK, StatusOf, Running, GivenTo
  <2>2. Status' = Status /\ Given' = Given
    BY <1>2, <2>1 DEF Status, Given
  <2> QED
    BY <1>1, <2>2 DEF Service!vars, Status, StatusOf, Asked, Given, GivenTo
<1>5. CASE SendFails(s) \/ Return(s)
  <2>1. StatusOf(s) = "running" /\ StatusOf(s)' = "done"
    BY <1>5 DEF SendFails, Return, TypeOK, StatusOf, Running
  <2>2. GivenTo(s)' \in {GivenTo(s), NoSearch}
    BY <1>5 DEF SendFails, Return, TypeOK, GivenTo
  <2>3. Status[s] = "running" /\ Status' = [Status EXCEPT ![s] = "done"]
    BY <1>2, <2>1 DEF Status
  <2>4. Given' \in {Given, [Given EXCEPT ![s] = NoSearch]}
    BY <1>2, <2>2 DEF Given
  <2>5. Service!Finish(s)
    BY <1>1, <2>3, <2>4 DEF Service!Finish, Status, StatusOf, Asked, Given, GivenTo
  <2> QED
    BY <2>5 DEF Service!Next
<1> QED
  BY <1>3, <1>4, <1>5 DEF Search

\* An answer is given to a running search, or to nobody SearchService knows of.
LEMMA AnswerRefines ==
    ASSUME IInv, NEW q \in Searches, process_vk_response(q)
    PROVE  Service!Next \/ UNCHANGED Service!vars
<1> USE DEF IInv
<1>1. q \in Asked /\ Asked' = Asked
  BY HandledFacts DEF process_vk_response, ReceiveAudio, Asked, TypeOK
<1>2. Status' = Status /\ at' = at
  BY HandledFacts DEF process_vk_response, ReceiveAudio, Status, StatusOf, Running
<1>3. CASE future' = future
  <2>1. Given' = Given
    BY <1>2, <1>3 DEF Given, GivenTo
  <2> QED
    BY <1>1, <1>2, <2>1 DEF Service!vars, Status, StatusOf, Asked, Given, GivenTo
<1>4. ASSUME NEW s \in pending, NEW kind \in AnswerKinds,
             DownloadEnds(q) \/ ReceiveNotFound(q), future[s] = Open,
             future' = [future EXCEPT ![s] = Answer(q, kind)]
      PROVE  Service!Next \/ UNCHANGED Service!vars
  <2>1. s \in Searches /\ (Running(s) \/ at[s] = "failed")
    BY DEF TypeOK, PendingIsExact
  <2>2. \A t \in Searches \ {s} : GivenTo(t)' = GivenTo(t)
    BY <1>2, <1>4 DEF GivenTo, TypeOK
  <2>3. CASE at[s] = "failed"
    <3>1. Given' = Given
      BY <1>2, <2>2, <2>3 DEF Given, GivenTo
    <3> QED
      BY <1>1, <1>2, <3>1 DEF Service!vars, Status, StatusOf, Asked, Given, GivenTo
  <2>4. CASE Running(s)
    <3>1. at[s] # "failed" /\ GivenTo(s) = NoSearch /\ GivenTo(s)' = q
      BY <1>2, <1>4, <2>1, <2>4, AnswerFacts DEF GivenTo, TypeOK, Running
    <3>2. Given[s] = NoSearch /\ Given' = [Given EXCEPT ![s] = q]
      BY <2>1, <2>2, <3>1 DEF Given
    <3>3. \A t \in Searches : Given[t] # q
      BY <1>4, HandledFacts, FetcherAssumption DEF Given, GivenTo, GivenAreGone
    <3>4. Status[s] = "running"
      BY <2>1, <2>4, StatusCases DEF Status
    <3>5. Service!Give(s, q)
      BY <1>1, <1>2, <3>2, <3>3, <3>4 DEF Service!Give, Status, StatusOf, Asked, Given, GivenTo
    <3> QED
      BY <2>1, <3>5 DEF Service!Next
  <2> QED
    BY <2>1, <2>3, <2>4
<1>5. CASE ReceiveAudio(q)
  BY <1>3, <1>5 DEF ReceiveAudio
<1> QED
  BY <1>3, <1>4, <1>5, HandledFacts DEF process_vk_response

\* A query that arrives is one the service has been asked; answers on their way are invisible.
LEMMA BotRefines ==
    ASSUME IInv, NEW s \in Searches, QueryReachesBot(s) \/ BotAnswers(s)
    PROVE  Service!Next \/ UNCHANGED Service!vars
<1> USE DEF IInv
<1>1. Status' = Status /\ Given' = Given
  BY DEF QueryReachesBot, BotAnswers, Status, StatusOf, Running, Given, GivenTo
<1>2. CASE QueryReachesBot(s)
  <2>1. Status[s] = "running" /\ Asked' = Asked \cup {s}
    BY <1>2, StatusCases DEF QueryReachesBot, Status, Running, Asked, TypeOK
  <2>2. Service!Ask(s)
    BY <1>1, <2>1 DEF Service!Ask, Status, StatusOf, Asked, Given, GivenTo
  <2> QED
    BY <2>2 DEF Service!Next
<1>3. CASE BotAnswers(s)
  <2>1. Asked' = Asked
    BY <1>3 DEF BotAnswers, Asked, TypeOK
  <2> QED
    BY <1>1, <2>1 DEF Service!vars, Status, StatusOf, Asked, Given, GivenTo
<1> QED
  BY <1>2, <1>3

\* The fetcher implements SearchService: whatever its guesses, a search settles
\* once, with nothing or with an answer that no other search is given.
THEOREM FetcherImplementsService == Spec => ImplementsService
<1>1. IInv /\ [Next]_vars => [Service!Next]_(Service!vars)
  <2> SUFFICES ASSUME IInv, [Next]_vars PROVE Service!Next \/ UNCHANGED Service!vars
    OBVIOUS
  <2>1. CASE UNCHANGED vars
    BY <2>1 DEF vars, Service!vars, Running
  <2> QED
    BY <2>1, SearchRefines, AnswerRefines, BotRefines DEF Next
<1> QED
  BY InitRefines, <1>1, FetcherInvariant, PTL DEF Spec, ImplementsService, Service!Spec

-----------------------------------------------------------------------------
(* The guess.                                                              *)

\* As long as no search runs while another runs, or while the answer to another
\* query is to come, nobody is given the answer to another's query.
THEOREM GuessesRightAlone == Spec => AnswersMatchOneAtATime
<1>1. Init => MatchesItsSearch
  BY AnswerFacts DEF Init, MatchesItsSearch
<1>2. IInv /\ OneAtATime /\ MatchesItsSearch /\ [Next]_vars => MatchesItsSearch'
  <2> SUFFICES ASSUME IInv, OneAtATime, MatchesItsSearch, [Next]_vars,
                      NEW t \in Searches, at'[t] # "failed"
               PROVE  future'[t].of \in {t, NoSearch}
    BY DEF MatchesItsSearch
  <2> USE DEF IInv
  <2>1. at[t] # "failed"
    BY DEF Next, Search, search_music, SendReturns, SendFails, Timeout, Return, QueryReachesBot,
           BotAnswers, process_vk_response, ReceiveAudio, DownloadEnds, ReceiveNotFound, vars, TypeOK
  <2>2. future[t].of \in {t, NoSearch}
    BY <2>1 DEF MatchesItsSearch
  <2>3. ASSUME NEW s \in Searches, Search(s) PROVE future'[t].of \in {t, NoSearch}
    BY <2>2, <2>3, AnswerFacts
       DEF Search, search_music, SendReturns, SendFails, Timeout, Return, TypeOK
  <2>4. ASSUME NEW q \in Searches, DownloadEnds(q) \/ ReceiveNotFound(q)
        PROVE  future'[t].of \in {t, NoSearch}
    <3>1. CASE future' = future
      BY <2>2, <3>1
    <3>2. ASSUME NEW s \in pending, NEW kind \in AnswerKinds,
                 future' = [future EXCEPT ![s] = Answer(q, kind)]
          PROVE  future'[t].of \in {t, NoSearch}
      <4>1. CASE t = s
        <5>1. Running(t)
          BY <2>1, <4>1 DEF PendingIsExact
        <5>2. reply[q] \notin {"unasked", "gone"}
          BY <2>4, HandledFacts
        <5>3. q = t
          BY <5>1, <5>2 DEF OneAtATime
        <5> QED
          BY <3>2, <4>1, <5>3, AnswerFacts DEF TypeOK
      <4>2. CASE t # s
        BY <2>2, <3>2, <4>2 DEF TypeOK
      <4> QED
        BY <4>1, <4>2
    <3> QED
      BY <2>4, <3>1, <3>2, HandledFacts
  <2>5. CASE UNCHANGED future
    BY <2>2, <2>5
  <2> QED
    BY <2>3, <2>4, <2>5
       DEF Next, process_vk_response, ReceiveAudio, QueryReachesBot, BotAnswers, vars
<1> QED
  BY <1>1, <1>2, FetcherInvariant, PTL DEF Spec, AnswersMatchOneAtATime

=============================================================================
