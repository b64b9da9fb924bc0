-------------------------- MODULE MTProtoSenderProofs --------------------------
(***************************************************************************)
(* Theorems about MTProtoSender for any number of requests, retries,       *)
(* faults and connects: no request is lost, queued twice or settled twice; *)
(* and until a connect meets a reconnect, two receive loops never share a  *)
(* connection, and a sender is always served or being repaired.            *)
(***************************************************************************)
EXTENDS MTProtoSender, TLAPS, FiniteSetTheorems, SequenceTheorems

-----------------------------------------------------------------------------
(* Sequences without repetition.                                           *)

\* No element comes twice.
Once(q) == \A i, j \in DOMAIN q : q[i] = q[j] => i = j

\* Appending what a queue does not have keeps it without repetition.
LEMMA AppendOnce ==
    ASSUME NEW q \in Seq(States), NEW r \in States, Once(q), r \notin ToSet(q)
    PROVE  /\ Append(q, r) \in Seq(States)
           /\ Once(Append(q, r))
           /\ ToSet(Append(q, r)) = ToSet(q) \cup {r}
<1>1. /\ Append(q, r) \in Seq(States) /\ Len(Append(q, r)) = Len(q) + 1
      /\ \A i \in 1..Len(q) : Append(q, r)[i] = q[i]
      /\ Append(q, r)[Len(q) + 1] = r
  OBVIOUS
<1>2. DOMAIN Append(q, r) = 1..(Len(q) + 1) /\ DOMAIN q = 1..Len(q) /\ Len(q) \in Nat
  BY <1>1
<1> QED
  BY <1>1, <1>2 DEF Once, ToSet

\* So does appending a sequence of others.
LEMMA ConcatOnce ==
    ASSUME NEW q \in Seq(States), NEW s \in Seq(States), Once(q), Once(s),
           ToSet(q) \cap ToSet(s) = {}
    PROVE  /\ q \o s \in Seq(States)
           /\ Once(q \o s)
           /\ ToSet(q \o s) = ToSet(q) \cup ToSet(s)
<1>1. /\ q \o s \in Seq(States) /\ Len(q \o s) = Len(q) + Len(s)
      /\ \A i \in 1..(Len(q) + Len(s)) :
            (q \o s)[i] = IF i <= Len(q) THEN q[i] ELSE s[i - Len(q)]
  BY ConcatProperties
<1>2. /\ DOMAIN (q \o s) = 1..(Len(q) + Len(s)) /\ DOMAIN q = 1..Len(q) /\ DOMAIN s = 1..Len(s)
      /\ Len(q) \in Nat /\ Len(s) \in Nat
  BY <1>1, LenProperties
<1>3. Once(q \o s)
  <2> SUFFICES ASSUME NEW i \in DOMAIN (q \o s), NEW j \in DOMAIN (q \o s),
                      (q \o s)[i] = (q \o s)[j], i < j
               PROVE  FALSE
    BY <1>2 DEF Once
  <2>1. CASE j <= Len(q)
    BY <1>1, <1>2, <2>1 DEF Once
  <2>2. CASE i > Len(q)
    <3>1. i - Len(q) \in DOMAIN s /\ j - Len(q) \in DOMAIN s
      BY <1>2, <2>2
    <3> QED
      BY <1>1, <1>2, <2>2, <3>1 DEF Once
  <2>3. CASE i <= Len(q) /\ j > Len(q)
    <3>1. q[i] = s[j - Len(q)] /\ i \in DOMAIN q /\ j - Len(q) \in DOMAIN s
      BY <1>1, <1>2, <2>3
    <3> QED
      BY <3>1 DEF ToSet
  <2> QED
    BY <1>2, <2>1, <2>2, <2>3
<1>4. ToSet(q) \subseteq ToSet(q \o s)
  BY <1>1, <1>2 DEF ToSet
<1>5. ToSet(s) \subseteq ToSet(q \o s)
  <2> SUFFICES ASSUME NEW i \in DOMAIN s PROVE s[i] \in ToSet(q \o s)
    BY DEF ToSet
  <2>1. Len(q) + i \in DOMAIN (q \o s) /\ (q \o s)[Len(q) + i] = s[i]
    BY <1>1, <1>2
  <2> QED
    BY <2>1 DEF ToSet
<1>6. ToSet(q \o s) \subseteq ToSet(q) \cup ToSet(s)
  <2> SUFFICES ASSUME NEW i \in DOMAIN (q \o s) PROVE (q \o s)[i] \in ToSet(q) \cup ToSet(s)
    BY DEF ToSet
  <2>1. CASE i <= Len(q)
    BY <1>1, <1>2, <2>1 DEF ToSet
  <2>2. CASE i > Len(q)
    <3>1. i - Len(q) \in DOMAIN s /\ (q \o s)[i] = s[i - Len(q)]
      BY <1>1, <1>2, <2>2
    <3> QED
      BY <3>1 DEF ToSet
  <2> QED
    BY <1>2, <2>1, <2>2
<1> QED
  BY <1>1, <1>3, <1>4, <1>5, <1>6

\* A finite set is put in a row: each of its elements once, and nothing else.
LEMMA SetInARow ==
    ASSUME NEW S \in SUBSET States, IsFiniteSet(S)
    PROVE  /\ SetToSeq(S) \in Seq(States)
           /\ Once(SetToSeq(S))
           /\ ToSet(SetToSeq(S)) = S
<1> DEFINE D == 1..Cardinality(S)
           f == SetToSeq(S)
<1>1. Cardinality(S) \in Nat /\ ExistsBijection(D, S)
  BY FS_CardinalityType
<1>2. \E g \in [D -> S] : IsInjective(g)
  BY <1>1 DEF ExistsBijection, Bijection, Injection, IsInjective
<1>3. f \in [D -> S] /\ IsInjective(f)
  BY <1>2 DEF SetToSeq
<1>4. f \in Surjection(D, S)
  <2>1. f \in Injection(D, S)
    BY <1>3 DEF Injection, IsInjective
  <2>2. IsFiniteSet(D) /\ Cardinality(D) = Cardinality(S)
    BY <1>1, FS_Interval
  <2> QED
    BY <2>1, <2>2, FS_Injection
<1> QED
  BY <1>1, <1>3, <1>4 DEF IsInjective, Once, ToSet, Surjection

\* Arithmetic of a sequence of length l without its first n elements.
LEMMA NoRoomLeft ==
    ASSUME NEW l \in Nat, NEW n \in 0..l, ~(n + 1 <= l)
    PROVE  n = l /\ l - n = 0
OBVIOUS

\* An index past the first n, counted from there.
LEMMA PastTheFirst ==
    ASSUME NEW l \in Nat, NEW n \in 0..l, NEW k \in 1..l, k \notin 1..n
    PROVE  k - n \in 1..(l - n) /\ n + (k - n) = k
OBVIOUS

\* What is left of a queue without its first elements.
LEMMA RestOnce ==
    ASSUME NEW q \in Seq(States), NEW n \in 0..Len(q), Once(q)
    PROVE  /\ SubSeq(q, n + 1, Len(q)) \in Seq(States)
           /\ Once(SubSeq(q, n + 1, Len(q)))
           /\ ToSet(SubSeq(q, n + 1, Len(q))) = ToSet(q) \ {q[i] : i \in 1..n}
<1> DEFINE s == SubSeq(q, n + 1, Len(q))
<1>0. DOMAIN q = 1..Len(q) /\ Len(q) \in Nat /\ \A i \in 1..Len(q) : q[i] \in States
  BY LenProperties
<1>1. /\ s \in Seq(States)
      /\ Len(s) = Len(q) - n
      /\ \A i \in 1..(Len(q) - n) : s[i] = q[n + i]
  <2>1. n + 1 \in Int /\ Len(q) \in Int /\ \A i \in (n + 1)..Len(q) : q[i] \in States
    BY <1>0
  <2>2. /\ s \in Seq(States)
        /\ Len(s) = IF n + 1 <= Len(q) THEN Len(q) - (n + 1) + 1 ELSE 0
        /\ \A i \in 1..(Len(q) - (n + 1) + 1) : s[i] = q[(n + 1) + i - 1]
    BY <2>1, SubSeqProperties
  <2> HIDE DEF s
  <2>3. Len(q) - (n + 1) + 1 = Len(q) - n /\ \A i \in Int : (n + 1) + i - 1 = n + i
    BY <1>0
  <2>4. Len(s) = Len(q) - n
    <3>1. CASE n + 1 <= Len(q)
      BY <2>2, <2>3, <3>1
    <3>2. CASE ~(n + 1 <= Len(q))
      <4>1. Len(s) = 0
        BY <2>2, <3>2
      <4>2. n = Len(q)
        BY <1>0, <3>2, NoRoomLeft
      <4>3. Len(q) - n = 0
        BY <1>0, <4>2, NoRoomLeft
      <4> QED
        BY <4>1, <4>3
    <3> QED
      BY <3>1, <3>2
  <2>5. ASSUME NEW i \in 1..(Len(q) - n) PROVE s[i] = q[n + i]
    <3>1. i \in 1..(Len(q) - (n + 1) + 1) /\ (n + 1) + i - 1 = n + i
      BY <1>0, <2>3
    <3>2. s[i] = q[(n + 1) + i - 1]
      BY <2>2, <3>1
    <3> QED
      BY <3>1, <3>2
  <2> QED
    BY <2>2, <2>4, <2>5
<1>2. DOMAIN s = 1..(Len(q) - n)
  BY <1>1, LenProperties
<1> HIDE DEF s
<1>3. Once(s)
  <2> SUFFICES ASSUME NEW i \in 1..(Len(q) - n), NEW j \in 1..(Len(q) - n), s[i] = s[j]
               PROVE  i = j
    BY <1>2 DEF Once
  <2>1. n + i \in DOMAIN q /\ n + j \in DOMAIN q /\ q[n + i] = q[n + j]
    BY <1>0, <1>1
  <2>2. n + i = n + j
    BY <2>1 DEF Once
  <2> QED
    BY <1>0, <2>2
<1>4. ToSet(s) \subseteq ToSet(q) \ {q[i] : i \in 1..n}
  <2> SUFFICES ASSUME NEW k \in 1..(Len(q) - n)
               PROVE  s[k] \in ToSet(q) /\ \A i \in 1..n : s[k] # q[i]
    BY <1>2 DEF ToSet
  <2>1. s[k] = q[n + k] /\ n + k \in DOMAIN q
    BY <1>0, <1>1
  <2> QED
    BY <1>0, <2>1 DEF Once, ToSet
<1>5. ToSet(q) \ {q[i] : i \in 1..n} \subseteq ToSet(s)
  <2> SUFFICES ASSUME NEW k \in 1..Len(q), k \notin 1..n
               PROVE  q[k] \in ToSet(s)
    BY <1>0 DEF ToSet
  <2>1. k - n \in 1..(Len(q) - n) /\ n + (k - n) = k
    BY <1>0, PastTheFirst
  <2>2. s[k - n] = q[k]
    BY <1>1, <2>1
  <2> QED
    BY <1>2, <2>1, <2>2 DEF ToSet
<1> QED
  BY <1>1, <1>3, <1>4, <1>5 DEF s

-----------------------------------------------------------------------------
(* The requests.                                                           *)

Futures == {"new", "open", "result", "error", "cancelled"}

RequestTypes ==
    /\ future \in [States -> Futures]
    /\ queue \in Seq(States)
    /\ pending \subseteq [id : Nat, request : States] /\ IsFiniteSet(pending)
    /\ container \in [States -> Nat]
    /\ lastId \in Nat
    /\ ping \in BOOLEAN

\* A message is pending for one request, and a pending request is not queued.
PendingOnce ==
    /\ \A m, n \in pending : m.request = n.request => m = n
    /\ PendingRequests \cap ToSet(queue) = {}

\* What is open is what is queued or pending, or has been dropped.
OpenIsTracked ==
    /\ \A r \in States :
          future[r] = "open" <=> r \in ToSet(queue) \cup PendingRequests \cup dropped
    /\ dropped \cap (ToSet(queue) \cup PendingRequests) = {}

\* The next ping does not overtake one that is unanswered.
PingIsFree == ~ping => future[Ping] # "open"

RequestInv == RequestTypes /\ Once(queue) /\ PendingOnce /\ OpenIsTracked /\ PingIsFree

\* Nothing is sent before a connect.
LEMMA InitRequests == Init => RequestInv
<1> SUFFICES ASSUME Init PROVE RequestInv
  OBVIOUS
<1>1. RequestTypes
  <2>1. queue \in Seq(States) /\ IsFiniteSet(pending) /\ pending = {}
    BY EmptySeq, FS_EmptySet DEF Init
  <2>2. future \in [States -> Futures] /\ container \in [States -> Nat]
    BY DEF Init, Futures
  <2> QED
    BY <2>1, <2>2 DEF Init, RequestTypes
<1>2. ToSet(queue) = {} /\ PendingRequests = {} /\ Once(queue)
  BY DEF Init, ToSet, PendingRequests, Once
<1> QED
  BY <1>1, <1>2 DEF Init, RequestInv, PendingOnce, OpenIsTracked, PingIsFree, States, Futures

\* A step that touches no request keeps them tracked.
LEMMA UntouchedRequests == RequestInv /\ UNCHANGED <<requestVars, dropped>> => RequestInv'
BY DEF RequestInv, requestVars, RequestTypes, Once, PendingOnce, PendingRequests, OpenIsTracked,
       PingIsFree

\* A request that is not open is in no queue: send makes it the queue's last.
LEMMA SendTracks ==
    ASSUME RequestInv, NEW r \in States, future[r] # "open", send(r),
           UNCHANGED <<pending, lastId, dropped>>,
           ping' \in BOOLEAN, ping => ping', r = Ping => ping'
    PROVE  RequestInv'
<1> USE DEF RequestInv, RequestTypes
<1>1. r \notin ToSet(queue) /\ r \notin PendingRequests /\ r \notin dropped
  BY DEF OpenIsTracked
<1>2. /\ queue' \in Seq(States) /\ Once(queue)' /\ ToSet(queue') = ToSet(queue) \cup {r}
  BY <1>1, AppendOnce DEF send, Once
<1>3. future' \in [States -> Futures] /\ container' \in [States -> Nat]
  BY DEF send, Futures
<1>4. PendingRequests' = PendingRequests
  BY DEF PendingRequests
<1>5. PendingOnce'
  BY <1>1, <1>2, <1>4 DEF PendingOnce
<1>6. OpenIsTracked'
  BY <1>1, <1>2, <1>4 DEF OpenIsTracked, send
<1>7. PingIsFree'
  BY DEF PingIsFree, send, States
<1> QED
  BY <1>2, <1>3, <1>5, <1>6, <1>7

\* The batch is the head of the queue.
LEMMA BatchFacts ==
    ASSUME RequestTypes, queue # << >>
    PROVE  /\ Len(Batch) \in 1..Len(queue) /\ Len(queue) \in Nat
           /\ DOMAIN Batch = 1..Len(Batch)
           /\ \A i \in 1..Len(Batch) :
                 Batch[i] = queue[i] /\ queue[i] \in States /\ i \in DOMAIN queue
<1> DEFINE n == IF Len(queue) <= MAXIMUM_LENGTH THEN Len(queue) ELSE MAXIMUM_LENGTH + 1
<1>1. /\ Len(queue) \in Nat \ {0} /\ DOMAIN queue = 1..Len(queue)
      /\ \A i \in 1..Len(queue) : queue[i] \in States
  BY EmptySeq, LenProperties DEF RequestTypes
<1>2. n \in 1..Len(queue)
  BY <1>1, SenderAssumption
<1>3. Len(Batch) = n /\ Batch \in Seq(States) /\ \A i \in 1..n : Batch[i] = queue[i]
  <2>1. \A i \in 1..n : queue[i] \in States
    BY <1>1, <1>2
  <2>2. /\ Batch \in Seq(States)
        /\ Len(Batch) = IF 1 <= n THEN n - 1 + 1 ELSE 0
        /\ \A i \in 1..(n - 1 + 1) : Batch[i] = queue[1 + i - 1]
    BY <1>2, <2>1, SubSeqProperties DEF Batch
  <2> HIDE DEF n
  <2>3. n \in Nat /\ n - 1 + 1 = n /\ \A i \in Int : 1 + i - 1 = i
    BY <1>1, <1>2
  <2> QED
    BY <2>2, <2>3
<1> HIDE DEF n
<1>4. DOMAIN Batch = 1..Len(Batch)
  BY <1>3, LenProperties
<1> QED
  BY <1>1, <1>2, <1>3, <1>4

\* A batch that is taken leaves the queue.
LEMMA BatchTaken ==
    ASSUME RequestInv, TakeBatch
    PROVE  /\ Len(Batch) \in 1..Len(queue) /\ Len(queue) \in Nat
           /\ \A i \in 1..Len(Batch) :
                 Batch[i] = queue[i] /\ queue[i] \in States /\ i \in DOMAIN queue
           /\ queue' \in Seq(States) /\ Once(queue')
           /\ ToSet(queue') = ToSet(queue) \ {queue[i] : i \in 1..Len(Batch)}
           /\ lastId' \in Nat /\ container' \in [States -> Nat]
           /\ future' = future /\ ping' = ping
<1> DEFINE n == Len(Batch)
<1> USE DEF RequestInv
<1>1. /\ n \in 1..Len(queue) /\ Len(queue) \in Nat
      /\ \A i \in 1..n : Batch[i] = queue[i] /\ queue[i] \in States /\ i \in DOMAIN queue
  BY BatchFacts DEF TakeBatch
<1>2. queue' = SubSeq(queue, n + 1, Len(queue))
  BY DEF TakeBatch
<1>3. /\ queue' \in Seq(States) /\ Once(queue')
      /\ ToSet(queue') = ToSet(queue) \ {queue[i] : i \in 1..n}
  <2> HIDE DEF n
  <2>1. n \in 0..Len(queue) /\ queue \in Seq(States)
    BY <1>1 DEF RequestTypes
  <2> QED
    BY <1>2, <2>1, RestOnce
<1>4. lastId' \in Nat
  <2> HIDE DEF n
  <2>1. lastId + 1 \in Int /\ \A k \in Nat : lastId + n + k \in Int
    BY <1>1 DEF RequestTypes
  <2>2. IsFiniteSet(Ids(n))
    BY <2>1, FS_Interval DEF Ids
  <2> QED
    BY <2>2, FS_CardinalityType DEF n, TakeBatch, RequestTypes
<1>5. container' \in [States -> Nat]
  BY <1>4 DEF TakeBatch, RequestTypes
<1> QED
  BY <1>1, <1>3, <1>4, <1>5 DEF TakeBatch

\* No request of the batch is pending before it is sent, and all are afterwards.
LEMMA BatchTracks ==
    ASSUME RequestInv, SendBatch
    PROVE  RequestInv'
<1> DEFINE n == Len(Batch)
           new == {[id |-> lastId + i, request |-> Batch[i]] : i \in 1..n}
           moved == {queue[i] : i \in 1..n}
<1> USE DEF RequestInv
<1>1. /\ n \in 1..Len(queue) /\ Len(queue) \in Nat
      /\ \A i \in 1..n : Batch[i] = queue[i] /\ queue[i] \in States /\ i \in DOMAIN queue
  BY BatchTaken DEF SendBatch
<1>2. pending' = pending \cup new
  BY DEF SendBatch
<1>3. /\ queue' \in Seq(States) /\ Once(queue')
      /\ ToSet(queue') = ToSet(queue) \ moved
  BY BatchTaken DEF SendBatch
<1>8. future' = future /\ ping' = ping /\ lastId' \in Nat /\ container' \in [States -> Nat]
      /\ dropped' = dropped
  BY BatchTaken DEF SendBatch
<1> HIDE DEF n
<1>4. new = {[id |-> lastId + i, request |-> queue[i]] : i \in 1..n} /\ pending' = pending \cup new
  BY <1>1, <1>2
<1>5. new \subseteq [id : Nat, request : States] /\ IsFiniteSet(new)
  <2>1. \A i \in 1..n : lastId + i \in Nat /\ queue[i] \in States
    BY <1>1 DEF RequestTypes
  <2>2. new \subseteq [id : Nat, request : States]
    BY <1>4, <2>1
  <2>3. IsFiniteSet(1..n)
    BY <1>1, FS_Interval
  <2> DEFINE f == [i \in 1..n |-> [id |-> lastId + i, request |-> queue[i]]]
  <2>4. f \in Surjection(1..n, new)
    BY <1>4 DEF Surjection
  <2> QED
    BY <2>2, <2>3, <2>4, FS_Surjection
<1>6. /\ \A m \in new : m.request \in moved
      /\ \A r \in moved : \E m \in new : m.request = r
      /\ \A m, k \in new : m.request = k.request => m = k
      /\ moved \subseteq ToSet(queue)
  <2>1. \A m \in new : \E i \in 1..n : m = [id |-> lastId + i, request |-> queue[i]]
    BY <1>4
  <2>2. \A i \in 1..n : i \in DOMAIN queue
    BY <1>1
  <2>3. \A i \in 1..n : [id |-> lastId + i, request |-> queue[i]] \in new
    BY <1>4
  <2> HIDE DEF new
  <2>4. \A m, k \in new : m.request = k.request => m = k
    <3> SUFFICES ASSUME NEW m \in new, NEW k \in new, m.request = k.request PROVE m = k
      OBVIOUS
    <3>1. PICK i \in 1..n : m = [id |-> lastId + i, request |-> queue[i]]
      BY <2>1
    <3>2. PICK j \in 1..n : k = [id |-> lastId + j, request |-> queue[j]]
      BY <2>1
    <3>3. queue[i] = queue[j]
      BY <3>1, <3>2
    <3>4. i = j
      BY <2>2, <3>3 DEF Once
    <3> QED
      BY <3>1, <3>2, <3>4
  <2>5. \A m \in new : m.request \in moved
    BY <2>1
  <2>6. \A r \in moved : \E m \in new : m.request = r
    BY <2>3
  <2>7. moved \subseteq ToSet(queue)
    BY <2>2 DEF ToSet
  <2> QED
    BY <2>4, <2>5, <2>6, <2>7
<1> HIDE DEF new, moved
<1>7. PendingRequests' = PendingRequests \cup moved
  BY <1>4, <1>6 DEF PendingRequests
<1>11. IsFiniteSet(pending')
  BY <1>4, <1>5, FS_Union DEF RequestTypes
<1>12. RequestTypes'
  BY <1>3, <1>4, <1>5, <1>8, <1>11 DEF RequestTypes
<1>13. PendingOnce'
  <2>1. \A m \in pending, k \in new : m.request # k.request
    BY <1>6 DEF PendingOnce, PendingRequests
  <2>2. \A m, k \in pending' : m.request = k.request => m = k
    BY <1>4, <1>6, <2>1 DEF PendingOnce
  <2> QED
    BY <1>3, <1>7, <2>2 DEF PendingOnce
<1>14. OpenIsTracked' /\ PingIsFree'
  BY <1>3, <1>6, <1>7, <1>8 DEF OpenIsTracked, PingIsFree
<1> QED
  BY <1>3, <1>12, <1>13, <1>14

\* A batch that is dropped is neither queued any more nor pending.
LEMMA DropTracks ==
    ASSUME RequestInv, DropBatch
    PROVE  RequestInv'
<1> DEFINE n == Len(Batch)
           moved == {queue[i] : i \in 1..n}
<1> USE DEF RequestInv
<1>1. /\ queue' \in Seq(States) /\ Once(queue') /\ ToSet(queue') = ToSet(queue) \ moved
      /\ lastId' \in Nat /\ container' \in [States -> Nat] /\ future' = future /\ ping' = ping
  BY BatchTaken DEF DropBatch
<1>2. ToSet(Batch) = moved /\ moved \subseteq ToSet(queue)
  <2>1. \A i \in 1..n : Batch[i] = queue[i] /\ i \in DOMAIN queue
    BY BatchTaken DEF DropBatch
  <2>2. DOMAIN Batch = 1..n
    BY BatchFacts DEF DropBatch, TakeBatch
  <2> HIDE DEF n
  <2> QED
    BY <2>1, <2>2 DEF ToSet
<1> HIDE DEF moved
<1>3. pending' = pending /\ dropped' = dropped \cup moved /\ PendingRequests' = PendingRequests
  BY <1>2 DEF DropBatch, PendingRequests
<1>4. RequestTypes' /\ PendingOnce'
  BY <1>1, <1>3 DEF RequestTypes, PendingOnce
<1>5. OpenIsTracked' /\ PingIsFree'
  BY <1>1, <1>2, <1>3 DEF OpenIsTracked, PingIsFree, PendingOnce
<1> QED
  BY <1>1, <1>4, <1>5

\* The messages that leave the table take their requests out of it.
LEMMA PendingLess ==
    ASSUME RequestInv, NEW S \in SUBSET pending, pending' = pending \ S
    PROVE  /\ PendingRequests' = PendingRequests \ {m.request : m \in S}
           /\ {m.request : m \in S} \subseteq PendingRequests
           /\ PendingRequests \subseteq States
           /\ IsFiniteSet({m.request : m \in S})
           /\ pending' \subseteq [id : Nat, request : States] /\ IsFiniteSet(pending')
           /\ \A m, n \in pending' : m.request = n.request => m = n
<1> USE DEF RequestInv, RequestTypes
<1>1. IsFiniteSet(S) /\ IsFiniteSet(pending')
  BY FS_Subset
<1>2. IsFiniteSet({m.request : m \in S})
  <2>1. [m \in S |-> m.request] \in Surjection(S, {m.request : m \in S})
    BY DEF Surjection
  <2> QED
    BY <1>1, <2>1, FS_Surjection
<1> QED
  BY <1>1, <1>2 DEF PendingOnce, PendingRequests

\* Messages that are settled: an answer, an error, a disconnect.
LEMMA SettleTracks ==
    ASSUME RequestInv, NEW S \in SUBSET pending, NEW how \in Futures \ {"open"},
           pending' = pending \ S, Settle({m.request : m \in S}, how),
           UNCHANGED <<queue, container, lastId, dropped>>,
           ping' \in BOOLEAN, ping /\ ~ping' => future'[Ping] # "open"
    PROVE  RequestInv'
<1> DEFINE R == {m.request : m \in S}
<1> HIDE DEF R
<1>1. /\ PendingRequests' = PendingRequests \ R /\ R \subseteq PendingRequests
      /\ PendingRequests \subseteq States
      /\ pending' \subseteq [id : Nat, request : States] /\ IsFiniteSet(pending')
      /\ \A m, n \in pending' : m.request = n.request => m = n
  BY PendingLess DEF R
<1>2. future' = [r \in States |-> IF r \in R THEN how ELSE future[r]]
  BY DEF Settle, R
<1>3. future' \in [States -> Futures]
  BY <1>2 DEF RequestInv, RequestTypes
<1>4. RequestTypes' /\ Once(queue')
  BY <1>1, <1>3 DEF RequestInv, RequestTypes
<1>5. PendingOnce' /\ OpenIsTracked'
  BY <1>1, <1>2 DEF RequestInv, PendingOnce, OpenIsTracked
<1>6. PingIsFree'
  BY <1>2 DEF RequestInv, PingIsFree, States
<1> QED
  BY <1>4, <1>5, <1>6 DEF RequestInv

\* Messages that are queued again: a notification, a reconnect.
LEMMA RequeueTracks ==
    ASSUME RequestInv, NEW S \in SUBSET pending, pending' = pending \ S,
           queue' = queue \o SetToSeq({m.request : m \in S}),
           UNCHANGED <<future, container, lastId, ping, dropped>>
    PROVE  RequestInv'
<1> DEFINE R == {m.request : m \in S}
           s == SetToSeq(R)
<1> HIDE DEF R
<1>1. /\ PendingRequests' = PendingRequests \ R /\ R \subseteq PendingRequests
      /\ PendingRequests \subseteq States /\ IsFiniteSet(R)
      /\ pending' \subseteq [id : Nat, request : States] /\ IsFiniteSet(pending')
      /\ \A m, n \in pending' : m.request = n.request => m = n
  BY PendingLess DEF R
<1>2. s \in Seq(States) /\ Once(s) /\ ToSet(s) = R
  BY <1>1, SetInARow
<1>3. ToSet(queue) \cap R = {} /\ queue \in Seq(States) /\ Once(queue)
  BY <1>1 DEF RequestInv, RequestTypes, PendingOnce
<1>4. queue' = queue \o s
  BY DEF R
<1> HIDE DEF s
<1>5. queue' \in Seq(States) /\ Once(queue') /\ ToSet(queue') = ToSet(queue) \cup R
  BY <1>2, <1>3, <1>4, ConcatOnce
<1>6. RequestTypes'
  BY <1>1, <1>5 DEF RequestInv, RequestTypes
<1>7. PendingOnce' /\ OpenIsTracked' /\ PingIsFree'
  BY <1>1, <1>3, <1>5 DEF RequestInv, PendingOnce, OpenIsTracked, PingIsFree
<1> QED
  BY <1>5, <1>6, <1>7 DEF RequestInv

\* What gives up the link for good settles everything that is pending.
LEMMA DetachTracks ==
    ASSUME RequestInv, NEW how \in Futures \ {"open"}, Detach(how), UNCHANGED dropped
    PROVE  RequestInv'
<1>1. PendingRequests = {m.request : m \in pending} /\ pending' = pending \ pending
  BY DEF PendingRequests, Detach
<1> QED
  BY <1>1, SettleTracks DEF Detach, RequestInv, RequestTypes

\* What the receive loop does with the pending requests.
LEMMA ReceiveTracks ==
    ASSUME RequestInv, Receive
    PROVE  RequestInv'
<1>1. ASSUME NEW m \in pending, Answer(m) PROVE RequestInv'
  <2>1. {k.request : k \in {m}} = {m.request} /\ ping \in BOOLEAN
    BY DEF RequestInv, RequestTypes
  <2>2. \E how \in {"result", "error"} : Settle({k.request : k \in {m}}, how)
    BY <1>1, <2>1 DEF Answer
  <2>3. ping' \in BOOLEAN
    BY <1>1, <2>1 DEF Answer
  <2>4. ping /\ ~ping' => future'[Ping] # "open"
    <3> SUFFICES ASSUME ping, ~ping' PROVE future'[Ping] # "open"
      OBVIOUS
    <3>1. m.request = Ping /\ Settle({m.request}, "result")
      BY <1>1 DEF Answer
    <3>2. Ping \in States
      BY DEF States
    <3> QED
      BY <3>1, <3>2 DEF Settle
  <2> QED
    BY <1>1, <2>2, <2>3, <2>4, SettleTracks DEF Answer, ReceiverGoesOn, Futures
<1>2. ASSUME NEW id \in sent, Rejected(id) PROVE RequestInv'
  <2>1. _pop_states(id) \in SUBSET pending
    BY DEF _pop_states
  <2>2. ping' = ping /\ ping \in BOOLEAN
    BY <1>2 DEF Rejected, RequestInv, RequestTypes
  <2> DEFINE S == _pop_states(id)
  <2>3. pending' = pending \ S /\ UNCHANGED <<container, lastId, ping, dropped>>
    BY <1>2 DEF Rejected, ReceiverGoesOn
  <2>4. CASE queue' = queue \o SetToSeq({m.request : m \in S}) /\ UNCHANGED future
    BY <2>1, <2>3, <2>4, RequeueTracks
  <2>5. CASE Settle({m.request : m \in S}, "error") /\ UNCHANGED queue
    <3>1. "error" \in Futures \ {"open"}
      BY DEF Futures
    <3> HIDE DEF S
    <3> QED
      BY <2>1, <2>2, <2>3, <2>5, <3>1, SettleTracks DEF S
  <2> QED
    BY <1>2, <2>4, <2>5 DEF Rejected
<1>3. CASE ReceiveFails \/ ReceiveInvalid \/ ReceiveFatal \/ \E id \in sent : Ignored(id)
  <2>1. UNCHANGED <<requestVars, dropped>>
    BY <1>3
    DEF ReceiveFails, ReceiveInvalid, ReceiverEnds, ReceiveFatal, Ignored, ReceiverGoesOn, sideVars
  <2> QED
    BY <2>1, UntouchedRequests
<1> QED
  BY <1>1, <1>2, <1>3 DEF Receive

\* An attempt to connect queues what is pending again, settles it, or neither.
LEMMA ConnectTracks ==
    ASSUME RequestInv, NEW p \in Connectors, Connects(p)
    PROVE  RequestInv'
<1>1. ASSUME Connected(p) PROVE RequestInv'
  <2>1. CASE p = "connect"
    BY <1>1, <2>1, UntouchedRequests DEF Connected, requestVars, sideVars
  <2>2. CASE p # "connect"
    <3>1. pending' = pending \ pending /\ queue' = queue \o SetToSeq({m.request : m \in pending})
      BY <1>1, <2>2 DEF Connected, RequeuePending, PendingRequests
    <3> QED
      BY <1>1, <3>1, RequeueTracks DEF Connected, sideVars
  <2> QED
    BY <2>1, <2>2
<1>2. CASE AttemptFails(p)
  <2>1. (UNCHANGED requestVars \/ Detach("error")) /\ UNCHANGED dropped
    BY <1>2 DEF AttemptFails, GiveUp, sideVars
  <2> QED
    BY <2>1, UntouchedRequests, DetachTracks DEF Futures
<1>3. CASE HandshakeStarts(p) \/ TriesAgain(p)
  BY <1>3, UntouchedRequests DEF HandshakeStarts, TriesAgain, sideVars
<1> QED
  BY <1>1, <1>2, <1>3 DEF Connects, ConnectSucceeds, HandshakeSucceeds

\* Every step keeps the requests as described.
LEMMA RequestStep == RequestInv /\ [Next]_vars => RequestInv'
<1> SUFFICES ASSUME RequestInv, [Next]_vars PROVE RequestInv'
  OBVIOUS
<1>1. ASSUME NEW r \in Requests, Send(r) PROVE RequestInv'
  BY <1>1, SendTracks, SenderAssumption DEF Send, States, RequestInv, RequestTypes, sideVars
<1>2. CASE KeepalivePing
  <2>1. CASE ping
    BY <1>2, <2>1, UntouchedRequests DEF KeepalivePing, sideVars
  <2>2. CASE ~ping
    <3>1. future[Ping] # "open" /\ Ping \in States
      BY <2>2 DEF RequestInv, PingIsFree, States
    <3>2. ping' = TRUE /\ send(Ping) /\ UNCHANGED <<pending, lastId, dropped>>
      BY <1>2, <2>2 DEF KeepalivePing, sideVars
    <3> QED
      BY <3>1, <3>2, SendTracks
  <2> QED
    BY <2>1, <2>2
<1>3. CASE TransportLost \/ connect \/ disconnect \/ _switch_dc \/ UNCHANGED vars
      \/ \E t \in Tasks : Reconnects(t)
  BY <1>3, UntouchedRequests
  DEF TransportLost, connect, disconnect, _switch_dc, vars, Reconnects, ReconnectStarts,
      ReconnectGoesOn, sideVars
<1>4. ASSUME NEW who \in closing, DisconnectEnds(who) PROVE RequestInv'
  BY <1>4, DetachTracks DEF DisconnectEnds, Futures, sideVars
<1> QED
  BY <1>1, <1>2, <1>3, <1>4, BatchTracks, DropTracks, ReceiveTracks, ConnectTracks DEF Next

\* A request that is open is queued or pending, once, unless it was dropped for
\* want of a key; one that is settled is neither: whatever transports,
\* rejections, reconnects, disconnects and data centres do.
THEOREM NoRequestIsLost == Spec => []RequestsAreTracked
<1>1. RequestInv => RequestsAreTracked
  <2> SUFFICES ASSUME RequestInv, NEW r \in States
               PROVE  Cardinality({i \in DOMAIN queue : queue[i] = r})
                        + Cardinality({m \in pending : m.request = r})
                            = IF future[r] = "open" /\ r \notin dropped THEN 1 ELSE 0
    BY DEF RequestsAreTracked
  <2> DEFINE I == {i \in DOMAIN queue : queue[i] = r}
             M == {m \in pending : m.request = r}
  <2>1. CASE r \in ToSet(queue)
    <3>1. PICK i : I = {i}
      BY <2>1 DEF RequestInv, Once, ToSet
    <3>2. M = {}
      BY <2>1 DEF RequestInv, PendingOnce, PendingRequests
    <3>3. Cardinality(I) = 1 /\ Cardinality(M) = 0
      BY <3>1, <3>2, FS_EmptySet, FS_Singleton
    <3> QED
      BY <2>1, <3>3 DEF RequestInv, OpenIsTracked
  <2>2. CASE r \in PendingRequests
    <3>1. PICK m : M = {m}
      BY <2>2 DEF RequestInv, PendingOnce, PendingRequests
    <3>2. I = {}
      BY <2>2 DEF RequestInv, PendingOnce, ToSet
    <3>3. Cardinality(I) = 0 /\ Cardinality(M) = 1
      BY <3>1, <3>2, FS_EmptySet, FS_Singleton
    <3> QED
      BY <2>2, <3>3 DEF RequestInv, OpenIsTracked
  <2>3. CASE r \notin ToSet(queue) /\ r \notin PendingRequests
    <3>1. I = {} /\ M = {}
      BY <2>3 DEF ToSet, PendingRequests
    <3>2. Cardinality(I) = 0 /\ Cardinality(M) = 0
      BY <3>1, FS_EmptySet
    <3> QED
      BY <2>3, <3>2 DEF RequestInv, OpenIsTracked
  <2> QED
    BY <2>1, <2>2, <2>3
<1> QED
  BY <1>1, InitRequests, RequestStep, PTL DEF Spec

\* A message id is that of one pending message, and of no container.
NoSharedId ==
    \A m, k \in pending : (m.id = k.id => m = k) /\ m.id # container[k.request]

\* For the ids grow, and a container has one of its own.
IdsGrow ==
    /\ \A m \in pending : m.id \in 1..lastId
    /\ \A r \in States : container[r] \in 0..lastId
    /\ \A m, k \in pending : m.id = k.id => m = k
    /\ \A m \in pending, r \in States : m.id # container[r]

\* Fewer messages, or containers forgotten, keep what ids there are apart.
LEMMA FewerIds ==
    ASSUME RequestTypes, IdsGrow, pending' \subseteq pending, lastId' = lastId,
           \A r \in States : container'[r] \in {container[r], 0}
    PROVE  IdsGrow'
BY DEF RequestTypes, IdsGrow

\* The ids of a batch and its container follow the last one, dropped or not.
LEMMA BatchIds ==
    ASSUME RequestTypes, IdsGrow, SendBatch \/ DropBatch
    PROVE  IdsGrow'
<1> DEFINE n == Len(Batch)
           more == IF n > 1 THEN 1 ELSE 0
           new == {[id |-> lastId + i, request |-> Batch[i]] : i \in 1..n}
<1>0. TakeBatch
  BY DEF SendBatch, DropBatch
<1>1. n \in Nat \ {0} /\ more \in {0, 1} /\ lastId \in Nat
  BY <1>0, BatchFacts DEF TakeBatch, RequestTypes
<1>2. lastId' = lastId + n + more
  <2> DEFINE low == lastId + 1
             high == lastId + n + more
  <2>1. low \in Int /\ high \in Int /\ ~(low > high) /\ high - low + 1 = n + more
    BY <1>1
  <2>2. Ids(n) = low..high
    BY DEF Ids
  <2>3. Cardinality(Ids(n)) = n + more
    <3> HIDE DEF low, high
    <3>1. Cardinality(low..high) = high - low + 1
      BY <2>1, FS_Interval
    <3> QED
      BY <2>1, <2>2, <3>1
  <2> HIDE DEF more
  <2> QED
    BY <1>0, <1>1, <2>3 DEF TakeBatch
<1>3. pending' \subseteq pending \cup new
      /\ \A r \in States : container'[r] = container[r] \/ (n > 1 /\ container'[r] = lastId')
  BY DEF SendBatch, DropBatch, TakeBatch
<1> HIDE DEF n
<1>4. \A m \in new : \E i \in 1..n : m = [id |-> lastId + i, request |-> Batch[i]]
  OBVIOUS
<1>5. \A m \in new : m.id \in (lastId + 1)..(lastId + n)
  BY <1>1, <1>4
<1>6. \A m, k \in new : m.id = k.id => m = k
  <2> SUFFICES ASSUME NEW m \in new, NEW k \in new, m.id = k.id PROVE m = k
    OBVIOUS
  <2>1. PICK i \in 1..n : m = [id |-> lastId + i, request |-> Batch[i]]
    BY <1>4
  <2>2. PICK j \in 1..n : k = [id |-> lastId + j, request |-> Batch[j]]
    BY <1>4
  <2>3. i = j
    BY <1>1, <2>1, <2>2
  <2> QED
    BY <2>1, <2>2, <2>3
<1> HIDE DEF new
<1>7. \A m \in pending' : m.id \in 1..(lastId + n)
  BY <1>1, <1>3, <1>5 DEF IdsGrow
<1>8. \A m \in pending' : m.id \in 1..lastId'
  BY <1>1, <1>2, <1>7
<1>9. \A r \in States : container'[r] \in 0..lastId \/ container'[r] > lastId + n
  BY <1>1, <1>2, <1>3 DEF IdsGrow
<1>10. \A r \in States : container'[r] \in 0..lastId'
  BY <1>1, <1>2, <1>3 DEF IdsGrow
<1>11. \A m, k \in pending' : m.id = k.id => m = k
  BY <1>1, <1>3, <1>5, <1>6 DEF IdsGrow
<1>12. \A m \in pending', r \in States : m.id # container'[r]
  <2> SUFFICES ASSUME NEW m \in pending', NEW r \in States, m.id = container'[r] PROVE FALSE
    OBVIOUS
  <2>1. m.id \in 1..(lastId + n) /\ container'[r] \in 0..lastId
    BY <1>1, <1>7, <1>9
  <2>2. m \in pending /\ container'[r] = container[r]
    BY <1>1, <1>2, <1>3, <1>5, <2>1
  <2> QED
    BY <2>2 DEF IdsGrow
<1> QED
  BY <1>8, <1>10, <1>11, <1>12 DEF IdsGrow

\* What an answer or a notification names is one message or one container,
\* whatever has been sent again meanwhile: _pop_states cannot mistake one for
\* the other.
THEOREM IdsNameOneMessage == Spec => []NoSharedId
<1>1. Init => IdsGrow
  BY DEF Init, IdsGrow
<1>2. RequestInv /\ IdsGrow /\ [Next]_vars => IdsGrow'
  <2> SUFFICES ASSUME RequestInv, IdsGrow, [Next]_vars PROVE IdsGrow'
    OBVIOUS
  <2>1. RequestTypes
    BY DEF RequestInv
  <2>2. CASE SendBatch \/ DropBatch
    BY <2>1, <2>2, BatchIds
  <2>3. CASE ~(SendBatch \/ DropBatch)
    <3>1. pending' \subseteq pending /\ lastId' = lastId
      BY <2>3
      DEF Next, vars, requestVars, Send, KeepalivePing, Receive, Answer, Rejected, Ignored,
          ReceiveFails, ReceiveInvalid, ReceiverEnds, ReceiveFatal, TransportLost, connect,
          disconnect, _switch_dc, Connects, ConnectSucceeds,
          HandshakeStarts, HandshakeSucceeds, AttemptFails, TriesAgain, GiveUp, Connected,
          RequeuePending, Reconnects, ReconnectStarts, ReconnectGoesOn, DisconnectEnds, Detach
    <3>2. container' = container \/ \E r \in States : container' = [container EXCEPT ![r] = 0]
      BY <2>3
      DEF Next, vars, requestVars, Send, KeepalivePing, send, States, Receive, Answer, Rejected,
          Ignored, ReceiveFails, ReceiveInvalid, ReceiverEnds, ReceiveFatal, TransportLost,
          connect, disconnect, _switch_dc, Connects, ConnectSucceeds, HandshakeStarts,
          HandshakeSucceeds, AttemptFails, TriesAgain, GiveUp, Connected, Reconnects,
          ReconnectStarts, ReconnectGoesOn, DisconnectEnds, Detach
    <3>3. \A r \in States : container'[r] \in {container[r], 0}
      BY <2>1, <3>2 DEF RequestTypes
    <3> QED
      BY <2>1, <3>1, <3>3, FewerIds
  <2> QED
    BY <2>2, <2>3
<1>3. RequestInv /\ IdsGrow => NoSharedId
  BY DEF RequestInv, RequestTypes, IdsGrow, NoSharedId
<1> QED
  BY <1>1, <1>2, <1>3, InitRequests, RequestStep, PTL DEF Spec

\* A request of the client's that is settled stays as it is: no late answer, no
\* reconnect and no disconnect settles it over again or sends it once more.
SettledOnce ==
    [][ \A r \in Requests :
          future[r] \notin {"new", "open"} => future'[r] = future[r] ]_vars

\* Only what is pending is settled, and what is pending is open.
LEMMA SettlesOpen ==
    ASSUME RequestInv, NEW S \in SUBSET pending, NEW how, Settle({m.request : m \in S}, how),
           NEW r \in States, future[r] # "open"
    PROVE  future'[r] = future[r]
<1>1. r \notin {m.request : m \in S}
  BY DEF RequestInv, OpenIsTracked, PendingRequests
<1> QED
  BY <1>1 DEF Settle

\* Requests are settled once.
THEOREM RequestsSettleOnce == Spec => SettledOnce
<1>1. RequestInv /\ [Next]_vars =>
        \A r \in Requests : future[r] \notin {"new", "open"} => future'[r] = future[r]
  <2> SUFFICES ASSUME RequestInv, [Next]_vars, NEW r \in Requests, future[r] \notin {"new", "open"}
               PROVE  future'[r] = future[r]
    OBVIOUS
  <2>0. r \in States /\ r # Ping /\ future[r] # "open"
    BY SenderAssumption DEF States
  <2>1. ASSUME NEW q \in States, send(q), q # r PROVE future'[r] = future[r]
    BY <2>0, <2>1 DEF send, RequestInv, RequestTypes
  <2>2. ASSUME NEW how, Detach(how) PROVE future'[r] = future[r]
    BY <2>0, <2>2, SettlesOpen DEF Detach, PendingRequests
  <2>3. ASSUME NEW m \in pending, Answer(m) PROVE future'[r] = future[r]
    <3>1. {k.request : k \in {m}} = {m.request}
      OBVIOUS
    <3>2. PICK how \in {"result", "error"} : Settle({m.request}, how)
      BY <2>3 DEF Answer
    <3>3. {m} \in SUBSET pending
      OBVIOUS
    <3> QED
      BY <2>0, <3>1, <3>2, <3>3, SettlesOpen, Zenon
  <2>4. ASSUME NEW id \in sent, Rejected(id) PROVE future'[r] = future[r]
    <3>1. _pop_states(id) \in SUBSET pending
      BY DEF _pop_states
    <3> QED
      BY <2>0, <2>4, <3>1, SettlesOpen DEF Rejected
  <2>5. CASE UNCHANGED future
    BY <2>5
  <2> QED
    BY <2>0, <2>1, <2>2, <2>3, <2>4, <2>5, Zenon
    DEF Next, vars, requestVars, Send, States, KeepalivePing, SendBatch, DropBatch, TakeBatch,
        Receive, Ignored, ReceiveFails, ReceiveInvalid, ReceiverEnds, ReceiveFatal, TransportLost,
        connect, disconnect, _switch_dc, Connects, ConnectSucceeds,
        HandshakeStarts, HandshakeSucceeds, AttemptFails, TriesAgain, GiveUp, Connected,
        Reconnects, ReconnectStarts, ReconnectGoesOn, DisconnectEnds
<1> QED
  BY <1>1, InitRequests, RequestStep, PTL DEF Spec, SettledOnce

-----------------------------------------------------------------------------
(* The loops.                                                              *)

Places == {"none", "scheduled", "closing", "connecting", "handshake", "delay"}

LinkTypes ==
    /\ userConnected \in BOOLEAN /\ reconnecting \in BOOLEAN
    /\ attached \in BOOLEAN /\ transport \in BOOLEAN /\ authKey \in BOOLEAN
    /\ senders \in Nat /\ receivers \in Nat
    /\ at \in [Connectors -> Places]

NoLoops == senders = 0 /\ receivers = 0

\* No loop runs while a link is made, nor once the sender is disconnected.
LoopsHaveLink ==
    /\ \A p \in Connectors : at[p] \in {"connecting", "handshake", "delay"} => NoLoops
    /\ ~userConnected /\ closing = {} => NoLoops

OneLoopEach == senders <= 1 /\ receivers <= 1

OneTask == \A t, u \in Tasks : at[t] # "none" /\ at[u] # "none" => t = u

\* A task that has not yet ended the loops is announced by reconnecting; one that
\* has closed the transport has none until it succeeds, or shakes hands for a user
\* that is not connected any more.
TasksAreKnown ==
    \A t \in Tasks :
        /\ at[t] \in {"scheduled", "closing"} => reconnecting
        /\ at[t] \in {"closing", "connecting", "delay"} => ~transport
        /\ at[t] = "handshake" => ~userConnected

\* A user that is connected has a key.
UserHasKey == userConnected => authKey

\* The user is not connected while connect is under way.
ConnectIsNews == at["connect"] # "none" => ~userConnected

LinkInv ==
    /\ LinkTypes /\ LoopsHaveLink /\ OneLoopEach /\ OneTask /\ TasksAreKnown /\ UserHasKey
    /\ ConnectIsNews

\* No connect of the client's own runs beside a reconnect task.
NoConnectBesideReconnect == at["connect"] = "none" \/ \A t \in Tasks : at[t] = "none"

\* A sender whose user is connected is served by both loops, or has a task that
\* will start them again: it never waits for answers that nobody reads.
ConnectedIsServed ==
    userConnected => (senders = 1 /\ receivers = 1) \/ \E t \in Tasks : at[t] # "none"

\* Once a disconnect is through, what is still open has not been sent: the
\* futures of all that was pending are settled, those of the queue are not.
DisconnectSettles ==
    ~userConnected /\ closing = {} =>
        \A r \in States : future[r] = "open" => r \in ToSet(queue) \cup dropped

\* While reconnecting is set, a task is there to reset it.
FlagHasTask ==
    reconnecting /\ userConnected => \E t \in Tasks : at[t] \in {"scheduled", "closing"}

\* What the user sees as connected is not about to be closed.
UserHasConnection == userConnected => attached /\ closing = {}

\* connect has the sender for itself.
ConnectIsAlone ==
    at["connect"] # "none" =>
        /\ at["connect"] \in {"connecting", "handshake", "delay"}
        /\ attached /\ closing = {} /\ ~reconnecting

NothingPending == ~userConnected /\ closing = {} => pending = {}

ServiceInv ==
    /\ ConnectedIsServed /\ FlagHasTask /\ UserHasConnection /\ ConnectIsAlone
    /\ NothingPending

SenderInv == LinkInv /\ NoConnectBesideReconnect /\ ServiceInv

\* Before the first connect nothing runs.
LEMMA InitLink == Init => LinkInv
<1> SUFFICES ASSUME Init PROVE LinkInv
  OBVIOUS
<1>1. \A p \in Connectors : at[p] = "none"
  BY DEF Init
<1>2. LinkTypes
  BY DEF Init, LinkTypes, Places
<1>3. NoLoops /\ ~userConnected
  BY DEF Init, NoLoops
<1>4. LoopsHaveLink /\ OneLoopEach
  BY <1>1, <1>3 DEF LoopsHaveLink, NoLoops, OneLoopEach
<1>5. OneTask /\ TasksAreKnown /\ UserHasKey /\ ConnectIsNews
  BY <1>1, <1>3 DEF OneTask, TasksAreKnown, UserHasKey, ConnectIsNews, Connectors
<1> QED
  BY <1>2, <1>4, <1>5 DEF LinkInv

\* A loop that finds the transport lost while nobody has begun to reconnect is
\* the evidence that no task is alive: a task ends the loops before it works.
LEMMA LoopsMeanNoTask ==
    ASSUME LinkInv, userConnected, ~reconnecting,
           senders > 0 \/ receivers > 0 \/ transport
    PROVE  \A t \in Tasks : at[t] = "none"
<1> SUFFICES ASSUME NEW t \in Tasks, at[t] # "none" PROVE FALSE
  OBVIOUS
<1>1. at[t] \in {"connecting", "delay"}
  BY DEF LinkInv, LinkTypes, TasksAreKnown, Connectors, Places
<1>2. senders = 0 /\ receivers = 0 /\ ~transport
  BY <1>1 DEF LinkInv, LoopsHaveLink, NoLoops, TasksAreKnown, Connectors
<1> QED
  BY <1>2

\* Steps that end loops, leave the link alone and may start a reconnect.
LEMMA LoopStepLinks ==
    ASSUME LinkInv, senders' \in Nat, senders' <= senders, receivers' \in Nat,
           receivers' <= receivers,
           UNCHANGED <<userConnected, attached, transport, authKey, closing>>,
           \/ UNCHANGED <<reconnecting, at>>
           \/ _start_reconnect /\ (senders > 0 \/ receivers > 0 \/ transport)
    PROVE  LinkInv'
<1> USE DEF LinkInv
<1>1. NoLoops => NoLoops'
  BY DEF NoLoops, LinkTypes
<1>2. CASE UNCHANGED <<reconnecting, at>>
  BY <1>1, <1>2
  DEF LinkTypes, LoopsHaveLink, OneLoopEach, OneTask, TasksAreKnown, UserHasKey, ConnectIsNews
<1>3. CASE userConnected /\ ~reconnecting /\ ~UNCHANGED <<reconnecting, at>>
  <2>1. \A t \in Tasks : at[t] = "none"
    BY <1>3, LoopsMeanNoTask
  <2>2. at["connect"] = "none"
    BY <1>3 DEF ConnectIsNews
  <2>3. PICK t \in Tasks : at' = [at EXCEPT ![t] = "scheduled"] /\ reconnecting' = TRUE
    BY <1>3 DEF _start_reconnect, Schedule
  <2>4. /\ at' \in [Connectors -> Places]
        /\ \A p \in Connectors : at'[p] = IF p = t THEN "scheduled" ELSE "none"
    BY <2>1, <2>2, <2>3 DEF LinkTypes, Connectors, Places
  <2>5. LinkTypes'
    BY <2>3, <2>4 DEF LinkTypes
  <2>6. LoopsHaveLink' /\ OneLoopEach' /\ OneTask'
    <3>1. userConnected' /\ \A p \in Connectors : at'[p] \in {"scheduled", "none"}
      BY <1>3, <2>4
    <3>2. LoopsHaveLink'
      BY <3>1 DEF LoopsHaveLink
    <3>3. OneLoopEach'
      BY DEF OneLoopEach, LinkTypes
    <3> QED
      BY <2>4, <3>2, <3>3 DEF OneTask, Connectors
  <2>7. TasksAreKnown' /\ UserHasKey' /\ ConnectIsNews'
    BY <1>3, <2>3, <2>4 DEF TasksAreKnown, UserHasKey, ConnectIsNews, Connectors, Tasks
  <2> QED
    BY <2>5, <2>6, <2>7
<1> QED
  BY <1>2, <1>3 DEF _start_reconnect

\* The sender is told to disconnect.
LEMMA ClosingLinks ==
    ASSUME LinkInv, NEW who, closing' = closing \cup {who},
           ~userConnected', userConnected' \in BOOLEAN, ~transport', transport' \in BOOLEAN,
           authKey' \in BOOLEAN, UNCHANGED <<attached, senders, receivers, reconnecting, at>>
    PROVE  LinkInv'
<1> USE DEF LinkInv
<1>1. LinkTypes' /\ OneLoopEach' /\ OneTask' /\ ConnectIsNews'
  BY DEF LinkTypes, OneLoopEach, OneTask, ConnectIsNews
<1>2. LoopsHaveLink'
  <2>1. closing' # {}
    OBVIOUS
  <2> QED
    BY <2>1 DEF LoopsHaveLink, NoLoops
<1>3. TasksAreKnown' /\ UserHasKey'
  BY DEF TasksAreKnown, UserHasKey
<1> QED
  BY <1>1, <1>2, <1>3

\* The loops have been ended with the connection.
LEMMA DetachLinks ==
    ASSUME LinkInv, NoLoops', attached' = FALSE, UNCHANGED <<authKey, reconnecting>>,
           transport' \in BOOLEAN, transport' => transport,
           userConnected' \in BOOLEAN, userConnected' => userConnected,
           at' = at \/ \E p \in Connectors : at' = [at EXCEPT ![p] = "none"]
    PROVE  LinkInv'
<1> USE DEF LinkInv
<1>1. at' \in [Connectors -> Places] /\ \A p \in Connectors : at'[p] \in {at[p], "none"}
  BY DEF LinkTypes, Places
<1>2. LinkTypes' /\ LoopsHaveLink' /\ OneLoopEach'
  <2>1. LinkTypes'
    BY <1>1 DEF LinkTypes, NoLoops
  <2> QED
    BY <2>1 DEF LoopsHaveLink, NoLoops, OneLoopEach
<1>3. OneTask' /\ ConnectIsNews'
  BY <1>1 DEF OneTask, ConnectIsNews, Connectors
<1>4. TasksAreKnown' /\ UserHasKey'
  BY <1>1 DEF TasksAreKnown, UserHasKey, Connectors
<1> QED
  BY <1>2, <1>3, <1>4

\* There is one loop of each kind to cancel.
LEMMA CancelledLoops ==
    ASSUME LinkTypes, OneLoopEach, CancelLoops
    PROVE  NoLoops'
BY DEF LinkTypes, OneLoopEach, CancelLoops, NoLoops

\* A task that closes the link, and ends the loops.
LEMMA ReconnectLinks ==
    ASSUME LinkInv, NEW t \in Tasks, Reconnects(t)
    PROVE  LinkInv'
<1> USE DEF LinkInv
<1>0. t \in Connectors /\ t # "connect"
  BY DEF Connectors, Tasks
<1>1. CASE ReconnectStarts(t)
  <2>1. /\ at[t] = "scheduled" /\ reconnecting
        /\ at' = [at EXCEPT ![t] = IF attached THEN "closing" ELSE "none"]
        /\ UNCHANGED <<attached, authKey, senders, receivers, userConnected, reconnecting, closing>>
    BY <1>1 DEF ReconnectStarts, linkVars, loopVars, TasksAreKnown
  <2>2. transport' \in BOOLEAN /\ (attached => ~transport') /\ (transport' => transport)
    BY <1>1 DEF ReconnectStarts, LinkTypes
  <2>3. /\ at' \in [Connectors -> Places]
        /\ at'[t] = "none" \/ (at'[t] = "closing" /\ attached)
        /\ \A p \in Connectors \ {t} : at'[p] = at[p]
    BY <1>0, <2>1 DEF LinkTypes, Places
  <2>4. LinkTypes' /\ LoopsHaveLink' /\ OneLoopEach'
    <3>1. LinkTypes'
      BY <2>1, <2>2, <2>3 DEF LinkTypes
    <3>2. LoopsHaveLink'
      BY <2>1, <2>3 DEF LoopsHaveLink, NoLoops
    <3> QED
      BY <2>1, <3>1, <3>2 DEF OneLoopEach
  <2>5. OneTask' /\ ConnectIsNews'
    BY <1>0, <2>1, <2>3 DEF OneTask, ConnectIsNews, Connectors
  <2>6. TasksAreKnown' /\ UserHasKey'
    BY <2>1, <2>2, <2>3 DEF TasksAreKnown, UserHasKey, Connectors
  <2> QED
    BY <2>4, <2>5, <2>6
<1>2. CASE ReconnectGoesOn(t)
  <2>1. /\ at[t] = "closing" /\ ~transport /\ reconnecting' = FALSE /\ NoLoops'
        /\ at' = [at EXCEPT ![t] = IF attached THEN "connecting" ELSE "delay"]
        /\ UNCHANGED <<attached, transport, authKey, userConnected, closing>>
    BY <1>2, CancelledLoops DEF ReconnectGoesOn, linkVars, TasksAreKnown
  <2>2. /\ at' \in [Connectors -> Places] /\ at'[t] \in {"connecting", "delay"}
        /\ \A p \in Connectors \ {t} : at'[p] = at[p]
    BY <1>0, <2>1 DEF LinkTypes, Places
  <2>3. \A u \in Tasks \ {t} : at'[u] = "none"
    BY <2>1, <2>2 DEF OneTask, Connectors
  <2>4. LinkTypes' /\ LoopsHaveLink' /\ OneLoopEach'
    <3>1. LinkTypes'
      BY <2>1, <2>2 DEF LinkTypes, NoLoops
    <3> QED
      BY <2>1, <3>1 DEF LoopsHaveLink, NoLoops, OneLoopEach
  <2>5. OneTask' /\ ConnectIsNews'
    BY <1>0, <2>1, <2>2, <2>3 DEF OneTask, ConnectIsNews, Connectors
  <2>6. TasksAreKnown' /\ UserHasKey'
    BY <2>1, <2>2, <2>3 DEF TasksAreKnown, UserHasKey
  <2> QED
    BY <2>4, <2>5, <2>6
<1> QED
  BY <1>1, <1>2 DEF Reconnects

\* A link that is made: the loops are started, where there were none.
LEMMA ConnectedLinks ==
    ASSUME LinkInv, NoConnectBesideReconnect, NEW p \in Connectors,
           at[p] \in {"connecting", "handshake"}, Connected(p)
    PROVE  LinkInv'
<1> USE DEF LinkInv
<1>1. /\ transport' = TRUE /\ authKey' = TRUE /\ at' = [at EXCEPT ![p] = "none"]
      /\ UNCHANGED <<attached, reconnecting, closing>>
      /\ userConnected' = (userConnected \/ p = "connect")
  BY DEF Connected, LinkTypes
<1>2. senders' \in {0, 1} /\ receivers' \in {0, 1} /\ (~userConnected' => NoLoops')
  BY <1>1 DEF Connected, LoopsHaveLink, NoLoops
<1>3. \A q \in Connectors : at'[q] = "none"
  <2>1. \A q \in Connectors \ {p} : at[q] = "none"
    BY DEF NoConnectBesideReconnect, OneTask, Connectors
  <2> QED
    BY <1>1, <2>1 DEF LinkTypes
<1>4. LinkTypes'
  BY <1>1, <1>2, <1>3 DEF LinkTypes, Places
<1>5. LoopsHaveLink' /\ OneLoopEach' /\ OneTask'
  <2>1. LoopsHaveLink'
    BY <1>2, <1>3 DEF LoopsHaveLink
  <2>2. OneLoopEach'
    BY <1>2 DEF OneLoopEach
  <2> QED
    BY <1>3, <2>1, <2>2 DEF OneTask, Connectors
<1>6. TasksAreKnown' /\ UserHasKey' /\ ConnectIsNews'
  BY <1>1, <1>3 DEF TasksAreKnown, UserHasKey, ConnectIsNews, Connectors
<1> QED
  BY <1>4, <1>5, <1>6

\* A link that is not made yet.
LEMMA ConnectLinks ==
    ASSUME LinkInv, NoConnectBesideReconnect, NEW p \in Connectors, Connects(p)
    PROVE  LinkInv'
<1> USE DEF LinkInv
<1>1. CASE ConnectSucceeds(p) \/ HandshakeSucceeds(p)
  BY <1>1, ConnectedLinks DEF ConnectSucceeds, HandshakeSucceeds
<1>2. ASSUME at[p] \in {"connecting", "handshake", "delay"}, NEW place \in Places,
             place \in {"connecting", "handshake", "delay"}, at' = [at EXCEPT ![p] = place],
             UNCHANGED <<attached, authKey, senders, receivers, userConnected, reconnecting,
                         closing>>,
             transport' \in BOOLEAN,
             p \in Tasks => IF place = "handshake" THEN ~userConnected ELSE ~transport'
      PROVE  LinkInv'
  <2>1. NoLoops /\ NoLoops'
    BY <1>2 DEF LoopsHaveLink, NoLoops
  <2>2. /\ at' \in [Connectors -> Places] /\ at'[p] = place
        /\ \A q \in Connectors \ {p} : at'[q] = at[q]
    BY <1>2 DEF LinkTypes
  <2>3. LinkTypes' /\ LoopsHaveLink' /\ OneLoopEach'
    BY <1>2, <2>1, <2>2 DEF LinkTypes, LoopsHaveLink, NoLoops, OneLoopEach
  <2>4. OneTask' /\ UserHasKey' /\ ConnectIsNews'
    BY <1>2, <2>2 DEF OneTask, UserHasKey, ConnectIsNews, Connectors
  <2>5. TasksAreKnown'
    <3>1. CASE p \in Tasks
      <4>1. /\ place = "handshake" => ~userConnected'
            /\ place \in {"connecting", "delay"} => ~transport'
        BY <1>2, <3>1
      <4>2. \A t \in Tasks \ {p} : at'[t] = "none"
        BY <1>2, <2>2, <3>1 DEF OneTask, Connectors
      <4> QED
        BY <1>2, <2>2, <4>1, <4>2 DEF TasksAreKnown
    <3>2. CASE p \notin Tasks
      <4>1. \A t \in Tasks : at'[t] = "none"
        BY <1>2, <2>2, <3>2 DEF NoConnectBesideReconnect, Connectors
      <4> QED
        BY <1>2, <4>1 DEF TasksAreKnown
    <3> QED
      BY <3>1, <3>2
  <2> QED
    BY <2>3, <2>4, <2>5
<1>3. CASE HandshakeStarts(p)
  <2>1. ~userConnected
    BY <1>3 DEF HandshakeStarts, UserHasKey
  <2> QED
    BY <1>2, <1>3, <2>1 DEF HandshakeStarts, loopVars, Places
<1>4. CASE TriesAgain(p)
  BY <1>2, <1>4 DEF TriesAgain, linkVars, loopVars, Places, LinkTypes, TasksAreKnown
<1>5. CASE AttemptFails(p)
  <2>1. PICK link \in {FALSE, transport} :
           /\ at[p] \in {"connecting", "handshake", "delay"}
           /\ at[p] # "handshake" => link = transport
           /\ IF tries[p] + 1 < Retries /\ ~(p = "connect" /\ at[p] = "delay")
              THEN /\ at' = [at EXCEPT ![p] = IF at[p] = "handshake" /\ link THEN @ ELSE "delay"]
                   /\ transport' = link
                   /\ UNCHANGED <<attached, authKey, senders, receivers, userConnected>>
              ELSE GiveUp(p, at[p] # "handshake" \/ ~link)
           /\ UNCHANGED <<reconnecting, closing>>
    BY <1>5 DEF AttemptFails, loopVars
  <2>2. link \in BOOLEAN /\ (link => transport)
    <3>1. transport \in BOOLEAN
      BY DEF LinkTypes
    <3>2. CASE link = FALSE
      BY <3>2
    <3>3. CASE link = transport
      BY <3>1, <3>3
    <3> QED
      BY <3>2, <3>3
  <2>3. CASE tries[p] + 1 < Retries /\ ~(p = "connect" /\ at[p] = "delay")
    <3> DEFINE place == IF at[p] = "handshake" /\ link THEN at[p] ELSE "delay"
    <3>1. at' = [at EXCEPT ![p] = place] /\ place \in {"handshake", "delay"}
      BY <2>1, <2>3 DEF LinkTypes
    <3>2. p \in Tasks => IF place = "handshake" THEN ~userConnected ELSE ~transport'
      BY <2>1, <2>3 DEF TasksAreKnown
    <3> HIDE DEF place
    <3> QED
      BY <1>2, <2>1, <2>2, <2>3, <3>1, <3>2 DEF Places
  <2>4. CASE ~(tries[p] + 1 < Retries /\ ~(p = "connect" /\ at[p] = "delay"))
    <3>1. at' = [at EXCEPT ![p] = "none"] /\ NoLoops
      BY <2>1, <2>4 DEF GiveUp, LoopsHaveLink
    <3>2. CASE UNCHANGED <<linkVars, loopVars, userConnected>>
      <4>1. /\ at' \in [Connectors -> Places] /\ \A q \in Connectors : at'[q] \in {at[q], "none"}
        BY <3>1 DEF LinkTypes, Places
      <4>2. NoLoops' /\ LinkTypes'
        BY <2>1, <3>1, <3>2, <4>1 DEF LinkTypes, NoLoops, linkVars, loopVars
      <4>3. LoopsHaveLink' /\ OneLoopEach' /\ OneTask' /\ ConnectIsNews'
        <5>1. LoopsHaveLink' /\ OneLoopEach'
          BY <4>2 DEF LoopsHaveLink, NoLoops, OneLoopEach
        <5> QED
          BY <3>2, <4>1, <5>1 DEF OneTask, ConnectIsNews, Connectors
      <4>4. TasksAreKnown' /\ UserHasKey'
        BY <2>1, <3>2, <4>1 DEF TasksAreKnown, UserHasKey, Connectors, linkVars
      <4> QED
        BY <4>2, <4>3, <4>4
    <3>3. CASE ~UNCHANGED <<linkVars, loopVars, userConnected>>
      <4>1. Detach("error") /\ userConnected' = FALSE /\ transport' = FALSE /\ UNCHANGED authKey
        BY <2>1, <2>4, <3>3 DEF GiveUp
      <4> QED
        BY <2>1, <3>1, <4>1, CancelledLoops, DetachLinks DEF Detach
    <3> QED
      BY <3>2, <3>3
  <2> QED
    BY <2>3, <2>4
<1> QED
  BY <1>1, <1>3, <1>4, <1>5 DEF Connects

\* connect finds no loop running; where a task is alive too the condition of
\* NoConnectBesideReconnect ends here.
LEMMA NewConnectLinks ==
    ASSUME LinkInv, connect
    PROVE  LinkInv'
<1> USE DEF LinkInv
<1>1. /\ NoLoops /\ NoLoops' /\ ~userConnected /\ transport' = FALSE /\ attached' = TRUE
      /\ at' = [at EXCEPT !["connect"] = "connecting"]
      /\ UNCHANGED <<authKey, senders, receivers, userConnected, reconnecting, closing>>
  BY DEF connect, LoopsHaveLink, NoLoops, loopVars
<1>2. /\ at' \in [Connectors -> Places]
      /\ \A t \in Tasks : at'[t] = at[t]
  BY <1>1 DEF LinkTypes, Places, Connectors, Tasks
<1>3. LinkTypes' /\ LoopsHaveLink' /\ OneLoopEach'
  BY <1>1, <1>2 DEF LinkTypes, LoopsHaveLink, NoLoops, OneLoopEach
<1>4. OneTask' /\ ConnectIsNews' /\ TasksAreKnown' /\ UserHasKey'
  BY <1>1, <1>2 DEF OneTask, ConnectIsNews, TasksAreKnown, UserHasKey
<1> QED
  BY <1>3, <1>4

\* The receive loop goes on, or closes the transport behind itself.
LEMMA ReceiveLinks ==
    ASSUME LinkInv, Receive
    PROVE  LinkInv'
<1>1. senders \in Nat /\ receivers \in Nat
  BY DEF LinkInv, LinkTypes
<1>2. ASSUME receivers > 0, ReceiverGoesOn PROVE LinkInv'
  BY <1>1, <1>2, LoopStepLinks DEF ReceiverGoesOn, linkVars
<1>3. ASSUME NEW m \in pending, Answer(m) PROVE LinkInv'
  BY <1>2, <1>3 DEF Answer, Receives
<1>4. ASSUME NEW id \in sent, Rejected(id) PROVE LinkInv'
  BY <1>2, <1>4 DEF Rejected, Receives
<1>5. ASSUME NEW id \in sent, Ignored(id) PROVE LinkInv'
  BY <1>2, <1>5 DEF Ignored, Receives
<1>6. CASE ReceiveFails \/ ReceiveInvalid
  BY <1>1, <1>6, LoopStepLinks
  DEF ReceiveFails, ReceiveInvalid, Receives, ReceiverEnds, linkVars
<1>7. CASE ReceiveFatal
  <2>1. authKey \in BOOLEAN
    BY DEF LinkInv, LinkTypes
  <2> QED
    BY <1>7, <2>1, ClosingLinks DEF ReceiveFatal, loopVars
<1> QED
  BY <1>3, <1>4, <1>5, <1>6, <1>7 DEF Receive

\* The client moves to another data centre: what it disconnects had a connection.
LEMMA SwitchLinks ==
    ASSUME LinkInv, UserHasConnection, _switch_dc
    PROVE  LinkInv'
<1>1. authKey' = FALSE /\ UNCHANGED <<attached, senders, receivers, reconnecting, at>>
  BY DEF _switch_dc, loopVars
<1>2. CASE attached
  BY <1>1, <1>2, ClosingLinks DEF _switch_dc, StartDisconnect
<1>3. CASE ~attached
  <2>1. ~userConnected /\ UNCHANGED <<closing, userConnected, transport>>
    BY <1>3 DEF _switch_dc, UserHasConnection
  <2> QED
    BY <1>1, <2>1
    DEF LinkInv, LinkTypes, LoopsHaveLink, NoLoops, OneLoopEach, OneTask, TasksAreKnown,
        UserHasKey, ConnectIsNews
<1> QED
  BY <1>2, <1>3

\* Every step keeps the link, unless connect has been called beside a reconnect.
LEMMA LinkStep == SenderInv /\ [Next]_vars => LinkInv'
<1> SUFFICES ASSUME LinkInv, NoConnectBesideReconnect, UserHasConnection, [Next]_vars
             PROVE  LinkInv'
  BY DEF SenderInv, ServiceInv
<1>0. /\ senders \in Nat /\ receivers \in Nat /\ transport \in BOOLEAN /\ authKey \in BOOLEAN
      /\ LinkTypes /\ OneLoopEach
  BY DEF LinkInv, LinkTypes
<1>1. CASE UNCHANGED vars \/ \E r \in Requests : Send(r)
  BY <1>0, <1>1, LoopStepLinks DEF Send, vars, linkVars, loopVars
<1>2. CASE KeepalivePing
  BY <1>0, <1>2, LoopStepLinks DEF KeepalivePing, _transport_connected, linkVars, loopVars
<1>3. CASE SendBatch \/ DropBatch
  BY <1>0, <1>3, LoopStepLinks DEF SendBatch, DropBatch, TakeBatch
<1>4. CASE TransportLost
  <2>1. LinkTypes' /\ LoopsHaveLink' /\ OneLoopEach' /\ OneTask' /\ ConnectIsNews'
    BY <1>4
    DEF TransportLost, loopVars, LinkInv, LinkTypes, LoopsHaveLink, NoLoops, OneLoopEach, OneTask,
        ConnectIsNews
  <2>2. TasksAreKnown' /\ UserHasKey'
    BY <1>4 DEF TransportLost, LinkInv, TasksAreKnown, UserHasKey
  <2> QED
    BY <2>1, <2>2 DEF LinkInv
<1>5. CASE disconnect
  BY <1>0, <1>5, ClosingLinks DEF disconnect, StartDisconnect, loopVars
<1>6. ASSUME NEW who \in closing, DisconnectEnds(who) PROVE LinkInv'
  <2>1. /\ NoLoops' /\ attached' = FALSE
        /\ UNCHANGED <<authKey, reconnecting, transport, userConnected, at>>
    BY <1>0, <1>6, CancelledLoops DEF DisconnectEnds, Detach
  <2> QED
    BY <1>0, <2>1, DetachLinks DEF LinkTypes
<1> QED
  BY <1>1, <1>2, <1>3, <1>4, <1>5, <1>6, ReceiveLinks, NewConnectLinks, ConnectLinks,
     ReconnectLinks, SwitchLinks
  DEF Next

\* Only a connect that is called beside a reconnect is one that runs beside it: a
\* reconnect starts for a user that is connected, and so not beside a connect.
LEMMA AloneStep == LinkInv /\ NoConnectBesideReconnect /\ [Next]_vars /\ ~beside'
                     => NoConnectBesideReconnect'
<1> SUFFICES ASSUME LinkInv, NoConnectBesideReconnect, [Next]_vars, ~beside'
             PROVE  NoConnectBesideReconnect'
  OBVIOUS
<1> USE DEF NoConnectBesideReconnect
<1>1. CASE connect
  BY <1>1 DEF connect, LinkInv, LinkTypes, Connectors, Tasks
<1>2. ASSUME \A p \in Connectors : at[p] = "none" => at'[p] = "none"
      PROVE  NoConnectBesideReconnect'
  BY <1>2 DEF Connectors
<1>3. CASE _start_reconnect
  <2>1. CASE userConnected
    BY <1>3, <2>1
    DEF _start_reconnect, Schedule, LinkInv, LinkTypes, ConnectIsNews, Connectors, Tasks
  <2>2. CASE ~userConnected
    BY <1>3, <2>2 DEF _start_reconnect
  <2> QED
    BY <2>1, <2>2
<1>4. ASSUME NEW p \in Connectors, at[p] # "none", \E place : at' = [at EXCEPT ![p] = place]
      PROVE  NoConnectBesideReconnect'
  BY <1>2, <1>4 DEF LinkInv, LinkTypes
<1>5. ASSUME NEW p \in Connectors, Connects(p) PROVE NoConnectBesideReconnect'
  BY <1>4, <1>5
  DEF Connects, ConnectSucceeds, HandshakeStarts, HandshakeSucceeds, AttemptFails, TriesAgain,
      Connected, GiveUp
<1>6. ASSUME NEW t \in Tasks, Reconnects(t) PROVE NoConnectBesideReconnect'
  BY <1>4, <1>6 DEF Reconnects, ReconnectStarts, ReconnectGoesOn, Connectors
<1>7. CASE Receive
  <2>1. _start_reconnect \/ at' = at
    BY <1>7
    DEF Receive, Answer, Rejected, Ignored, ReceiverGoesOn, ReceiveFails, ReceiveInvalid,
        ReceiverEnds, ReceiveFatal
  <2> QED
    BY <1>2, <1>3, <2>1
<1>8. CASE KeepalivePing \/ SendBatch \/ DropBatch
  <2>1. _start_reconnect \/ at' = at
    BY <1>8 DEF KeepalivePing, SendBatch, DropBatch
  <2> QED
    BY <1>2, <1>3, <2>1
<1>9. CASE \/ TransportLost \/ disconnect \/ _switch_dc \/ UNCHANGED vars
           \/ (\E r \in Requests : Send(r)) \/ \E who \in closing : DisconnectEnds(who)
  BY <1>2, <1>9 DEF TransportLost, disconnect, _switch_dc, vars, Send, DisconnectEnds
<1> QED
  BY <1>1, <1>5, <1>6, <1>7, <1>8, <1>9 DEF Next

-----------------------------------------------------------------------------
(* The sender never stands still, and leaves nothing pending behind it.    *)

\* Before the first connect the user is not connected.
LEMMA InitService == Init => ServiceInv
<1> SUFFICES ASSUME Init PROVE ServiceInv
  OBVIOUS
<1>1. at["connect"] = "none"
  BY DEF Init, Connectors
<1> QED
  BY <1>1
  DEF Init, ServiceInv, ConnectedIsServed, FlagHasTask, UserHasConnection, ConnectIsAlone,
      NothingPending

\* What a sender that is connected needs is kept while the link, the flags and
\* the tasks are, or while a reconnect starts.
LEMMA LoopStepServes ==
    ASSUME LinkInv, ServiceInv,
           UNCHANGED <<userConnected, attached, closing>>,
           \/ UNCHANGED <<loopVars, reconnecting, at>>
           \/ ~(userConnected /\ ~reconnecting) /\ UNCHANGED <<reconnecting, at>>
           \/ _start_reconnect,
           NothingPending'
    PROVE  ServiceInv'
<1> USE DEF ServiceInv
<1>1. CASE UNCHANGED <<loopVars, reconnecting, at>>
  BY <1>1 DEF loopVars, ConnectedIsServed, FlagHasTask, UserHasConnection, ConnectIsAlone
<1>2. CASE ~(userConnected /\ ~reconnecting) /\ UNCHANGED <<reconnecting, at>>
  <2>1. ConnectedIsServed'
    BY <1>2 DEF ConnectedIsServed, FlagHasTask
  <2> QED
    BY <1>2, <2>1 DEF FlagHasTask, UserHasConnection, ConnectIsAlone
<1>3. CASE userConnected /\ ~reconnecting /\ _start_reconnect
  <2>1. PICK t \in Tasks : at[t] = "none" /\ at' = [at EXCEPT ![t] = "scheduled"]
    BY <1>3 DEF _start_reconnect, Schedule
  <2>2. at'[t] = "scheduled" /\ at'["connect"] = at["connect"] /\ at["connect"] = "none"
    BY <1>3, <2>1 DEF LinkInv, LinkTypes, ConnectIsNews, Connectors, Tasks
  <2>3. ConnectedIsServed' /\ FlagHasTask'
    BY <2>1, <2>2 DEF ConnectedIsServed, FlagHasTask
  <2> QED
    BY <2>2, <2>3 DEF UserHasConnection, ConnectIsAlone
<1> QED
  BY <1>1, <1>2, <1>3 DEF _start_reconnect

\* What gives up the link leaves a sender that is not connected.
LEMMA DetachServes ==
    ASSUME ServiceInv, ~userConnected', pending' = {}, at'["connect"] = "none"
    PROVE  ServiceInv'
BY DEF ServiceInv, ConnectedIsServed, FlagHasTask, UserHasConnection, ConnectIsAlone,
       NothingPending

\* The loops that a connection starts stay.
LEMMA ConnectedServes ==
    ASSUME LinkInv, NoConnectBesideReconnect, ServiceInv, NEW p \in Connectors,
           at[p] \in {"connecting", "handshake"}, Connected(p)
    PROVE  ServiceInv'
<1> USE DEF ServiceInv
<1>1. senders = 0 /\ receivers = 0
  BY DEF LinkInv, LoopsHaveLink, NoLoops
<1>2. /\ at' = [at EXCEPT ![p] = "none"] /\ at'[p] = "none"
      /\ \A q \in Connectors \ {p} : at'[q] = at[q]
      /\ "connect" \in Connectors
  BY DEF Connected, LinkInv, LinkTypes, Connectors
<1>3. userConnected' => ~reconnecting
  <2>1. CASE p = "connect"
    BY <2>1 DEF ConnectIsAlone
  <2>2. CASE p # "connect"
    <3> SUFFICES ASSUME userConnected, reconnecting PROVE FALSE
      BY <2>2 DEF Connected
    <3>1. PICK t \in Tasks : at[t] \in {"scheduled", "closing"}
      BY DEF FlagHasTask
    <3>2. p \in Tasks /\ p # t
      BY <2>2, <3>1 DEF Connectors
    <3> QED
      BY <3>1, <3>2 DEF LinkInv, OneTask
  <2> QED
    BY <2>1, <2>2
<1>4. ConnectedIsServed'
  <2> SUFFICES ASSUME userConnected' PROVE senders' = 1 /\ receivers' = 1
    BY DEF ConnectedIsServed
  <2>1. userConnected \/ p = "connect"
    BY DEF Connected
  <2>2. senders' = senders + 1 /\ receivers' = receivers + 1
    BY <1>3, <2>1 DEF Connected
  <2> QED
    BY <1>1, <2>2
<1>5. FlagHasTask'
  BY <1>3 DEF Connected, FlagHasTask
<1>6. UserHasConnection'
  BY DEF Connected, UserHasConnection, ConnectIsAlone
<1>7. ConnectIsAlone'
  BY <1>2 DEF Connected, ConnectIsAlone, bounds
<1>8. NothingPending'
  BY DEF Connected, NothingPending, RequeuePending
<1> QED
  BY <1>4, <1>5, <1>6, <1>7, <1>8

\* So does a connector that goes on to its next attempt.
LEMMA AttemptServes ==
    ASSUME LinkInv, NoConnectBesideReconnect, ServiceInv, NEW p \in Connectors,
           at[p] \in {"connecting", "handshake", "delay"},
           NEW place \in {"connecting", "handshake", "delay"},
           at' = [at EXCEPT ![p] = place],
           UNCHANGED <<requestVars, attached, loopVars, userConnected, reconnecting, closing>>
    PROVE  ServiceInv'
<1> USE DEF ServiceInv
<1>1. at'[p] = place /\ \A q \in Connectors \ {p} : at'[q] = at[q]
  BY DEF LinkInv, LinkTypes
<1>2. ConnectedIsServed'
  BY <1>1 DEF ConnectedIsServed, loopVars, Connectors
<1>3. FlagHasTask'
  BY <1>1 DEF FlagHasTask, Connectors
<1>4. ConnectIsAlone'
  BY <1>1 DEF ConnectIsAlone, Connectors
<1> QED
  BY <1>2, <1>3, <1>4 DEF UserHasConnection, NothingPending, requestVars

\* A connector goes on, is done, or gives up.
LEMMA ConnectServes ==
    ASSUME LinkInv, NoConnectBesideReconnect, ServiceInv, NEW p \in Connectors, Connects(p)
    PROVE  ServiceInv'
<1> USE DEF ServiceInv
<1>1. CASE ConnectSucceeds(p) \/ HandshakeSucceeds(p)
  BY <1>1, ConnectedServes DEF ConnectSucceeds, HandshakeSucceeds
<1>2. CASE HandshakeStarts(p) \/ TriesAgain(p)
  <2>1. \E place \in {"connecting", "handshake", "delay"} : at' = [at EXCEPT ![p] = place]
    BY <1>2 DEF HandshakeStarts, TriesAgain
  <2> QED
    BY <1>2, <2>1, AttemptServes DEF HandshakeStarts, TriesAgain, linkVars
<1>3. CASE AttemptFails(p)
  <2>0. /\ at[p] \in {"connecting", "handshake", "delay"}
        /\ UNCHANGED <<reconnecting, closing>>
    BY <1>3 DEF AttemptFails
  <2>1. CASE tries[p] + 1 < Retries /\ ~(p = "connect" /\ at[p] = "delay")
    <3>1. \E place \in {"connecting", "handshake", "delay"} : at' = [at EXCEPT ![p] = place]
      BY <1>3, <2>1, <2>0 DEF AttemptFails
    <3>2. UNCHANGED <<requestVars, attached, loopVars, userConnected>>
      BY <1>3, <2>1 DEF AttemptFails
    <3> QED
      BY <2>0, <3>1, <3>2, AttemptServes
  <2>2. ASSUME NEW unlinked, GiveUp(p, unlinked) PROVE ServiceInv'
    <3>1. at' = [at EXCEPT ![p] = "none"] /\ at'["connect"] = "none"
      <4>1. at' = [at EXCEPT ![p] = "none"]
        BY <2>2 DEF GiveUp
      <4>2. at["connect"] = "none" \/ p = "connect"
        BY <2>0 DEF NoConnectBesideReconnect, Connectors
      <4> QED
        BY <4>1, <4>2 DEF LinkInv, LinkTypes, Connectors
    <3>2. CASE attached /\ ~(p = "connect" /\ unlinked)
      BY <2>0, <2>2, <3>1, <3>2, DetachServes DEF GiveUp, Detach
    <3>3. CASE ~(attached /\ ~(p = "connect" /\ unlinked))
      <4>1. UNCHANGED <<requestVars, userConnected>>
        BY <2>2, <3>3 DEF GiveUp
      <4>2. ~userConnected
        BY <2>0, <3>3 DEF UserHasConnection, LinkInv, ConnectIsNews
      <4> QED
        BY <2>0, <3>1, <4>1, <4>2
        DEF ConnectedIsServed, FlagHasTask, UserHasConnection, ConnectIsAlone, NothingPending,
            requestVars
    <3> QED
      BY <3>2, <3>3
  <2> QED
    BY <1>3, <2>1, <2>2 DEF AttemptFails
<1> QED
  BY <1>1, <1>2, <1>3 DEF Connects

\* A reconnect task has a connection to close as long as the user is connected.
LEMMA ReconnectServes ==
    ASSUME LinkInv, NoConnectBesideReconnect, ServiceInv, NEW t \in Tasks, Reconnects(t)
    PROVE  ServiceInv'
<1> USE DEF ServiceInv
<1>1. /\ t \in Connectors /\ t # "connect" /\ at[t] \in {"scheduled", "closing"}
      /\ UNCHANGED <<pending, userConnected, attached, closing>>
  BY DEF Connectors, Tasks, Reconnects, ReconnectStarts, ReconnectGoesOn, requestVars, linkVars
<1>2. at["connect"] = "none"
  BY <1>1 DEF NoConnectBesideReconnect
<1>3. /\ at'["connect"] = "none" /\ (attached => at'[t] # "none")
      /\ ReconnectStarts(t) /\ attached => at'[t] = "closing"
  BY <1>1, <1>2 DEF Reconnects, ReconnectStarts, ReconnectGoesOn, LinkInv, LinkTypes, Connectors
<1>4. ConnectedIsServed'
  BY <1>1, <1>3 DEF ConnectedIsServed, UserHasConnection
<1>5. FlagHasTask'
  BY <1>1, <1>3 DEF FlagHasTask, UserHasConnection, Reconnects, ReconnectStarts, ReconnectGoesOn
<1>6. ConnectIsAlone'
  BY <1>1, <1>3
  DEF ConnectIsAlone, Reconnects, ReconnectStarts, ReconnectGoesOn
<1> QED
  BY <1>1, <1>4, <1>5, <1>6 DEF UserHasConnection, NothingPending

\* Every step keeps the sender in service, unless connect has been called beside
\* a reconnect.
LEMMA ServiceStep == SenderInv /\ [Next]_vars /\ ~beside' => ServiceInv'
<1> SUFFICES ASSUME LinkInv, NoConnectBesideReconnect, ServiceInv, [Next]_vars, ~beside'
             PROVE  ServiceInv'
  BY DEF SenderInv
<1> USE DEF ServiceInv
<1>1. CASE UNCHANGED vars \/ \E r \in Requests : Send(r)
  BY <1>1, LoopStepServes DEF Send, vars, requestVars, linkVars, loopVars, NothingPending
<1>2. CASE KeepalivePing
  <2>1. NothingPending'
    BY <1>2 DEF KeepalivePing, requestVars, NothingPending
  <2> QED
    BY <1>2, <2>1, LoopStepServes DEF KeepalivePing, linkVars, loopVars
<1>3. CASE SendBatch
  <2>1. NothingPending'
    BY <1>3 DEF SendBatch, TakeBatch, NothingPending, LinkInv, LoopsHaveLink, NoLoops
  <2>2. \/ senders' = senders /\ UNCHANGED <<reconnecting, at>>
        \/ ~(userConnected /\ ~reconnecting) /\ UNCHANGED <<reconnecting, at>>
        \/ _start_reconnect
    BY <1>3 DEF SendBatch, UserHasConnection
  <2> QED
    BY <1>3, <2>1, <2>2, LoopStepServes DEF SendBatch, TakeBatch, loopVars
<1>4. CASE DropBatch
  <2>1. ~userConnected
    BY <1>4 DEF DropBatch, LinkInv, UserHasKey
  <2>2. NothingPending'
    BY <1>4 DEF DropBatch, TakeBatch, NothingPending
  <2> QED
    BY <1>4, <2>1, <2>2, LoopStepServes DEF DropBatch, TakeBatch
<1>5. CASE Receive
  <2>1. ASSUME ReceiverGoesOn, pending' \subseteq pending PROVE ServiceInv'
    <3>1. NothingPending'
      BY <2>1 DEF NothingPending, ReceiverGoesOn
    <3>2. \/ receivers' = receivers
          \/ ~(userConnected /\ ~reconnecting)
      BY <2>1 DEF ReceiverGoesOn
    <3> QED
      BY <2>1, <3>1, <3>2, LoopStepServes DEF ReceiverGoesOn, linkVars, loopVars
  <2>2. ASSUME NEW m \in pending, Answer(m) PROVE ServiceInv'
    BY <2>1, <2>2 DEF Answer
  <2>3. ASSUME NEW id \in sent, Rejected(id) PROVE ServiceInv'
    BY <2>1, <2>3 DEF Rejected
  <2>4. ASSUME NEW id \in sent, Ignored(id) PROVE ServiceInv'
    BY <2>1, <2>4 DEF Ignored, requestVars
  <2>5. CASE ReceiveFails \/ ReceiveInvalid
    <3>1. NothingPending'
      BY <2>5 DEF ReceiveFails, ReceiveInvalid, ReceiverEnds, NothingPending, requestVars
    <3> QED
      BY <2>5, <3>1, LoopStepServes DEF ReceiveFails, ReceiveInvalid, ReceiverEnds, linkVars
  <2>6. CASE ReceiveFatal
    <3>1. ~userConnected' /\ closing' # {} /\ UNCHANGED <<pending, reconnecting, at>>
      BY <2>6 DEF ReceiveFatal, requestVars
    <3>2. at["connect"] = "none"
      BY <2>6
      DEF ReceiveFatal, Receives, ConnectIsAlone, LinkInv, LoopsHaveLink, NoLoops, Connectors
    <3> QED
      BY <3>1, <3>2
      DEF ConnectedIsServed, FlagHasTask, UserHasConnection, ConnectIsAlone, NothingPending
  <2> QED
    BY <1>5, <2>2, <2>3, <2>4, <2>5, <2>6 DEF Receive
<1>6. CASE TransportLost
  BY <1>6, LoopStepServes DEF TransportLost, requestVars, loopVars, NothingPending
<1>7. CASE disconnect \/ _switch_dc
  <2>1. at'["connect"] = "none" /\ UNCHANGED <<attached, reconnecting, at, pending, loopVars>>
    BY <1>7 DEF disconnect, _switch_dc, requestVars
  <2>2. CASE StartDisconnect
    BY <2>1, <2>2
    DEF StartDisconnect, ConnectedIsServed, FlagHasTask, UserHasConnection, ConnectIsAlone,
        NothingPending
  <2>3. CASE UNCHANGED <<closing, userConnected>>
    BY <2>1, <2>3
    DEF loopVars, ConnectedIsServed, FlagHasTask, UserHasConnection, ConnectIsAlone, NothingPending
  <2> QED
    BY <1>7, <2>2, <2>3 DEF disconnect, _switch_dc
<1>8. ASSUME NEW who \in closing, DisconnectEnds(who) PROVE ServiceInv'
  <2>1. ~userConnected' /\ at'["connect"] = "none" /\ pending' = {}
    BY <1>8 DEF DisconnectEnds, Detach, UserHasConnection, ConnectIsAlone
  <2> QED
    BY <2>1, DetachServes
<1>9. CASE connect
  <2>1. ~reconnecting' /\ UNCHANGED <<pending, userConnected, closing>>
    BY <1>9 DEF connect, requestVars
  <2>2. at'["connect"] = "connecting" /\ attached' /\ closing' = {} /\ ~userConnected
    BY <1>9 DEF connect, LinkInv, LinkTypes, Connectors
  <2> QED
    BY <2>1, <2>2
    DEF ConnectedIsServed, FlagHasTask, UserHasConnection, ConnectIsAlone, NothingPending
<1> QED
  BY <1>1, <1>2, <1>3, <1>4, <1>5, <1>6, <1>7, <1>8, <1>9, ConnectServes, ReconnectServes DEF Next

\* What holds of the sender as long as no connect has met a reconnect, which once
\* it has happened has happened.
InvUntilBeside == ~beside => SenderInv

LEMMA InvariantUntilBeside == Spec => []InvUntilBeside
<1>1. Init => InvUntilBeside
  <2>1. Init => NoConnectBesideReconnect
    BY DEF Init, NoConnectBesideReconnect, Connectors
  <2> QED
    BY <2>1, InitLink, InitService DEF InvUntilBeside, SenderInv
<1>2. InvUntilBeside /\ [Next]_vars => InvUntilBeside'
  <2>1. [Next]_vars => (beside => beside')
    BY Zenon
    DEF Next, vars, sideVars, Send, KeepalivePing, SendBatch, DropBatch, TakeBatch, Receive, Answer,
        Rejected, Ignored, ReceiverGoesOn, ReceiveFails, ReceiveInvalid, ReceiverEnds, ReceiveFatal,
        TransportLost, connect, disconnect, _switch_dc, Connects, ConnectSucceeds, HandshakeStarts,
        HandshakeSucceeds, AttemptFails, TriesAgain, Connected, Reconnects, ReconnectStarts,
        ReconnectGoesOn, DisconnectEnds
  <2> QED
    BY <2>1, LinkStep, AloneStep, ServiceStep DEF InvUntilBeside, SenderInv
<1> QED
  BY <1>1, <1>2, PTL DEF Spec

\* As long as no connect is called while a reconnect is under way, one loop of each
\* kind runs at most and one reconnect, however the loops, the ping and Telegram
\* find the transport lost, and however often the client moves and connects.
THEOREM OneReceiverAlways == Spec => []OneReceiverUntilBeside
<1>1. InvUntilBeside => OneReceiverUntilBeside
  BY DEF InvUntilBeside, SenderInv, LinkInv, OneLoopEach, OneTask, OneReceiver,
         OneReceiverUntilBeside
<1> QED
  BY <1>1, InvariantUntilBeside, PTL

ServedUntilBeside == ~beside => ConnectedIsServed

\* Until then, a connected sender with one loop missing has a reconnect under way,
\* whatever ended the loop: a late answer, a lost transport, data that cannot be
\* read or an unanswered ping.
THEOREM ConnectedIsServedAlways == Spec => []ServedUntilBeside
<1>1. InvUntilBeside => ServedUntilBeside
  BY DEF InvUntilBeside, SenderInv, ServiceInv, ServedUntilBeside
<1> QED
  BY <1>1, InvariantUntilBeside, PTL

SettledUntilBeside == ~beside => DisconnectSettles

\* Until then, no future of a message that was sent stays open when the sender has
\* been disconnected, be it by the user, by a move to another data centre, by
\* Telegram or by attempts that failed.
THEOREM DisconnectSettlesSent == Spec => []SettledUntilBeside
<1>1. RequestInv /\ InvUntilBeside => SettledUntilBeside
  BY DEF RequestInv, OpenIsTracked, PendingRequests, InvUntilBeside, SenderInv, ServiceInv,
         NothingPending, DisconnectSettles, SettledUntilBeside
<1> QED
  BY <1>1, InvariantUntilBeside, InitRequests, RequestStep, PTL DEF Spec

================================================================================
