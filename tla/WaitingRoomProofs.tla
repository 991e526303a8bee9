-------------------------- MODULE WaitingRoomProofs --------------------------
(***************************************************************************)
(* For any number of users and polls: a second hands out no more permits   *)
(* than configured, a user who waits for his answers has one usable token  *)
(* at most, and users who stay in the queue keep their order.              *)
(*                                                                         *)
(* The counter is ahead of the permits: as long as calls still count on    *)
(* the key of a second, its count is that of the permits at least, also of *)
(* the one whose EXPIRE is still to come.                                  *)
(***************************************************************************)
EXTENDS WaitingRoom, FiniteSetTheorems, SequenceTheorems, TLAPS

\* Types, in two parts: the queue, and what the counter and the tokens rest on.
QueueOK == queue \in Seq(Users) /\ IsInjective(queue)

Shape ==
    /\ counter \in [Ages -> Keys]
    /\ tokens \in [Users -> SUBSET Rows]
    /\ request \in [Requests -> [user : Users, stage : Stages, age : Ages]]
    /\ issued \in [Users -> Nat]
    /\ granted \in [Recent -> Nat]

Expiring(r, age) == At(r, "expiring") /\ request[r].age = age

\* The key of a recent second is alive, and counts what was permitted and the
\* permit of the one call that is about to set its time to live.
Counted(age) ==
    /\ counter[age].left # -1 => counter[age].left >= KeySeconds - age
    /\ granted[age] <= MaxEnterPerSecond /\ granted[age] <= counter[age].count
    /\ \A r \in Requests : Expiring(r, age) =>
           /\ granted[age] + 1 <= MaxEnterPerSecond
           /\ granted[age] + 1 <= counter[age].count
           /\ \A q \in Requests : Expiring(q, age) => q = r

PermitsCounted == \A age \in Recent : Counted(age)

\* Whoever is about to save a token has none.
SaversHaveNone ==
    \A r \in Requests :
        UserOf(r) \in Patient /\ At(r, "saving") => ~ HasUsable(UserOf(r))

\* The rows of a user have numbers of their own, of tokens he was given.
Numbered ==
    \A u \in Users :
        /\ \A row \in tokens[u] : row.number \in 1 .. issued[u]
        /\ \A row, other \in tokens[u] : row.number = other.number => row = other

IInv ==
    /\ Shape /\ QueueOK /\ faults \in 0 .. MaxFaults
    /\ PermitsCounted /\ OneTokenEach /\ SaversHaveNone /\ Numbered
-----------------------------------------------------------------------------
LEMMA Sizes ==
    /\ Recent = {0, 1} /\ Recent \subseteq Ages /\ KeySeconds = 2
    /\ MaxEnterPerSecond \in Nat \ {0} /\ 0 \in Ages
    /\ \A age \in Ages : age \in Nat
    /\ NoKey \in Keys /\ NoKey.count = 0 /\ NoKey.left = -1
BY QueueAssumption DEF Recent, Ages, KeySeconds, NoKey, Keys

LEMMA InitIInv == RoomInit => IInv
<1> SUFFICES ASSUME RoomInit PROVE IInv
  OBVIOUS
<1>1. Shape
  BY Sizes, QueueAssumption DEF RoomInit, Shape, Stages
<1>2. \A r \in Requests : At(r, "idle")
  BY DEF RoomInit, At
<1>3. PermitsCounted
  BY <1>2, Sizes DEF RoomInit, PermitsCounted, Counted, Expiring, At
<1>4. OneTokenEach /\ SaversHaveNone
  BY <1>2 DEF RoomInit, OneTokenEach, SaversHaveNone, At, Patient
<1>5. QueueOK /\ faults \in 0 .. MaxFaults
  BY QueueAssumption DEF RoomInit, QueueOK, IsInjective
<1>6. Numbered
  BY DEF RoomInit, Numbered
<1> QED
  BY <1>1, <1>3, <1>4, <1>5, <1>6 DEF IInv

\* What a call makes of its request, and of those of others: nothing.
LEMMA ToValue ==
  ASSUME Shape, NEW r \in Requests, NEW stage \in Stages, To(r, stage)
  PROVE  /\ request' \in [Requests -> [user : Users, stage : Stages, age : Ages]]
         /\ \A q \in Requests : q # r => request'[q] = request[q]
         /\ request'[r].user = request[r].user /\ request'[r].stage = stage
         /\ stage = "expiring" => request'[r].age = request[r].age
<1>1. request'[r] = [request[r] EXCEPT !.stage = stage,
                        !.age = IF stage = "expiring" THEN request[r].age ELSE 0]
  BY DEF Shape, To
<1>2. request[r] \in [user : Users, stage : Stages, age : Ages]
  BY DEF Shape
<1>3. \A q \in Requests : q # r => request'[q] = request[q]
  BY DEF Shape, To
<1>4. request' = [request EXCEPT ![r] = request'[r]]
  BY <1>1 DEF Shape, To
<1>5. request'[r] \in [user : Users, stage : Stages, age : Ages]
  BY <1>1, <1>2, Sizes
<1> QED
  BY <1>1, <1>2, <1>3, <1>4, <1>5 DEF Shape

\* The calls of a request, and where each may lead.
Calls(r) == Join(r) \/ Poll(r) \/ Step(r) \/ CallFails(r)

LEMMA CallGoes ==
  ASSUME NEW r \in Requests, Calls(r)
  PROVE  \E stage \in Stages : To(r, stage)
BY DEF Calls, Join, Poll, Step, CallFails, CheckDuplicate, AddToQueue, FindOwnToken,
   Increment, Expire, FindToken, SaveToken, RemoveFromQueue, Stages
-----------------------------------------------------------------------------
(* Types.                                                                  *)

LEMMA ShapeStep ==
  ASSUME Shape, [RoomNext]_roomVars
  PROVE  Shape'
<1>1. ASSUME NEW r \in Requests, Calls(r)  PROVE Shape'
  <2>1. request' \in [Requests -> [user : Users, stage : Stages, age : Ages]]
    BY <1>1, CallGoes, ToValue
  <2>2. request[r].age \in Ages /\ UserOf(r) \in Users
    BY DEF Shape, UserOf
  <2>3. CASE Increment(r)
    <3> DEFINE age == request[r].age
    <3>1. counter[age].count + 1 \in Nat /\ MaxEnterPerSecond + 1 \in Nat
      <4>1. counter[age] \in Keys
        BY <2>2 DEF Shape
      <4> QED
        BY <4>1, Sizes DEF Keys
    <3>2. counter' \in [Ages -> Keys]
      BY <2>2, <2>3, <3>1 DEF Increment, Shape, Keys
    <3>3. granted' \in [Recent -> Nat]
      BY <2>3 DEF Increment, Granted, Shape
    <3> QED
      BY <2>1, <2>3, <3>2, <3>3 DEF Increment, Shape
  <2>4. CASE Expire(r)
    <3>1. counter' \in [Ages -> Keys]
      BY <2>2, <2>4, Sizes DEF Expire, Shape, Keys
    <3>2. granted' \in [Recent -> Nat]
      BY <2>4 DEF Expire, Granted, Shape
    <3> QED
      BY <2>1, <2>4, <3>1, <3>2 DEF Expire, Shape
  <2>5. CASE SaveToken(r)
    <3>1. issued[UserOf(r)] + 1 \in Nat
      BY <2>2 DEF Shape
    <3>2. [number |-> issued[UserOf(r)] + 1, status |-> "ACTIVE", lapsed |-> FALSE] \in Rows
      BY <3>1 DEF Rows
    <3>3. tokens' \in [Users -> SUBSET Rows] /\ issued' \in [Users -> Nat]
      BY <2>2, <2>5, <3>1, <3>2 DEF SaveToken, Shape
    <3> QED
      BY <2>1, <2>5, <3>3 DEF SaveToken, Shape
  <2>6. CASE ~ (Increment(r) \/ Expire(r) \/ SaveToken(r))
    <3>1. UNCHANGED <<counter, tokens, issued, granted>>
      BY <1>1, <2>6 DEF Calls, Join, Poll, Step, CallFails, CheckDuplicate, AddToQueue,
         FindOwnToken, FindToken, RemoveFromQueue
    <3> QED
      BY <2>1, <3>1 DEF Shape
  <2> QED
    BY <2>3, <2>4, <2>5, <2>6
<1>2. CASE Tick
  <2> DEFINE limited == {r \in Requests : At(r, "asking") \/ At(r, "expiring")}
             matters(age) == \E r \in limited : request[r].age = age - 1
  <2>1. \A age \in Ages : matters(age) => age - 1 \in Ages
    BY DEF Shape
  <2>2. ASSUME NEW key \in Keys
        PROVE  key.left > 0 => [key EXCEPT !.left = @ - 1] \in Keys
    BY Sizes DEF Keys
  <2>3. ASSUME NEW age \in Ages  PROVE counter'[age] \in Keys
    BY <1>2, <2>1, <2>2, Sizes DEF Tick, Shape
  <2>4. counter' \in [Ages -> Keys]
    BY <1>2, <2>3 DEF Tick
  <2>5. ASSUME NEW age \in Recent  PROVE granted'[age] \in Nat
    <3>1. matters(age) => age - 1 \in Recent
      BY <2>1, Sizes DEF Ages
    <3> QED
      BY <1>2, <3>1 DEF Tick, Shape
  <2>6. granted' \in [Recent -> Nat]
    BY <1>2, <2>5 DEF Tick
  <2>7. request' \in [Requests -> [user : Users, stage : Stages, age : Ages]]
    <3>1. \A r \in limited : request[r].age + 1 \in Ages
      BY <1>2, QueueAssumption DEF Tick, Shape, Ages
    <3>2. ASSUME NEW r \in Requests
          PROVE  request'[r] \in [user : Users, stage : Stages, age : Ages]
      <4>1. request[r] \in [user : Users, stage : Stages, age : Ages]
        BY DEF Shape
      <4>2. request'[r] = IF r \in limited THEN [request[r] EXCEPT !.age = @ + 1]
                          ELSE request[r]
        BY <1>2 DEF Tick
      <4> QED
        BY <3>1, <4>1, <4>2
    <3> QED
      BY <1>2, <3>2 DEF Tick
  <2> QED
    BY <1>2, <2>4, <2>6, <2>7 DEF Tick, Shape
<1>3. ASSUME NEW age \in Ages, KeyExpires(age)  PROVE Shape'
  BY <1>3, Sizes DEF KeyExpires, Shape
<1>4. ASSUME NEW u \in Users, NEW row \in tokens[u], Lapse(u, row) \/ Consume(u, row)
      PROVE  Shape'
  <2>1. row \in Rows
    BY <1>4 DEF Shape
  <2>2. [row EXCEPT !.status = "USED"] \in Rows /\ [row EXCEPT !.lapsed = TRUE] \in Rows
    BY <2>1 DEF Rows
  <2>3. tokens' \in [Users -> SUBSET Rows]
    <3>1. ASSUME NEW new \in Rows, tokens' = [tokens EXCEPT ![u] = (@ \ {row}) \cup {new}]
          PROVE  tokens' \in [Users -> SUBSET Rows]
      BY <3>1 DEF Shape
    <3> QED
      BY <1>4, <2>2, <3>1 DEF Lapse, Consume
  <2> QED
    BY <1>4, <2>3 DEF Lapse, Consume, Shape
<1>5. CASE UNCHANGED roomVars
  BY <1>5 DEF roomVars, Shape
<1> QED
  BY <1>1, <1>2, <1>3, <1>4, <1>5 DEF RoomNext, Calls

LEMMA FaultsBounded ==
  ASSUME faults \in 0 .. MaxFaults, [RoomNext]_roomVars
  PROVE  faults' \in 0 .. MaxFaults
<1>1. faults' = faults \/ (faults < MaxFaults /\ faults' = faults + 1)
  BY DEF RoomNext, Join, Poll, Step, CallFails, CheckDuplicate, AddToQueue, FindOwnToken,
     Increment, Expire, FindToken, SaveToken, RemoveFromQueue, Tick, KeyExpires,
     Lapse, Consume, roomVars
<1> QED
  BY <1>1, QueueAssumption
-----------------------------------------------------------------------------
(* The queue.                                                              *)

\* What InsertAt and RemoveAt return.
LEMMA Inserted ==
  ASSUME NEW S, NEW s \in Seq(S), NEW e \in S, NEW i \in 1 .. Len(s) + 1
  PROVE  /\ InsertAt(s, i, e) \in Seq(S)
         /\ Len(InsertAt(s, i, e)) = Len(s) + 1
         /\ \A j \in 1 .. Len(s) + 1 :
                InsertAt(s, i, e)[j] = IF j < i THEN s[j] ELSE IF j = i THEN e ELSE s[j - 1]
<1> DEFINE head == SubSeq(s, 1, i - 1)
           tail == SubSeq(s, i, Len(s))
           front == head \o <<e>>
<1>1. /\ head \in Seq(S) /\ Len(head) = i - 1
      /\ \A j \in 1 .. i - 1 : head[j] = s[j]
  OBVIOUS
<1>2. /\ tail \in Seq(S) /\ Len(tail) = Len(s) - i + 1
      /\ \A j \in 1 .. Len(s) - i + 1 : tail[j] = s[i + j - 1]
  OBVIOUS
<1>3. InsertAt(s, i, e) = front \o tail
  BY DEF InsertAt
<1> HIDE DEF head, tail
<1>4. /\ front \in Seq(S) /\ Len(front) = i
      /\ \A j \in 1 .. i : front[j] = IF j < i THEN s[j] ELSE e
  BY <1>1, ConcatProperties
<1> HIDE DEF front
<1>5. /\ front \o tail \in Seq(S) /\ Len(front \o tail) = Len(s) + 1
      /\ \A j \in 1 .. Len(s) + 1 :
             (front \o tail)[j] = IF j <= i THEN front[j] ELSE tail[j - i]
  BY <1>2, <1>4, ConcatProperties
<1>6. \A j \in 1 .. Len(s) + 1 : j > i => tail[j - i] = s[j - 1]
  BY <1>2
<1> QED
  BY <1>3, <1>4, <1>5, <1>6

LEMMA Removed ==
  ASSUME NEW S, NEW s \in Seq(S), NEW i \in 1 .. Len(s)
  PROVE  /\ RemoveAt(s, i) \in Seq(S)
         /\ Len(RemoveAt(s, i)) = Len(s) - 1
         /\ \A j \in 1 .. Len(s) - 1 :
                RemoveAt(s, i)[j] = IF j < i THEN s[j] ELSE s[j + 1]
<1> DEFINE head == SubSeq(s, 1, i - 1)
           tail == SubSeq(s, i + 1, Len(s))
<1>1. /\ head \in Seq(S) /\ Len(head) = i - 1
      /\ \A j \in 1 .. i - 1 : head[j] = s[j]
  OBVIOUS
<1>2. /\ tail \in Seq(S) /\ Len(tail) = Len(s) - i
      /\ \A j \in 1 .. Len(s) - i : tail[j] = s[i + j]
  OBVIOUS
<1>3. RemoveAt(s, i) = head \o tail
  BY DEF RemoveAt
<1> HIDE DEF head, tail
<1>4. /\ head \o tail \in Seq(S) /\ Len(head \o tail) = Len(s) - 1
      /\ \A j \in 1 .. Len(s) - 1 :
             (head \o tail)[j] = IF j <= i - 1 THEN head[j] ELSE tail[j - (i - 1)]
  <2>1. Len(head) + Len(tail) = Len(s) - 1
    BY <1>1, <1>2
  <2>2. /\ head \o tail \in Seq(S) /\ Len(head \o tail) = Len(head) + Len(tail)
        /\ \A j \in 1 .. Len(head) + Len(tail) :
               (head \o tail)[j] = IF j <= Len(head) THEN head[j] ELSE tail[j - Len(head)]
    BY <1>1, <1>2, ConcatProperties
  <2> QED
    BY <1>1, <2>1, <2>2
<1>5. \A j \in 1 .. Len(s) - 1 : j >= i => tail[j - (i - 1)] = s[j + 1]
  BY <1>2
<1> QED
  BY <1>1, <1>3, <1>4, <1>5

\* What stands before something else in s stands before it in t.
Keeps(s, t) ==
    \A a, b \in DOMAIN s : \A c, d \in DOMAIN t :
        a < b /\ s[a] = t[c] /\ s[b] = t[d] => c < d

LEMMA InsertKeeps ==
  ASSUME NEW S, NEW s \in Seq(S), IsInjective(s), NEW e \in S, NEW i \in 1 .. Len(s) + 1,
         ~ Contains(s, e)
  PROVE  IsInjective(InsertAt(s, i, e)) /\ Keeps(s, InsertAt(s, i, e))
<1> DEFINE t == InsertAt(s, i, e)
<1>1. /\ t \in Seq(S) /\ Len(t) = Len(s) + 1
      /\ \A j \in 1 .. Len(s) + 1 :
             t[j] = IF j < i THEN s[j] ELSE IF j = i THEN e ELSE s[j - 1]
  BY Inserted
<1>2. \A j \in 1 .. Len(s) : s[j] # e
  BY DEF Contains
<1>3. DOMAIN s = 1 .. Len(s) /\ DOMAIN t = 1 .. Len(s) + 1 /\ Len(s) \in Nat
  BY <1>1
<1> HIDE DEF t
<1> DEFINE from(j) == IF j < i THEN j ELSE j - 1
<1>4. \A j \in DOMAIN t : j # i => from(j) \in DOMAIN s /\ t[j] = s[from(j)]
  BY <1>1, <1>3
<1>5. t[i] = e
  BY <1>1, <1>3
<1>6. IsInjective(t)
  <2> SUFFICES ASSUME NEW a \in DOMAIN t, NEW b \in DOMAIN t, t[a] = t[b]
               PROVE  a = b
    BY DEF IsInjective
  <2>1. a = i <=> b = i
    BY <1>2, <1>3, <1>4, <1>5
  <2>2. a # i /\ b # i => from(a) = from(b)
    BY <1>4 DEF IsInjective
  <2> QED
    BY <1>3, <2>1, <2>2
<1>7. Keeps(s, t)
  <2> SUFFICES ASSUME NEW a \in DOMAIN s, NEW b \in DOMAIN s, NEW c \in DOMAIN t,
                      NEW d \in DOMAIN t, a < b, s[a] = t[c], s[b] = t[d]
               PROVE  c < d
    BY DEF Keeps
  <2>1. c # i /\ d # i
    BY <1>2, <1>3, <1>5
  <2>2. from(c) = a /\ from(d) = b
    BY <1>4, <2>1 DEF IsInjective
  <2> QED
    BY <1>3, <2>1, <2>2
<1> QED
  BY <1>6, <1>7 DEF t

LEMMA RemoveKeeps ==
  ASSUME NEW S, NEW s \in Seq(S), IsInjective(s), NEW i \in 1 .. Len(s)
  PROVE  IsInjective(RemoveAt(s, i)) /\ Keeps(s, RemoveAt(s, i))
<1> DEFINE t == RemoveAt(s, i)
<1>1. /\ t \in Seq(S) /\ Len(t) = Len(s) - 1
      /\ \A j \in 1 .. Len(s) - 1 : t[j] = IF j < i THEN s[j] ELSE s[j + 1]
  BY Removed
<1>2. DOMAIN s = 1 .. Len(s) /\ DOMAIN t = 1 .. Len(s) - 1 /\ Len(s) \in Nat
  BY <1>1
<1> HIDE DEF t
<1> DEFINE from(j) == IF j < i THEN j ELSE j + 1
<1>3. \A j \in DOMAIN t : from(j) \in DOMAIN s /\ t[j] = s[from(j)]
  BY <1>1, <1>2
<1>4. IsInjective(t)
  <2> SUFFICES ASSUME NEW a \in DOMAIN t, NEW b \in DOMAIN t, t[a] = t[b]
               PROVE  a = b
    BY DEF IsInjective
  <2>1. from(a) = from(b)
    BY <1>3 DEF IsInjective
  <2> QED
    BY <1>2, <2>1
<1>5. Keeps(s, t)
  <2> SUFFICES ASSUME NEW a \in DOMAIN s, NEW b \in DOMAIN s, NEW c \in DOMAIN t,
                      NEW d \in DOMAIN t, a < b, s[a] = t[c], s[b] = t[d]
               PROVE  c < d
    BY DEF Keeps
  <2>1. from(c) = a /\ from(d) = b
    BY <1>3 DEF IsInjective
  <2> QED
    BY <1>2, <2>1
<1> QED
  BY <1>4, <1>5 DEF t

\* The rank of a user who has one.
LEMMA RankValue ==
  ASSUME NEW s \in Seq(Users), NEW u, Contains(s, u)
  PROVE  LET rank == CHOOSE i \in DOMAIN s : s[i] = u
         IN  rank \in 1 .. Len(s) /\ s[rank] = u
<1>1. DOMAIN s = 1 .. Len(s)
  OBVIOUS
<1>2. \E i \in DOMAIN s : s[i] = u
  BY <1>1 DEF Contains
<1> QED
  BY <1>1, <1>2

LEMMA QueueStep ==
  ASSUME QueueOK, Shape, [RoomNext]_roomVars
  PROVE  QueueOK' /\ Keeps(queue, queue')
<1>1. CASE queue' = queue
  <2>1. Keeps(queue, queue)
    BY DEF Keeps, QueueOK, IsInjective
  <2> QED
    BY <1>1, <2>1 DEF QueueOK
<1>2. ASSUME NEW r \in Requests, AddToQueue(r), queue' # queue
      PROVE  QueueOK' /\ Keeps(queue, queue')
  <2>1. UserOf(r) \in Users
    BY DEF Shape, UserOf
  <2>2. /\ ~ InQueue(UserOf(r))
        /\ \E i \in 1 .. Len(queue) + 1 : queue' = InsertAt(queue, i, UserOf(r))
    BY <1>2 DEF AddToQueue, Adds
  <2> QED
    BY <2>1, <2>2, Inserted, InsertKeeps DEF QueueOK, InQueue
<1>3. ASSUME NEW r \in Requests, RemoveFromQueue(r), queue' # queue
      PROVE  QueueOK' /\ Keeps(queue, queue')
  <2>1. /\ InQueue(UserOf(r))
        /\ queue' = RemoveAt(queue, Rank(UserOf(r)))
    BY <1>3 DEF RemoveFromQueue, Without
  <2>2. Rank(UserOf(r)) \in 1 .. Len(queue)
    BY <2>1, RankValue DEF QueueOK, InQueue, Rank
  <2> QED
    BY <2>1, <2>2, Removed, RemoveKeeps DEF QueueOK
<1>4. \/ queue' = queue
      \/ \E r \in Requests : AddToQueue(r) \/ RemoveFromQueue(r)
  BY DEF RoomNext, Join, Poll, Step, CallFails, CheckDuplicate, FindOwnToken, Increment,
     Expire, FindToken, SaveToken, Tick, KeyExpires, Lapse, Consume, roomVars
<1> QED
  BY <1>1, <1>2, <1>3, <1>4

LEMMA PlaceStep ==
  ASSUME QueueOK, QueueOK', Keeps(queue, queue'), NEW u, NEW v,
         Before(u, v), InQueue(u)', InQueue(v)'
  PROVE  Before(u, v)'
<1>1. /\ Rank(u) \in DOMAIN queue /\ queue[Rank(u)] = u
      /\ Rank(v) \in DOMAIN queue /\ queue[Rank(v)] = v
  BY RankValue DEF Before, QueueOK, InQueue, Rank
<1>2. /\ Rank(u)' \in DOMAIN queue' /\ queue'[Rank(u)'] = u
      /\ Rank(v)' \in DOMAIN queue' /\ queue'[Rank(v)'] = v
  BY RankValue DEF QueueOK, InQueue, Rank
<1> QED
  BY <1>1, <1>2 DEF Before, Keeps
-----------------------------------------------------------------------------
(* Permits.                                                                *)

\* A step that counts nothing, permits nothing, and makes nobody expire a key.
LEMMA PermitsStay ==
  ASSUME PermitsCounted, counter' = counter, granted' = granted,
         \A r \in Requests, age \in Recent : Expiring(r, age)' => Expiring(r, age)
  PROVE  PermitsCounted'
BY DEF PermitsCounted, Counted

LEMMA PermitStep ==
  ASSUME IInv, [RoomNext]_roomVars
  PROVE  PermitsCounted'
<1> USE DEF IInv
<1>0. \A age \in Recent : /\ age \in Ages /\ counter[age] \in Keys /\ granted[age] \in Nat
                          /\ counter[age].count \in Nat /\ counter[age].left \in -1 .. KeySeconds
  BY Sizes DEF Shape, Keys
<1>1. ASSUME NEW r \in Requests, Calls(r), ~ Increment(r), ~ Expire(r)
      PROVE  PermitsCounted'
  <2>1. counter' = counter /\ granted' = granted
    BY <1>1 DEF Calls, Join, Poll, Step, CallFails, CheckDuplicate, AddToQueue,
       FindOwnToken, FindToken, SaveToken, RemoveFromQueue
  <2>2. \E stage \in Stages \ {"expiring"} : To(r, stage)
    BY <1>1 DEF Calls, Join, Poll, Step, CallFails, CheckDuplicate, AddToQueue,
       FindOwnToken, FindToken, SaveToken, RemoveFromQueue, Stages
  <2>3. /\ request'[r].stage # "expiring"
        /\ \A q \in Requests : q # r => request'[q] = request[q]
    BY <2>2, ToValue
  <2> QED
    BY <2>1, <2>3, PermitsStay DEF Expiring, At
<1>2. ASSUME NEW r \in Requests, Increment(r)
      PROVE  PermitsCounted'
  <2>1. PICK age \in Ages : age = request[r].age
    BY DEF Shape
  <2> DEFINE count == counter[age].count + 1
  <2>2. counter[age].count \in Nat /\ counter[age] \in Keys
    BY <2>1 DEF Shape, Keys
  <2>3. /\ counter'[age].left = counter[age].left
        /\ counter'[age].count = IF count > MaxEnterPerSecond
                                 THEN MaxEnterPerSecond + 1 ELSE count
        /\ \A other \in Ages : other # age => counter'[other] = counter[other]
    BY <1>2, <2>1, <2>2 DEF Increment, Shape, Keys
  <2>4. /\ ~ Expiring(r, age)
        /\ \A q \in Requests : q # r => request'[q] = request[q]
        /\ request'[r].stage = "expiring" => request'[r].age = age
    <3>1. \E stage \in Stages : To(r, stage)
      BY <1>2, CallGoes DEF Calls, Step
    <3> QED
      BY <1>2, <2>1, <3>1, ToValue DEF Increment, Expiring, At
  <2>5. \A other \in Recent : other # age =>
           /\ granted'[other] = granted[other]
           /\ \A q \in Requests : Expiring(q, other)' => Expiring(q, other)
    <3>1. \A other \in Recent : other # age => granted'[other] = granted[other]
      BY <1>2, <2>1 DEF Increment, Granted, Shape
    <3> QED
      BY <2>4, <3>1 DEF Expiring, At
  <2>6. ASSUME NEW other \in Recent, other # age
        PROVE  Counted(other)'
    BY <1>0, <2>3, <2>5, <2>6 DEF PermitsCounted, Counted
  <2>7. ASSUME age \in Recent
        PROVE  Counted(age)'
    <3>1. /\ counter[age].left # -1 => counter[age].left >= KeySeconds - age
          /\ granted[age] <= MaxEnterPerSecond /\ granted[age] <= counter[age].count
          /\ \A s \in Requests : Expiring(s, age) =>
                /\ granted[age] + 1 <= MaxEnterPerSecond
                /\ granted[age] + 1 <= counter[age].count
                /\ \A q \in Requests : Expiring(q, age) => q = s
          /\ granted[age] \in Nat
      BY <1>0, <2>7 DEF PermitsCounted, Counted
    <3>2. CASE count = 1
      <4>1. granted'[age] = granted[age] /\ granted[age] = 0
        BY <1>2, <2>1, <2>2, <3>1, <3>2 DEF Increment
      <4>2. \A q \in Requests : ~ Expiring(q, age)
        BY <2>2, <3>1, <3>2, <4>1
      <4>3. \A q \in Requests : Expiring(q, age)' => q = r
        BY <2>4, <4>2 DEF Expiring, At
      <4> QED
        BY <2>2, <2>3, <3>1, <3>2, <4>1, <4>3, Sizes DEF Counted
    <3>3. CASE count > 1 /\ count <= MaxEnterPerSecond
      <4>1. granted'[age] = granted[age] + 1 /\ To(r, "finding")
        <5>1. granted' = Granted(age) /\ To(r, "finding")
          BY <1>2, <2>1, <2>2, <3>3, Sizes DEF Increment
        <5> QED
          BY <2>7, <5>1 DEF Granted, Shape
      <4>2. \A q \in Requests : Expiring(q, age)' => Expiring(q, age)
        BY <2>4, <4>1, ToValue DEF Expiring, At, Stages
      <4> QED
        BY <2>2, <2>3, <3>1, <3>3, <4>1, <4>2, Sizes DEF Counted
    <3>4. CASE count > MaxEnterPerSecond /\ count # 1
      <4>1. granted'[age] = granted[age] /\ To(r, "idle")
        BY <1>2, <2>1, <2>2, <3>4, Sizes DEF Increment
      <4>2. \A q \in Requests : Expiring(q, age)' => Expiring(q, age)
        BY <2>4, <4>1, ToValue DEF Expiring, At, Stages
      <4> QED
        BY <2>2, <2>3, <3>1, <3>4, <4>1, <4>2, Sizes DEF Counted
    <3> QED
      BY <2>2, <3>2, <3>3, <3>4, Sizes
  <2> QED
    BY <2>6, <2>7 DEF PermitsCounted
<1>3. ASSUME NEW r \in Requests, Expire(r)
      PROVE  PermitsCounted'
  <2>1. PICK age \in Ages : age = request[r].age
    BY DEF Shape
  <2>2. /\ counter'[age].left = KeySeconds /\ counter'[age].count = counter[age].count
        /\ \A other \in Ages : other # age => counter'[other] = counter[other]
    BY <1>3, <2>1 DEF Expire, Shape, Keys
  <2>3. \A other \in Recent :
            granted'[other] = IF other = age THEN granted[other] + 1 ELSE granted[other]
    BY <1>3, <2>1 DEF Expire, Granted, Shape
  <2>4. /\ Expiring(r, age)
        /\ \A q \in Requests : ~ At(q, "expiring")' \/ (q # r /\ request'[q] = request[q])
    BY <1>3, <2>1, ToValue DEF Expire, Expiring, At, Stages
  <2>5. ASSUME NEW other \in Recent, other # age
        PROVE  Counted(other)'
    <3>1. Counted(other)
      BY DEF PermitsCounted
    <3>2. \A q \in Requests : Expiring(q, other)' => Expiring(q, other)
      BY <2>4 DEF Expiring, At
    <3> QED
      BY <1>0, <2>2, <2>3, <2>5, <3>1, <3>2 DEF Counted
  <2>6. ASSUME age \in Recent
        PROVE  Counted(age)'
    <3>1. Counted(age)
      BY <2>6 DEF PermitsCounted
    <3>2. \A q \in Requests : ~ Expiring(q, age)'
      BY <2>4, <3>1 DEF Expiring, At, Counted
    <3>3. granted[age] + 1 <= MaxEnterPerSecond /\ granted[age] + 1 <= counter[age].count
      BY <2>4, <3>1 DEF Counted
    <3>4. counter'[age].left >= KeySeconds - age
      BY <2>2, <2>6, Sizes
    <3> QED
      BY <2>2, <2>3, <2>6, <3>2, <3>3, <3>4 DEF Counted
  <2> QED
    BY <2>5, <2>6 DEF PermitsCounted
<1>4. ASSUME Tick
      PROVE  PermitsCounted'
  <2> DEFINE limited == {r \in Requests : At(r, "asking") \/ At(r, "expiring")}
             matters(age) == \E r \in limited : request[r].age = age - 1
  <2> SUFFICES ASSUME NEW age \in Recent PROVE Counted(age)'
    BY DEF PermitsCounted
  <2>1. age \in {0, 1} /\ age \in Ages
    BY Sizes
  <2>2. \A r \in Requests : Expiring(r, age)' => Expiring(r, age - 1) /\ matters(age)
    <3>1. ASSUME NEW r \in Requests, At(r, "expiring")'
          PROVE  At(r, "expiring") /\ request'[r].age = request[r].age + 1
                 /\ request[r].age \in Nat
      <4>1. request'[r] = IF r \in limited THEN [request[r] EXCEPT !.age = @ + 1]
                          ELSE request[r]
        BY <1>4 DEF Tick
      <4>2. request[r] \in [user : Users, stage : Stages, age : Ages]
        BY DEF Shape
      <4>3. request'[r].stage = request[r].stage
        BY <4>1, <4>2
      <4>4. request[r].stage = "expiring"
        BY <3>1, <4>3 DEF At
      <4> QED
        BY <4>1, <4>2, <4>4, Sizes DEF At
    <3> QED
      BY <2>1, <3>1 DEF Expiring
  <2>3. CASE ~ matters(age)
    <3>1. counter'[age] = NoKey /\ granted'[age] = 0
      BY <1>4, <2>1, <2>3 DEF Tick
    <3> QED
      BY <2>2, <2>3, <3>1, Sizes DEF Counted
  <2>4. CASE matters(age)
    <3>1. age = 1 /\ age - 1 = 0 /\ 0 \in Recent
      BY <2>1, <2>4, Sizes DEF Shape
    <3>2. Counted(0)
      BY <3>1 DEF PermitsCounted
    <3>3. counter[0].left # 0 /\ counter[0] \in Keys
      BY <1>0, <1>4, <3>1, Sizes DEF Tick
    <3>4. /\ counter'[age] = IF counter[0].left > 0 THEN [counter[0] EXCEPT !.left = @ - 1]
                             ELSE counter[0]
          /\ granted'[age] = granted[0]
      BY <1>4, <2>1, <2>4, <3>1 DEF Tick
    <3>5. counter'[age].count = counter[0].count
      BY <3>3, <3>4 DEF Keys
    <3>6. counter'[age].left = IF counter[0].left > 0 THEN counter[0].left - 1
                               ELSE counter[0].left
      BY <3>3, <3>4 DEF Keys
    <3>7. counter'[age].left # -1 => counter'[age].left >= KeySeconds - age
      BY <1>0, <3>1, <3>2, <3>3, <3>6, Sizes DEF Counted
    <3> QED
      BY <2>2, <3>1, <3>2, <3>4, <3>5, <3>7 DEF Counted
  <2> QED
    BY <2>3, <2>4
<1>5. ASSUME NEW age \in Ages, KeyExpires(age)
      PROVE  PermitsCounted'
  <2>1. age \notin Recent
    <3>1. ASSUME age \in Recent  PROVE FALSE
      <4>1. Counted(age) /\ counter[age].left = 0
        BY <1>5, <3>1 DEF PermitsCounted, KeyExpires
      <4> QED
        BY <3>1, <4>1, Sizes DEF Counted
    <3> QED
      BY <3>1
  <2>2. \A other \in Recent : counter'[other] = counter[other]
    BY <1>5, <2>1, Sizes DEF KeyExpires, Shape
  <2> QED
    BY <1>5, <2>2 DEF KeyExpires, PermitsCounted, Counted, Expiring, At
<1>6. CASE \/ UNCHANGED roomVars
           \/ \E u \in Users : \E row \in tokens[u] : Lapse(u, row) \/ Consume(u, row)
  <2>1. counter' = counter /\ granted' = granted /\ request' = request
    BY <1>6 DEF roomVars, Lapse, Consume
  <2> QED
    BY <2>1, PermitsStay DEF Expiring, At
<1> QED
  BY <1>1, <1>2, <1>3, <1>4, <1>5, <1>6 DEF RoomNext, Calls
-----------------------------------------------------------------------------
(* Tokens.                                                                 *)

LEMMA PatientOnes ==
  ASSUME NEW u \in Patient, NEW r \in Requests, NEW q \in Requests,
         UserOf(r) = u, UserOf(q) = u
  PROVE  r = q
<1> DEFINE own == {s \in Requests : UserOf(s) = u}
<1>1. IsFiniteSet(own)
  BY FS_Subset, QueueAssumption
<1>2. Cardinality(own) = 1
  BY DEF Patient
<1>3. PICK x : own = {x}
  BY <1>1, <1>2, FS_Singleton
<1> QED
  BY <1>3

\* A step in which no token of a patient user becomes usable, and no request
\* begins to save one.
LEMMA TokensStay ==
  ASSUME OneTokenEach, SaversHaveNone,
         \A r \in Requests : UserOf(r)' = UserOf(r)
                             /\ (At(r, "saving")' => At(r, "saving")),
         \A u \in Users : \A row \in tokens'[u] : IsUsable(row) => row \in tokens[u]
  PROVE  OneTokenEach' /\ SaversHaveNone'
<1>1. Patient' = Patient
  BY DEF Patient
<1>2. Patient \subseteq Users
  BY DEF Patient
<1>3. OneTokenEach'
  BY <1>1, <1>2 DEF OneTokenEach
<1>4. SaversHaveNone'
  BY <1>1, <1>2 DEF SaversHaveNone, HasUsable
<1> QED
  BY <1>3, <1>4

LEMMA TokenStep ==
  ASSUME IInv, [RoomNext]_roomVars
  PROVE  OneTokenEach' /\ SaversHaveNone'
<1> USE DEF IInv
<1>1. ASSUME NEW r \in Requests, Calls(r)
      PROVE  OneTokenEach' /\ SaversHaveNone'
  <2>1. /\ \A q \in Requests : UserOf(q)' = UserOf(q)
        /\ \A q \in Requests : q # r => request'[q] = request[q]
    BY <1>1, CallGoes, ToValue DEF UserOf
  <2>2. Patient' = Patient /\ Patient \subseteq Users
    BY <2>1 DEF Patient
  <2>3. CASE FindToken(r)
    <3>1. tokens' = tokens
      BY <2>3 DEF FindToken
    <3>2. OneTokenEach'
      BY <2>2, <3>1 DEF OneTokenEach
    <3>3. At(r, "saving")' => ~ HasUsable(UserOf(r))
      BY <2>3, ToValue DEF FindToken, At, Stages
    <3>4. SaversHaveNone'
      BY <2>1, <2>2, <3>1, <3>3 DEF SaversHaveNone, HasUsable, At
    <3> QED
      BY <3>2, <3>4
  <2>4. CASE SaveToken(r)
    <3>1. PICK u \in Users : u = UserOf(r)
      BY DEF Shape, UserOf
    <3>2. PICK row \in Rows : tokens' = [tokens EXCEPT ![u] = @ \cup {row}]
      <4>1. [number |-> issued[u] + 1, status |-> "ACTIVE", lapsed |-> FALSE] \in Rows
        BY DEF Rows, Shape
      <4> QED
        BY <2>4, <3>1, <4>1 DEF SaveToken
    <3>3. /\ tokens'[u] = tokens[u] \cup {row}
          /\ \A other \in Users : other # u => tokens'[other] = tokens[other]
      BY <3>2 DEF Shape
    <3>4. At(r, "saving") /\ ~ At(r, "saving")'
      BY <2>4, ToValue DEF SaveToken, At, Stages
    <3>5. OneTokenEach'
      <4>1. u \in Patient => ~ HasUsable(u)
        BY <3>1, <3>4 DEF SaversHaveNone
      <4> QED
        BY <2>2, <3>3, <4>1 DEF OneTokenEach, HasUsable
    <3>6. SaversHaveNone'
      <4>1. ASSUME NEW q \in Requests, UserOf(q) \in Patient, At(q, "saving")'
            PROVE  q # r /\ UserOf(q) # u /\ At(q, "saving")
        BY <2>1, <3>1, <3>4, <4>1, PatientOnes DEF At
      <4>2. ASSUME NEW q \in Requests, UserOf(q) \in Patient, At(q, "saving")'
            PROVE  tokens'[UserOf(q)] = tokens[UserOf(q)] /\ ~ HasUsable(UserOf(q))
        BY <2>2, <3>3, <4>1, <4>2 DEF SaversHaveNone
      <4> QED
        BY <2>1, <2>2, <4>2 DEF SaversHaveNone, HasUsable
    <3> QED
      BY <3>5, <3>6
  <2>5. CASE ~ (FindToken(r) \/ SaveToken(r))
    <3>1. tokens' = tokens
      BY <1>1, <2>5 DEF Calls, Join, Poll, Step, CallFails, CheckDuplicate, AddToQueue,
         FindOwnToken, Increment, Expire, RemoveFromQueue
    <3>2. \E stage \in Stages \ {"saving"} : To(r, stage)
      BY <1>1, <2>5 DEF Calls, Join, Poll, Step, CallFails, CheckDuplicate, AddToQueue,
         FindOwnToken, Increment, Expire, RemoveFromQueue, Stages
    <3>3. \A q \in Requests : At(q, "saving")' => At(q, "saving")
      BY <2>1, <3>2, ToValue DEF At
    <3> QED
      BY <2>1, <3>1, <3>3, TokensStay
  <2> QED
    BY <2>3, <2>4, <2>5
<1>2. CASE Tick
  <2>1. tokens' = tokens
    BY <1>2 DEF Tick
  <2>2. ASSUME NEW r \in Requests
        PROVE  request'[r].user = request[r].user /\ request'[r].stage = request[r].stage
    <3>1. request[r] \in [user : Users, stage : Stages, age : Ages]
      BY DEF Shape
    <3>2. request'[r] \in {[request[r] EXCEPT !.age = @ + 1], request[r]}
      BY <1>2 DEF Tick
    <3> QED
      BY <3>1, <3>2
  <2> QED
    BY <2>1, <2>2, TokensStay DEF UserOf, At
<1>3. ASSUME NEW u \in Users, NEW row \in tokens[u], Lapse(u, row) \/ Consume(u, row)
      PROVE  OneTokenEach' /\ SaversHaveNone'
  <2>1. row \in Rows
    BY DEF Shape
  <2>2. /\ ~ IsUsable([row EXCEPT !.status = "USED"])
        /\ ~ IsUsable([row EXCEPT !.lapsed = TRUE])
    BY <2>1 DEF Rows, IsUsable
  <2>3. \A other \in Users : \A old \in tokens'[other] : IsUsable(old) => old \in tokens[other]
    <3>1. ASSUME NEW new, ~ IsUsable(new),
                 tokens' = [tokens EXCEPT ![u] = (@ \ {row}) \cup {new}]
          PROVE  \A other \in Users : \A old \in tokens'[other] :
                     IsUsable(old) => old \in tokens[other]
      BY <3>1 DEF Shape
    <3> QED
      BY <1>3, <2>2, <3>1 DEF Lapse, Consume
  <2> QED
    BY <1>3, <2>3, TokensStay DEF Lapse, Consume, UserOf, At
<1>4. ASSUME UNCHANGED roomVars \/ \E age \in Ages : KeyExpires(age)
      PROVE  OneTokenEach' /\ SaversHaveNone'
  <2>1. tokens' = tokens /\ request' = request
    BY <1>4 DEF roomVars, KeyExpires
  <2> QED
    BY <2>1, TokensStay DEF UserOf, At
<1> QED
  BY <1>1, <1>2, <1>3, <1>4 DEF RoomNext, Calls
-----------------------------------------------------------------------------
(* The rows, as the tokens that callers see.                               *)

\* What a step does to the rows.
RowsStay == UNCHANGED <<tokens, issued>>

Replaced(u, row, new) ==
    tokens' = [tokens EXCEPT ![u] = (@ \ {row}) \cup {new}] /\ UNCHANGED issued

LEMMA RowsMove ==
  ASSUME Shape, [RoomNext]_roomVars
  PROVE  \/ RowsStay
         \/ \E r \in Requests : SaveToken(r)
         \/ \E u \in Users : \E row \in tokens[u] : Lapse(u, row) \/ Consume(u, row)
BY DEF RoomNext, Join, Poll, Step, CallFails, CheckDuplicate, AddToQueue, FindOwnToken,
   Increment, Expire, FindToken, SaveToken, RemoveFromQueue, Tick, KeyExpires, roomVars,
   RowsStay

\* A row that is used or lapses keeps its number.
LEMMA RowEnds ==
  ASSUME Shape, NEW u \in Users, NEW row \in tokens[u], Lapse(u, row) \/ Consume(u, row)
  PROVE  /\ IsUsable(row)
         /\ \E new \in Rows : /\ Replaced(u, row, new)
                               /\ new.number = row.number /\ ~ IsUsable(new)
<1>1. row \in Rows
  BY DEF Shape
<1>2. IsUsable(row)
  BY DEF Lapse, Consume
<1> DEFINE used == [row EXCEPT !.status = "USED"]
           lapsed == [row EXCEPT !.lapsed = TRUE]
<1>3. /\ used \in Rows /\ used.number = row.number /\ ~ IsUsable(used)
      /\ lapsed \in Rows /\ lapsed.number = row.number /\ ~ IsUsable(lapsed)
  BY <1>1 DEF Rows, IsUsable
<1>4. Replaced(u, row, used) \/ Replaced(u, row, lapsed)
  BY DEF Lapse, Consume, Replaced
<1> QED
  BY <1>2, <1>3, <1>4

LEMMA NumberStep ==
  ASSUME Shape, Numbered, [RoomNext]_roomVars
  PROVE  Numbered'
<1>1. CASE RowsStay
  BY <1>1 DEF RowsStay, Numbered
<1>2. ASSUME NEW r \in Requests, SaveToken(r)
      PROVE  Numbered'
  <2> DEFINE row == [number |-> issued[UserOf(r)] + 1, status |-> "ACTIVE", lapsed |-> FALSE]
  <2>1. PICK u \in Users : u = UserOf(r)
    BY DEF Shape, UserOf
  <2>2. /\ tokens'[u] = tokens[u] \cup {row} /\ issued'[u] = issued[u] + 1
        /\ \A other \in Users : other # u =>
               tokens'[other] = tokens[other] /\ issued'[other] = issued[other]
    BY <1>2, <2>1 DEF SaveToken, Shape
  <2>3. issued[u] \in Nat /\ row.number = issued[u] + 1
    BY <2>1 DEF Shape
  <2> HIDE DEF row
  <2> QED
    BY <2>2, <2>3 DEF Numbered
<1>3. ASSUME NEW u \in Users, NEW row \in tokens[u], Lapse(u, row) \/ Consume(u, row)
      PROVE  Numbered'
  <2>1. PICK new \in Rows : Replaced(u, row, new) /\ new.number = row.number
    BY <1>3, RowEnds
  <2>2. /\ tokens'[u] = (tokens[u] \ {row}) \cup {new} /\ issued' = issued
        /\ \A other \in Users : other # u => tokens'[other] = tokens[other]
    BY <2>1 DEF Replaced, Shape
  <2> QED
    BY <2>1, <2>2 DEF Numbered
<1> QED
  BY <1>1, <1>2, <1>3, RowsMove

LEMMA NameParts ==
  ASSUME NEW name \in TokenNames
  PROVE  /\ name = <<name[1], name[2]>>
         /\ name[1] \in Users /\ name[2] \in Nat /\ name[2] > 0
<1>1. PICK u \in Users : name \in {u} \X (1 .. MaxTokens[u])
  BY DEF TokenNames
<1>2. MaxTokens[u] \in Nat
  BY QueueAssumption
<1> QED
  BY <1>1, <1>2

\* A token is seen as before if its rows are, and it is issued if it was.
LEMMA SeenKept ==
  ASSUME NEW name \in TokenNames,
         Named(name[1], name[2])' = Named(name[1], name[2]),
         name[2] > issued'[name[1]] <=> name[2] > issued[name[1]]
  PROVE  TokenSeen'[name] = TokenSeen[name]
BY DEF TokenSeen, StatusOf

LEMMA SeenChanges ==
  ASSUME NEW name \in TokenNames, NEW expected, NEW next,
         TokenSeen[name] = expected, TokenSeen'[name] = next,
         \A other \in TokenNames : other # name => TokenSeen'[other] = TokenSeen[other]
  PROVE  Admission!Change(name, expected, next)
BY DEF TokenSeen, Admission!Change

LEMMA SaveSeen ==
  ASSUME Shape, Numbered, NEW r \in Requests, SaveToken(r)
  PROVE  (\E name \in TokenNames : Admission!Issue(name)) \/ UNCHANGED TokenSeen
<1>1. PICK u \in Users, n \in Nat : u = UserOf(r) /\ n = issued[u] + 1 /\ issued[u] \in Nat
  BY DEF Shape, UserOf
<1> DEFINE row == [number |-> n, status |-> "ACTIVE", lapsed |-> FALSE]
<1>2. /\ tokens'[u] = tokens[u] \cup {row} /\ issued'[u] = n
      /\ \A other \in Users : other # u =>
             tokens'[other] = tokens[other] /\ issued'[other] = issued[other]
  BY <1>1 DEF SaveToken, Shape
<1>3. row.number = n /\ IsUsable(row)
  BY DEF IsUsable
<1> HIDE DEF row
<1>4. ASSUME NEW name \in TokenNames, name # <<u, n>>
      PROVE  TokenSeen'[name] = TokenSeen[name]
  <2>1. Named(name[1], name[2])' = Named(name[1], name[2])
    BY <1>1, <1>2, <1>3, <1>4, NameParts DEF Named
  <2>2. name[2] > issued'[name[1]] <=> name[2] > issued[name[1]]
    BY <1>1, <1>2, <1>4, NameParts
  <2> QED
    BY <2>1, <2>2, SeenKept
<1>5. CASE <<u, n>> \in TokenNames
  <2>1. TokenSeen[<<u, n>>] = "NONE"
    BY <1>1, <1>5 DEF TokenSeen, StatusOf
  <2>2. row \in Named(u, n)' /\ ~ n > issued'[u]
    BY <1>1, <1>2, <1>3 DEF Named
  <2>3. TokenSeen'[<<u, n>>] = "ACTIVE"
    BY <1>3, <1>5, <2>2 DEF TokenSeen, StatusOf
  <2> QED
    BY <1>4, <1>5, <2>1, <2>3, SeenChanges DEF Admission!Issue
<1>6. CASE <<u, n>> \notin TokenNames
  BY <1>4, <1>6 DEF TokenSeen
<1> QED
  BY <1>5, <1>6

LEMMA EndSeen ==
  ASSUME Shape, Numbered, NEW u \in Users, NEW row \in tokens[u],
         Lapse(u, row) \/ Consume(u, row)
  PROVE  \/ \E name \in TokenNames : Admission!Use(name) \/ Admission!Lapse(name)
         \/ UNCHANGED TokenSeen
<1> DEFINE n == row.number
<1>1. PICK new \in Rows : Replaced(u, row, new) /\ new.number = n /\ ~ IsUsable(new)
  BY RowEnds
<1>2. IsUsable(row) /\ n \in 1 .. issued[u] /\ issued[u] \in Nat
  BY RowEnds DEF Numbered, Shape
<1>3. /\ tokens'[u] = (tokens[u] \ {row}) \cup {new} /\ issued' = issued
      /\ \A other \in Users : other # u => tokens'[other] = tokens[other]
  BY <1>1 DEF Replaced, Shape
<1>4. ASSUME NEW name \in TokenNames, name # <<u, n>>
      PROVE  TokenSeen'[name] = TokenSeen[name]
  <2>1. Named(name[1], name[2])' = Named(name[1], name[2])
    BY <1>1, <1>3, <1>4, NameParts DEF Named
  <2> QED
    BY <1>3, <2>1, SeenKept
<1>5. CASE <<u, n>> \in TokenNames
  <2>1. row \in Named(u, n) /\ ~ n > issued[u]
    BY <1>2 DEF Named
  <2>2. TokenSeen[<<u, n>>] = "ACTIVE"
    BY <1>2, <1>5, <2>1 DEF TokenSeen, StatusOf
  <2>3. Named(u, n)' = {new}
    BY <1>1, <1>3 DEF Named, Numbered
  <2>4. TokenSeen'[<<u, n>>] = IF new.status = "USED" THEN "USED" ELSE "GONE"
    BY <1>1, <1>3, <1>5, <2>1, <2>3 DEF TokenSeen, StatusOf
  <2> QED
    BY <1>4, <1>5, <2>2, <2>4, SeenChanges DEF Admission!Use, Admission!Lapse
<1>6. CASE <<u, n>> \notin TokenNames
  BY <1>4, <1>6 DEF TokenSeen
<1> QED
  BY <1>5, <1>6

-----------------------------------------------------------------------------
(* Theorems.                                                               *)

\* IInv is an invariant of the waiting room.
LEMMA Invariance == RoomSpec => []IInv
<1>1. IInv /\ [RoomNext]_roomVars => IInv'
  BY ShapeStep, QueueStep, FaultsBounded, PermitStep, TokenStep, NumberStep DEF IInv
<1> QED
  BY InitIInv, <1>1, PTL DEF RoomSpec

\* The queue, the counters, the tokens and the polls keep their types, and nobody
\* stands in the queue twice.
THEOREM TypeCorrect == RoomSpec => []TypeOK
<1>1. IInv => TypeOK
  BY DEF IInv, Shape, QueueOK, TypeOK
<1> QED
  BY Invariance, <1>1, PTL

\* A second hands out no more permits than configured while calls still count on
\* its key, for any number of polls and any order of INCR, EXPIRE and failures
\* (WaitingRoomRateLimiter.isAllowedToEnter).
THEOREM LimitHolds == RoomSpec => []PermitsPerSecond
<1>1. IInv => PermitsPerSecond
  BY DEF IInv, PermitsCounted, Counted, PermitsPerSecond
<1> QED
  BY Invariance, <1>1, PTL

\* A user with one poll at a time has one usable token at most, for any number of
\* other users, failing calls and tokens (WaitingRoomManager.createToken).
THEOREM PatientUserHasOneToken == RoomSpec => []OneTokenEach
<1>1. IInv => OneTokenEach
  BY DEF IInv
<1> QED
  BY Invariance, <1>1, PTL

\* waitingroom-app implements AdmissionTokens, on which booking-app relies: for any
\* number of users, polls at once and failing calls, a token is issued once, accepted
\* until its one use or its time, and never again (createToken, consumeOrThrow).
THEOREM TokensArePromised == RoomSpec => TokenSpec
<1>1. RoomInit => Admission!Init
  <2> SUFFICES ASSUME RoomInit
               PROVE  TokenSeen = [name \in TokenNames |-> "NONE"]
    BY DEF Admission!Init
  <2>1. \A name \in TokenNames : name[2] > issued[name[1]]
    BY NameParts DEF RoomInit
  <2> QED
    BY <2>1 DEF TokenSeen, StatusOf
<1>2. IInv /\ [RoomNext]_roomVars => [Admission!Next]_TokenSeen
  <2> SUFFICES ASSUME IInv, [RoomNext]_roomVars
               PROVE  Admission!Next \/ UNCHANGED TokenSeen
    OBVIOUS
  <2>1. CASE RowsStay
    BY <2>1 DEF RowsStay, TokenSeen, StatusOf, Named
  <2> QED
    BY <2>1, RowsMove, SaveSeen, EndSeen DEF IInv, Admission!Next
<1> QED
  BY Invariance, <1>1, <1>2, PTL DEF RoomSpec, TokenSpec, Admission!Spec

\* Users who stay in the queue stay in their order, for any number of them, and
\* however late their scores arrive (WaitingRoomWriter.addToToken, removeFromQueue).
THEOREM PlacesAreKept == RoomSpec => PlaceIsKept
<1> DEFINE Kept == \A u, v \in Users :
                       Before(u, v) /\ InQueue(u)' /\ InQueue(v)' => Before(u, v)'
<1>1. IInv /\ IInv' /\ [RoomNext]_roomVars => [Kept]_roomVars
  BY QueueStep, PlaceStep DEF IInv
<1> QED
  BY Invariance, <1>1, PTL DEF RoomSpec, PlaceIsKept
=============================================================================
