----------------------------- MODULE WaitingRoom -----------------------------
(***************************************************************************)
(* waitingroom-app: the queue of one event, kept in Redis, and the tokens  *)
(* in its database that admit users to a reservation.                      *)
(*                                                                         *)
(* A user joins the queue and polls.  A poll of a user who stands near the *)
(* front asks the limiter, INCR of a key per second, and is given a token. *)
(* Each call to Redis or to the database is a step of its own: there is no *)
(* transaction around them.  Users may poll again before they are answered.*)
(*                                                                         *)
(* Nothing deletes a row: WaitingRoomScheduler, which would, is @Scheduled *)
(* in an application that does not enable scheduling.                      *)
(*                                                                         *)
(* Seconds are named by their age: 0 is the current one.                   *)
(***************************************************************************)
EXTENDS Integers, Sequences, FiniteSets, Functions, SequencesExt

CONSTANTS
    Users,
    Requests,           \* request slots of the clients
    Owners,             \* ways in which the slots may belong to users
    EntryRank,          \* ranks above it only wait (100)
    MaxEnterPerSecond,
    MaxAge,             \* bound: no call takes as many seconds
    MaxTokens,          \* bound on the tokens issued to each user
    MaxFaults           \* bound on the number of failing calls

\* A key lives for two seconds from its first INCR.
KeySeconds == 2

ASSUME QueueAssumption ==
    /\ IsFiniteSet(Users) /\ IsFiniteSet(Requests)
    /\ Owners \subseteq [Requests -> Users]
    /\ EntryRank \in Nat
    /\ MaxEnterPerSecond \in Nat \ {0}
    /\ MaxAge \in Nat /\ MaxAge >= KeySeconds
    /\ MaxTokens \in [Users -> Nat] /\ MaxFaults \in Nat

VARIABLES
    queue,      \* the sorted set: users in the order of their scores, see Adds
    counter,    \* counter[age]: the key of that second
    tokens,     \* tokens[u]: rows of active_tokens of u
    request,    \* request[r]: its user, stage, and the second of its key
    issued,     \* issued[u]: tokens u was given so far
    granted,    \* granted[age]: permits given for that second while its key lives
    faults

roomVars == <<queue, counter, tokens, request, issued, granted, faults>>

Ages == 0 .. MaxAge
Recent == 0 .. KeySeconds - 1
NoKey == [count |-> 0, left |-> -1]

\* left: seconds until the key expires; -1: it has no time to live.
Keys == [count : Nat, left : -1 .. KeySeconds]

\* "checking", "adding": joinQueue; "asking", "expiring": the limiter; "finding",
\* "saving": createToken; "removing": ZREM; "lost": the user has no rank.
Stages == {"idle", "checking", "adding", "asking", "expiring", "finding", "saving",
           "removing", "lost"}

\* number: the rows of a user in the order of their issue.
Rows == [number : Nat, status : {"ACTIVE", "USED"}, lapsed : BOOLEAN]

TypeOK ==
    /\ queue \in Seq(Users) /\ IsInjective(queue)
    /\ counter \in [Ages -> Keys]
    /\ tokens \in [Users -> SUBSET Rows]
    /\ request \in [Requests -> [user : Users, stage : Stages, age : Ages]]
    /\ issued \in [Users -> Nat]
    /\ granted \in [Recent -> Nat]
    /\ faults \in 0 .. MaxFaults

RoomInit ==
    /\ queue = <<>>
    /\ counter = [age \in Ages |-> NoKey]
    /\ tokens = [u \in Users |-> {}]
    /\ \E owner \in Owners :
           request = [r \in Requests |-> [user |-> owner[r], stage |-> "idle", age |-> 0]]
    /\ issued = [u \in Users |-> 0]
    /\ granted = [age \in Recent |-> 0]
    /\ faults = 0

IsUsable(row) == row.status = "ACTIVE" /\ ~ row.lapsed
HasActive(u) == \E row \in tokens[u] : row.status = "ACTIVE"

\* findTokenByUser returns the ACTIVE row that was issued last.  Rows lapse in the
\* order of their issue, so it is usable if any is.
HasUsable(u) == \E row \in tokens[u] : IsUsable(row)

InQueue(u) == Contains(queue, u)
Rank(u) == CHOOSE i \in DOMAIN queue : queue[i] = u

UserOf(r) == request[r].user
At(r, stage) == request[r].stage = stage
To(r, stage) ==
    request' = [request EXCEPT ![r].stage = stage,
                               ![r].age = IF stage = "expiring" THEN @ ELSE 0]

-----------------------------------------------------------------------------
\* A user who has had all his tokens polls only while he has a place in the queue:
\* nobody goes away and leaves his name there.
WantsMore(u) == issued[u] < MaxTokens[u]

(* POST /join                                                              *)
Join(r) ==
    /\ At(r, "idle") /\ WantsMore(UserOf(r))
    /\ To(r, "checking")
    /\ UNCHANGED <<queue, counter, tokens, issued, granted, faults>>

(* joinQueue: who has an ACTIVE row, lapsed or not, may not queue.         *)
CheckDuplicate(r) ==
    /\ At(r, "checking")
    /\ To(r, IF HasActive(UserOf(r)) THEN "idle" ELSE "adding")
    /\ UNCHANGED <<queue, counter, tokens, issued, granted, faults>>

Without(u) == IF InQueue(u) THEN RemoveAt(queue, Rank(u)) ELSE queue

(* The score is the time of the instance that serves the request, taken    *)
(* before the call: the place may be anywhere among those that are taken.  *)
Adds(places, u) == \E i \in 1 .. Len(places) + 1 : queue' = InsertAt(places, i, u)

\* Faulty variant: a list in place of the sorted set.
PushToQueue(r) ==
    /\ At(r, "adding")
    /\ Adds(queue, UserOf(r))
    /\ To(r, "idle")
    /\ UNCHANGED <<counter, tokens, issued, granted, faults>>

\* Faulty variant: without NX, which gives a new score to who has one.
AddAgain(r) ==
    /\ At(r, "adding")
    /\ Adds(Without(UserOf(r)), UserOf(r))
    /\ To(r, "idle")
    /\ UNCHANGED <<counter, tokens, issued, granted, faults>>

(* ZADD NX, and the rank is answered.                                      *)
AddToQueue(r) ==
    LET u == UserOf(r) IN
    /\ At(r, "adding")
    /\ IF InQueue(u) THEN UNCHANGED queue ELSE Adds(queue, u)
    /\ To(r, "idle")
    /\ UNCHANGED <<counter, tokens, issued, granted, faults>>

(* GET /status: getQueueStatus reads the rank, and the limiter the second. *)
Poll(r) ==
    LET u == UserOf(r) IN
    /\ At(r, "idle")
    /\ \/ ~ InQueue(u) /\ WantsMore(u) /\ To(r, "lost")
       \/ InQueue(u) /\ Rank(u) - 1 > EntryRank /\ To(r, "idle")
       \/ InQueue(u) /\ Rank(u) - 1 <= EntryRank /\ To(r, "asking")
    /\ UNCHANGED <<queue, counter, tokens, issued, granted, faults>>

\* Faulty variant: the user is told to wait and is not queued.
AnswerOnly(r) ==
    /\ At(r, "lost")
    /\ To(r, "idle")
    /\ UNCHANGED <<queue, counter, tokens, issued, granted, faults>>

(* No rank: a usable token is answered, otherwise the user queues again.   *)
FindOwnToken(r) ==
    /\ At(r, "lost")
    /\ To(r, IF HasUsable(UserOf(r)) THEN "idle" ELSE "checking")
    /\ UNCHANGED <<queue, counter, tokens, issued, granted, faults>>

Granted(age) == IF age \in Recent THEN [granted EXCEPT ![age] = @ + 1] ELSE granted

(* isAllowedToEnter: INCR, and EXPIRE after the first one.                 *)
Increment(r) ==
    LET age == request[r].age
        count == counter[age].count + 1     \* above the limit, all counts are alike
    IN
    /\ At(r, "asking")
    /\ counter' = [counter EXCEPT ![age].count = IF count > MaxEnterPerSecond
                                                   THEN MaxEnterPerSecond + 1 ELSE count]
    /\ \/ count = 1 /\ To(r, "expiring") /\ UNCHANGED granted
       \/ /\ count > 1 /\ count <= MaxEnterPerSecond
          /\ To(r, "finding")
          /\ granted' = Granted(age)
       \/ count > MaxEnterPerSecond /\ To(r, "idle") /\ UNCHANGED granted
    /\ UNCHANGED <<queue, tokens, issued, faults>>

\* Faulty variant: the key lives for one second.
ExpireSoon(r) ==
    LET age == request[r].age IN
    /\ At(r, "expiring")
    /\ counter' = [counter EXCEPT ![age].left = KeySeconds - 1]
    /\ granted' = Granted(age)
    /\ To(r, "finding")
    /\ UNCHANGED <<queue, tokens, issued, faults>>

Expire(r) ==
    LET age == request[r].age IN
    /\ At(r, "expiring")
    /\ counter' = [counter EXCEPT ![age].left = KeySeconds]
    /\ granted' = Granted(age)
    /\ To(r, "finding")
    /\ UNCHANGED <<queue, tokens, issued, faults>>

\* Faulty variant: a new token for whoever has a rank.
FindNothing(r) ==
    /\ At(r, "finding")
    /\ To(r, "saving")
    /\ UNCHANGED <<queue, counter, tokens, issued, granted, faults>>

(* createToken: a usable token is used again.                              *)
FindToken(r) ==
    /\ At(r, "finding")
    /\ To(r, IF HasUsable(UserOf(r)) THEN "removing" ELSE "saving")
    /\ UNCHANGED <<queue, counter, tokens, issued, granted, faults>>

SaveToken(r) ==
    LET u == UserOf(r)
        row == [number |-> issued[u] + 1, status |-> "ACTIVE", lapsed |-> FALSE]
    IN
    /\ At(r, "saving")
    /\ tokens' = [tokens EXCEPT ![u] = @ \cup {row}]
    /\ issued' = [issued EXCEPT ![u] = @ + 1]
    /\ To(r, "removing")
    /\ UNCHANGED <<queue, counter, granted, faults>>

(* ZREM, and the token is answered.                                        *)
RemoveFromQueue(r) ==
    /\ At(r, "removing")
    /\ queue' = Without(UserOf(r))
    /\ To(r, "idle")
    /\ UNCHANGED <<counter, tokens, issued, granted, faults>>

(* A call fails, or the process dies; a fallback or an error is answered.  *)
CallFails(r) ==
    /\ ~ At(r, "idle") /\ faults < MaxFaults
    /\ faults' = faults + 1
    /\ To(r, "idle")
    /\ UNCHANGED <<queue, counter, tokens, issued, granted>>

-----------------------------------------------------------------------------
(* A second ends.  A key that no call refers to any more is forgotten here.*)
Tick ==
    LET limited == {r \in Requests : At(r, "asking") \/ At(r, "expiring")}
        Aged(key) == IF key.left > 0 THEN [key EXCEPT !.left = @ - 1] ELSE key
        matters(age) == \E r \in limited : request[r].age = age - 1
    IN
    /\ \A r \in limited : request[r].age < MaxAge
    /\ \A age \in Ages : counter[age].left # 0
    /\ counter' = [age \in Ages |-> IF matters(age) THEN Aged(counter[age - 1]) ELSE NoKey]
    /\ granted' = [age \in Recent |-> IF matters(age) THEN granted[age - 1] ELSE 0]
    /\ request' = [r \in Requests |->
                      IF r \in limited THEN [request[r] EXCEPT !.age = @ + 1] ELSE request[r]]
    /\ UNCHANGED <<queue, tokens, issued, faults>>

(* Redis deletes the key of a second some time in its last one.            *)
KeyExpires(age) ==
    /\ counter[age].left = 0
    /\ counter' = [counter EXCEPT ![age] = NoKey]
    /\ UNCHANGED <<queue, tokens, request, issued, granted, faults>>

\* Faulty variant: the UPDATE of the row does not look at its time.
ConsumeLate(u, row) ==
    /\ row.status = "ACTIVE"
    /\ tokens' = [tokens EXCEPT ![u] = (@ \ {row}) \cup {[row EXCEPT !.status = "USED"]}]
    /\ UNCHANGED <<queue, counter, request, issued, granted, faults>>

(* consumeOrThrow, for booking-app.  A lapsed row stays ACTIVE: its update *)
(* to EXPIRED is rolled back by the exception that follows.  It bars its   *)
(* user from the queue from then on.                                       *)
Consume(u, row) ==
    /\ IsUsable(row)
    /\ tokens' = [tokens EXCEPT ![u] = (@ \ {row}) \cup {[row EXCEPT !.status = "USED"]}]
    /\ UNCHANGED <<queue, counter, request, issued, granted, faults>>

(* The ten minutes of the oldest usable row are over.                      *)
Lapse(u, row) ==
    /\ IsUsable(row)
    /\ \A other \in tokens[u] : IsUsable(other) => row.number <= other.number
    /\ tokens' = [tokens EXCEPT ![u] = (@ \ {row}) \cup {[row EXCEPT !.lapsed = TRUE]}]
    /\ UNCHANGED <<queue, counter, request, issued, granted, faults>>

-----------------------------------------------------------------------------
Step(r) ==
    \/ CheckDuplicate(r) \/ AddToQueue(r) \/ FindOwnToken(r)
    \/ Increment(r) \/ Expire(r) \/ FindToken(r) \/ SaveToken(r) \/ RemoveFromQueue(r)

RoomNext ==
    \/ \E r \in Requests : Join(r) \/ Poll(r) \/ Step(r) \/ CallFails(r)
    \/ Tick
    \/ \E age \in Ages : KeyExpires(age)
    \/ \E u \in Users : \E row \in tokens[u] : Lapse(u, row) \/ Consume(u, row)

RoomSpec == RoomInit /\ [][RoomNext]_roomVars

(* Clients go on polling, calls end and time goes by.                      *)
FairRoomSpec ==
    /\ RoomSpec
    /\ \A r \in Requests : SF_roomVars(Poll(r)) /\ WF_roomVars(Step(r))
    /\ WF_roomVars(Tick)
    /\ \A age \in Ages : WF_roomVars(KeyExpires(age))

-----------------------------------------------------------------------------
(* Properties.                                                             *)

\* A second hands out no more permits than configured while its key lives, also
\* to polls that took their time, or whose EXPIRE failed (isAllowedToEnter).
PermitsPerSecond == \A age \in Recent : granted[age] <= MaxEnterPerSecond

\* Whoever has a place keeps it: of two users who stay in the queue, the one who
\* stands before the other stays before him, whoever joins again, joins late or
\* leaves meanwhile (addToToken with ZADD NX, removeFromQueue).
Before(u, v) == InQueue(u) /\ InQueue(v) /\ Rank(u) < Rank(v)

PlaceIsKept ==
    [][\A u, v \in Users :
          Before(u, v) /\ InQueue(u)' /\ InQueue(v)' => Before(u, v)']_roomVars

\* A user who waits for the answer of one poll before the next has one usable
\* token at most, although the check and the INSERT are two calls, ZREM may fail,
\* and the user may queue again (createToken, joinQueue).
Patient == {u \in Users : Cardinality({r \in Requests : UserOf(r) = u}) = 1}

OneTokenEach ==
    \A u \in Patient :
        \A row, other \in tokens[u] : IsUsable(row) /\ IsUsable(other) => row = other

\* The tokens by name, and what a caller can tell of them.  Tokens beyond the bound
\* have no name.
TokenNames == UNION {{u} \X (1 .. MaxTokens[u]) : u \in Users}

Named(u, n) == {row \in tokens[u] : row.number = n}

StatusOf(u, n) ==
    IF n > issued[u] THEN "NONE"
    ELSE IF \E row \in Named(u, n) : IsUsable(row) THEN "ACTIVE"
    ELSE IF \E row \in Named(u, n) : row.status = "USED" THEN "USED" ELSE "GONE"

TokenSeen == [name \in TokenNames |-> StatusOf(name[1], name[2])]

Admission == INSTANCE AdmissionTokens WITH Tokens <- TokenNames, token <- TokenSeen

\* waitingroom-app implements AdmissionTokens, which booking-app relies on: a
\* token is issued once, accepted until its one use or its time, and never again,
\* whatever polls and failing calls do meanwhile (createToken, consumeOrThrow).
TokenSpec == Admission!Spec

\* Whoever keeps polling has an ACTIVE row again and again, until all his tokens
\* were issued: a poll without a rank leads back into the queue, and neither failed
\* calls nor late removals, nor those who stand before him, keep a user out for good
\* (getQueueStatus, removeFromQueue).
PollingAdmits ==
    \A r \in Requests : []<>(HasActive(UserOf(r)) \/ ~ WantsMore(UserOf(r)))

\* The same of tokens that admit: a user whose token has lapsed polls and is queued
\* again (getQueueStatus with its way back into the queue, cleanupExpiredTokens).
PollingPays ==
    \A r \in Requests : []<>(HasUsable(UserOf(r)) \/ ~ WantsMore(UserOf(r)))
=============================================================================
