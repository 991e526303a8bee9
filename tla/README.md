# TLA+ model of the ticketing system

This directory holds TLA+ specifications of the services that queue customers and
sell seats, of the gateway in front of them and of the load tests that judge them;
the TLC configurations that check them on small instances; and TLAPS proofs of their
main safety properties for every size. Paths of sources are relative to the root of
the repository; `…/` stands for `src/main/java/com/koesc/ci_cd_test_app/`.

## 1. The system

Five Spring Boot services behind a gateway. They share no database; they call each
other over HTTP through a circuit breaker, and there is no message broker and no
distributed transaction.

| component | state it keeps | operations | calls |
|---|---|---|---|
| concert-app, seat commands (`SeatInternalService`, `SeatWriter`, `SeatHolder`) | table `seats`: status, `@Version` | hold, release, confirm; the public hold | – |
| booking-app, reservations (`ReservationManager`, `ReservationService`) | table `reservations`; Redisson lock per seat | create, cancel, confirm, expire, expiry batch | concert-app, waitingroom-app |
| payment-app, saga (`PaymentManager`, `PaymentWriter`, `CancelFailedRetryScheduler`) | table `payments` | request, confirm, cancel, retry of refunds | TossPayments, booking-app |
| payment-app, keys (`IdempotencyManager`, `PaymentController`) | Redis `payment:idempotency:*` | startProcessing, complete, remove | Redis |
| waitingroom-app, queue (`WaitingRoomService`, `WaitingRoomManager`, `WaitingRoomRateLimiter`) | Redis sorted set per event, counter per second | join, poll, admit | Redis |
| waitingroom-app, tokens (`WaitingRoomInternalService`, `WaitingRoomScheduler`) | table `active_tokens` | issue, validate, consume; a deletion that is never called | – |
| scg-app, the way of a request (`BulkheadFilter`, route configuration, `FallbackController`) | permits, token buckets, circuit breakers, each per route | bulkhead, limiter, breaker, retry, fallback | all services |
| load tests (`load-test/scripts/k6/scenarios`) | metrics, what a virtual user has seen | phases, classification of answers, verdict, report | the gateway |
| user-app, login (`AuthService`, `RefreshTokenStore`) | Redis refresh token per user | login, refresh, logout | Redis |
| user-app accounts; concert-app catalogue | single rows | create, read, update | – |
| common-module, ticketing-shared-kernel, frontend, perf-analyzer, infra | none that matters here | – | – |

How they interact. A customer waits in the queue, gets a token, creates a
reservation with it (booking-app locks the seat, validates the token, holds the
seat, inserts the row, consumes the token), requests a payment for the reservation
and confirms it: payment-app captures the money at TossPayments, writes APPROVED and
calls booking-app, which confirms the seat at concert-app and its own row. If that
last call fails the payment is cancelled at TossPayments; if that fails too, the
payment is CANCEL_FAILED and a scheduler tries again every five minutes. Every
request of a customer passes the gateway: a permit of the bulkhead, a token of the
limiter, the circuit breaker and the retry of its route.

What is hard about it:

* *Interleaving.* No read that a command decides on is locked. concert-app checks a
  version in its UPDATE. The tables `reservations` and `payments` have no version,
  and the writers set a status without looking at the one they replace. A poll of the
  waiting room is up to six calls to Redis and the database without a transaction.
* *Atomicity.* The seat lock of `createReservation` is given back before the
  transaction around it commits; it has a lease, which may end early. GET and SETNX
  of an Idempotency-Key are two calls, and so are INCR and EXPIRE of the limiter.
* *Failure.* Every remote call can be applied and its answer lost. A process can die
  between any two steps. Compensations can fail, and are then only recorded. A client
  may give up at any moment, and its permit and its probe must come back.
* *Time.* Reservations and tokens expire; locks and keys have a lifetime; the refund
  scheduler races with users; a slow poll counts on the key of a second that is over.

What makes each component correct, and where it is stated:

| component | property | stated as |
|---|---|---|
| seat commands | one winner per version, one sale, no lost update; a command is indivisible for its callers | `OneWinnerPerVersion`, `SoldOnce`, `HoldsBalance`, `ConflictHasWinner`, `RegisterSpec` |
| reservations | a seat is confirmed for one reservation, for ever; a token admits once; holds and reservations correspond; payment-app sees a reservation that keeps to its statuses; locks are freed | `NoDoubleSale`, `SaleSpec`, `TokenAdmitsOnce`, `OwnedUntilTrouble`, `DeskSpec`, `RequestEndsWithoutLock` |
| saga | charged once; no refund that is not one; no seat for free; table and PG agree; money is not kept | `ChargedOnce`, `RefundedIsReturned`, `ConfirmedWasCharged`, `LedgerUntilOverlap`, `MoneyIsNotKept` |
| keys | one attempt at a time; an operation that returned is repeated for a failed Redis call only; the replayed answer is that of the last effect; keys are freed | `OneAtATime`, `RunsOnce`, `ReplayIsCurrent`, `KeyIsFreed` |
| queue and tokens | the limit per second holds; one usable token per patient user; a place is kept; who polls is given a token; a token is used once and never comes back | `PermitsPerSecond`, `OneTokenEach`, `PlaceIsKept`, `PollingAdmits`, `TokenSpec`; it fails that he has one that is accepted, `PollingPays` |
| gateway | permits come back; a refused request is not sent, a POST once; a failing route disturbs no other; a half-open breaker decides | `PermitsConserved`, `PermitReturns`, `RefusedIsUnsent`, `RoutesAreIsolated`, `HalfOpenDecides` |
| load tests | counts are those of what happened; PASS is true of the system; FAIL is explained; a recovery follows a loss | `CountsAgree`, `PassIsEarned`, `FailIsExplained`, `RecoveryFollowsLoss` |

## 2. Modules

```
        provides (refinement)        is used by (remote calls)

SeatInventory   ---> SeatRegister    <--- Booking
WaitingRoom     ---> AdmissionTokens <--- Booking
Booking         ---> ReservationDesk <--- PaymentSaga
Booking         ---> SeatSale             what is promised of a sale

Idempotency     the keys in front of PaymentSaga's operations
Gateway         what happens to a request before a service sees it

LoadTest --- INSTANCE ---> RateLimiterTest, CircuitBreakerTest, ... ---> K6
                           one module per script                (metrics)
```

The services are composed along three interfaces. Each is a module of its own with
one operator per command; the calling service uses these operators as the effects of
its calls, and the called service is shown, by a run and by a theorem, to implement
the module. So what the caller's properties rest on is not assumed.

`MC*` modules add the symmetry sets and the sizes for TLC, `*Proofs` modules the
theorems. Definitions marked *Faulty variant* are changed forms of the definition
after them; no specification uses them. They show that each property notices the bug
that they stand for.

**SeatRegister** is the abstract seat: a status that changes in one step, only when
it is the one expected, along AVAILABLE → HOLD → {AVAILABLE, SOLD}. Booking uses
its `Hold`, `Release` and `Confirm` as the effects of its calls to concert-app.

**AdmissionTokens** is a waiting-room token as booking-app can tell it: not issued,
accepted, used, or gone. "GONE" is a token whose time was over before it was used;
`validateToken` and `consumeToken` refuse it. Booking uses `Use` as the effect of
`consumeToken`, and `Lapse` for the end of its ten minutes.

**ReservationDesk** is a reservation as payment-app can tell it. A confirm is `Accept`
(it read PENDING), and later `Confirm` or `Refuse`; in between the reservation may lapse
or be cancelled, and the confirm overwrites that, as the code does (finding 1).

**SeatInventory** is `concert-app/…/business/SeatInternalService.java`,
`SeatWriter`, `SeatHolder` and the `@Version` of `SeatEntity`. `req[r]` is a request:
`Read` takes the snapshot and compares the status (409 `SEAT_NOT_…`: "rejected"),
`Write` is `UPDATE … WHERE version = ?` with its commit, `Conflict` the
`OptimisticLockingFailureException`, `Abort` a rollback. Flush and commit are one
step, as the row lock of the UPDATE keeps others waiting in between.

**Booking** is `ReservationManager` under `ReservationService`. A reservation is named
by its create request; `create[r].phase` follows `doCreateReservation` call by call,
`row[r]` is the row as others see it, after the commit. `op[o]` is a thread serving
cancel, confirm or expire: `ReadRow` is the read with the validator, `FlushCancelled` /
`ReleaseSeat` / `CommitCancelled` and `SellSeat` / `CommitConfirmed` are the order of
the calls in the code (cancel and expire write first and call then, confirm calls
first and writes then). `RowLocked` is the lock that a flushed UPDATE holds.
`sweep` is `expiredPendingReservations()`, one transaction over all expired rows
that swallows the failure of each. Remote calls use `Call`: answered, refused,
applied with the answer lost, or not arrived. `HoldTimeEnds`, `TokenEnds` and
`LeaseEnds` are time. **MCBookingSale** adds a history variable: whether two commands
ever overlapped. `DeskStatus` and `DeskAccepted` are the refinement mapping to
ReservationDesk.

**SeatSale** is what a customer may rely on: a seat gets at most one buyer, and never
another one.

**PaymentSaga** is `PaymentManager`, `PaymentWriter` and `CancelFailedRetryScheduler`
between `pg` (the order at TossPayments, external) and booking-app, an instance of
ReservationDesk. The call of `confirmReservation` is in flight ("confirming") until
`ConfirmAnswered`; after a read timeout of payment-app booking-app goes on with it
(`ConfirmGoesOn`), while the compensation is under way.
`job[w]` is a thread in `confirmPayment` or `cancelPayment`, one phase per call or
write; `retry` the run of the scheduler. Each method of `PaymentWriter` is a load
(`LoadRow`, `RetryLoad`: `findById`, no lock) and a `Flush`, which sets the status
whatever it is by then. `PaymentEntity` has neither `@Version` nor `@DynamicUpdate`,
so the flush writes all columns as loaded, `paymentKey` included, unless nothing was
changed. `RequestPayment` and `InsertPayment` are
`existsByReservationId` and the INSERT that `uk_reservation_id` may refuse.
**MCPaymentLedger** adds a history variable: the payments that two threads have worked
on at the same time.

**Idempotency** is `IdempotencyManager` in the order in which `PaymentController`
calls it: `Look` (GET), `SetIfAbsent` (SETNX), `Run`, `Complete`, `Remove` (catch
block). `Run` is the operation: it returns, throws without effect, or throws after its
effect, as `PaymentManager.confirmPayment` does when the answer to the capture is lost,
the database fails after the capture, or the reservation is refused and the money
returned. The catch block makes no difference between the three. `settled` and `again`
are history variables: whose effect was the last, if that operation returned, and which
attempts took effect after one that had returned. `StartFails`, and the other outcomes of
`Complete` and `Remove`, are calls to Redis that throw, done or not done. `Dies` is a
crash, `KeyExpires` the TTL.

**WaitingRoom** is one event of waitingroom-app. `queue` is the sorted set, as users in
the order of their scores. A score is the clock of the instance that serves the join,
read before the call, so `Adds` inserts at any place; `tokens[u]` the rows of `active_tokens`; `counter[age]` the
limiter's key of a second, named by how long ago it began. A request slot goes through
`joinQueue` (`CheckDuplicate`, `AddToQueue` = ZADD NX) or `getQueueStatus` (`Poll`,
then `FindOwnToken` without a rank; with one near the front `Increment` = INCR, `Expire`
= EXPIRE, and `createToken`: `FindToken`, `SaveToken`, `RemoveFromQueue` = ZREM).
`CallFails` is a failed call, a fallback or a crash between two calls. `Tick`,
`KeyExpires` and `Lapse` are time, `Consume` is booking-app. No step deletes a row:
`WaitingRoomScheduler` would, but nothing starts it (finding 3). `TokenSeen` maps the rows
to AdmissionTokens.

**Gateway** is a request on its way through a route of scg-app. `Send` is
`BulkheadFilter` with its `tryAcquirePermission`, `Limit` the limiter, `Enter` the breaker,
`Deliver`, `Returns` and `Retry` the tries, `Fails` the answer of
`FallbackController`, `GivesUp` a client that closes the connection, `Finally` the
`doFinally` that releases the permit. The limiter, the breaker (count-based window,
half-open probes, a result counts for the state it finds) and the retry (GET and HEAD
only) are library code, modelled from `application.yml` and `Resilience4jConfig`.

**LoadTest** is a run of a k6 script: `Setup`, phases in groups (`NextGroup`), virtual
users that begin an iteration, receive answers and count them (`Begin`, `Respond`), are
cut off (`Interrupt`), and `End`, which is `handleSummary`. The system is any that
gives the answers the gateway and the services can give. Each script is a module of
definitions: its phases, the labels under which it counts an answer (`Labels`), the
criteria that fail for given counts (`Failed`), what its report explains
(`Diagnoses`), and what PASS claims of the system (`Claim`):

| module | script | module | script |
|---|---|---|---|
| `RateLimiterTest` | scenario 1 | `SeatConcurrencyTest` | scenario 8 |
| `CircuitBreakerTest` | scenario 2 | `JourneyTest` | scenario 9 |
| `BulkheadTest` | scenario 3 | `IdempotencyTest` | scenario 10 |
| `LatencyTest` | scenario 4 | `SagaTest` | scenario 11 |
| `SoakTest` | scenario 6 | `ResilienceTest` | scenario 13 |
| | | `SeatInvariantTest` | scenario 14 |

**K6** has what they share: counts as a bag of phase and label, rates compared with
percentages, the 95th percentile.

## 3. Abstractions and assumptions

* Data is reduced to what a property distinguishes: a seat, token, reservation,
  payment, key or user is a model value. Amounts, order ids, names and messages are
  left out; a validator that compares them can only refuse, and a refusal before
  anything is written changes nothing.
* TossPayments captures an order once, and may decline a capture for any reason; it
  refuses to cancel an order twice. The last is marked unverified in
  `payment-failure-flow.md:304` (AS-3), and finding 2 rests on it.
* `SeatHolder.release` is the release command over again and has no caller.
* In Booking a token stands for one user and one event, and it has been issued before.
* `@Scheduled` methods run only where `@EnableScheduling` is set, which is
  `PaymentApplication.java:11` and nowhere else. So `CancelFailedRetryScheduler` runs, and
  `cleanupExpiredTokens` of waitingroom-app does not: rows of `active_tokens` stay.
* An operation behind an Idempotency-Key takes effect once in a run, or not at all;
  whether its repetition does harm is a question to PaymentSaga, which has the operations
  in full (`ChargedOnce`).
* The breaker and the bulkhead around `joinQueue` and `getQueueStatus` turn a call into
  its fallback before it has done anything, which a failed call does too.
* A consume is one step, at the time it has read (`consumeOrThrow` reads the clock once,
  and the condition on the status is part of the UPDATE). A request that hangs between the
  two may use a token as much later than its ten minutes as it hung.
* Each transaction of booking-app has its own persistence context, so an entity read
  in it does not change underneath, and another thread's commit is not seen. The
  application sets no isolation level; on MySQL's REPEATABLE READ the plain reads of
  the code are snapshots, which is what `op[o].phase = "read"` stands for.
* payment-app's `confirmPayment` and `cancelPayment` are not `@Transactional`: each
  write of `PaymentWriter` is a transaction of its own, so a step of its own.
* Two operations on one payment are not kept apart by the Idempotency-Key: clients
  choose the key, so confirms with different keys overlap, and cancel has none. The
  saga therefore lets threads overlap freely.
* No HTTP request lives as long as the 24 hours of an Idempotency-Key, hence the guard
  of `KeyExpires`.
* A circuit breaker and the HTTP retries are a lost or refused call for the caller, in
  Booking and PaymentSaga; Gateway has them in full.
* `expiredPendingReservations()` has no caller in the repository (there is no
  scheduler in booking-app). `SweepOn` says whether it is called. With it, its write
  of CANCELLED goes over a row that was CONFIRMED after the list was read, so
  `SaleSpec` is claimed for `SweepOn = FALSE` only and `NoDoubleSale` for both.
* WaitingRoom: counts above the limit are alike. `granted` counts permits for as long
  as the key they were counted on matters to somebody; a call that is delayed until
  after the key has expired starts a new count, which the code cannot prevent, and
  `PermitsPerSecond` is about the two seconds in which the key lives. A user who has
  had all his tokens (`MaxTokens`) polls on only while he has a place.
* Gateway: clients share one key of the limiter. A client has one request at a time. A
  result that arrives when the breaker is OPEN counts for nothing.
* LoadTest: an iteration may be repeated with the same answers (`Repeats`), which
  stands for runs long enough for percentages. A phase begins `Few` or `Many` iterations
  at most, for light and heavy load. Durations are "quick", "slow" or "late"
  with respect to the limit that the script compares with. `Sent` is k6's `http_reqs`,
  with the requests of `setup`; one that is cut off with its iteration is not counted. `heard` remembers what
  really happened; no script sees it.

## 4. Runs

Bounds: a race needs two actors on one object, and a third to see what they leave
behind (a third request for the seat, a third payment, a fourth attempt after a
failed one). Seats, payments and keys affect each other only through what they
share, so two of each show a mix-up of objects, and one is enough where no step
names two. `MaxFaults` bounds lost messages, failed writes and crashes together
(per kind in Idempotency). The runs of requests that are finitely many have
`CHECK_DEADLOCK FALSE`: the system may come to rest. The queue never does, and is
checked for deadlock.

| run | bounds | states | what it shows |
|---|---|---|---|
| `seats` | 2 seats, 4 requests | 7 439 | four commands of any kind: the safety properties, and that SeatInventory implements SeatRegister |
| `booking_sale` | 2 seats, 2 tokens, 3 requests, 2 threads, 1 fault, no batch | 570 423 | `NoDoubleSale`, `TokenAdmitsOnce`, `OwnedUntilTrouble`, and Booking implements SeatSale and ReservationDesk. Three requests let a seat be sold away, released and taken again; two seats let one token be used twice, as their locks do not exclude each other |
| `booking_live` | 1 seat, 2 tokens, 2 requests, 1 thread, 1 fault, batch | 33 648 | under fairness every request that got the lock ends without it, also after a crash. The safety properties with the batch at work are theorems |
| `payment_races` | 2 reservations, 3 payments, 2 threads, scheduler, 2 faults of 3 kinds | 1 815 658 | the safety of money, although writes may put old columns back and booking-app goes on after a timeout |
| `payment_outage` | 2 reservations, 2 payments, 2 threads, scheduler, 1 call that does not arrive | 785 773 | the table agrees with the PG about each payment that no two threads worked on at once, and no money stays without a seat. More outages are covered by the theorem |
| `keys` | 1 key, 4 attempts, 2 crashes, 2 Redis failures | 55 698 | all properties of keys, whether operations return or throw, with or without effect. Attempts with different keys share nothing |
| `gateway` | 2 clients, 2 routes with 1 and 2 permits, a bucket of 1, a window of 1, 2 probes, 1 retry; one service is well, the other changes twice | 553 296 | the five properties of the gateway, and that permits come back under fairness |
| `queue` | 2 users with a poll each, or 1 with two polls at once; 1 place at the front, 1 permit a second, 2 tokens for one user and 1 for the other, calls of up to 2 seconds, 1 failing call | 234 638 | the limit, one token per patient user, the order of the queue, that WaitingRoom implements AdmissionTokens, and that polling leads to a token under fairness |
| `load_tests` | 11 scripts, 2 virtual users, `Few` = 1 and `Many` = 2 iterations in a phase, each answer once or 19 times (soak: 1, 60 or 6000) | 895 524 | the four properties of the scripts. 1 of 20 is exactly 5 %, 60 of 6060 less than 1 % |
| `booking_late_confirm` | 1 seat, 2 requests, 2 threads, no fault | – | violation, finding 1 |
| `payment_retry` | 1 payment, 2 threads, no fault | – | violation, finding 2 |
| `queue_lapsed` | 1 user with one poll at a time, up to 2 tokens, no failing call | – | violation, finding 3 |

What the bounds leave out. The rank limit of 100 and the limit of permits are 0 and 1
in `queue`: everybody but the first waits, and every second request of a second is
refused, which is where the two matter; the proofs cover all values. A window of one
result makes the breaker of `gateway` open at each failure; two probes show a
half-open breaker that has some results and waits for others. Two virtual users show a
count of one attributed to the other, and an answer that arrives in the next phase.

Fairness. `FairSpec` has weak fairness on what a running thread does next
(`CreateStep`, `OpStep`, `WorkerStep`, `Step`): the JVM schedules threads and every
remote call has a timeout, so it returns or throws. Redisson's lease and the TTL of
a key end (`LeaseEnds`, `KeyExpires`), and `CancelFailedRetryScheduler` runs every
five minutes (`RetryStep`; `@EnableScheduling` is set in payment-app). There is no
fairness on sending a request, on faults, or on the batch starting. `FairGatewaySpec`
has weak fairness on the filters of each client: a response timeout or the breaker's
time limit ends each try. Clients need not send, nor give up, and services need not
recover. `FairRoomSpec` has weak fairness on the steps of a request and on time, and strong
fairness on polling: a client who may poll again and again does. `MaxFaults` makes failures end; without that no
liveness property of this system holds.

### Findings

Each is what a document or comment says, checked against the code, with TLC's
counterexample.

1. `CancelledStaysCancelled`, run `booking_late_confirm`. `confirmReservation` reads
   the row, calls `confirmSeat`, then writes CONFIRMED over whatever the row is. After a
   cancel in between, the seat it sells may be held by another reservation.
   `seat-locking-design.md:213` expects the confirm to fail.
2. `RetryRecovers`, run `payment_retry`. Of two cancels the second is refused by the PG
   and writes CANCEL_FAILED over REFUNDED; each retry is refused again.
   `CancelFailedRetryScheduler.java:31` says a retry can always succeed.
3. `PollingPays`, run `queue_lapsed`. The scheduler that deletes lapsed rows is never
   started, as waitingroom-app has `@EnableScheduling` nowhere. A user whose token has
   lapsed polls: the row is not valid, so it is not returned, and it is ACTIVE, so
   `validateDuplicateAccess` refuses to queue him, for good. `queue-design.md:258` says
   that the scheduler deletes expired tokens every five minutes, and the comment at
   `WaitingRoomService.kt:99` that such a user is queued again. `PollingAdmits`, which
   holds, is what is left: whoever has no ACTIVE row and keeps polling is given a token.

Four more have a property and a cfg beside the module, to be run by hand:

* `MCBooking_orphan.cfg`, `OrphanHoldEnds`, under `ExpirySpec`, where somebody calls
  expire on each expired reservation. When `releaseSeat` fails in the catch block of
  `createReservation`, the HOLD has no row that an expiry could find;
  `seat-locking-design.md:150` says that the expiry resolves it.
* `MCPaymentSaga_declined.cfg`, `FailedIsNotCharged`. Of two confirms of one order the
  second is declined and writes FAILED over the captured payment; `payment-saga.md:273`
  says that FAILED means not debited.
* `MCPaymentSaga_key.cfg`, `RetryHasKey`. Of two confirms the declined one loads the
  row, the other commits APPROVED with its `paymentKey`, and the first writes its old
  copy back, without the key. A refund that then fails leaves CANCEL_FAILED without a
  key, which the scheduler skips; `observability.md:687` looks the key up in that row.
* `MCLoadTest_duplicates.cfg`, `DuplicateFails`. The verdict of scenario 8 asks a counter
  of duplicate reservations that no line increments (line 185), and any number of
  successes is enough (line 530); `scenario8-seat-concurrency.js:23` promises exactly one.

Differences that were met while modelling and need no run to be seen:

* `seat-locking-design.md:253` says that a failed `consumeToken` leaves the row
  PENDING, while the catch block at `ReservationManager.java:140` releases the seat
  and the transaction rolls back.
* `payment-saga.md:303` says that a failed SETNX answers a cached response, while
  `IdempotencyManager.java:60` reports a conflict whatever the value is by then.
* `README.md:13` says that a refund rolls the seat back. Nothing tells booking-app of
  a refund, so a confirmation that was applied but not answered stays;
  `payment-saga.md:278` names this as open.
* `queue-design.md:230` and `:278` let ZREM come before the INSERT, so that a failing
  INSERT loses the place. The code inserts first: a failing ZREM leaves a user with
  both, which `FindToken` (a token is used again) and the next poll repair.
* `queue-design.md:68`, `:337` and `database-cache-design.md:195` say that the queue
  ends with a TTL. No line sets one, so users who leave keep their places, and 101 of
  them at the front keep everybody else waiting. `PollingAdmits` is about users who stay.
* `WaitingRoomService.kt:72` lets rank 100, the 101st user, pass, while the comment
  before it says that those outside the first 100 wait.
* The update to EXPIRED of a late consume is rolled back by the exception that follows
  it (`WaitingRoomInternalService`), so a row that lapsed stays ACTIVE (finding 3).
* `WaitingRoomScheduler.java:27`, if it were called, would ask for the time without the
  `Clock` (Asia/Seoul) that the rest of waitingroom-app uses. The two agree where the JVM
  runs in that zone, as `docker-compose.yml:4` has it; in UTC a row that has lapsed would
  stay nine hours longer.
* Two polls of one user at once may issue two tokens (`WaitingRoomManager.java:35`);
  hence `OneTokenEach` is about users who wait for an answer. A late ZREM of a slow poll
  may remove a place taken later; the next poll finds no rank and queues again.
* Of the k6 scripts. Scenario 10 never increments its counters of duplicate payments and
  cached answers; scenario 11 never calls confirm. Scenario 9 samples its rate of server
  errors on failed steps only. Scenarios 13 and 14 cannot tell the kinds of 503 and 429
  apart: 13 counts a 200 as a right fallback, 14 takes a fallback for a rejection of the
  bulkhead. Scenarios 2 and 3 keep what was seen first per virtual user, and may
  report that there was no recovery which another user saw. The branch for 503 of
  scenario 6 is never reached. Criteria that fail without an explanation are the
  `Unexplained` of each module; `FailIsExplained` says that there are no others.

## 5. Proofs

All theorems hold for every number of seats, requests, threads, users, routes, virtual
users and faults, and for every limit, under the named assumptions of the modules only: the
"nobody" values are not members of the sets, sets of clients and requests are finite
where they are counted, sizes are positive numbers, the kinds of faults are those
listed. Each follows the same way: an invariant `IInv` that implies the property, holds
initially and is kept by every action (a lemma per action). TLC has checked each of
these invariants too, except for those of LoadTest that speak of all sets of labels at
once; of these it checks what the scripts use.

| module | theorem | property |
|---|---|---|
| SeatInventoryProofs | `TypeCorrect`, `OneWinner`, `SeatSoldOnce`, `LoserHasWinner`, `HoldsAreBalanced` | `TypeOK`, `OneWinnerPerVersion`, `SoldOnce`, `ConflictHasWinner`, `HoldsBalance` |
| | `CommandsAreIndivisible` | SeatInventory implements SeatRegister |
| BookingProofs | `TypeCorrect`, `SeatSoldToOne`, `TokenUsedOnce` | `TypeOK`, `NoDoubleSale`, `TokenAdmitsOnce` |
| | `SaleIsFinal`, `DeskIsKept` | without the batch, Booking implements SeatSale and ReservationDesk |
| BookingOwnersProofs | `HoldsAreOwned` | without the batch, `OwnedUntilTrouble` |
| PaymentSagaProofs | `TypeCorrect`, `NeverChargedTwice`, `RefundsAreReal`, `NoSeatForFree` | `TypeOK`, `ChargedOnce`, `RefundedIsReturned`, `ConfirmedWasCharged` |
| | `LedgerAgrees` | when calls may only fail to arrive, `LedgerUntilOverlap` |
| IdempotencyProofs | `TypeCorrect`, `OneAttemptAtATime`, `ReplayOfWhatRan`, `EffectsArePaid` | `TypeOK`, `OneAtATime`, `ReplayIsCurrent`, `RunsOnce` |
| GatewayProofs | `TypeCorrect`, `PermitsNeverLeak`, `RefusedNeverSent`, `FailuresStayOnTheirRoute`, `ProbesSuffice` | `TypeOK`, `PermitsConserved`, `RefusedIsUnsent`, `RoutesAreIsolated`, `HalfOpenDecides` |
| WaitingRoomProofs | `TypeCorrect`, `LimitHolds`, `PatientUserHasOneToken`, `PlacesAreKept` | `TypeOK`, `PermitsPerSecond`, `OneTokenEach`, `PlaceIsKept` |
| | `TokensArePromised` | WaitingRoom implements AdmissionTokens |
| LoadTestProofs | `CountsAlwaysAgree`, `PassIsAlwaysEarned`, `FailIsAlwaysExplained`, `RecoveryAlwaysFollowsLoss` | `CountsAgree`, `PassIsEarned`, `FailIsExplained`, `RecoveryFollowsLoss` |

* *SeatInventory.* A snapshot has the status its command expects as long as the version
  has not moved, a version is left behind by each commit, and SOLD is never left. For
  the refinement this gives that a `Write` finds the status its command expects. For
  the balance (`HoldsCounted`), a commit adds its request to one of two finite sets and
  changes the status accordingly, and no other step touches either.
* *Booking.* Neither the lock nor the row excludes a double sale, as the writes look at
  neither. The invariant follows the one success that concert-app grants per seat
  from the thread that has it (phase "sold") to the row it will write: at most one
  such thread or CONFIRMED row per seat, and SOLD from then on. For tokens: a request
  past `consumeToken` is the only one with its token, which is USED. `SaleIsFinal`
  adds that a command about to commit CANCELLED has released a HOLD, so its row is not
  CONFIRMED, and none can become so while the command has the row locked. `DeskIsKept` maps each step of
  a command to one of ReservationDesk or to none (`DeskInv`: a row is not expired before it
  exists): a thread that has read PENDING for a confirm is what the desk has accepted, and
  what it commits may replace CANCELLED, but never CONFIRMED.
* *Owners.* While nothing has failed and no commands have overlapped (`Undisturbed`), who
  is a holder has a seat on HOLD and is alone with it, each HOLD has a holder, and a
  command finds its row as it was read. A step changes one reservation at most, and a
  seat only together with its holder. The lock is not used: the leases may end at any
  time, as concert-app grants a HOLD to one request only.
* *PaymentSaga.* A thread's write is justified by what it knows (`Knows`): facts about
  the PG, and that the row exists, which are never taken back (`Grows`). Nothing is
  assumed of what the thread has loaded: `Flushed` shows that any old copy may be
  written back without harm to these properties, as they rest on the PG and on
  `uk_reservation_id`, not on the columns that are lost.
* *Ledger.* No write checks the status it replaces, so the table agrees with the PG
  because of what each phase of the one thread that works on a payment implies for both
  sides (`ThreadHas`), up to the columns that it has loaded (`Fresh`). A payment belongs
  to the threads (READY, APPROVED) or to the scheduler (CANCEL_FAILED), never to both, and
  what happens to other payments leaves it alone (`Untouched`). This needs
  `FaultKinds \subseteq {"outage"}`: a lost answer of the PG or a crash does make the two
  disagree, for which `payment-saga.md:274` plans a reconciliation.
* *Idempotency.* A working attempt is the last writer of its key, which is in Redis. A
  repetition is paid for (`EffectsPaid`): a key that is open, and an attempt before its
  effect, have paid for what is settled with a failed call to Redis. An operation that
  throws leaves nothing settled, as nobody was told that it took effect, so its repetition
  is not counted: the client repeats what failed for him. An attempt that is about to
  store its answer is the settled one.
* *Gateway.* `inUse` is the number of exchanges that hold a permit, by the cardinality
  lemmas of FiniteSetTheorems. An answer "busy", "limited" or "open" is given before the
  first try, and a second try is that of a GET. A well service returns only successes, so
  the window of its breaker has no failure and half of it is never reached. In HALF_OPEN,
  free probes, results and calls on their way are at least the probes configured: a call
  turns into a result or, if its client gives up, back into a free probe.
* *WaitingRoom.* The counter of a living key is never behind the permits it has given,
  the one whose EXPIRE is still to come included; a token being saved for a patient user
  means that he has none. The queue is a sequence without repetition, and `InsertAt` and
  `RemoveAt` keep the order of what remains (`Keeps`, with lemmas about the two
  operators), from which `PlaceIsKept` follows for each action. For the refinement each
  row has a number of its own, at most the number of tokens issued (`Numbered`): a number
  is taken once, so a token that has lost its row never has one again.
* *LoadTest.* A count is a sum over a bag, by a fold that takes operators. The induction
  theorems of the library take operators too, so the proofs do without: a property is
  given as a set, and the induction over a finite set is `WFMin` on its subsets
  (`SubsetInduction`). From this come the lemmas on sums: a part counts no more than the
  whole, disjoint parts add up, one more entry adds its repetitions. Each script's table
  of labels then needs no induction. Labels that `Covers` some answers count at least
  those, labels that `Selects` some at most those, and this is kept by every step for all
  labels and causes at once (`AtLeast`, `AtMost`), so that labels which do both count
  exactly. A script with steps needs more: what entered some steps and has not left them
  waits there (`Flow`), so that nothing is counted as done that was not begun. The verdicts
  are arithmetic on such counts: a percentage that holds, a criterion that fails. For
  recoveries, each one counted is in the memory of one virtual user (`Remembers`). The
  assumptions are that the virtual users are finitely many and that sizes are numbers
  (`ScriptsAssumption`).

Model-checked only:

* liveness (`RequestEndsWithoutLock`, `MoneyIsNotKept`, `KeyIsFreed`, `PermitReturns`,
  `PollingAdmits`), since liveness under fairness is beyond the prover. Every safety
  invariant, action property and refinement that a passing run checks is a theorem.

## 6. Not modelled, and why

* Events, schedules, paged queries and accounts: single-row CRUD without interaction.
* Refresh tokens (`AuthService`). One key per user, last writer wins. What happens when
  calls overlap can be read from four lines: of two refreshes with one token both
  succeed, and the loser's new token later fails `matches`, which deletes the key and
  forces a login; a refresh that has matched before a logout stores its token after it.
  Neither is promised otherwise. It shares no state with a sale.
* The filters of the gateway for headers, logs, internal paths and signed tokens: each
  looks at one request, without state that requests share.
* The scenarios 0, 5, 7 and 12 and the archived scripts of the load tests: lists of
  requests with one expected answer each, or no verdict. Reports as JSON, CSV or HTML.
* Header encoding, JWT parsing, error bodies, the estimate of the waiting time:
  conversions no property is about.
* Frontend, the analyzer and infrastructure: no part in a sale.

## 7. Plan

The order was: the seat (what everything rests on), the reservation, the money, the
keys; then the queue and the gateway, which decide who gets there; then the load tests,
which judge the whole. What is left:

* **Refresh tokens**: compare and replace in two calls, with logout in between.
