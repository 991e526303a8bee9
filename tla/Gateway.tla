------------------------------- MODULE Gateway -------------------------------
(***************************************************************************)
(* scg-app: a request on its way through the filters of a route.           *)
(*                                                                         *)
(*   BulkheadFilter -> RequestRateLimiter -> CircuitBreaker -> Retry ->    *)
(*   backend                                                               *)
(*                                                                         *)
(* The bulkhead and the fallback are code of scg-app; the limiter, the     *)
(* breaker and the retry are Spring Cloud Gateway and Resilience4j, as     *)
(* configured in application.yml and Resilience4jConfig.                   *)
(*                                                                         *)
(* A client has one request at a time.  Its exchange holds a permit of the *)
(* bulkhead from its admission until doFinally, which runs after the       *)
(* answer was written, and before the client's next request arrives.       *)
(***************************************************************************)
EXTENDS Naturals, Sequences, FiniteSets

CONSTANTS
    Clients,
    Routes,
    Passes500,          \* routes whose breaker does not list the status 500
    MaxConcurrentCalls, \* permits of the bulkhead, per route
    BurstCapacity,      \* tokens of the limiter, per route; the clients share a key
    SlidingWindow,      \* calls the breaker looks back at
    HalfOpenCalls,      \* calls it lets through in HALF_OPEN
    Retries,
    MaxChanges          \* bound on the number of changes of a backend, per route

ASSUME SizesAssumption ==
    /\ IsFiniteSet(Clients) /\ Routes # {}
    /\ Passes500 \subseteq Routes
    /\ MaxConcurrentCalls \in [Routes -> Nat \ {0}]
    /\ BurstCapacity \in [Routes -> Nat \ {0}]
    /\ SlidingWindow \in Nat \ {0} /\ HalfOpenCalls \in Nat \ {0}
    /\ Retries \in Nat /\ MaxChanges \in [Routes -> Nat]

VARIABLES
    req,        \* req[c]: the last request of client c
    inUse,      \* inUse[r]: permits of the bulkhead of r that are taken
    tokens,     \* tokens[r]: what is left in the limiter's bucket
    breaker,    \* breaker[r]: state, last results (TRUE: failed), free probes
    backend     \* backend[r]: condition of the service, and its changes so far

gatewayVars == <<req, inUse, tokens, breaker, backend>>

Methods == {"GET", "POST"}
Conditions == {"up", "slow", "down"}

\* Where an answer comes from: the service, with 500 where its breaker lets it
\* pass ("error"), the bulkhead ("busy"), the limiter, or the fallback, whose
\* call was not tried ("open") or failed; "timeout": the client gave up.
Answers == {"ok", "error", "busy", "limited", "open", "failed", "timeout"}

\* "admitted": has a permit; "passed": has a token; "calling": the breaker lets
\* it through; "waiting": sent to the backend; "answered": the client has the
\* answer.
Inside == {"admitted", "passed", "calling", "waiting"}
Permitted == {"calling", "waiting"}
Stages == Inside \cup {"none", "answered"}

Exchanges == [stage : Stages, route : Routes, method : Methods, tries : 0 .. Retries,
              sent : Nat, answer : Answers, held : BOOLEAN]
NoRequest == [stage |-> "none", route |-> CHOOSE r \in Routes : TRUE, method |-> "GET",
              tries |-> 0, sent |-> 0, answer |-> "ok", held |-> FALSE]
Breakers == [state : {"CLOSED", "OPEN", "WAITED", "HALF_OPEN"},
             window : Seq(BOOLEAN), probes : Nat]
Closed == [state |-> "CLOSED", window |-> <<>>, probes |-> 0]

TypeOK ==
    /\ req \in [Clients -> Exchanges]
    /\ inUse \in [Routes -> Nat]
    /\ tokens \in [Routes -> Nat]
    /\ breaker \in [Routes -> Breakers]
    /\ backend \in [Routes -> [is : Conditions, changes : Nat]]

GatewayInit ==
    /\ req = [c \in Clients |-> NoRequest]
    /\ inUse = [r \in Routes |-> 0]
    /\ tokens = BurstCapacity
    /\ breaker = [r \in Routes |-> Closed]
    /\ backend = [r \in Routes |-> [is |-> "up", changes |-> 0]]

Route(c) == req[c].route
To(c, stage) == req' = [req EXCEPT ![c].stage = stage]
Answer(c, answer) == req' = [req EXCEPT ![c].stage = "answered", ![c].answer = answer]

-----------------------------------------------------------------------------
(* A new request: BulkheadFilter.                                          *)
Send(c, r, method) ==
    LET Arrives(stage, held) ==
            req' = [req EXCEPT ![c] = [NoRequest EXCEPT !.stage = stage, !.route = r,
                                         !.method = method, !.held = held,
                                         !.answer = "busy"]]
    IN
    /\ req[c].stage = "none"
    /\ \/ /\ inUse[r] < MaxConcurrentCalls[r]
          /\ inUse' = [inUse EXCEPT ![r] = @ + 1]
          /\ Arrives("admitted", TRUE)
       \/ /\ inUse[r] >= MaxConcurrentCalls[r]
          /\ Arrives("answered", FALSE)
          /\ UNCHANGED inUse
    /\ UNCHANGED <<tokens, breaker, backend>>

(* RequestRateLimiter: a token, or 429.                                    *)
Limit(c) ==
    /\ req[c].stage = "admitted"
    /\ \/ /\ tokens[Route(c)] > 0
          /\ tokens' = [tokens EXCEPT ![Route(c)] = @ - 1]
          /\ To(c, "passed")
       \/ /\ tokens[Route(c)] = 0
          /\ Answer(c, "limited")
          /\ UNCHANGED tokens
    /\ UNCHANGED <<inUse, breaker, backend>>

Replenish(r) ==
    /\ tokens[r] < BurstCapacity[r]
    /\ tokens' = [tokens EXCEPT ![r] = @ + 1]
    /\ UNCHANGED <<req, inUse, breaker, backend>>

(* The breaker lets the call through, or the fallback answers.  The first  *)
(* call after waitDurationInOpenState turns OPEN into HALF_OPEN.           *)
Enter(c) ==
    LET r == Route(c)
        b == breaker[r]
    IN
    /\ req[c].stage = "passed"
    /\ \/ b.state = "CLOSED" /\ To(c, "calling") /\ UNCHANGED breaker
       \/ /\ b.state = "WAITED"
          /\ breaker' = [breaker EXCEPT ![r] = [state |-> "HALF_OPEN", window |-> <<>>,
                                                probes |-> HalfOpenCalls - 1]]
          /\ To(c, "calling")
       \/ /\ b.state = "HALF_OPEN" /\ b.probes > 0
          /\ breaker' = [breaker EXCEPT ![r].probes = @ - 1]
          /\ To(c, "calling")
       \/ /\ b.state = "OPEN" \/ (b.state = "HALF_OPEN" /\ b.probes = 0)
          /\ Answer(c, "open")
          /\ UNCHANGED breaker
    /\ UNCHANGED <<inUse, tokens, backend>>

WaitEnds(r) ==
    /\ breaker[r].state = "OPEN"
    /\ breaker' = [breaker EXCEPT ![r].state = "WAITED"]
    /\ UNCHANGED <<req, inUse, tokens, backend>>

\* failureRateThreshold of 50 %.
HalfFailed(window) ==
    2 * Cardinality({i \in DOMAIN window : window[i]}) >= Len(window)

\* The results that count after one more, and how many it takes to decide.
Slid(b, failed) ==
    LET longer == Append(b.window, failed)
    IN  IF b.state = "CLOSED" /\ Len(longer) > SlidingWindow THEN Tail(longer) ELSE longer

Enough(b) == IF b.state = "CLOSED" THEN SlidingWindow ELSE HalfOpenCalls

(* The result of a call counts for the state the breaker is in by then,    *)
(* whichever state let the call through.                                   *)
Recorded(b, failed) ==
    LET window == Slid(b, failed) IN
    CASE b.state \in {"OPEN", "WAITED"} -> b
      [] b.state \in {"CLOSED", "HALF_OPEN"} /\ Len(window) < Enough(b) ->
             [b EXCEPT !.window = window]
      [] b.state \in {"CLOSED", "HALF_OPEN"} /\ Len(window) >= Enough(b) ->
             IF HalfFailed(window) THEN [Closed EXCEPT !.state = "OPEN"]
             ELSE IF b.state = "CLOSED" THEN [b EXCEPT !.window = window]
             ELSE Closed

\* Faulty variant: the breakers of all routes share a name.
RecordEverywhere(c, failed) ==
    breaker' = [r \in Routes |-> Recorded(breaker[r], failed)]

Record(c, failed) ==
    breaker' = [breaker EXCEPT ![Route(c)] = Recorded(@, failed)]

\* A call that the client cancels has no result and gives its probe back.
GiveBack(c) ==
    breaker' = [breaker EXCEPT ![Route(c)].probes =
                   IF breaker[Route(c)].state = "HALF_OPEN" /\ req[c].stage \in Permitted
                   THEN @ + 1 ELSE @]

(* One try: connect and send.                                              *)
Deliver(c) ==
    /\ req[c].stage = "calling"
    /\ backend[Route(c)].is # "down"
    /\ req' = [req EXCEPT ![c].stage = "waiting", ![c].sent = @ + 1]
    /\ UNCHANGED <<inUse, tokens, breaker, backend>>

Returns(c) ==
    /\ req[c].stage = "waiting"
    /\ backend[Route(c)].is = "up"
    /\ \/ Answer(c, "ok")
       \/ Route(c) \in Passes500 /\ Answer(c, "error")
    /\ Record(c, FALSE)
    /\ UNCHANGED <<inUse, tokens, backend>>

\* The connection is refused, or no answer comes in time.
TryFails(c) ==
    \/ req[c].stage = "calling" /\ backend[Route(c)].is = "down"
    \/ req[c].stage = "waiting" /\ backend[Route(c)].is = "slow"

\* Faulty variant: POST is retried too.
RetryAny(c) ==
    /\ TryFails(c)
    /\ req[c].tries < Retries
    /\ req' = [req EXCEPT ![c].stage = "calling", ![c].tries = @ + 1]
    /\ UNCHANGED <<inUse, tokens, breaker, backend>>

\* Faulty variant: the tries are not counted.
RetryForEver(c) ==
    /\ TryFails(c)
    /\ req[c].method = "GET" /\ req[c].tries < Retries
    /\ To(c, "calling")
    /\ UNCHANGED <<inUse, tokens, breaker, backend>>

(* Retry: a GET is tried again.                                            *)
Retry(c) ==
    /\ TryFails(c)
    /\ req[c].method = "GET" /\ req[c].tries < Retries
    /\ req' = [req EXCEPT ![c].stage = "calling", ![c].tries = @ + 1]
    /\ UNCHANGED <<inUse, tokens, breaker, backend>>

(* The last try failed, the connection broke, which is not retried, or the *)
(* breaker's own time limit ended the tries: FallbackController answers.   *)
Fails(c) ==
    /\ \/ TryFails(c) /\ (req[c].method = "GET" => req[c].tries = Retries)
       \/ req[c].stage = "waiting" /\ backend[Route(c)].is \in {"slow", "down"}
    /\ Answer(c, "failed")
    /\ Record(c, TRUE)
    /\ UNCHANGED <<inUse, tokens, backend>>

\* Faulty variant: the probe of a cancelled call is lost.
GivesUpKeepsProbe(c) ==
    /\ req[c].stage \in Inside
    /\ Answer(c, "timeout")
    /\ UNCHANGED <<inUse, tokens, breaker, backend>>

(* The client stops waiting; its exchange is cancelled.                    *)
GivesUp(c) ==
    /\ req[c].stage \in Inside
    /\ Answer(c, "timeout")
    /\ GiveBack(c)
    /\ UNCHANGED <<inUse, tokens, backend>>

\* Faulty variant: the permit is returned on completion only (doOnSuccess).
FinallyOnSuccess(c) ==
    /\ req[c].stage = "answered"
    /\ inUse' = [inUse EXCEPT ![Route(c)] =
                     IF req[c].held /\ req[c].answer # "timeout" THEN @ - 1 ELSE @]
    /\ req' = [req EXCEPT ![c] = NoRequest]
    /\ UNCHANGED <<tokens, breaker, backend>>

\* Faulty variant: a rejected exchange returns a permit, too.
FinallyOfAll(c) ==
    /\ req[c].stage = "answered"
    /\ inUse' = [inUse EXCEPT ![Route(c)] = @ - 1]
    /\ req' = [req EXCEPT ![c] = NoRequest]
    /\ UNCHANGED <<tokens, breaker, backend>>

(* The exchange ends.  doFinally of BulkheadFilter returns the permit, on  *)
(* completion, error and cancellation; a rejected exchange has none.       *)
Finally(c) ==
    /\ req[c].stage = "answered"
    /\ inUse' = [inUse EXCEPT ![Route(c)] = IF req[c].held THEN @ - 1 ELSE @]
    /\ req' = [req EXCEPT ![c] = NoRequest]
    /\ UNCHANGED <<tokens, breaker, backend>>

(* The service behind the route stops, hangs or recovers.                  *)
BackendChanges(r) ==
    /\ backend[r].changes < MaxChanges[r]
    /\ \E condition \in Conditions \ {backend[r].is} :
           backend' = [backend EXCEPT ![r] = [is |-> condition, changes |-> @.changes + 1]]
    /\ UNCHANGED <<req, inUse, tokens, breaker>>

-----------------------------------------------------------------------------
\* What the gateway does with a request that is inside.
Filter(c) ==
    \/ Limit(c) \/ Enter(c) \/ Deliver(c) \/ Returns(c)
    \/ Retry(c) \/ Fails(c) \/ Finally(c)

Surroundings == \E r \in Routes : Replenish(r) \/ WaitEnds(r) \/ BackendChanges(r)

GatewayNext ==
    \/ \E c \in Clients :
           \/ \E r \in Routes, method \in Methods : Send(c, r, method)
           \/ Filter(c) \/ GivesUp(c)
    \/ Surroundings

GatewaySpec == GatewayInit /\ [][GatewayNext]_gatewayVars

(* Each filter goes on or times out.  Clients need not send, nor give up.  *)
FairGatewaySpec == GatewaySpec /\ \A c \in Clients : WF_gatewayVars(Filter(c))

-----------------------------------------------------------------------------
(* Properties.                                                             *)

Holders(r) == {c \in Clients : req[c].held /\ Route(c) = r}

\* Whatever way an exchange ends, its permit comes back once: the permits taken
\* are those of the exchanges in progress, so the bulkhead neither wears out
\* nor lets more calls through than configured (BulkheadFilter.filter).
PermitsConserved ==
    \A r \in Routes :
        /\ inUse[r] = Cardinality(Holders(r))
        /\ inUse[r] <= MaxConcurrentCalls[r]

\* An answer of the bulkhead, the limiter or the open breaker means that the
\* backend never saw the request; a POST is sent once at most, although calls
\* are retried (the order of the filters, methods: GET,HEAD of Retry).
RefusedIsUnsent ==
    \A c \in Clients :
        /\ req[c].answer \in {"busy", "limited", "open"} /\ req[c].stage = "answered"
               => req[c].sent = 0
        /\ req[c].method = "POST" => req[c].sent <= 1

\* A route whose service has always been well never answers with a fallback
\* and keeps its breaker closed, whatever happens to the other routes, to the
\* limiter and to the bulkhead (one breaker per route, outside the retry and
\* inside the limiter).
RoutesAreIsolated ==
    \A r \in Routes :
        backend[r].changes = 0 =>
            /\ breaker[r].state = "CLOSED"
            /\ \A c \in Clients : Route(c) = r /\ req[c].stage = "answered"
                   => req[c].answer \notin {"open", "failed"}

Callers(r) == {c \in Clients : Route(c) = r /\ req[c].stage \in Permitted}

\* A half-open breaker never waits for a result that no call will bring: its
\* free probes, the results so far and the calls on their way suffice to decide,
\* also when clients give up on their probes.
HalfOpenDecides ==
    \A r \in Routes :
        breaker[r].state = "HALF_OPEN" =>
            breaker[r].probes + Len(breaker[r].window) + Cardinality(Callers(r))
                >= HalfOpenCalls

\* A service that hangs keeps no permit for ever (time limits and doFinally).
PermitReturns == \A c \in Clients : req[c].held ~> ~ req[c].held
=============================================================================
