---------------------------- MODULE GatewayProofs ----------------------------
(***************************************************************************)
(* For any number of clients and routes, of any size: permits and probes   *)
(* are conserved, refused requests are not sent, and a route whose service *)
(* is well is not disturbed by the others.                                 *)
(*                                                                         *)
(* Permits and probes are counted: each step moves one client at most, so  *)
(* the sets of those who hold one grow or shrink by that client.           *)
(***************************************************************************)
EXTENDS Gateway, FiniteSetTheorems, TLAPS

\* A client without a request holds nothing, before the first try nothing was
\* sent, and a POST has one try.
Justified(e) ==
    /\ e.stage = "none" => ~ e.held
    /\ e.stage \in {"none", "admitted", "passed"} => e.sent = 0
    /\ e.stage = "calling" /\ e.method = "POST" => e.sent = 0
    /\ e.stage = "answered" /\ e.answer \in {"busy", "limited", "open"} => e.sent = 0
    /\ e.method = "POST" => e.sent <= 1

AllJustified == \A c \in Clients : Justified(req[c])

\* A service that never changed is up, and its breaker has seen no failure.
Undisturbed(b) ==
    /\ b.state = "CLOSED"
    /\ \A i \in DOMAIN b.window : ~ b.window[i]

WellIsClosed ==
    \A r \in Routes :
        backend[r].changes = 0 => backend[r].is = "up" /\ Undisturbed(breaker[r])

IInv ==
    /\ TypeOK /\ AllJustified /\ PermitsConserved
    /\ WellIsClosed /\ RoutesAreIsolated /\ HalfOpenDecides
-----------------------------------------------------------------------------
LEMMA NoRequestType ==
    /\ NoRequest \in Exchanges
    /\ NoRequest.stage = "none" /\ ~ NoRequest.held /\ NoRequest.sent = 0
<1>1. (CHOOSE r \in Routes : TRUE) \in Routes
  BY SizesAssumption
<1> QED
  BY <1>1, SizesAssumption DEF NoRequest, Exchanges, Stages, Inside, Methods, Answers

LEMMA ClosedType == Closed \in Breakers
BY DEF Closed, Breakers

LEMMA InitIInv == GatewayInit => IInv
<1> SUFFICES ASSUME GatewayInit PROVE IInv
  OBVIOUS
<1>1. TypeOK
  BY NoRequestType, ClosedType, SizesAssumption DEF GatewayInit, TypeOK, Conditions, Breakers
<1>2. \A c \in Clients : req[c] = NoRequest
  BY DEF GatewayInit
<1>3. \A r \in Routes : breaker[r] = Closed /\ inUse[r] = 0 /\ backend[r].is = "up"
  BY DEF GatewayInit
<1>4. AllJustified
  BY <1>2, NoRequestType DEF AllJustified, Justified
<1>5. PermitsConserved
  <2> SUFFICES ASSUME NEW r \in Routes
               PROVE  inUse[r] = Cardinality(Holders(r)) /\ inUse[r] <= MaxConcurrentCalls[r]
    BY DEF PermitsConserved
  <2>1. Holders(r) = {}
    BY <1>2, NoRequestType DEF Holders
  <2> QED
    BY <2>1, <1>3, FS_EmptySet, SizesAssumption
<1>6. WellIsClosed /\ RoutesAreIsolated /\ HalfOpenDecides
  BY <1>2, <1>3, NoRequestType
     DEF WellIsClosed, Undisturbed, RoutesAreIsolated, HalfOpenDecides, Closed, Route
<1> QED
  BY <1>1, <1>4, <1>5, <1>6 DEF IInv
-----------------------------------------------------------------------------
(* What each step does.                                                    *)

LEMMA SlidType ==
  ASSUME NEW b \in Breakers, NEW failed \in BOOLEAN
  PROVE  /\ Slid(b, failed) \in Seq(BOOLEAN)
         /\ Len(Slid(b, failed)) \in Nat
         /\ Enough(b) \in Nat \ {0}
         /\ b.state # "CLOSED" => Len(Slid(b, failed)) = Len(b.window) + 1
<1> DEFINE longer == Append(b.window, failed)
<1>1. longer \in Seq(BOOLEAN) /\ longer # <<>> /\ Len(longer) = Len(b.window) + 1
  BY DEF Breakers
<1>2. Slid(b, failed) \in {longer, Tail(longer)} /\ (b.state # "CLOSED" => Slid(b, failed) = longer)
  BY DEF Slid
<1>3. Enough(b) \in Nat \ {0}
  BY SizesAssumption DEF Enough
<1> HIDE DEF longer
<1>4. Tail(longer) \in Seq(BOOLEAN)
  BY <1>1
<1>5. Slid(b, failed) \in Seq(BOOLEAN)
  BY <1>1, <1>2, <1>4
<1> QED
  BY <1>1, <1>2, <1>3, <1>5

\* The three outcomes of a result.
LEMMA RecordedCases ==
  ASSUME NEW b \in Breakers, NEW failed \in BOOLEAN
  PROVE  \/ b.state \in {"OPEN", "WAITED"} /\ Recorded(b, failed) = b
         \/ Recorded(b, failed) = [b EXCEPT !.window = Slid(b, failed)]
         \/ /\ Recorded(b, failed) \in {[Closed EXCEPT !.state = "OPEN"], Closed}
            /\ b.state = "CLOSED" => HalfFailed(Slid(b, failed))
                                     /\ Len(Slid(b, failed)) >= SlidingWindow
<1>1. Len(Slid(b, failed)) < Enough(b) \/ Len(Slid(b, failed)) >= Enough(b)
  BY SlidType
<1>2. CASE b.state \in {"OPEN", "WAITED"}
  BY <1>2 DEF Recorded
<1>3. CASE b.state \in {"CLOSED", "HALF_OPEN"} /\ Len(Slid(b, failed)) < Enough(b)
  <2>1. ~ (Len(Slid(b, failed)) >= Enough(b))
    BY <1>3, SlidType
  <2> QED
    BY <1>3, <2>1 DEF Recorded
<1>4. CASE b.state \in {"CLOSED", "HALF_OPEN"} /\ Len(Slid(b, failed)) >= Enough(b)
  <2>1. ~ (Len(Slid(b, failed)) < Enough(b))
    BY <1>4, SlidType
  <2> QED
    BY <1>4, <2>1 DEF Recorded, Enough
<1> QED
  BY <1>1, <1>2, <1>3, <1>4 DEF Breakers

\* A recorded result keeps the breaker's type.
LEMMA RecordedType ==
  ASSUME NEW b \in Breakers, NEW failed \in BOOLEAN
  PROVE  Recorded(b, failed) \in Breakers
BY RecordedCases, SlidType, ClosedType DEF Breakers

\* While the breaker is half open, a result takes the place of its call.
LEMMA RecordedHalfOpen ==
  ASSUME NEW b \in Breakers, NEW failed \in BOOLEAN,
         Recorded(b, failed).state = "HALF_OPEN"
  PROVE  /\ b.state = "HALF_OPEN"
         /\ Recorded(b, failed).probes = b.probes
         /\ Len(Recorded(b, failed).window) = Len(b.window) + 1
<1>1. Closed.state = "CLOSED"
  BY DEF Closed
<1> QED
  BY <1>1, RecordedCases, SlidType, ClosedType DEF Breakers

\* A success keeps a closed breaker closed that has seen successes only.
LEMMA RecordedWell ==
  ASSUME NEW b \in Breakers, Undisturbed(b)
  PROVE  Undisturbed(Recorded(b, FALSE))
<1> USE DEF Undisturbed
<1> DEFINE longer == Append(b.window, FALSE)
           window == Slid(b, FALSE)
<1>1. /\ longer \in Seq(BOOLEAN) /\ Len(longer) = Len(b.window) + 1
      /\ \A i \in DOMAIN longer : ~ longer[i]
  BY DEF Breakers
<1>2. window \in {longer, Tail(longer)}
  BY DEF Slid
<1> HIDE DEF longer
<1>3. /\ Tail(longer) \in Seq(BOOLEAN)
      /\ \A i \in DOMAIN Tail(longer) : ~ Tail(longer)[i]
  BY <1>1
<1>4. window \in Seq(BOOLEAN) /\ \A i \in DOMAIN window : ~ window[i]
  BY <1>1, <1>2, <1>3
<1> HIDE DEF window
<1>5. Len(window) >= SlidingWindow => ~ HalfFailed(window)
  <2>1. {i \in DOMAIN window : window[i]} = {}
    BY <1>4
  <2>2. Cardinality({i \in DOMAIN window : window[i]}) = 0
    BY <2>1, FS_EmptySet, Zenon
  <2>3. Len(window) \in Nat
    BY <1>4
  <2> QED
    BY <2>2, <2>3, SizesAssumption DEF HalfFailed
<1>6. Recorded(b, FALSE) = [b EXCEPT !.window = window]
  BY <1>5, RecordedCases DEF window
<1> QED
  BY <1>4, <1>6 DEF Breakers

-----------------------------------------------------------------------------
(* Types.                                                                  *)

\* What a step of client c does to the requests: to those of others nothing.
LEMMA OthersStay ==
  ASSUME TypeOK, NEW c \in Clients,
         \/ \E r \in Routes, method \in Methods : Send(c, r, method)
         \/ Filter(c) \/ GivesUp(c)
  PROVE  \A d \in Clients : d # c => req'[d] = req[d]
BY DEF TypeOK, Send, Filter, Limit, Enter, Deliver, Returns, Retry, Fails, Finally, GivesUp,
   To, Answer

LEMMA StageNames ==
    /\ {"none", "answered", "admitted", "passed", "calling", "waiting"} \subseteq Stages
    /\ Answers = {"ok", "error", "busy", "limited", "open", "failed", "timeout"}
BY DEF Stages, Inside, Answers

LEMMA RouteType == TypeOK => \A c \in Clients : Route(c) \in Routes /\ req[c] \in Exchanges
BY DEF TypeOK, Exchanges, Route

\* What a step makes of the request of its client.
LEMMA ToValue ==
  ASSUME TypeOK, NEW c \in Clients, NEW stage, To(c, stage)
  PROVE  /\ req'[c].stage = stage
         /\ req'[c].route = req[c].route /\ req'[c].method = req[c].method
         /\ req'[c].sent = req[c].sent /\ req'[c].held = req[c].held
<1>1. req'[c] = [req[c] EXCEPT !.stage = stage] /\ req[c] \in Exchanges
  BY DEF TypeOK, To
<1> QED
  BY <1>1 DEF Exchanges

LEMMA AnswerValue ==
  ASSUME TypeOK, NEW c \in Clients, NEW answer, Answer(c, answer)
  PROVE  /\ req'[c].stage = "answered" /\ req'[c].answer = answer
         /\ req'[c].route = req[c].route /\ req'[c].method = req[c].method
         /\ req'[c].sent = req[c].sent /\ req'[c].held = req[c].held
<1>1. /\ req'[c] = [req[c] EXCEPT !.stage = "answered", !.answer = answer]
      /\ req[c] \in Exchanges
  BY DEF TypeOK, Answer
<1> QED
  BY <1>1 DEF Exchanges

LEMMA SendValue ==
  ASSUME TypeOK, NEW c \in Clients, NEW r \in Routes, NEW method \in Methods, Send(c, r, method)
  PROVE  /\ req[c].stage = "none" /\ req'[c].route = r
         /\ req'[c].stage \in {"admitted", "answered"} /\ req'[c].answer = "busy"
         /\ req'[c].sent = 0
         /\ \/ /\ req'[c].held /\ inUse[r] < MaxConcurrentCalls[r]
               /\ inUse' = [inUse EXCEPT ![r] = @ + 1]
            \/ ~ req'[c].held /\ inUse' = inUse
<1>1. \E stage \in {"admitted", "answered"}, held \in BOOLEAN :
         /\ req'[c] = [NoRequest EXCEPT !.stage = stage, !.route = r, !.method = method,
                                        !.held = held, !.answer = "busy"]
         /\ IF held THEN inUse[r] < MaxConcurrentCalls[r] /\ inUse' = [inUse EXCEPT ![r] = @ + 1]
                    ELSE inUse' = inUse
  BY DEF TypeOK, Send
<1> QED
  BY <1>1, NoRequestType DEF Exchanges, Send

LEMMA FinallyValue ==
  ASSUME TypeOK, NEW c \in Clients, Finally(c)
  PROVE  req[c].stage = "answered" /\ req'[c] = NoRequest
BY DEF TypeOK, Finally

\* Between its admission and its end a request keeps its route, method and permit.
LEMMA InsideValue ==
  ASSUME TypeOK, NEW c \in Clients,
         Limit(c) \/ Enter(c) \/ Deliver(c) \/ Returns(c) \/ Retry(c) \/ Fails(c) \/ GivesUp(c)
  PROVE  /\ req'[c].held = req[c].held /\ req'[c].route = req[c].route
         /\ inUse' = inUse
<1>2. ASSUME NEW stage, To(c, stage)
      PROVE  req'[c].held = req[c].held /\ req'[c].route = req[c].route
  BY <1>2, ToValue
<1>3. ASSUME NEW answer, Answer(c, answer)
      PROVE  req'[c].held = req[c].held /\ req'[c].route = req[c].route
  BY <1>3, AnswerValue
<1>4. CASE Limit(c)
  BY <1>2, <1>3, <1>4 DEF Limit
<1>5. CASE Enter(c)
  BY <1>2, <1>3, <1>5 DEF Enter
<1>6. CASE Deliver(c)
  BY <1>6 DEF Deliver, TypeOK, Exchanges
<1>7. CASE Returns(c)
  BY <1>3, <1>7 DEF Returns
<1>8. CASE Retry(c)
  BY <1>8 DEF Retry, TypeOK, Exchanges
<1>9. CASE Fails(c)
  BY <1>3, <1>9 DEF Fails
<1>10. CASE GivesUp(c)
  BY <1>3, <1>10 DEF GivesUp
<1> QED
  BY <1>4, <1>5, <1>6, <1>7, <1>8, <1>9, <1>10

LEMMA ToType ==
  ASSUME TypeOK, NEW c \in Clients, NEW stage \in Stages, To(c, stage)
  PROVE  req' \in [Clients -> Exchanges]
BY DEF TypeOK, Exchanges, To

LEMMA AnswerType ==
  ASSUME TypeOK, NEW c \in Clients, NEW answer \in Answers, Answer(c, answer)
  PROVE  req' \in [Clients -> Exchanges]
<1>1. "answered" \in Stages
  BY StageNames
<1> QED
  BY <1>1 DEF TypeOK, Exchanges, Answer

LEMMA RecordType ==
  ASSUME TypeOK, NEW c \in Clients, NEW failed \in BOOLEAN, Record(c, failed)
  PROVE  breaker' \in [Routes -> Breakers]
<1>1. Route(c) \in Routes /\ breaker[Route(c)] \in Breakers
  BY DEF TypeOK, Route, Exchanges
<1>2. Recorded(breaker[Route(c)], failed) \in Breakers
  BY <1>1, RecordedType
<1> QED
  BY <1>1, <1>2 DEF Record, TypeOK

LEMMA TypeStep ==
  ASSUME IInv, [GatewayNext]_gatewayVars
  PROVE  TypeOK'
<1> USE DEF IInv
<1>1. ASSUME NEW c \in Clients, NEW r \in Routes, NEW method \in Methods, Send(c, r, method)
      PROVE  TypeOK'
  <2>1. req' \in [Clients -> Exchanges]
    <3>1. ASSUME NEW stage \in Stages, NEW held \in BOOLEAN
          PROVE  [NoRequest EXCEPT !.stage = stage, !.route = r, !.method = method,
                                   !.held = held, !.answer = "busy"] \in Exchanges
      BY NoRequestType, StageNames DEF Exchanges
    <3> QED
      BY <1>1, <3>1, StageNames DEF Send, TypeOK
  <2> QED
    BY <1>1, <2>1, SizesAssumption DEF Send, TypeOK
<1>2. ASSUME NEW c \in Clients, Limit(c)  PROVE TypeOK'
  <2>1. req' \in [Clients -> Exchanges]
    BY <1>2, ToType, AnswerType, StageNames DEF Limit
  <2> QED
    BY <1>2, <2>1, RouteType DEF Limit, TypeOK
<1>3. ASSUME NEW c \in Clients, Enter(c)  PROVE TypeOK'
  <2>1. req' \in [Clients -> Exchanges]
    BY <1>3, ToType, AnswerType, StageNames DEF Enter
  <2>2. breaker' \in [Routes -> Breakers]
    <3> DEFINE r == Route(c)
               fresh == [state |-> "HALF_OPEN", window |-> <<>>, probes |-> HalfOpenCalls - 1]
    <3>1. r \in Routes /\ breaker[r] \in Breakers
      BY RouteType DEF TypeOK
    <3>2. fresh \in Breakers
      BY SizesAssumption DEF Breakers
    <3>3. breaker[r].probes > 0 => [breaker[r] EXCEPT !.probes = @ - 1] \in Breakers
      BY <3>1 DEF Breakers
    <3>4. \/ breaker' = breaker \/ breaker' = [breaker EXCEPT ![r] = fresh]
          \/ /\ breaker[r].probes > 0
             /\ breaker' = [breaker EXCEPT ![r] = [breaker[r] EXCEPT !.probes = @ - 1]]
      BY <1>3 DEF Enter
    <3> HIDE DEF r, fresh
    <3> QED
      BY <3>1, <3>2, <3>3, <3>4 DEF TypeOK
  <2> QED
    BY <1>3, <2>1, <2>2 DEF Enter, TypeOK
<1>4. ASSUME NEW c \in Clients, Deliver(c)  PROVE TypeOK'
  BY <1>4 DEF Deliver, TypeOK, Exchanges, Stages, Inside
<1>5. ASSUME NEW c \in Clients, Returns(c)  PROVE TypeOK'
  <2>1. breaker' \in [Routes -> Breakers]
    BY <1>5, RecordType DEF Returns
  <2> QED
    BY <1>5, <2>1, AnswerType, StageNames DEF Returns, TypeOK
<1>6. ASSUME NEW c \in Clients, Retry(c)  PROVE TypeOK'
  BY <1>6, SizesAssumption DEF Retry, TypeOK, Exchanges, Stages, Inside
<1>7. ASSUME NEW c \in Clients, Fails(c)  PROVE TypeOK'
  <2>1. breaker' \in [Routes -> Breakers]
    BY <1>7, RecordType DEF Fails
  <2> QED
    BY <1>7, <2>1, AnswerType, StageNames DEF Fails, TypeOK
<1>8. ASSUME NEW c \in Clients, GivesUp(c)  PROVE TypeOK'
  <2> DEFINE r == Route(c)
  <2>1. r \in Routes /\ breaker[r] \in Breakers
    BY RouteType DEF TypeOK
  <2>2. [breaker[r] EXCEPT !.probes = @ + 1] \in Breakers
    BY <2>1 DEF Breakers
  <2>3. breaker' = breaker \/ breaker' = [breaker EXCEPT ![r] = [breaker[r] EXCEPT !.probes = @ + 1]]
    BY <1>8, <2>1 DEF GivesUp, GiveBack, TypeOK, Breakers
  <2>4. breaker' \in [Routes -> Breakers]
    BY <2>1, <2>2, <2>3 DEF TypeOK
  <2> QED
    BY <1>8, <2>4, AnswerType, StageNames DEF GivesUp, TypeOK
<1>9. ASSUME NEW c \in Clients, Finally(c)  PROVE TypeOK'
  <2> DEFINE r == Route(c)
  <2>1. r \in Routes
    BY DEF TypeOK, Exchanges, Route
  <2>2. req[c].held => inUse[r] # 0
    <3>1. IsFiniteSet(Holders(r))
      BY FS_Subset, SizesAssumption DEF Holders
    <3>2. req[c].held => c \in Holders(r)
      BY DEF Holders
    <3>3. inUse[r] = 0 => Holders(r) = {}
      BY <2>1, <3>1, FS_EmptySet DEF PermitsConserved
    <3> QED
      BY <3>2, <3>3
  <2>3. inUse' \in [Routes -> Nat]
    <3>1. inUse[r] \in Nat /\ (req[c].held => inUse[r] - 1 \in Nat)
      BY <2>1, <2>2 DEF TypeOK
    <3> QED
      BY <1>9, <2>1, <3>1 DEF Finally, TypeOK
  <2>4. req' \in [Clients -> Exchanges]
    BY <1>9, NoRequestType DEF Finally, TypeOK
  <2> QED
    BY <1>9, <2>3, <2>4 DEF Finally, TypeOK
<1>10. ASSUME Surroundings  PROVE TypeOK'
  <2>1. ASSUME NEW r \in Routes, Replenish(r)  PROVE TypeOK'
    BY <2>1 DEF Replenish, TypeOK
  <2>2. ASSUME NEW r \in Routes, WaitEnds(r)  PROVE TypeOK'
    BY <2>2 DEF WaitEnds, TypeOK, Breakers
  <2>3. ASSUME NEW r \in Routes, BackendChanges(r)  PROVE TypeOK'
    BY <2>3 DEF BackendChanges, TypeOK
  <2> QED
    BY <1>10, <2>1, <2>2, <2>3 DEF Surroundings
<1>11. CASE UNCHANGED gatewayVars
  BY <1>11 DEF gatewayVars, TypeOK
<1> QED
  BY <1>1, <1>2, <1>3, <1>4, <1>5, <1>6, <1>7, <1>8, <1>9, <1>10, <1>11
     DEF GatewayNext, Filter

-----------------------------------------------------------------------------
(* What was sent.                                                          *)

LEMMA JustifiedStep ==
  ASSUME IInv, [GatewayNext]_gatewayVars
  PROVE  AllJustified'
<1> USE DEF IInv
<1>1. ASSUME NEW c \in Clients,
             \/ \E r \in Routes, method \in Methods : Send(c, r, method)
             \/ Filter(c) \/ GivesUp(c)
      PROVE  AllJustified'
  <2> SUFFICES Justified(req'[c])
    BY <1>1, OthersStay DEF AllJustified
  <2>1. req[c] \in Exchanges /\ Justified(req[c])
    BY DEF TypeOK, AllJustified
  <2> USE DEF Justified
  <2>2. ASSUME NEW r \in Routes, NEW method \in Methods, Send(c, r, method)
        PROVE  Justified(req'[c])
    BY <2>2, SendValue, NoRequestType
  <2>3. CASE Limit(c)
    <3>1. req[c].stage = "admitted" /\ (To(c, "passed") \/ Answer(c, "limited"))
      BY <2>3 DEF Limit
    <3> QED
      BY <2>1, <3>1, ToValue, AnswerValue
  <2>4. CASE Enter(c)
    <3>1. req[c].stage = "passed" /\ (To(c, "calling") \/ Answer(c, "open"))
      BY <2>4 DEF Enter
    <3> QED
      BY <2>1, <3>1, ToValue, AnswerValue
  <2>5. CASE Deliver(c)
    <3>1. /\ req[c].stage = "calling"
          /\ req'[c] = [req[c] EXCEPT !.stage = "waiting", !.sent = @ + 1]
      BY <2>5 DEF Deliver, TypeOK
    <3> QED
      BY <2>1, <3>1 DEF Exchanges
  <2>6. CASE Returns(c)
    <3>1. Answer(c, "ok") \/ Answer(c, "error")
      BY <2>6 DEF Returns
    <3> QED
      BY <2>1, <3>1, AnswerValue
  <2>7. CASE Retry(c)
    <3>1. /\ req[c].method = "GET"
          /\ req'[c] = [req[c] EXCEPT !.stage = "calling", !.tries = @ + 1]
      BY <2>7 DEF Retry, TypeOK
    <3> QED
      BY <2>1, <3>1 DEF Exchanges
  <2>8. CASE Fails(c)
    <3>1. Answer(c, "failed")
      BY <2>8 DEF Fails
    <3> QED
      BY <2>1, <3>1, AnswerValue
  <2>9. CASE Finally(c)
    BY <2>9, FinallyValue, NoRequestType
  <2>10. CASE GivesUp(c)
    <3>1. Answer(c, "timeout")
      BY <2>10 DEF GivesUp
    <3> QED
      BY <2>1, <3>1, AnswerValue
  <2> QED
    BY <1>1, <2>2, <2>3, <2>4, <2>5, <2>6, <2>7, <2>8, <2>9, <2>10 DEF Filter
<1>2. CASE Surroundings \/ UNCHANGED gatewayVars
  BY <1>2 DEF Surroundings, Replenish, WaitEnds, BackendChanges, gatewayVars, AllJustified
<1> QED
  BY <1>1, <1>2 DEF GatewayNext
-----------------------------------------------------------------------------
(* Permits.                                                                *)

\* A step in which nobody gets or returns a permit.
LEMMA PermitsStay ==
  ASSUME PermitsConserved, inUse' = inUse,
         \A c \in Clients : (req'[c].held <=> req[c].held)
                            /\ (req[c].held => req'[c].route = req[c].route)
  PROVE  PermitsConserved'
<1>1. \A r \in Routes : Holders(r)' = Holders(r)
  BY DEF Holders, Route
<1> QED
  BY <1>1 DEF PermitsConserved

LEMMA PermitStep ==
  ASSUME IInv, [GatewayNext]_gatewayVars
  PROVE  PermitsConserved'
<1> USE DEF IInv
<1>0. \A r \in Routes : IsFiniteSet(Holders(r)) /\ inUse[r] \in Nat
  BY FS_Subset, SizesAssumption DEF Holders, TypeOK
<1>1. ASSUME NEW c \in Clients, NEW r \in Routes, NEW method \in Methods, Send(c, r, method)
      PROVE  PermitsConserved'
  <2>1. \A d \in Clients : d # c => req'[d] = req[d]
    BY <1>1, OthersStay
  <2>2. ~ req[c].held
    BY <1>1 DEF Send, AllJustified, Justified
  <2>3. CASE inUse[r] < MaxConcurrentCalls[r] /\ inUse' = [inUse EXCEPT ![r] = @ + 1]
             /\ req'[c].held /\ req'[c].route = r
    <3>1. Holders(r)' = Holders(r) \cup {c} /\ c \notin Holders(r)
      BY <2>1, <2>2, <2>3 DEF Holders, Route
    <3>2. \A q \in Routes : q # r => Holders(q)' = Holders(q)
      BY <2>1, <2>2, <2>3 DEF Holders, Route
    <3>3. Cardinality(Holders(r)') = Cardinality(Holders(r)) + 1
      BY <3>1, <1>0, FS_AddElement
    <3>4. inUse'[r] = inUse[r] + 1 /\ \A q \in Routes : q # r => inUse'[q] = inUse[q]
      BY <2>3 DEF TypeOK
    <3> QED
      <4>1. inUse'[r] <= MaxConcurrentCalls[r]
        BY <2>3, <3>4, <1>0, SizesAssumption
      <4> QED
        BY <3>2, <3>3, <3>4, <4>1 DEF PermitsConserved
  <2>4. CASE inUse' = inUse /\ ~ req'[c].held
    BY <2>1, <2>2, <2>4, PermitsStay
  <2> QED
    BY <1>1, <2>3, <2>4, SendValue
<1>2. ASSUME NEW c \in Clients, Finally(c)
      PROVE  PermitsConserved'
  <2>1. PICK r \in Routes : r = Route(c)
    BY RouteType
  <2>2. /\ \A d \in Clients : d # c => req'[d] = req[d]
        /\ ~ req'[c].held
    BY <1>2, NoRequestType, FinallyValue, OthersStay DEF Filter
  <2>3. CASE req[c].held
    <3>1. Holders(r)' = Holders(r) \ {c} /\ c \in Holders(r)
      BY <2>1, <2>2, <2>3 DEF Holders, Route
    <3>2. \A q \in Routes : q # r => Holders(q)' = Holders(q)
      BY <2>1, <2>2 DEF Holders, Route
    <3>3. Cardinality(Holders(r)') = Cardinality(Holders(r)) - 1
      BY <2>1, <3>1, <1>0, FS_RemoveElement
    <3>4. inUse'[r] = inUse[r] - 1 /\ \A q \in Routes : q # r => inUse'[q] = inUse[q]
      BY <1>2, <2>1, <2>3 DEF Finally, TypeOK
    <3>5. inUse'[r] <= MaxConcurrentCalls[r]
      BY <2>1, <3>4, <1>0, SizesAssumption DEF PermitsConserved
    <3> QED
      BY <2>1, <3>2, <3>3, <3>4, <3>5 DEF PermitsConserved
  <2>4. CASE ~ req[c].held
    <3>1. inUse' = inUse
      BY <1>2, <2>4, <2>1 DEF Finally, TypeOK
    <3> QED
      BY <2>2, <2>4, <3>1, PermitsStay
  <2> QED
    BY <2>3, <2>4
<1>3. ASSUME NEW c \in Clients,
             Limit(c) \/ Enter(c) \/ Deliver(c) \/ Returns(c) \/ Retry(c) \/ Fails(c) \/ GivesUp(c)
      PROVE  PermitsConserved'
  <2>1. /\ inUse' = inUse
        /\ req'[c].held = req[c].held /\ req'[c].route = req[c].route
    BY <1>3, InsideValue
  <2>2. \A d \in Clients : d # c => req'[d] = req[d]
    BY <1>3, OthersStay DEF Filter
  <2> QED
    BY <2>1, <2>2, PermitsStay
<1>4. CASE Surroundings \/ UNCHANGED gatewayVars
  <2>1. inUse' = inUse /\ req' = req
    BY <1>4 DEF Surroundings, Replenish, WaitEnds, BackendChanges, gatewayVars
  <2> QED
    BY <2>1, PermitsStay
<1> QED
  BY <1>1, <1>2, <1>3, <1>4 DEF GatewayNext, Filter

-----------------------------------------------------------------------------
(* A route whose service is well.                                          *)

\* A step of client c that leaves the breakers of well routes undisturbed, and
\* does not answer their requests with a fallback.
LEMMA IsolatedMove ==
  ASSUME WellIsClosed, RoutesAreIsolated, NEW c \in Clients, backend' = backend,
         \A d \in Clients : d # c => req'[d] = req[d],
         \A r \in Routes : backend[r].changes = 0 => Undisturbed(breaker'[r]),
         req'[c].stage = "answered" /\ backend[req'[c].route].changes = 0
             => req'[c].answer \notin {"open", "failed"}
  PROVE  WellIsClosed' /\ RoutesAreIsolated'
BY DEF WellIsClosed, RoutesAreIsolated, Undisturbed, Route

LEMMA IsolatedStep ==
  ASSUME IInv, [GatewayNext]_gatewayVars
  PROVE  WellIsClosed' /\ RoutesAreIsolated'
<1> USE DEF IInv
<1>1. ASSUME NEW c \in Clients,
             \/ \E r \in Routes, method \in Methods : Send(c, r, method)
             \/ Filter(c) \/ GivesUp(c)
      PROVE  WellIsClosed' /\ RoutesAreIsolated'
  <2>1. PICK r \in Routes : r = Route(c)
    BY RouteType
  <2>2. /\ \A d \in Clients : d # c => req'[d] = req[d]
        /\ \A q \in Routes : backend[q].changes = 0 => Undisturbed(breaker[q])
        /\ backend[r].changes = 0 => backend[r].is = "up"
        /\ breaker[r] \in Breakers
    BY <1>1, <2>1, OthersStay DEF WellIsClosed, TypeOK
  <2>3. CASE \E q \in Routes, method \in Methods : Send(c, q, method)
    <3>1. backend' = backend /\ breaker' = breaker
      BY <2>3 DEF Send
    <3>2. req'[c].answer = "busy"
      BY <2>3, SendValue
    <3> QED
      BY <2>2, <3>1, <3>2, IsolatedMove
  <2>4. CASE Limit(c)
    <3>1. /\ backend' = backend /\ breaker' = breaker
          /\ To(c, "passed") \/ Answer(c, "limited")
      BY <2>4 DEF Limit
    <3>2. req'[c].stage = "passed" \/ req'[c].answer = "limited"
      BY <3>1, ToValue, AnswerValue
    <3> QED
      BY <2>2, <3>1, <3>2, IsolatedMove
  <2>5. CASE Enter(c)
    <3>1. CASE backend[r].changes = 0
      <4>1. backend' = backend /\ breaker' = breaker /\ To(c, "calling")
        BY <2>1, <2>2, <2>5, <3>1 DEF Enter, Undisturbed
      <4>2. req'[c].stage = "calling"
        BY <4>1, ToValue
      <4> QED
        BY <2>2, <4>1, <4>2, IsolatedMove
    <3>2. CASE backend[r].changes # 0
      <4>1. backend' = backend /\ \A q \in Routes : q # r => breaker'[q] = breaker[q]
        BY <2>1, <2>5 DEF Enter, TypeOK
      <4>2. req'[c].route = r
        BY <2>1, <2>5, InsideValue DEF Route
      <4> QED
        BY <2>2, <3>2, <4>1, <4>2, IsolatedMove
    <3> QED
      BY <3>1, <3>2
  <2>6. CASE Deliver(c) \/ Retry(c)
    <3>1. /\ backend' = backend /\ breaker' = breaker
          /\ req'[c].stage # "answered"
      BY <2>6 DEF Deliver, Retry, TypeOK, Exchanges
    <3> QED
      BY <2>2, <3>1, IsolatedMove
  <2>7. CASE Returns(c)
    <3>1. /\ backend' = backend /\ (Answer(c, "ok") \/ Answer(c, "error"))
          /\ \A q \in Routes : q # r => breaker'[q] = breaker[q]
          /\ breaker'[r] = Recorded(breaker[r], FALSE)
      BY <2>1, <2>7 DEF Returns, Record, TypeOK
    <3>2. req'[c].answer \in {"ok", "error"} /\ backend' = backend
      BY <2>7, <3>1, AnswerValue DEF Returns
    <3>3. backend[r].changes = 0 => Undisturbed(breaker'[r])
      BY <2>2, <3>1, RecordedWell
    <3> QED
      BY <2>2, <3>1, <3>2, <3>3, IsolatedMove
  <2>8. CASE Fails(c)
    <3>1. backend[r].changes # 0
      BY <2>1, <2>2, <2>8 DEF Fails, TryFails
    <3>2. backend' = backend /\ \A q \in Routes : q # r => breaker'[q] = breaker[q]
      BY <2>1, <2>8 DEF Fails, Record, TypeOK
    <3>3. req'[c].route = r
      BY <2>1, <2>8, InsideValue DEF Route
    <3> QED
      BY <2>2, <3>1, <3>2, <3>3, IsolatedMove
  <2>9. CASE GivesUp(c)
    <3>1. backend' = backend /\ Answer(c, "timeout")
      BY <2>9 DEF GivesUp
    <3>2. \A q \in Routes : /\ breaker'[q].state = breaker[q].state
                            /\ breaker'[q].window = breaker[q].window
      BY <2>1, <2>9 DEF GivesUp, GiveBack, TypeOK, Breakers
    <3>3. req'[c].answer = "timeout"
      BY <3>1, AnswerValue
    <3> QED
      BY <2>2, <3>1, <3>2, <3>3, IsolatedMove DEF Undisturbed
  <2>10. CASE Finally(c)
    <3>1. backend' = backend /\ breaker' = breaker /\ req'[c].stage = "none"
      BY <2>10, FinallyValue, NoRequestType DEF Finally
    <3> QED
      BY <2>2, <3>1, IsolatedMove
  <2> QED
    BY <1>1, <2>3, <2>4, <2>5, <2>6, <2>7, <2>8, <2>9, <2>10 DEF Filter
<1>2. ASSUME NEW r \in Routes, Replenish(r) \/ WaitEnds(r) \/ BackendChanges(r)
      PROVE  WellIsClosed' /\ RoutesAreIsolated'
  <2>1. CASE Replenish(r)
    BY <2>1 DEF Replenish, WellIsClosed, RoutesAreIsolated, Route
  <2>2. CASE WaitEnds(r)
    <3>1. backend[r].changes # 0
      BY <2>2 DEF WaitEnds, WellIsClosed, Undisturbed
    <3>2. \A q \in Routes : q # r => breaker'[q] = breaker[q]
      BY <2>2 DEF WaitEnds, TypeOK
    <3> QED
      BY <2>2, <3>1, <3>2 DEF WaitEnds, WellIsClosed, RoutesAreIsolated, Route
  <2>3. CASE BackendChanges(r)
    <3>1. \A q \in Routes : q # r => backend'[q] = backend[q]
      BY <2>3 DEF BackendChanges, TypeOK
    <3>2. backend'[r].changes # 0
      BY <2>3 DEF BackendChanges, TypeOK
    <3> QED
      BY <2>3, <3>1, <3>2 DEF BackendChanges, WellIsClosed, RoutesAreIsolated, Route
  <2> QED
    BY <1>2, <2>1, <2>2, <2>3
<1>3. CASE UNCHANGED gatewayVars
  BY <1>3 DEF gatewayVars, WellIsClosed, RoutesAreIsolated, Route
<1> QED
  BY <1>1, <1>2, <1>3 DEF GatewayNext, Surroundings
-----------------------------------------------------------------------------
(* Probes.                                                                 *)

\* A step in which nobody gets or uses a permission of a breaker.
LEMMA ProbesStay ==
  ASSUME HalfOpenDecides, breaker' = breaker,
         \A c \in Clients : (req'[c].stage \in Permitted <=> req[c].stage \in Permitted)
                            /\ (req[c].stage \in Permitted => req'[c].route = req[c].route)
  PROVE  HalfOpenDecides'
<1>1. \A r \in Routes : Callers(r)' = Callers(r)
  BY DEF Callers, Route
<1> QED
  BY <1>1 DEF HalfOpenDecides

\* The callers of a route when c becomes one, or is one no longer.
LEMMA CallersMove ==
  ASSUME TypeOK, NEW c \in Clients, NEW r \in Routes, r = Route(c), req'[c].route = r,
         \A d \in Clients : d # c => req'[d] = req[d]
  PROVE  /\ \A q \in Routes : q # r => Callers(q)' = Callers(q)
         /\ \A q \in Routes : Cardinality(Callers(q)) \in Nat
         /\ req[c].stage \notin Permitted /\ req'[c].stage \in Permitted
                => Cardinality(Callers(r)') = Cardinality(Callers(r)) + 1
         /\ req[c].stage \in Permitted /\ req'[c].stage \notin Permitted
                => Cardinality(Callers(r)') = Cardinality(Callers(r)) - 1
<1>1. \A q \in Routes : IsFiniteSet(Callers(q))
  BY FS_Subset, SizesAssumption DEF Callers
<1>2. \A q \in Routes : q # r => Callers(q)' = Callers(q)
  BY DEF Callers, Route
<1>3. \A q \in Routes : Cardinality(Callers(q)) \in Nat
  BY <1>1, FS_CardinalityType
<1>4. ASSUME req[c].stage \notin Permitted, req'[c].stage \in Permitted
      PROVE  Cardinality(Callers(r)') = Cardinality(Callers(r)) + 1
  <2>1. Callers(r)' = Callers(r) \cup {c} /\ c \notin Callers(r)
    BY <1>4 DEF Callers, Route
  <2> QED
    BY <1>1, <2>1, FS_AddElement
<1>5. ASSUME req[c].stage \in Permitted, req'[c].stage \notin Permitted
      PROVE  Cardinality(Callers(r)') = Cardinality(Callers(r)) - 1
  <2>1. Callers(r)' = Callers(r) \ {c} /\ c \in Callers(r)
    BY <1>5 DEF Callers, Route
  <2> QED
    BY <1>1, <2>1, FS_RemoveElement
<1> QED
  BY <1>2, <1>3, <1>4, <1>5

\* A call that ends leaves its result, or gives its probe back.
LEMMA ProbesMove ==
  ASSUME IInv, NEW c \in Clients, NEW r \in Routes, r = Route(c), req'[c].route = r,
         \A d \in Clients : d # c => req'[d] = req[d],
         req[c].stage \in Permitted, req'[c].stage = "answered",
         \A q \in Routes : q # r => breaker'[q] = breaker[q],
         breaker'[r].state = "HALF_OPEN" =>
             /\ breaker[r].state = "HALF_OPEN"
             /\ breaker'[r].probes + Len(breaker'[r].window)
                    = breaker[r].probes + Len(breaker[r].window) + 1
  PROVE  HalfOpenDecides'
<1> USE DEF IInv
<1>1. /\ \A q \in Routes : q # r => Callers(q)' = Callers(q)
      /\ Cardinality(Callers(r)) \in Nat
      /\ Cardinality(Callers(r)') = Cardinality(Callers(r)) - 1
  BY CallersMove DEF Permitted
<1>2. breaker[r].probes \in Nat /\ Len(breaker[r].window) \in Nat
  BY DEF TypeOK, Breakers
<1>3. HalfOpenCalls \in Nat
  BY SizesAssumption
<1>4. ASSUME NEW q \in Routes, q # r, breaker'[q].state = "HALF_OPEN"
      PROVE  breaker'[q].probes + Len(breaker'[q].window) + Cardinality(Callers(q)')
                 >= HalfOpenCalls
  BY <1>1, <1>4 DEF HalfOpenDecides
<1>5. ASSUME breaker'[r].state = "HALF_OPEN"
      PROVE  breaker'[r].probes + Len(breaker'[r].window) + Cardinality(Callers(r)')
                 >= HalfOpenCalls
  <2>1. breaker[r].probes + Len(breaker[r].window) + Cardinality(Callers(r)) >= HalfOpenCalls
    BY <1>5 DEF HalfOpenDecides
  <2> QED
    BY <1>1, <1>2, <1>3, <1>5, <2>1
<1> QED
  BY <1>4, <1>5 DEF HalfOpenDecides

LEMMA ProbeStep ==
  ASSUME IInv, [GatewayNext]_gatewayVars
  PROVE  HalfOpenDecides'
<1> USE DEF IInv
<1>1. ASSUME NEW c \in Clients, NEW q \in Routes, NEW method \in Methods, Send(c, q, method)
      PROVE  HalfOpenDecides'
  <2>1. breaker' = breaker /\ \A d \in Clients : d # c => req'[d] = req[d]
    BY <1>1, OthersStay DEF Send
  <2>2. req[c].stage \notin Permitted /\ req'[c].stage \notin Permitted
    BY <1>1, SendValue DEF Permitted
  <2> QED
    BY <2>1, <2>2, ProbesStay
<1>2. ASSUME NEW c \in Clients, Filter(c) \/ GivesUp(c)
      PROVE  HalfOpenDecides'
  <2>1. PICK r \in Routes : r = Route(c)
    BY RouteType
  <2>2. /\ \A d \in Clients : d # c => req'[d] = req[d]
        /\ breaker[r] \in Breakers
    BY <1>2, OthersStay DEF TypeOK
  <2>3. CASE Limit(c)
    <3>1. /\ breaker' = breaker /\ req[c].stage = "admitted"
          /\ To(c, "passed") \/ Answer(c, "limited")
      BY <2>3 DEF Limit
    <3>2. req'[c].stage \in {"passed", "answered"}
      BY <3>1, ToValue, AnswerValue
    <3> QED
      BY <2>2, <3>1, <3>2, ProbesStay DEF Permitted
  <2>4. CASE Enter(c)
    <3>1. req[c].stage = "passed" /\ req'[c].route = r
      BY <2>1, <2>4, InsideValue DEF Enter, Route
    <3>2. CASE Answer(c, "open") /\ breaker' = breaker
      <4>1. req'[c].stage = "answered"
        BY <3>2, AnswerValue
      <4> QED
        BY <2>2, <3>1, <3>2, <4>1, ProbesStay DEF Permitted
    <3>3. CASE /\ To(c, "calling")
               /\ \A q \in Routes : q # r => breaker'[q] = breaker[q]
               /\ breaker'[r].state = "HALF_OPEN" =>
                      \/ breaker'[r].probes = HalfOpenCalls - 1 /\ breaker'[r].window = <<>>
                      \/ /\ breaker[r].state = "HALF_OPEN"
                         /\ breaker'[r].probes = breaker[r].probes - 1
                         /\ breaker'[r].window = breaker[r].window
      <4>1. req'[c].stage = "calling"
        BY <3>3, ToValue
      <4>2. /\ \A q \in Routes : q # r => Callers(q)' = Callers(q)
            /\ Cardinality(Callers(r)) \in Nat
            /\ Cardinality(Callers(r)') = Cardinality(Callers(r)) + 1
        BY <2>1, <2>2, <3>1, <4>1, CallersMove DEF Permitted
      <4>3. /\ breaker[r].probes \in Nat /\ Len(breaker[r].window) \in Nat
            /\ HalfOpenCalls \in Nat /\ Len(<<>>) = 0
        BY <2>2, SizesAssumption DEF Breakers
      <4>4. ASSUME NEW q \in Routes, q # r, breaker'[q].state = "HALF_OPEN"
            PROVE  breaker'[q].probes + Len(breaker'[q].window) + Cardinality(Callers(q)')
                       >= HalfOpenCalls
        BY <3>3, <4>2, <4>4 DEF HalfOpenDecides
      <4>5. ASSUME breaker'[r].state = "HALF_OPEN"
            PROVE  breaker'[r].probes + Len(breaker'[r].window) + Cardinality(Callers(r)')
                       >= HalfOpenCalls
        <5>1. breaker[r].state = "HALF_OPEN" =>
                 breaker[r].probes + Len(breaker[r].window) + Cardinality(Callers(r))
                     >= HalfOpenCalls
          BY DEF HalfOpenDecides
        <5>2. \/ breaker'[r].probes = HalfOpenCalls - 1 /\ Len(breaker'[r].window) = 0
              \/ /\ breaker[r].state = "HALF_OPEN"
                 /\ breaker'[r].probes = breaker[r].probes - 1
                 /\ Len(breaker'[r].window) = Len(breaker[r].window)
          BY <3>3, <4>3, <4>5
        <5> QED
          BY <4>2, <4>3, <5>1, <5>2
      <4> QED
        BY <4>4, <4>5 DEF HalfOpenDecides
    <3>4. \/ Answer(c, "open") /\ breaker' = breaker
          \/ To(c, "calling") /\ breaker' = breaker /\ breaker[r].state = "CLOSED"
          \/ /\ To(c, "calling")
             /\ breaker' = [breaker EXCEPT ![r] = [state |-> "HALF_OPEN", window |-> <<>>,
                                                   probes |-> HalfOpenCalls - 1]]
          \/ /\ To(c, "calling") /\ breaker[r].state = "HALF_OPEN"
             /\ breaker' = [breaker EXCEPT ![r] = [breaker[r] EXCEPT !.probes = @ - 1]]
      BY <2>1, <2>4 DEF Enter
    <3> QED
      BY <2>2, <3>2, <3>3, <3>4 DEF TypeOK, Breakers
  <2>5. CASE Deliver(c) \/ Retry(c)
    <3>1. /\ breaker' = breaker /\ req[c].stage \in {"calling", "waiting"}
          /\ req'[c].stage \in {"calling", "waiting"}
      BY <2>5 DEF Deliver, Retry, TryFails, TypeOK, Exchanges
    <3>2. req'[c].route = req[c].route
      BY <2>5, InsideValue
    <3> QED
      BY <2>2, <3>1, <3>2, ProbesStay DEF Permitted
  <2>6. CASE Returns(c) \/ Fails(c)
    <3>1. PICK failed \in BOOLEAN : Record(c, failed)
      BY <2>6 DEF Returns, Fails
    <3>2. req[c].stage \in Permitted /\ \E answer : Answer(c, answer)
      BY <2>6 DEF Returns, Fails, TryFails, Permitted
    <3>3. req'[c].stage = "answered" /\ req'[c].route = r
      BY <2>1, <3>2, AnswerValue DEF Route
    <3>4. /\ \A q \in Routes : q # r => breaker'[q] = breaker[q]
          /\ breaker'[r] = Recorded(breaker[r], failed)
      BY <2>1, <3>1 DEF Record, TypeOK
    <3>5. breaker[r].probes \in Nat /\ Len(breaker[r].window) \in Nat
      BY <2>2 DEF Breakers
    <3>6. breaker'[r].state = "HALF_OPEN" =>
              /\ breaker[r].state = "HALF_OPEN"
              /\ breaker'[r].probes + Len(breaker'[r].window)
                     = breaker[r].probes + Len(breaker[r].window) + 1
      <4>1. ASSUME Recorded(breaker[r], failed).state = "HALF_OPEN"
            PROVE  /\ breaker[r].state = "HALF_OPEN"
                   /\ Recorded(breaker[r], failed).probes = breaker[r].probes
                   /\ Len(Recorded(breaker[r], failed).window) = Len(breaker[r].window) + 1
        BY <2>2, <4>1, RecordedHalfOpen
      <4> QED
        BY <3>4, <3>5, <4>1
    <3> QED
      BY <2>1, <2>2, <3>2, <3>3, <3>4, <3>6, ProbesMove
  <2>7. CASE GivesUp(c)
    <3>1. Answer(c, "timeout") /\ GiveBack(c)
      BY <2>7 DEF GivesUp
    <3>2. req'[c].stage = "answered" /\ req'[c].route = r
      BY <2>1, <3>1, AnswerValue DEF Route
    <3>3. \A q \in Routes : q # r => breaker'[q] = breaker[q]
      BY <2>1, <3>1 DEF GiveBack, TypeOK
    <3>4. /\ breaker'[r].state = breaker[r].state
          /\ breaker'[r].window = breaker[r].window
          /\ breaker'[r].probes = IF breaker[r].state = "HALF_OPEN" /\ req[c].stage \in Permitted
                                  THEN breaker[r].probes + 1 ELSE breaker[r].probes
      BY <2>1, <2>2, <3>1 DEF GiveBack, TypeOK, Breakers
    <3>5. breaker[r].probes \in Nat /\ Len(breaker[r].window) \in Nat
      BY <2>2 DEF Breakers
    <3>6. CASE req[c].stage \in Permitted
      <4>1. breaker'[r].state = "HALF_OPEN" =>
                /\ breaker[r].state = "HALF_OPEN"
                /\ breaker'[r].probes + Len(breaker'[r].window)
                       = breaker[r].probes + Len(breaker[r].window) + 1
        BY <3>4, <3>5, <3>6
      <4> QED
        BY <2>1, <2>2, <3>2, <3>3, <3>6, <4>1, ProbesMove
    <3>7. CASE req[c].stage \notin Permitted
      <4>1. \A q \in Routes : Callers(q)' = Callers(q)
        BY <2>2, <3>2, <3>7 DEF Callers, Permitted, Route
      <4> QED
        BY <3>3, <3>4, <3>7, <4>1 DEF HalfOpenDecides
    <3> QED
      BY <3>6, <3>7
  <2>8. CASE Finally(c)
    <3>1. /\ breaker' = breaker /\ req[c].stage = "answered" /\ req'[c].stage = "none"
      BY <2>8, FinallyValue, NoRequestType DEF Finally
    <3> QED
      BY <2>2, <3>1, ProbesStay DEF Permitted
  <2> QED
    BY <1>2, <2>3, <2>4, <2>5, <2>6, <2>7, <2>8 DEF Filter
<1>3. ASSUME NEW r \in Routes, Replenish(r) \/ WaitEnds(r) \/ BackendChanges(r)
      PROVE  HalfOpenDecides'
  <2>1. \A q \in Routes : Callers(q)' = Callers(q)
    BY <1>3 DEF Replenish, WaitEnds, BackendChanges, Callers, Route
  <2>2. \A q \in Routes : breaker'[q].state = "HALF_OPEN" => breaker'[q] = breaker[q]
    BY <1>3 DEF Replenish, WaitEnds, BackendChanges, TypeOK, Breakers
  <2> QED
    BY <2>1, <2>2 DEF HalfOpenDecides
<1>4. CASE UNCHANGED gatewayVars
  BY <1>4, ProbesStay DEF gatewayVars
<1> QED
  BY <1>1, <1>2, <1>3, <1>4 DEF GatewayNext, Surroundings
-----------------------------------------------------------------------------
(* Theorems.                                                               *)

\* IInv is an invariant of the gateway.
LEMMA Invariance == GatewaySpec => []IInv
<1>1. IInv /\ [GatewayNext]_gatewayVars => IInv'
  BY TypeStep, JustifiedStep, PermitStep, IsolatedStep, ProbeStep DEF IInv
<1> QED
  BY InitIInv, <1>1, PTL DEF GatewaySpec

\* Requests, buckets, breakers and services keep their types.
THEOREM TypeCorrect == GatewaySpec => []TypeOK
<1>1. IInv => TypeOK
  BY DEF IInv
<1> QED
  BY Invariance, <1>1, PTL

\* The permits taken are those of the exchanges in progress, for any number of
\* clients and any way in which exchanges end (BulkheadFilter.filter).
THEOREM PermitsNeverLeak == GatewaySpec => []PermitsConserved
<1>1. IInv => PermitsConserved
  BY DEF IInv
<1> QED
  BY Invariance, <1>1, PTL

\* A refused request was never sent, and a POST once at most, for any number of
\* retries (the order of the filters of a route).
THEOREM RefusedNeverSent == GatewaySpec => []RefusedIsUnsent
<1>1. IInv => RefusedIsUnsent
  BY DEF IInv, AllJustified, Justified, RefusedIsUnsent
<1> QED
  BY Invariance, <1>1, PTL

\* A route whose service is well is not disturbed by any number of failing ones
\* (a breaker per route).
THEOREM FailuresStayOnTheirRoute == GatewaySpec => []RoutesAreIsolated
<1>1. IInv => RoutesAreIsolated
  BY DEF IInv
<1> QED
  BY Invariance, <1>1, PTL

\* A half-open breaker can always decide, for any number of probes and clients,
\* also when clients give up (permittedNumberOfCallsInHalfOpenState).
THEOREM ProbesSuffice == GatewaySpec => []HalfOpenDecides
<1>1. IInv => HalfOpenDecides
  BY DEF IInv
<1> QED
  BY Invariance, <1>1, PTL
=============================================================================
