------------------------------ MODULE LoadTest ------------------------------
(***************************************************************************)
(* A run of one of the k6 scripts of src/load-test against the system.     *)
(*                                                                         *)
(* k6 runs setup, then the phases of the script, and at last handleSummary.*)
(* Virtual users (VUs) run the function of a phase again and again; one    *)
(* iteration sends a request or several, one after the other, and counts   *)
(* the answers.  VUs keep what they remember from phase to phase, and an   *)
(* iteration may outlast its phase: its answers count for that phase.      *)
(*                                                                         *)
(* The system is any that can answer as this one does: the verdict of a    *)
(* script has to be right about a system with faults, too.                 *)
(***************************************************************************)
EXTENDS K6

CONSTANTS
    Scripts,        \* the scripts that may run
    VUs,            \* the pool of virtual users
    Repeats         \* Repeats[s]: how often an iteration may be repeated

VARIABLES
    script,         \* the script that runs
    stage,          \* "setup", "run", "aborted" or "done"
    group,          \* phases of this group are open
    begun,          \* begun[p]: iterations that were begun in phase p
    vu,             \* vu[v]: phase (0: idle), step, repeats and memory of v
    tally,          \* what the script has counted: a bag of phases and labels
    heard           \* what really happened: a bag of phases, steps and causes

loadVars == <<script, stage, group, begun, vu, tally, heard>>

Limiter     == INSTANCE RateLimiterTest
Breaker     == INSTANCE CircuitBreakerTest
Bulkhead    == INSTANCE BulkheadTest
Latency     == INSTANCE LatencyTest
Soak        == INSTANCE SoakTest
Seat        == INSTANCE SeatConcurrencyTest
Journey     == INSTANCE JourneyTest
Idempotency == INSTANCE IdempotencyTest
Saga        == INSTANCE SagaTest
Resilience  == INSTANCE ResilienceTest
Invariant   == INSTANCE SeatInvariantTest

AllScripts == {"limiter", "breaker", "bulkhead", "latency", "soak", "seat", "journey",
               "idempotency", "saga", "resilience", "invariant"}

ASSUME ScriptsAssumption ==
    /\ Scripts \subseteq AllScripts /\ IsFiniteSet(VUs)
    /\ Few \in Nat /\ Many \in Nat
    /\ Repeats \in [Scripts -> SUBSET (Nat \ {0})]

-----------------------------------------------------------------------------
(* The script that runs.                                                   *)

Phases ==
    CASE script = "limiter"     -> Limiter!Phases
      [] script = "breaker"     -> Breaker!Phases
      [] script = "bulkhead"    -> Bulkhead!Phases
      [] script = "latency"     -> Latency!Phases
      [] script = "soak"        -> Soak!Phases
      [] script = "seat"        -> Seat!Phases
      [] script = "journey"     -> Journey!Phases
      [] script = "idempotency" -> Idempotency!Phases
      [] script = "saga"        -> Saga!Phases
      [] script = "resilience"  -> Resilience!Phases
      [] script = "invariant"   -> Invariant!Phases

Labels(phase, step, r) ==
    CASE script = "limiter"     -> Limiter!Labels(r)
      [] script = "breaker"     -> Breaker!Labels(r)
      [] script = "bulkhead"    -> Bulkhead!Labels(r)
      [] script = "latency"     -> Latency!Labels(r)
      [] script = "soak"        -> Soak!Labels(step, r)
      [] script = "seat"        -> Seat!Labels(phase, r)
      [] script = "journey"     -> Journey!Labels(step, r)
      [] script = "idempotency" -> Idempotency!Labels(phase, r)
      [] script = "saga"        -> Saga!Labels(phase, r)
      [] script = "resilience"  -> Resilience!Labels(phase, r)
      [] script = "invariant"   -> Invariant!Labels(r)

\* The first step of an iteration, what is counted at its beginning, and the
\* step after an answer (0: none).
Starts == IF script = "soak" THEN Soak!Kinds ELSE {1}

Begins(phase) ==
    CASE script = "journey" -> Journey!Begins
      [] script = "saga"    -> Saga!Begins(phase)
      [] script \notin {"journey", "saga"} -> {}

After(phase, step, r) ==
    CASE script = "journey" -> Journey!After(step, r)
      [] script = "saga"    -> Saga!After(phase, step)
      [] script \notin {"journey", "saga"} -> 0

Remember(memory, phase, r) ==
    CASE script = "breaker"  -> Breaker!Remember(memory, phase, r)
      [] script = "bulkhead" -> Bulkhead!Remember(memory, phase, r)
      [] script \notin {"breaker", "bulkhead"} -> memory

GoesOn(r) == script = "limiter" => Limiter!GoesOn(r)

Failed ==
    CASE script = "limiter"     -> Limiter!Failed(tally)
      [] script = "breaker"     -> Breaker!Failed(tally)
      [] script = "bulkhead"    -> Bulkhead!Failed(tally)
      [] script = "latency"     -> Latency!Failed(tally)
      [] script = "soak"        -> Soak!Failed(tally)
      [] script = "seat"        -> Seat!Failed(tally)
      [] script = "journey"     -> Journey!Failed(tally)
      [] script = "idempotency" -> Idempotency!Failed(tally)
      [] script = "saga"        -> Saga!Failed(tally)
      [] script = "resilience"  -> Resilience!Failed(tally)
      [] script = "invariant"   -> Invariant!Failed(tally)

-----------------------------------------------------------------------------
(* Answers.                                                                *)

Answer(cause, statuses, texts, problems) ==
    [cause : {cause}, status : statuses, text : texts, problem : problems,
     took : {"quick", "slow", "late"}]

\* The gateway answers by itself, gives up on a service, or nothing arrives.
GatewayAnswers ==
    Answer("limiter", {429}, {"other"}, {TRUE}) \cup Answer("bulkhead", {503}, {Busy}, {TRUE})
    \cup Answer("fallback", {503}, {Unavailable}, {TRUE})
    \cup Answer("error", {502, 504}, {"other"}, BOOLEAN) \cup Answer("lost", {0}, {"other"}, {FALSE})

\* Or a service does: an event, a payment or a token for a GET, 201 for a POST.
ServiceAnswers ==
    Answer("served", {200}, {"other", "tokenId", "unreadable"}, {FALSE})
    \cup Answer("refused", {400, 401, 404, 409}, {"other"}, {TRUE})
    \cup Answer("error", {500}, {"other"}, {TRUE})

Creations == Answer("served", {201}, {"other"}, {FALSE})

\* A reservation is created, or refused because of the lock of the seat (R003).
ReservationAnswers ==
    Creations \cup Answer("refused", {429}, {"other"}, {TRUE})
    \cup {r \in ServiceAnswers : r.status # 200}

Answers(phase, step) ==
    CASE script = "latency" /\ phase = "direct" ->
             ServiceAnswers \cup Answer("lost", {0}, {"other"}, {FALSE})
      [] script \in {"seat", "invariant"} \/ (script = "journey" /\ step = Journey!Reserve) ->
             GatewayAnswers \cup ReservationAnswers
      [] script = "idempotency" \/ (script = "saga" /\ phase # "recovery")
             \/ (script = "journey" /\ step \in {Journey!Join, Journey!Pay}) ->
             GatewayAnswers \cup ServiceAnswers \cup Creations
      [] OTHER -> GatewayAnswers \cup ServiceAnswers

-----------------------------------------------------------------------------
Idle == [phase |-> 0, step |-> 1, repeats |-> 1, memory |-> {}]

LoadInit ==
    /\ script \in Scripts
    /\ stage = "setup"
    /\ group = 1
    /\ begun = [i \in DOMAIN Phases |-> 0]
    /\ vu = [v \in VUs |-> Idle]
    /\ tally = EmptyBag /\ heard = EmptyBag

\* Answers that no property is about are not remembered in heard.
Matters(phase, step) ==
    /\ script = "journey" => step \in {Journey!Join, Journey!Reserve, Journey!Pay}
    /\ script = "saga" => phase # "recovery"

Tallied(phase, labels, n) == [entry \in {phase} \X labels |-> n]

(* setup sends a request of its own and may end the test.                  *)
Setup ==
    /\ stage = "setup"
    /\ \E r \in GatewayAnswers \cup ServiceAnswers :
           stage' = IF GoesOn(r) THEN "run" ELSE "aborted"
    /\ UNCHANGED <<script, group, begun, vu, tally, heard>>

(* A VU starts an iteration of an open phase; it will do so n times with   *)
(* the same answers.                                                       *)
Begin(v, i, step, n) ==
    LET phase == Phases[i] IN
    /\ stage = "run" /\ vu[v].phase = 0
    /\ phase.group = group /\ begun[i] < phase.vus
    /\ vu' = [vu EXCEPT ![v] = [phase |-> i, step |-> step, repeats |-> n,
                                memory |-> vu[v].memory]]
    /\ begun' = [begun EXCEPT ![i] = @ + 1]
    /\ tally' = tally (+) Tallied(phase.name, Begins(phase.name), n)
    /\ UNCHANGED <<script, stage, group, heard>>

(* The answer arrives, or the time limit of the request ends: it is        *)
(* classified and counted.  What the VU sees for the first time is counted *)
(* once.                                                                   *)
Respond(v, r) ==
    LET name   == Phases[vu[v].phase].name
        memory == Remember(vu[v].memory, name, r)
        next   == After(name, vu[v].step, r)
    IN
    /\ vu[v].phase # 0
    /\ tally' = tally (+) Tallied(name, Labels(name, vu[v].step, r), vu[v].repeats)
                      (+) Tallied(name, memory \ vu[v].memory, 1)
    /\ heard' = IF Matters(name, vu[v].step)
                THEN heard (+) [entry \in {<<name, vu[v].step, r.cause>>} |-> vu[v].repeats]
                ELSE heard
    /\ vu' = [vu EXCEPT ![v] = IF next = 0 THEN [Idle EXCEPT !.memory = memory]
                               ELSE [@ EXCEPT !.step = next, !.memory = memory]]
    /\ UNCHANGED <<script, stage, group, begun>>

Full == \A i \in DOMAIN Phases : Phases[i].group = group => begun[i] = Phases[i].vus
Last == \A i \in DOMAIN Phases : Phases[i].group <= group

(* An iteration that outlasts its phase too long is cut off.               *)
Interrupt(v) ==
    /\ vu[v].phase # 0 /\ vu[v].repeats = 1
    /\ Full \/ Phases[vu[v].phase].group < group
    /\ vu' = [vu EXCEPT ![v] = [Idle EXCEPT !.memory = vu[v].memory]]
    /\ UNCHANGED <<script, stage, group, begun, tally, heard>>

(* The time of the open phases is over.                                    *)
NextGroup ==
    /\ stage = "run" /\ Full /\ ~ Last
    /\ group' = group + 1
    /\ UNCHANGED <<script, stage, begun, vu, tally, heard>>

(* All iterations have ended or were cut off: handleSummary.               *)
End ==
    /\ stage = "run" /\ Full /\ Last
    /\ \A v \in VUs : vu[v].phase = 0
    /\ stage' = "done"
    /\ UNCHANGED <<script, group, begun, vu, tally, heard>>

LoadNext ==
    \/ Setup \/ NextGroup \/ End
    \/ \E v \in VUs :
        \/ \E i \in DOMAIN Phases, step \in Starts, n \in Repeats[script] : Begin(v, i, step, n)
        \/ vu[v].phase # 0
              /\ \E r \in Answers(Phases[vu[v].phase].name, vu[v].step) : Respond(v, r)
        \/ Interrupt(v)

LoadSpec == LoadInit /\ [][LoadNext]_loadVars

-----------------------------------------------------------------------------
(* Properties.                                                             *)

Done == stage = "done"
Passes == Done /\ Failed = {}

\* What a script counts is what happened: no answer is counted for another
\* phase or twice, and the two kinds of 503 are not confused (classifyResponse).
CountsAgree ==
    CASE script = "limiter"     -> Limiter!CountsAgree(tally, heard)
      [] script = "breaker"     -> Breaker!CountsAgree(tally, heard)
      [] script = "bulkhead"    -> Bulkhead!CountsAgree(tally, heard)
      [] script = "latency"     -> Latency!CountsAgree(tally, heard)
      [] script = "soak"        -> Soak!CountsAgree(tally, heard)
      [] script = "seat"        -> Seat!CountsAgree(tally, heard)
      [] script = "journey"     -> Journey!CountsAgree(tally, heard)
      [] script = "idempotency" -> Idempotency!CountsAgree(tally, heard)
      [] script = "saga"        -> Saga!CountsAgree(tally, heard)
      [] script = "resilience"  -> Resilience!CountsAgree(tally, heard)
      [] script = "invariant"   -> Invariant!CountsAgree(tally, heard)

\* The verdict PASS is earned: whatever the system did, what the script claims
\* then is true of it (the thresholds and overallPass of handleSummary).
PassIsEarned ==
    Passes =>
        CASE script = "limiter"     -> Limiter!Claim(heard)
          [] script = "breaker"     -> Breaker!Claim(heard)
          [] script = "bulkhead"    -> Bulkhead!Claim(heard)
          [] script = "latency"     -> Latency!Claim(heard)
          [] script = "soak"        -> Soak!Claim(heard)
          [] script = "seat"        -> Seat!Claim(heard)
          [] script = "journey"     -> Journey!Claim(heard)
          [] script = "idempotency" -> Idempotency!Claim(heard)
          [] script = "saga"        -> Saga!Claim(heard)
          [] script = "resilience"  -> Resilience!Claim(heard)
          [] script = "invariant"   -> Invariant!Claim(heard)

Unexplained(diagnoses, explained(_)) ==
    {rule \in Failed : explained(rule) \notin diagnoses}

Itself(rule) == rule

\* A report that says FAIL says why: every criterion that failed is explained,
\* but for the ones that the script forgets (diagnostics of handleSummary).
FailIsExplained ==
    Done =>
        CASE script = "limiter" -> Unexplained(Limiter!Diagnoses(tally), Itself) = {}
          [] script = "breaker" ->
                 Unexplained(Breaker!Diagnoses(tally), Breaker!Explains)
                     = Failed \cap Breaker!Unexplained(tally)
          [] script = "bulkhead" ->
                 Unexplained(Bulkhead!Diagnoses(tally), Itself)
                     = Failed \cap Bulkhead!Unexplained(tally)
          [] script = "latency" ->
                 Unexplained(Latency!Diagnoses(tally), Itself)
                     = Failed \cap Latency!Unexplained(tally)
          [] script = "soak" ->
                 Unexplained(Soak!Diagnoses(tally), Itself)
                     = Failed \cap Soak!Unexplained(tally)
          [] script = "seat" ->
                 Unexplained(Seat!Diagnoses(tally), Itself)
                     = Failed \cap Seat!Unexplained(tally)
          [] script = "journey" ->
                 Unexplained(Journey!Diagnoses(tally), Itself)
                     = Failed \cap Journey!Unexplained(tally)
          [] script = "idempotency" ->
                 Unexplained(Idempotency!Diagnoses(tally), Itself)
                     = Failed \cap Idempotency!Unexplained(tally)
          [] script = "saga" ->
                 Unexplained(Saga!Diagnoses(tally), Itself)
                     = Failed \cap Saga!Unexplained(tally)
          [] script = "resilience" ->
                 Resilience!HasData(tally) =>
                     Unexplained(Resilience!Diagnoses(tally), Itself)
                         = Failed \cap Resilience!Unexplained(tally)
          [] script = "invariant" -> Unexplained(Invariant!Diagnoses(tally), Itself) = {}

\* A recovery is reported by a VU that met the protection before it, and only
\* if a served answer followed; each VU reports one at most (vuFirstRecovery).
RecoveryFollowsLoss ==
    script \in {"breaker", "bulkhead"} =>
        LET names == {Phases[i].name : i \in DOMAIN Phases}
            recovered == {v \in VUs : "recovered" \in vu[v].memory}
        IN  /\ Count(tally, names, {"recovered"}) = Cardinality(recovered)
            /\ recovered # {} =>
                  /\ Happened(heard, names, Steps, {"served", "refused"}) > 0
                  /\ Happened(heard, names, Steps, {"fallback", "bulkhead"}) > 0

\* Of the reservations of one seat exactly one succeeds, or the verdict is FAIL:
\* a passed run had no second success (scenario8-seat-concurrency.js, line 23).
DuplicateFails ==
    script = "seat" /\ Passes => Happened(heard, {"contention"}, Steps, {"served"}) = 1
=============================================================================
