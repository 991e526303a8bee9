------------------------- MODULE CircuitBreakerTest -------------------------
(* scenario2-circuit-breaker.js: breaker and fallback of payment-service.   *)
(* The operator stops payment-app before the phase fault and starts it      *)
(* again after it.                                                          *)
EXTENDS K6

Phases == <<Phase("baseline", Few, 1), Phase("fault", Few, 2), Phase("recovery", Few, 3)>>
Names == {"baseline", "fault", "recovery"}

IsFallback(r) == r.status = 503 /\ r.text = Unavailable

\* A fallback that takes more than 200 ms ("late") is taken for one with retries,
\* any other one for a fallback of the open breaker; quick is below 150 ms.
Labels(r) ==
    CASE r.status \in {200, 404} -> {"closed"}
      [] IsFallback(r) -> {"fallback"} \cup
             (CASE r.took = "late"  -> {"transition"}
                [] r.took = "slow"  -> {"pure", "slow"}
                [] r.took = "quick" -> {"pure"})
      [] ~ IsFallback(r) /\ r.status \in {500, 502, 503, 504} -> {"error"}
      [] r.status = 429 -> {"limited"}
      [] r.status \notin {200, 404, 429, 500, 502, 503, 504} -> {"unexpected"}

Classes == {"closed", "fallback", "error", "limited", "unexpected"}

\* Faulty variant: any success is taken for a recovery.
RememberSuccess(memory, phase, r) ==
    memory \cup (IF IsFallback(r) THEN {"saw_fallback"} ELSE {})
           \cup (IF r.status \in {200, 404} /\ phase \in {"fault", "recovery"}
                 THEN {"recovered"} ELSE {})

\* vuFirstFallback and vuFirstRecovery: what this VU has seen.  The first time
\* is counted, too.
Remember(memory, phase, r) ==
    memory \cup (IF IsFallback(r) THEN {"saw_fallback"} ELSE {})
           \cup (IF r.status \in {200, 404} /\ phase \in {"fault", "recovery"}
                    /\ "saw_fallback" \in memory
                 THEN {"recovered"} ELSE {})

Failed(t) ==
    LET fallbacks(phases) == Count(t, phases, {"fallback"})
        all(phases)       == Count(t, phases, Classes)
    IN  {rule \in {"baseline", "fault", "pure", "none", "unexpected"} :
            CASE rule = "baseline"   -> ~ Below(fallbacks({rule}), all({rule}), 1)
              [] rule = "fault"      -> ~ Above(fallbacks({rule}), all({rule}), 30)
              [] rule = "pure"       -> ~ P95Below(Count(t, Names, {"slow"}),
                                                   Count(t, Names, {"pure"}))
              [] rule = "none"       -> fallbacks(Names) = 0
              [] rule = "unexpected" -> Count(t, Names, {"unexpected"}) >= 5}

\* http_reqs, which counts the two requests of setup too.
Sent(t) == Count(t, Names, Classes) + 2

\* The conditions under which handleSummary explains something.  None of them is
\* about "pure": isFail looks for cb_fallback_duration.
Diagnoses(t) ==
    LET count(label) == Count(t, Names, {label})
        none == count("fallback") = 0 /\ Sent(t) > 20
    IN  {about \in {"baseline", "fault", "no_fault", "unexpected", "limiter",
                    "time_to_open", "recovered", "no_recovery"} :
            CASE about \in {"baseline", "unexpected"} -> about \in Failed(t)
              [] about = "fault"        -> about \in Failed(t) \/ none
              [] about = "no_fault"     -> none /\ count("error") = 0
              [] about = "limiter"      -> count("limited") > 0
              [] about = "time_to_open" -> count("error") > 0 /\ count("fallback") > 0
              [] about = "recovered"    -> count("recovered") > 0
              [] about = "no_recovery"  -> count("recovered") = 0 /\ count("fallback") > 0}

\* What a failed criterion is explained by.
Explains(rule) == IF rule = "none" THEN "fault" ELSE rule
Unexplained(t) == {"pure"}

\* What is counted as a fallback was one, of the open breaker or of a failed call.
CountsAgree(t, h) ==
    \A name \in Names :
        Count(t, {name}, {"fallback"}) = Happened(h, {name}, Steps, {"fallback"})

\* PASS: the fallback answered during the fault, and hardly before it.
Claim(h) ==
    LET fallbacks(name) == Happened(h, {name}, Steps, {"fallback"})
        all(name)       == Happened(h, {name}, Steps, Causes)
    IN  /\ Above(fallbacks("fault"), all("fault"), 30)
        /\ Below(fallbacks("baseline"), all("baseline"), 1)
=============================================================================
