---------------------------- MODULE BulkheadTest ----------------------------
(* scenario3-bulkhead.js: the bulkhead of payment-service.  The operator    *)
(* stops payment-app during the phase saturation, so that calls last.       *)
EXTENDS K6

Phases == <<Phase("baseline", Few, 1), Phase("saturation", Many, 2), Phase("recovery", Few, 3)>>
Names == {"baseline", "saturation", "recovery"}

\* Faulty variant: every 503 is taken for a rejection.
IsUnavailable(r) == r.status = 503

IsRejected(r) == r.status = 503 /\ r.text = Busy
IsCbFallback(r) == r.status = 503 /\ r.text = Unavailable

\* A rejection is quick when it takes less than 150 ms.
Labels(r) ==
    CASE IsRejected(r)   -> IF r.took = "quick" THEN {"rejected"} ELSE {"rejected", "slow"}
      [] IsCbFallback(r) -> {"fallback", "passed"}
      [] r.status \in {200, 404} -> {"success", "passed"}
      [] r.status = 429  -> {"limited"}
      [] r.status \notin {200, 404, 429} /\ ~ IsRejected(r) /\ ~ IsCbFallback(r) ->
             {"unexpected"}

Classes == {"rejected", "passed", "limited", "unexpected"}

\* vuHadRejection and vuFirstRecovery of this VU, in whatever phase.
Remember(memory, phase, r) ==
    memory \cup (IF IsRejected(r) THEN {"saw_rejection"} ELSE {})
           \cup (IF r.status \in {200, 404} /\ "saw_rejection" \in memory
                 THEN {"recovered"} ELSE {})

Failed(t) ==
    LET rejected(phases) == Count(t, phases, {"rejected"})
    IN  {rule \in {"baseline", "none", "slow", "unexpected"} :
            CASE rule = "baseline"   -> ~ Below(rejected({rule}), Count(t, {rule}, Classes), 1)
              [] rule = "none"       -> rejected(Names) = 0
              [] rule = "slow"       -> ~ P95Below(Count(t, Names, {"slow"}), rejected(Names))
              [] rule = "unexpected" -> Count(t, Names, {"unexpected"}) >= 10}

\* http_reqs, which counts the request of setup too.
Sent(t) == Count(t, Names, Classes) + 1

\* The conditions under which handleSummary explains something.
Diagnoses(t) ==
    LET count(label) == Count(t, Names, {label}) IN
    {about \in {"baseline", "none", "slow", "unexpected", "time_of_protection", "limiter",
                "recovered", "no_recovery"} :
        CASE about \in {"baseline", "slow", "unexpected"} -> about \in Failed(t)
          [] about = "none"      -> count("rejected") = 0 /\ Sent(t) > 20
          [] about = "time_of_protection" -> count("rejected") > 0 /\ count("fallback") > 0
          [] about = "limiter"   -> count("limited") > 0
          [] about = "recovered" -> count("recovered") > 0 /\ count("rejected") > 0
          [] about = "no_recovery" -> count("recovered") = 0 /\ count("rejected") > 0}

\* A short test without a rejection is not explained.
Unexplained(t) == IF Sent(t) > 20 THEN {} ELSE {"none"}

\* A rejection is told from a fallback, whose call had a permit.
CountsAgree(t, h) ==
    \A name \in Names :
        /\ Count(t, {name}, {"rejected"}) = Happened(h, {name}, Steps, {"bulkhead"})
        /\ Count(t, {name}, {"fallback"}) = Happened(h, {name}, Steps, {"fallback"})

\* PASS: the bulkhead rejected something, and hardly anything before.
Claim(h) ==
    /\ Happened(h, Names, Steps, {"bulkhead"}) > 0
    /\ Below(Happened(h, {"baseline"}, Steps, {"bulkhead"}),
             Happened(h, {"baseline"}, Steps, Causes), 1)
=============================================================================
