-------------------------- MODULE RateLimiterTest ---------------------------
(* scenario1-rate-limiter.js: the limiter of payment-service.               *)
EXTENDS K6

Phases == <<Phase("baseline", Few, 1), Phase("burst", Many, 2), Phase("recovery", Few, 3)>>
Names == {"baseline", "burst", "recovery"}

\* setup fails, and with it the test, on any other answer.
GoesOn(r) == r.status \in {200, 404, 503, 429}

\* A rejection is quick when it takes less than 50 ms.
Labels(r) ==
    CASE r.status = 429 -> {"limited"} \cup (IF r.took = "quick" THEN {} ELSE {"slow"})
      [] r.status \in {200, 404, 503} -> {"allowed"}
      [] r.status \notin {429, 200, 404, 503} -> {"unexpected"}

Classes == {"limited", "allowed", "unexpected"}

Failed(t) ==
    LET limited(phases) == Count(t, phases, {"limited"})
        all(phases)     == Count(t, phases, Classes)
    IN  {rule \in {"burst", "baseline", "recovery", "blocked", "unexpected"} :
            CASE rule = "burst"      -> ~ Above(limited({rule}), all({rule}), 50)
              [] rule = "baseline"   -> ~ Below(limited({rule}), all({rule}), 1)
              [] rule = "recovery"   -> ~ Below(limited({rule}), all({rule}), 10)
              [] rule = "blocked"    -> ~ P95Below(Count(t, Names, {"slow"}), limited(Names))
              [] rule = "unexpected" -> Count(t, Names, {"unexpected"}) >= 5}

\* http_reqs, which counts the request of setup too.
Sent(t) == Count(t, Names, Classes) + 1

\* Faulty variant: a burst with too few 429 is explained only if it has none.
DiagnosesOfNone(t) ==
    LET none == Count(t, Names, {"limited"}) = 0 /\ Sent(t) > 10 IN
       {about \in {"burst", "no_429", "baseline", "recovery", "blocked", "unexpected"} :
           CASE about \in {"baseline", "recovery", "blocked"} -> about \in Failed(t)
              [] about \in {"burst", "no_429"} -> none
              [] about = "unexpected" ->
                     about \in Failed(t) \/ 10 * Count(t, Names, {"unexpected"}) > Sent(t)}

\* The conditions under which handleSummary explains something.
Diagnoses(t) ==
    LET none == Count(t, Names, {"limited"}) = 0 /\ Sent(t) > 10 IN
       {about \in {"burst", "no_429", "baseline", "recovery", "blocked", "unexpected"} :
           CASE about \in {"baseline", "recovery", "blocked"} -> about \in Failed(t)
              [] about = "burst"      -> about \in Failed(t) \/ none
              [] about = "no_429"     -> none
              [] about = "unexpected" ->
                     about \in Failed(t) \/ 10 * Count(t, Names, {"unexpected"}) > Sent(t)}

\* What is counted as limited was limited.
CountsAgree(t, h) ==
    \A name \in Names :
        Count(t, {name}, {"limited"}) = Happened(h, {name}, Steps, {"limiter"})

\* PASS: the limiter answered most of the burst and hardly anything else.
Claim(h) ==
    LET limited(name) == Happened(h, {name}, Steps, {"limiter"})
        all(name)     == Happened(h, {name}, Steps, Causes)
    IN  /\ Above(limited("burst"), all("burst"), 50)
        /\ Below(limited("baseline"), all("baseline"), 1)
        /\ Below(limited("recovery"), all("recovery"), 10)
=============================================================================
