--------------------------- MODULE ResilienceTest ---------------------------
(* scenario13-gateway-resilience.js: waitingroom-app hangs or is stopped,   *)
(* while concert-app is called beside it.                                   *)
EXTENDS K6

Phases == <<Phase("probe", Many, 1), Phase("normal", Many, 1)>>

\* checkProblemDetail is r.problem.  A 200 counts as a correct fallback.
ProbeLabels(r) ==
    CASE r.status = 200 -> {"fallback", "fallback_in_format"}
      [] r.status = 504 -> {"timeout"} \cup (IF r.problem THEN {"timeout_in_format"} ELSE {})
      [] r.status = 503 -> {"fallback", "open"}
                               \cup (IF r.problem THEN {"fallback_in_format"} ELSE {})
      [] r.status = 502 -> {"fallback"}
                               \cup (IF r.problem THEN {"fallback_in_format"} ELSE {})
      [] r.status \notin {200, 502, 503, 504} -> {"fallback"}

NormalLabels(r) ==
    IF r.status \in {200, 404, 429} THEN {"normal", "normal_ok"} ELSE {"normal"}

Labels(phase, r) == IF phase = "probe" THEN ProbeLabels(r) ELSE NormalLabels(r)

All(t, label) == Count(t, {"probe", "normal"}, {label})
HasData(t) == All(t, "timeout") + All(t, "fallback") > 0

Failed(t) ==
    {rule \in {"timeout", "fallback", "normal"} :
        CASE rule = "timeout"  -> All(t, "timeout_in_format") < All(t, "timeout")
          [] rule = "fallback" -> All(t, "fallback_in_format") < All(t, "fallback")
          [] rule = "normal"   -> \/ All(t, "normal") = 0
                                  \/ All(t, "normal_ok") < All(t, "normal")}

\* No condition is about "fallback".
Diagnoses(t) ==
    IF HasData(t) THEN Failed(t) \cap {"timeout", "normal"} ELSE {"no_data"}

Unexplained(t) == IF HasData(t) THEN {"fallback"} ELSE {}

\* What is counted as an answer of the open breaker has the status of its fallback,
\* and every answer of concert-app is counted.
CountsAgree(t, h) ==
    /\ All(t, "normal") = Happened(h, {"normal"}, Steps, Causes)
    /\ All(t, "timeout") + All(t, "fallback") = Happened(h, {"probe"}, Steps, Causes)

\* PASS: nobody was refused by concert-app's fallback, or got an error.
Claim(h) == Happened(h, {"normal"}, Steps, {"fallback", "bulkhead", "error", "lost"}) = 0
=============================================================================
