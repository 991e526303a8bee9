------------------------------ MODULE SoakTest ------------------------------
(* scenario6-soak.js: mixed requests for a long time.                       *)
EXTENDS K6

Phases == <<Phase("soak", Many, 1)>>

\* soakPhase draws one kind of request.  The last one is wrong on purpose.
WaitingRoom == 1
Concert     == 2
Payment     == 3
BadRequest  == 4
Kinds == {WaitingRoom, Concert, Payment, BadRequest}

\* A response above 200 ms is late.  Its branch for 503 is never reached.
Classify(r) ==
    CASE r.status \in {200, 404} -> {"sampled"}
      [] r.status = 429  -> {"sampled", "limited"}
      [] r.status >= 500 -> {"sampled", "error", "service_error"}
      [] r.status < 500 /\ r.status \notin {200, 404, 429} ->
             {"sampled", "error", "unexpected"}

Labels(kind, r) ==
    {"request"} \cup
    (IF kind = BadRequest THEN {}
     ELSE Classify(r) \cup (IF r.took = "late" THEN {"late"} ELSE {}))

All(t, label) == Count(t, {"soak"}, {label})

\* Faulty variant: the deliberately wrong requests dilute the error rate.
FailedOfAll(t) ==
    {rule \in {"p95", "error", "unexpected"} :
        CASE rule = "p95"        -> ~ P95Below(All(t, "late"), All(t, "sampled"))
          [] rule = "error"      -> ~ Below(All(t, "error"), All(t, "request"), 1)
          [] rule = "unexpected" -> All(t, "unexpected") >= 50}

Failed(t) ==
    {rule \in {"p95", "error", "unexpected"} :
        CASE rule = "p95"        -> ~ P95Below(All(t, "late"), All(t, "sampled"))
          [] rule = "error"      -> ~ Below(All(t, "error"), All(t, "sampled"), 1)
          [] rule = "unexpected" -> All(t, "unexpected") >= 50}

\* http_reqs, which counts the three requests of setup too.
Sent(t) == All(t, "request") + 3

\* No condition is about "unexpected".
Diagnoses(t) ==
    (Failed(t) \cap {"p95", "error"})
    \cup (IF Above(All(t, "limited"), Sent(t), 5) THEN {"limiter"} ELSE {})

Unexplained(t) == {"unexpected"}

\* A deliberately wrong request is neither an error nor a sample.
CountsAgree(t, h) ==
    LET happened(causes) == Happened(h, {"soak"}, Kinds \ {BadRequest}, causes) IN
    /\ All(t, "limited") = happened({"limiter"})
    /\ All(t, "service_error") = happened({"bulkhead", "fallback", "error"})
    /\ All(t, "sampled") = happened(Causes)

\* PASS: fewer than 1 % of the right requests met an error of the system.
Claim(h) ==
    LET happened(causes) == Happened(h, {"soak"}, Kinds \ {BadRequest}, causes) IN
    Below(happened({"bulkhead", "fallback", "error", "lost"}), happened(Causes), 1)
=============================================================================
