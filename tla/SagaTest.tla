----------------------------- MODULE SagaTest -------------------------------
(* scenario11-saga-compensation.js: payment requests under load, then a     *)
(* look at five payments each.  No payment is confirmed.                    *)
EXTENDS K6

Phases == <<Phase("normal", Few, 1), Phase("stress", Many, 2), Phase("recovery", Few, 3)>>
Flow == {"normal", "stress"}

\* Counted before the request is sent.
Begins(phase) == IF phase \in Flow THEN {"attempt"} ELSE {}

\* recoveryCheckPhase looks at payments 1 to 5, whatever the answers are.
After(phase, step) == IF phase = "recovery" /\ step < 5 THEN step + 1 ELSE 0

Success(r) == r.status \in {200, 201}

\* The answers of the recovery phase are not counted, nor is the status they carry.
Labels(phase, r) ==
    CASE phase = "recovery" -> {}
      [] phase \in Flow /\ Success(r) -> {"requested", "complete"}
      [] phase \in Flow /\ ~ Success(r) /\ r.status >= 500 -> {"incomplete", "server_error"}
      [] phase \in Flow /\ ~ Success(r) /\ r.status < 500  -> {"incomplete"}

All(t, label) == Count(t, Flow, {label})
Sampled(t) == Count(t, Flow, {"complete", "incomplete"})

Failed(t) ==
    {rule \in {"complete", "server_error"} :
        CASE rule = "complete"     -> ~ Above(All(t, "complete"), Sampled(t), 50)
          [] rule = "server_error" -> ~ Below(All(t, "server_error"), Sampled(t), 10)}

\* No condition is about "server_error"; saga_status_cancel_failed is never counted.
Diagnoses(t) == (Failed(t) \cap {"complete"})
                \cup (IF All(t, "cancel_failed") > 0 THEN {"cancel_failed"} ELSE {})

Unexplained(t) == {"server_error"}

CountsAgree(t, h) ==
    LET happened(causes) == Happened(h, Flow, Steps, causes) IN
    /\ All(t, "complete") = happened({"served"})
    /\ All(t, "server_error") = happened({"bulkhead", "fallback", "error"})
    /\ Sampled(t) = happened(Causes)
    /\ Sampled(t) <= All(t, "attempt")

\* PASS: more than half of the answers accepted a payment.
Claim(h) == Above(Happened(h, Flow, Steps, {"served"}), Happened(h, Flow, Steps, Causes), 50)
=============================================================================
