-------------------------- MODULE IdempotencyTest ---------------------------
(* scenario10-payment-idempotency.js: payments with one Idempotency-Key, at *)
(* once and again later, then with a key each.                              *)
EXTENDS K6

Phases == <<Phase("concurrent", Many, 1), Phase("retry", Few, 2), Phase("unique", Few, 3)>>
Names == {"concurrent", "retry", "unique"}

Success(r) == r.status \in {200, 201}

\* "sampled" is a sample of the server error rate.
Labels(phase, r) ==
    (IF r.status >= 500 THEN {"sampled", "server_error"} ELSE {"sampled"})
    \cup CASE Success(r) -> {"success"}
           [] phase = "concurrent" /\ r.status = 409 -> {"conflict"}
           [] phase = "concurrent" /\ r.status < 500
                  /\ r.status \notin {200, 201, 409, 429} -> {"other"}
           [] phase = "unique" /\ ~ Success(r) -> {"fail"}
           [] \/ phase = "concurrent" /\ (r.status >= 500 \/ r.status = 429)
              \/ phase = "retry" /\ ~ Success(r) -> {}

All(t, label) == Count(t, Names, {label})

\* idem_duplicate_payment is declared, and read here, but nothing counts it.
Failed(t) ==
    {rule \in {"duplicate", "server_error"} :
        CASE rule = "duplicate"    -> All(t, "duplicate") # 0
          [] rule = "server_error" -> ~ Below(All(t, "server_error"), All(t, "sampled"), 10)}

\* No condition is about "server_error".
Diagnoses(t) == Failed(t) \cap {"duplicate"}

Unexplained(t) == {"server_error"}

CountsAgree(t, h) ==
    \A name \in Names :
        LET happened(causes) == Happened(h, {name}, Steps, causes) IN
        /\ Count(t, {name}, {"success"}) = happened({"served"})
        /\ Count(t, {name}, {"server_error"}) = happened({"bulkhead", "fallback", "error"})
        /\ Count(t, {name}, {"sampled"}) = happened(Causes)

\* PASS: fewer than 10 % of the requests met a 5xx.
Claim(h) ==
    Below(Happened(h, Names, Steps, {"bulkhead", "fallback", "error"}),
          Happened(h, Names, Steps, Causes), 10)
=============================================================================
