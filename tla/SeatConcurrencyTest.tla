------------------------ MODULE SeatConcurrencyTest -------------------------
(* scenario8-seat-concurrency.js: many users reserve one seat at once.      *)
(* The reservations of warm-up and recovery are for other seats.            *)
EXTENDS K6

Phases == <<Phase("warmup", Few, 1), Phase("contention", Many, 2), Phase("recovery", Few, 3)>>

IsBusy(r) == r.status = 503 /\ r.text = Busy

ContentionLabels(r) ==
    CASE r.status = 201 -> {"success"}
      [] r.status = 409 -> {"conflict"}
      [] r.status = 423 -> {"lock_fail"}
      [] r.status = 429 -> {"rate_limit"}
      [] IsBusy(r)      -> {"bulkhead"}
      [] r.status >= 500 /\ ~ IsBusy(r) -> {"server_error"}
      [] r.status < 500 /\ r.status \notin {201, 409, 423, 429} -> {"other"}

\* Warm-up and recovery look at durations only.
Labels(phase, r) == IF phase = "contention" THEN ContentionLabels(r) ELSE {}

Classes == {"success", "conflict", "lock_fail", "rate_limit", "bulkhead", "server_error",
            "other"}

All(t, label) == Count(t, {"contention"}, {label})
Total(t) == Count(t, {"contention"}, Classes)

\* sc_duplicate_booking is declared, and read here, but nothing counts it.
Failed(t) ==
    {rule \in {"duplicate", "success", "server_error"} :
        CASE rule = "duplicate"    -> All(t, "duplicate") # 0
          [] rule = "success"      -> All(t, "success") < 1
          [] rule = "server_error" -> 100 * All(t, "server_error") >= 5 * Total(t)}

Diagnoses(t) ==
    {about \in {"duplicate", "success", "server_error"} :
        CASE about \in {"duplicate", "success"} -> about \in Failed(t)
          [] about = "server_error" -> Above(All(t, "server_error"), Total(t), 5)}

\* Exactly 5 % is neither below nor above 5 %.
Unexplained(t) == IF 100 * All(t, "server_error") = 5 * Total(t) THEN {"server_error"} ELSE {}

\* Rejections that protect the service are told from its errors.
CountsAgree(t, h) ==
    LET happened(causes) == Happened(h, {"contention"}, Steps, causes) IN
    /\ All(t, "bulkhead") = happened({"bulkhead"})
    /\ All(t, "server_error") = happened({"fallback", "error"})
    /\ All(t, "success") = happened({"served"})

\* PASS: a reservation was made, and fewer than 5 % met an error.
Claim(h) ==
    LET happened(causes) == Happened(h, {"contention"}, Steps, causes) IN
    /\ happened({"served"}) >= 1
    /\ Below(happened({"fallback", "error"}), happened(Causes), 5)
=============================================================================
