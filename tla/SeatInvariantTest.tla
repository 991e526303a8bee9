------------------------- MODULE SeatInvariantTest --------------------------
(* scenario14-seat-consistency.js: load on one seat.  That the seat is sold *)
(* once is left to SQL statements after the test.                           *)
EXTENDS K6

Phases == <<Phase("contention", Many, 1)>>

\* Every 503 is taken for one of the bulkhead, every 429 for one of the seat lock.
Labels(r) ==
    CASE r.status = 201 -> {"success"}
      [] r.status = 429 -> {"lock_fail"}
      [] r.status = 409 -> {"conflict"}
      [] r.status = 503 -> {"bulkhead"}
      [] r.status >= 500 /\ r.status # 503 -> {"server_error"}
      [] r.status < 500 /\ r.status \notin {201, 409, 429} -> {"other"}

All(t, label) == Count(t, {"contention"}, {label})

Failed(t) == IF All(t, "server_error") = 0 THEN {} ELSE {"server_error"}

\* The script says what it has counted, and explains nothing.
Diagnoses(t) == Failed(t)

CountsAgree(t, h) ==
    LET happened(causes) == Happened(h, {"contention"}, Steps, causes) IN
    /\ All(t, "bulkhead") = happened({"bulkhead", "fallback"})
    /\ All(t, "server_error") = happened({"error"})
    /\ All(t, "success") = happened({"served"})

\* PASS: no error of a service came through; a fallback may have hidden some.
Claim(h) == Happened(h, {"contention"}, Steps, {"error"}) = 0
=============================================================================
