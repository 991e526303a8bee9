---------------------------- MODULE LatencyTest -----------------------------
(* scenario4-filter-latency.js: the same request through the gateway and    *)
(* directly, side by side.                                                  *)
EXTENDS K6, Integers

Phases == <<Phase("scg", Many, 1), Phase("direct", Few, 1)>>

Labels(r) == {IF r.status = 200 THEN "success" ELSE "error", r.took}

\* p(95) of a phase in units of 10 ms.
P95(t, phase) ==
    LET slower(classes) == Count(t, {phase}, classes)
        all == slower({"success", "error"})
    IN  CASE P95Below(slower({"slow", "late"}), all) -> 0
          [] ~ P95Below(slower({"slow", "late"}), all) /\ P95Below(slower({"late"}), all) -> 1
          [] ~ P95Below(slower({"late"}), all) -> 2

Overhead(t) == P95(t, "scg") - P95(t, "direct")
Successes(t, phase) == Count(t, {phase}, {"success"})
Requests(t, phase) == Count(t, {phase}, {"success", "error"})

Failed(t) ==
    {rule \in {"overhead", "scg", "direct"} :
        CASE rule = "overhead"         -> Overhead(t) >= 1
          [] rule \in {"scg", "direct"} ->
                 ~ Above(Successes(t, rule), Requests(t, rule), 99)}

Diagnoses(t) ==
    LET both == Successes(t, "scg") > 0 /\ Successes(t, "direct") > 0 IN
    {about \in {"no_scg", "no_direct", "overhead", "negative"} :
        CASE about = "no_scg"    -> Requests(t, "scg") = 0
          [] about = "no_direct" -> Requests(t, "direct") = 0
          [] about = "overhead"  -> Overhead(t) > 1 /\ both
          [] about = "negative"  -> Overhead(t) < 0 /\ both}

\* The success rates are not explained, nor is an overhead of exactly 10 ms.
Unexplained(t) ==
    {"scg", "direct"}
    \cup (IF Overhead(t) = 1 \/ Successes(t, "scg") * Successes(t, "direct") = 0
          THEN {"overhead"} ELSE {})

CountsAgree(t, h) ==
    \A phase \in {"scg", "direct"} :
        Requests(t, phase) = Happened(h, {phase}, Steps, Causes)

\* PASS: on both ways more than 99 % of the requests were served.
Claim(h) ==
    \A phase \in {"scg", "direct"} :
        Above(Happened(h, {phase}, Steps, {"served"}),
              Happened(h, {phase}, Steps, Causes), 99)
=============================================================================
