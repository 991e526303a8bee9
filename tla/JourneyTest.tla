---------------------------- MODULE JourneyTest -----------------------------
(* scenario9-e2e-ticketing-flow.js: a user joins the queue, waits for a     *)
(* token, reserves a seat, requests a payment and confirms it.              *)
EXTENDS K6

Phases == <<Phase("journey", Many, 1)>>

MaxPolls == 5
Join     == 1
Polls    == 2 .. 1 + MaxPolls
Reserve  == 2 + MaxPolls
Pay      == 3 + MaxPolls
Confirm  == 4 + MaxPolls

Accepted(r) == r.status \in {200, 201}

\* A poll ends the waiting with a token, or when its body cannot be parsed.
EndsWaiting(r) == r.status = 200 /\ r.text \in {"tokenId", "unreadable"}

\* After the last poll the journey goes on with a token of its own invention.
After(step, r) ==
    CASE step = Join    -> IF Accepted(r) THEN step + 1 ELSE 0
      [] step \in Polls -> IF EndsWaiting(r) THEN Reserve ELSE step + 1
      [] step = Reserve -> IF r.status = 201 THEN Pay ELSE 0
      [] step = Pay     -> IF Accepted(r) THEN Confirm ELSE 0
      [] step = Confirm -> 0

\* classifyError: the error rate is sampled when a step fails.
Stopped(label, r) ==
    {label, "incomplete"} \cup (IF r.status >= 500 THEN {"server_error"} ELSE {})

Labels(step, r) ==
    CASE step = Join    -> IF Accepted(r) THEN {"step_1"} ELSE Stopped("stopped_1", r)
      [] step \in Polls -> IF After(step, r) = Reserve THEN {"step_2"} ELSE {}
      [] step = Reserve -> IF r.status = 201 THEN {"step_3"} ELSE Stopped("stopped_3", r)
      [] step = Pay     -> IF Accepted(r) THEN {"step_4", "complete"}
                           ELSE Stopped("stopped_4", r)
      [] step = Confirm -> IF r.status = 200 THEN {"step_5"} ELSE {"stopped_5"}

\* Counted before the first request is sent.
Begins == {"attempt"}

All(t, label) == Count(t, {"journey"}, {label})
Ended(t) == Count(t, {"journey"}, {"complete", "incomplete"})

Failed(t) ==
    {rule \in {"complete", "server_error"} :
        CASE rule = "complete"     -> ~ Above(All(t, "complete"), Ended(t), 50)
          [] rule = "server_error" ->
                 ~ Below(All(t, "server_error"), All(t, "incomplete"), 30)}

\* No condition is about "server_error".
Diagnoses(t) == Failed(t) \cap {"complete"}

Unexplained(t) == {"server_error"}

\* The funnel: a journey that began is counted at each step it has passed and
\* at the one where it stopped, and nowhere else.
CountsAgree(t, h) ==
    /\ All(t, "attempt")
           >= All(t, "step_1") + All(t, "stopped_1")
    /\ All(t, "step_1") >= All(t, "step_2")
    /\ All(t, "step_2") >= All(t, "step_3") + All(t, "stopped_3")
    /\ All(t, "step_3") >= All(t, "step_4") + All(t, "stopped_4")
    /\ All(t, "step_4") = All(t, "complete")
    /\ All(t, "complete") >= All(t, "step_5") + All(t, "stopped_5")
    /\ All(t, "complete") = Happened(h, {"journey"}, {Pay}, {"served"})

\* PASS: more than half of the journeys that ended had their payment accepted.
Claim(h) ==
    LET accepted(steps) == Happened(h, {"journey"}, steps, {"served"})
        stopped == Happened(h, {"journey"}, {Join, Reserve, Pay}, Causes \ {"served"})
    IN  Above(accepted({Pay}), accepted({Pay}) + stopped, 50)
=============================================================================
