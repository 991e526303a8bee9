-------------------------------- MODULE K6 ----------------------------------
(***************************************************************************)
(* What the k6 scripts share: answers, and how metrics become a verdict.   *)
(*                                                                         *)
(* A tally is a bag of <<phase, label>>: how often something was counted   *)
(* in a phase.  The counters and rates of the scripts are sums of such     *)
(* counts; k6 evaluates a metric without samples as 0.  The second bag, of *)
(* <<phase, step, cause>>, is what really happened.                        *)
(***************************************************************************)
EXTENDS Naturals, Sequences, FiniteSets, FiniteSetsExt, Bags

CONSTANTS
    Few, Many       \* iterations that are begun in a phase of light or heavy load

\* The group of a phase orders the phases; those of one group run side by side.
Phase(name, vus, group) == [name |-> name, vus |-> vus, group |-> group]

Sum(bag, entries) == MapThenSumSet(LAMBDA entry : bag[entry], entries)

\* How often one of the labels was counted in one of the phases.
Count(tally, phases, labels) ==
    Sum(tally, {entry \in DOMAIN tally : entry[1] \in phases /\ entry[2] \in labels})

\* How many answers of these phases and steps had one of the causes.
Happened(heard, phases, steps, causes) ==
    Sum(heard, {entry \in DOMAIN heard :
                   entry[1] \in phases /\ entry[2] \in steps /\ entry[3] \in causes})

Steps  == 1 .. 9
Causes == {"limiter", "bulkhead", "fallback", "served", "refused", "error", "lost"}

\* A rate metric compared with a percentage.
Below(part, all, percent) == all = 0 \/ 100 * part < percent * all
Above(part, all, percent) == 100 * part > percent * all

\* p(95) is below its limit when at most one sample in twenty is above it.
P95Below(slow, all) == 20 * slow <= all

Busy        == "Too Many Concurrent Requests"
Unavailable == "temporarily unavailable"
=============================================================================
