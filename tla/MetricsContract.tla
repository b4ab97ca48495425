--------------------------- MODULE MetricsContract ---------------------------
(***************************************************************************)
(* What UpdateMetrics (pkg/metrics/prometheus.go:150-196) promises whoever *)
(* does not look in the middle of it: the metrics move from one cycle to   *)
(* the next in one step, the gauges tell the last cycle alone and the      *)
(* counters all cycles.                                                    *)
(***************************************************************************)
EXTENDS Integers, FiniteSets

CONSTANTS Cats,      \* categories
          Results    \* what cycles come to: sets of [pid, cat, pod] records, where
                     \* pod is "none" (no container), "success" or "failed"

VARIABLES scansTotal,       \* the counter of cycles
          classifiedTotal,  \* the counter of predictions, by category
          enrichmentTotal,  \* the counter of container lookups, by status
          predictionsCount, \* the gauge, 0 for a category that has no series
          successRate       \* <<successes, attempts>>, <<0, 0>> for the value 0

published == <<scansTotal, classifiedTotal, enrichmentTotal, predictionsCount, successRate>>

OfCategory(preds, c) == Cardinality({p \in preds : p.cat = c})
OfStatus(preds, s) == Cardinality({p \in preds : p.pod = s})

RateOf(preds) == <<OfStatus(preds, "success"),
                   OfStatus(preds, "success") + OfStatus(preds, "failed")>>

Init == /\ scansTotal = 0
        /\ classifiedTotal = [c \in Cats |-> 0]
        /\ enrichmentTotal = [s \in {"success", "failed"} |-> 0]
        /\ predictionsCount = [c \in Cats |-> 0]
        /\ successRate = <<0, 0>>

Publish(preds) ==
    /\ scansTotal' = scansTotal + 1
    /\ classifiedTotal' = [c \in Cats |-> classifiedTotal[c] + OfCategory(preds, c)]
    /\ enrichmentTotal' = [s \in {"success", "failed"} |->
                              enrichmentTotal[s] + OfStatus(preds, s)]
    /\ predictionsCount' = [c \in Cats |-> OfCategory(preds, c)]
    /\ successRate' = RateOf(preds)

Next == \E preds \in Results : Publish(preds)

Spec == Init /\ [][Next]_published
=============================================================================
