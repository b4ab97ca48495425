------------------------------- MODULE Drift -------------------------------
(***************************************************************************)
(* DetectDrift (pkg/classifier/drift.go:99-206): the comparison of two     *)
(* node fingerprints.  A percentage is 100 * count / sum, so a difference  *)
(* of percentages is compared with a threshold by cross-multiplication.    *)
(***************************************************************************)
EXTENDS Fingerprint, Sequences

CONSTANT NoReport   \* the nil *DriftReport

ASSUME NoReportAssumption ==
    NoReport \notin [severity : {"INFO", "WARN", "CRITICAL"},
                     from : Seq(Cats \X Int), to : Seq(Cats \X Int),
                     changes : UNION {[S -> {"appeared", "vanished", "decreased", "increased"}] :
                                          S \in SUBSET Cats}]

\* A fingerprint without shares has percentage 0 for every category.
Base(fp) == IF fp.sum = 0 THEN 1 ELSE fp.sum

\* Mutant: only growth counts (the absolute value is forgotten).
Growth(prev, cur, c) == cur.count[c] * Base(prev) - prev.count[c] * Base(cur)

\* |currPct - prevPct|, as the numerator over 100 / (Base(prev) * Base(cur)).
AbsDelta(prev, cur, c) ==
    LET d == cur.count[c] * Base(prev) - prev.count[c] * Base(cur)
    IN  IF d < 0 THEN -d ELSE d

\* Mutant: the threshold of a WARN, ten points, decides what is reported.
ReportedFromTen(prev, cur, c) == 10 * AbsDelta(prev, cur, c) >= Base(prev) * Base(cur)

\* absD >= DriftThreshold, five percentage points.
Reported(prev, cur, c) == 20 * AbsDelta(prev, cur, c) >= Base(prev) * Base(cur)

Changes(prev, cur) == {c \in Cats : Reported(prev, cur, c)}

Direction(prev, cur, c) ==
    IF prev.count[c] = 0 THEN "appeared"
    ELSE IF cur.count[c] = 0 THEN "vanished"
    ELSE IF cur.count[c] * Base(prev) < prev.count[c] * Base(cur) THEN "decreased"
    ELSE "increased"

\* maxDelta > 25, maxDelta >= 10, or less.
Severity(prev, cur) ==
    LET beyond(c) == 4 * AbsDelta(prev, cur, c) > Base(prev) * Base(cur)
        atLeastTen(c) == 10 * AbsDelta(prev, cur, c) >= Base(prev) * Base(cur)
    IN  IF \E c \in Changes(prev, cur) : beyond(c) THEN "CRITICAL"
        ELSE IF \E c \in Changes(prev, cur) : atLeastTen(c) THEN "WARN"
        ELSE "INFO"

\* Mutant: an unchanged mix still produces a report.
DetectDriftAlways(prev, cur) ==
    IF prev.total = 0
    THEN NoReport
    ELSE [severity |-> Severity(prev, cur),
          from     |-> Hash(prev),
          to       |-> Hash(cur),
          changes  |-> [c \in Changes(prev, cur) |-> Direction(prev, cur, c)]]

\* Mutant: a cycle that classified nothing produces no report either.
DetectDriftBothWays(prev, cur) ==
    IF prev.total = 0 \/ cur.total = 0 \/ Changes(prev, cur) = {}
    THEN NoReport
    ELSE [severity |-> Severity(prev, cur),
          from     |-> Hash(prev),
          to       |-> Hash(cur),
          changes  |-> [c \in Changes(prev, cur) |-> Direction(prev, cur, c)]]

DetectDrift(prev, cur) ==
    IF prev.total = 0 \/ Changes(prev, cur) = {}
    THEN NoReport
    ELSE [severity |-> Severity(prev, cur),
          from     |-> Hash(prev),
          to       |-> Hash(cur),
          changes  |-> [c \in Changes(prev, cur) |-> Direction(prev, cur, c)]]
=============================================================================
