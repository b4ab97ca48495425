---------------------------- MODULE DriftStream ----------------------------
(***************************************************************************)
(* What the scan loop promises the reader of its output: a stream of node  *)
(* fingerprints, one per completed cycle, each followed by the drift       *)
(* report that compares it with the fingerprint before it in the stream    *)
(* (pkg/cmd/scan.go:421-425, 474-483 and 560).                             *)
(***************************************************************************)
EXTENDS Drift

CONSTANT Scans      \* the predictions a cycle may come to

ASSUME ScansAssumption == \A preds \in Scans : IsFiniteSet(DOMAIN preds)

VARIABLES before,   \* the fingerprint before the last one
          current,  \* the last fingerprint emitted
          report    \* the drift report emitted with it, or NoReport

vars == <<before, current, report>>

Fingerprints == {ComputeNodeFingerprint(preds) : preds \in Scans} \cup {NoFingerprint}

TypeOK == /\ before \in Fingerprints
          /\ current \in Fingerprints
          /\ \/ report = NoReport
             \/ /\ report.severity \in {"INFO", "WARN", "CRITICAL"}
                /\ DOMAIN report.changes \in (SUBSET Cats) \ {{}}

\* previousFingerprint is the zero value before the first cycle.
Init == /\ before = NoFingerprint
        /\ current = NoFingerprint
        /\ report = NoReport

Cycle(preds) == /\ before' = current
                /\ current' = ComputeNodeFingerprint(preds)
                /\ report' = DetectDrift(current, current')

Next == \E preds \in Scans : Cycle(preds)

Spec == Init /\ [][Next]_vars

-----------------------------------------------------------------------------
\* A drift report always comes with a new hash: FingerprintChanged is true of
\* every report, so an operator who watches hashes misses no drift
\* (drift.go:72, fingerprint.go:20).
DriftChangesHash == report # NoReport => Hash(before) # Hash(current)

\* Nothing goes missing silently: a category that held five percentage points
\* or more and has no process left is reported as vanished, even when the
\* whole node emptied.
VanishingIsReported ==
    \A c \in Cats :
        /\ 20 * before.count[c] >= Base(before)
        /\ current.count[c] = 0
        => /\ report # NoReport
           /\ c \in DOMAIN report.changes
           /\ report.changes[c] = "vanished"

Opposite == [appeared |-> "vanished", vanished |-> "appeared",
             increased |-> "decreased", decreased |-> "increased"]

\* A transient is reported twice: a cycle that undoes the one before it gives
\* the mirror image of that cycle's report, as long as the fingerprint that
\* came and went was not an empty one.
RoundTripMirrors ==
    [][ /\ current' = before
        /\ before.total > 0 /\ current.total > 0
        => IF report = NoReport THEN report' = NoReport
           ELSE /\ report' # NoReport
                /\ report'.severity = report.severity
                /\ report'.from = report.to /\ report'.to = report.from
                /\ DOMAIN report'.changes = DOMAIN report.changes
                /\ \A c \in DOMAIN report.changes :
                       report'.changes[c] = Opposite[report.changes[c]] ]_vars

\* Documented at fingerprint.go:62-63: the same distribution of bucketed
\* percentages always gives the same hash.
SameBucketsSameHash ==
    /\ before.sum > 0 /\ current.sum > 0
    /\ Present(before) = Present(current)
    /\ \A c \in Present(before) : Bucket(before, c) = Bucket(current, c)
    => Hash(before) = Hash(current)

\* Documented at drift.go:101 and scan.go:162-163: only the first scan has no
\* baseline to be compared with.
OnlyFirstScanHasNoBaseline ==
    [][ /\ current # NoFingerprint \/ before # NoFingerprint
        /\ Changes(current, current') # {}
        => report' # NoReport ]_vars
=============================================================================
