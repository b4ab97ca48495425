------------------------- MODULE DriftStreamProofs -------------------------
(***************************************************************************)
(* The stream of fingerprints and drift reports, for any categories and    *)
(* any mixes of processes.                                                 *)
(***************************************************************************)
EXTENDS DriftStream, DriftLemmas

\* The cycles of a stream come to fingerprints.
LEMMA ScansGiveFingerprints ==
    ASSUME NEW preds \in Scans
    PROVE  IsFingerprint(ComputeNodeFingerprint(preds))
BY ScansAssumption, ComputedIsFingerprint

\* The report is always the comparison of the last two fingerprints.
IInv == /\ IsFingerprint(before) /\ IsFingerprint(current)
        /\ report = DetectDrift(before, current)

\* Two zero fingerprints give no report.
LEMMA InitIInv == Init => IInv
BY ZeroIsFingerprint DEF Init, IInv, DetectDrift, NoFingerprint

\* A cycle compares its fingerprint with the last one.
LEMMA StepIInv == IInv /\ [Next]_vars => IInv'
BY ScansGiveFingerprints DEF IInv, Next, Cycle, vars

\* The invariant holds of every stream.
THEOREM Inductive == Spec => []IInv
BY InitIInv, StepIInv, PTL DEF Spec

\* The fingerprints are those of scans, and a report is about some category.
THEOREM StreamTypeCorrect == Spec => []TypeOK
<1> DEFINE Printed == before \in Fingerprints /\ current \in Fingerprints
<1>1. Init => Printed
    BY DEF Init, Fingerprints
<1>2. Printed /\ [Next]_vars => Printed'
    BY DEF Next, Cycle, vars, Fingerprints
<1>3. IInv => report = NoReport \/ /\ report.severity \in {"INFO", "WARN", "CRITICAL"}
                                   /\ DOMAIN report.changes \in (SUBSET Cats) \ {{}}
    <2> SUFFICES ASSUME IInv, report # NoReport
                 PROVE  /\ report.severity \in {"INFO", "WARN", "CRITICAL"}
                        /\ DOMAIN report.changes \in (SUBSET Cats) \ {{}}
        OBVIOUS
    <2>1. Changes(before, current) # {} /\ Changes(before, current) \subseteq Cats
        BY ReportIsReport DEF IInv, Changes
    <2>2. Severity(before, current) \in {"INFO", "WARN", "CRITICAL"}
        BY DEF Severity
    <2>3. report = [severity |-> Severity(before, current),
                    from |-> Hash(before), to |-> Hash(current),
                    changes |-> [c \in Changes(before, current) |->
                                     Direction(before, current, c)]]
        BY Zenon DEF IInv, DetectDrift
    <2>4. report.severity = Severity(before, current)
        BY <2>3, Zenon
    <2>5. DOMAIN report.changes = Changes(before, current)
        BY <2>3, Zenon
    <2>6. Changes(before, current) \in (SUBSET Cats) \ {{}}
        <3> DEFINE C == Changes(before, current)
        <3>1. C # {} /\ C \subseteq Cats
            BY <2>1
        <3> HIDE DEF C
        <3>2. C \in (SUBSET Cats) \ {{}}
            BY ONLY <3>1
        <3> QED
            BY <3>2 DEF C
    <2> QED
        BY <2>2, <2>4, <2>5, <2>6, Zenon
<1>4. Printed /\ IInv => TypeOK
    BY <1>3 DEF TypeOK
<1> QED
    BY <1>1, <1>2, <1>4, Inductive, PTL DEF Spec

\* No drift is reported under an unchanged hash, for any number of categories
\* and processes: a change of five points always moves a bucket.
THEOREM DriftMovesHash == Spec => []DriftChangesHash
<1>1. IInv => DriftChangesHash
    BY ReportIsReport, SameHashNoDrift DEF IInv, DriftChangesHash
<1> QED
    BY <1>1, Inductive, PTL

\* A category that held a twentieth of the node cannot disappear unreported.
THEOREM NothingVanishesSilently == Spec => []VanishingIsReported
<1>1. ASSUME IInv, NEW c \in Cats, 20 * before.count[c] >= Base(before), current.count[c] = 0
      PROVE  report # NoReport /\ c \in DOMAIN report.changes /\ report.changes[c] = "vanished"
    <2> DEFINE n == before.count[c]
               b == Base(before)
               k == Base(current)
    <2>1. n \in Nat /\ b \in Nat /\ b > 0 /\ k \in Nat /\ k > 0 /\ 20 * n >= b
        BY <1>1, BaseIsPositive DEF IInv, IsFingerprint
    <2>2. AbsDelta(before, current, c) = n * k
        BY <1>1, <2>1 DEF AbsDelta
    <2> HIDE DEF n, b, k
    <2>3. 20 * (n * k) >= b * k /\ n > 0
        BY <2>1
    <2>4. c \in Changes(before, current)
        BY <2>2, <2>3 DEF Changes, Reported, b, k
    <2>5. before.total # 0
        BY <1>1, <2>3 DEF IInv, IsFingerprint, n
    <2>6. report # NoReport /\ Direction(before, current, c) = "vanished"
        BY <1>1, <2>3, <2>4, <2>5, ReportIsReport DEF IInv, Direction, n
    <2> QED
        BY <1>1, <2>4, <2>5, <2>6 DEF IInv, DetectDrift
<1>2. IInv => VanishingIsReported
    BY <1>1 DEF VanishingIsReported
<1> QED
    BY <1>2, Inductive, PTL
-----------------------------------------------------------------------------
(* A change and its reversal.                                              *)

\* The difference of two shares is the same seen from either.
LEMMA DeltaIsSymmetric ==
    ASSUME NEW fp, IsFingerprint(fp), NEW gp, IsFingerprint(gp), NEW c \in Cats
    PROVE  /\ AbsDelta(fp, gp, c) = AbsDelta(gp, fp, c)
           /\ AbsDelta(fp, gp, c) \in Nat
<1> DEFINE x == gp.count[c] * Base(fp)
           y == fp.count[c] * Base(gp)
<1>1. x \in Int /\ y \in Int
    BY BaseIsPositive DEF IsFingerprint
<1>2. /\ AbsDelta(fp, gp, c) = IF x - y < 0 THEN -(x - y) ELSE x - y
      /\ AbsDelta(gp, fp, c) = IF y - x < 0 THEN -(y - x) ELSE y - x
    BY DEF AbsDelta
<1> HIDE DEF x, y
<1> QED
    BY <1>1, <1>2

\* So are the categories that changed, and how severe it was.
LEMMA SeverityIsSymmetric ==
    ASSUME NEW fp, IsFingerprint(fp), NEW gp, IsFingerprint(gp)
    PROVE  Changes(fp, gp) = Changes(gp, fp) /\ Severity(fp, gp) = Severity(gp, fp)
<1>1. Base(fp) * Base(gp) = Base(gp) * Base(fp)
    BY BaseIsPositive
<1>2. Changes(fp, gp) = Changes(gp, fp)
    BY <1>1, DeltaIsSymmetric DEF Changes, Reported
<1>3. \A c \in Changes(fp, gp) : AbsDelta(fp, gp, c) = AbsDelta(gp, fp, c)
    BY DeltaIsSymmetric DEF Changes
<1> QED
    BY <1>1, <1>2, <1>3 DEF Severity

\* What appeared vanishes and what grew shrinks; nothing that changed did neither.
LEMMA DirectionIsMirrored ==
    ASSUME NEW fp, IsFingerprint(fp), NEW gp, IsFingerprint(gp), NEW c \in Changes(fp, gp)
    PROVE  Direction(gp, fp, c) = Opposite[Direction(fp, gp, c)]
<1> DEFINE x == gp.count[c] * Base(fp)
           y == fp.count[c] * Base(gp)
<1>1. /\ c \in Cats /\ fp.count[c] \in Nat /\ gp.count[c] \in Nat
      /\ Base(fp) \in Nat /\ Base(gp) \in Nat /\ Base(fp) * Base(gp) > 0
    BY BaseIsPositive DEF Changes, IsFingerprint
<1>2. x \in Int /\ y \in Int
    BY <1>1
<1>3. x # y
    <2>1. x = y => AbsDelta(fp, gp, c) = 0
        BY <1>2 DEF AbsDelta
    <2>2. AbsDelta(fp, gp, c) = 0 => ~Reported(fp, gp, c)
        BY <1>1 DEF Reported
    <2> QED
        BY <2>1, <2>2 DEF Changes
<1>4. fp.count[c] # 0 \/ gp.count[c] # 0
    BY <1>1, <1>3
<1>5. /\ Direction(fp, gp, c) = IF fp.count[c] = 0 THEN "appeared"
                                ELSE IF gp.count[c] = 0 THEN "vanished"
                                ELSE IF x < y THEN "decreased" ELSE "increased"
      /\ Direction(gp, fp, c) = IF gp.count[c] = 0 THEN "appeared"
                                ELSE IF fp.count[c] = 0 THEN "vanished"
                                ELSE IF y < x THEN "decreased" ELSE "increased"
    BY DEF Direction
<1> HIDE DEF x, y
<1> QED
    BY <1>2, <1>3, <1>4, <1>5 DEF Opposite

\* A cycle that undoes the one before it gives the mirror image of its report.
THEOREM RoundTripIsMirrored == Spec => RoundTripMirrors
<1> DEFINE Mirrored ==
        IF report = NoReport THEN report' = NoReport
        ELSE /\ report' # NoReport
             /\ report'.severity = report.severity
             /\ report'.from = report.to /\ report'.to = report.from
             /\ DOMAIN report'.changes = DOMAIN report.changes
             /\ \A c \in DOMAIN report.changes :
                    report'.changes[c] = Opposite[report.changes[c]]
<1>1. ASSUME IInv, [Next]_vars
      PROVE  [current' = before /\ before.total > 0 /\ current.total > 0 => Mirrored]_vars
    <2> SUFFICES ASSUME Next, current' = before, before.total > 0, current.total > 0
                 PROVE  Mirrored
        BY <1>1
    <2>1. /\ IsFingerprint(before) /\ IsFingerprint(current)
          /\ report = DetectDrift(before, current)
          /\ report' = DetectDrift(current, before)
        BY <1>1 DEF IInv, Next, Cycle
    <2>2. before.total # 0 /\ current.total # 0
        OBVIOUS
    <2>3. Changes(before, current) = Changes(current, before)
        BY <2>1, SeverityIsSymmetric
    <2>4. CASE Changes(before, current) = {}
        BY <2>1, <2>3, <2>4 DEF DetectDrift
    <2>5. CASE Changes(before, current) # {}
        <3>1. report # NoReport /\ report' # NoReport
            BY <2>1, <2>2, <2>3, <2>5, ReportIsReport
        <3>2. /\ report = [severity |-> Severity(before, current),
                           from |-> Hash(before), to |-> Hash(current),
                           changes |-> [c \in Changes(before, current) |->
                                            Direction(before, current, c)]]
              /\ report' = [severity |-> Severity(current, before),
                            from |-> Hash(current), to |-> Hash(before),
                            changes |-> [c \in Changes(current, before) |->
                                             Direction(current, before, c)]]
            BY <2>1, <3>1 DEF DetectDrift
        <3>3. Severity(before, current) = Severity(current, before)
            BY <2>1, SeverityIsSymmetric
        <3>4. \A c \in Changes(before, current) :
                  Direction(current, before, c) = Opposite[Direction(before, current, c)]
            BY <2>1, DirectionIsMirrored
        <3> QED
            BY <2>3, <3>1, <3>2, <3>3, <3>4
    <2> QED
        BY <2>4, <2>5
<1> QED
    BY <1>1, Inductive, PTL DEF Spec, RoundTripMirrors
=============================================================================
