---------------------------- MODULE DriftLemmas ----------------------------
(***************************************************************************)
(* What fingerprints, their hashes and the drift reports between them are, *)
(* for any categories and any mixes of processes.                          *)
(***************************************************************************)
EXTENDS Drift, FiniteSetTheorems, TLAPS

\* What ComputeNodeFingerprint can return, as far as the theorems need it.
IsFingerprint(fp) == /\ fp.count \in [Cats -> Nat]
                     /\ fp.sum \in Nat /\ fp.total \in Nat
                     /\ \A c \in Cats : fp.count[c] <= fp.sum
                     /\ fp.sum > 0 => fp.total # 0

-----------------------------------------------------------------------------
(* Fingerprints.                                                           *)

\* No category has more processes than were classified.
LEMMA ComputedIsFingerprint ==
    ASSUME NEW preds, IsFiniteSet(DOMAIN preds)
    PROVE  IsFingerprint(ComputeNodeFingerprint(preds))
<1> DEFINE With(c) == {p \in DOMAIN preds : preds[p] = c}
           Known == {p \in DOMAIN preds : preds[p] # Unknown}
<1>1. IsFiniteSet(Known)
    BY FS_Subset
<1>2. ASSUME NEW c \in Cats
      PROVE  With(c) \subseteq Known
    BY CatsAssumption
<1> HIDE DEF With, Known
<1>3. ASSUME NEW c \in Cats
      PROVE  Cardinality(With(c)) \in Nat /\ Cardinality(With(c)) <= Cardinality(Known)
    BY <1>1, <1>2, FS_Subset, FS_CardinalityType
<1>4. Cardinality(Known) \in Nat /\ Cardinality(DOMAIN preds) \in Nat
    BY <1>1, FS_CardinalityType
<1> QED
    BY <1>3, <1>4
    DEF With, Known, IsFingerprint, ComputeNodeFingerprint, Count, Classified

\* The zero value is a fingerprint.
LEMMA ZeroIsFingerprint == IsFingerprint(NoFingerprint)
BY DEF IsFingerprint, NoFingerprint

\* The denominator of a percentage is never zero.
LEMMA BaseIsPositive ==
    ASSUME NEW fp, IsFingerprint(fp)
    PROVE  Base(fp) \in Nat /\ Base(fp) > 0
BY DEF IsFingerprint, Base

-----------------------------------------------------------------------------
(* The order of DominantCategories.                                        *)

\* The order is strict and total on the categories.
LEMMA PrecedesIsOrder ==
    ASSUME NEW fp, IsFingerprint(fp)
    PROVE  /\ \A c \in Cats : ~Precedes(fp, c, c)
           /\ \A c, d \in Cats : c = d \/ Precedes(fp, c, d) \/ Precedes(fp, d, c)
           /\ \A c, d, e \in Cats :
                  Precedes(fp, c, d) /\ Precedes(fp, d, e) => Precedes(fp, c, e)
BY CatsAssumption DEF IsFingerprint, Precedes

\* The categories with a share are finitely many.
LEMMA PresentIsFinite ==
    ASSUME NEW fp
    PROVE  /\ Present(fp) \subseteq Cats /\ IsFiniteSet(Present(fp))
           /\ Cardinality(Present(fp)) \in Nat
<1>1. Present(fp) \subseteq Cats /\ IsFiniteSet(Present(fp))
    BY CatsAssumption, FS_Subset DEF Present
<1> QED
    BY <1>1, FS_CardinalityType

\* A position is a number from one to that of the categories, and no two
\* categories share one.
LEMMA PositionsAreDistinct ==
    ASSUME NEW fp, IsFingerprint(fp)
    PROVE  /\ \A c \in Present(fp) : Position(fp, c) \in 1..Cardinality(Present(fp))
           /\ \A c, d \in Present(fp) : Position(fp, c) = Position(fp, d) => c = d
<1> DEFINE UpTo(c) == {d \in Present(fp) : d = c \/ Precedes(fp, d, c)}
<1>1. ASSUME NEW c \in Present(fp)
      PROVE  /\ IsFiniteSet(UpTo(c)) /\ c \in UpTo(c)
             /\ Cardinality(UpTo(c)) \in 1..Cardinality(Present(fp))
    <2>1. c \in UpTo(c) /\ UpTo(c) \subseteq Present(fp)
        OBVIOUS
    <2> HIDE DEF UpTo
    <2>2. IsFiniteSet(UpTo(c)) /\ Cardinality(UpTo(c)) <= Cardinality(Present(fp))
        BY <2>1, PresentIsFinite, FS_Subset
    <2>3. Cardinality(UpTo(c)) \in Nat /\ Cardinality(UpTo(c)) # 0
        BY <2>1, <2>2, FS_CardinalityType, FS_EmptySet
    <2> QED
        BY <2>1, <2>2, <2>3, PresentIsFinite
<1>2. ASSUME NEW c \in Present(fp), NEW d \in Present(fp), Precedes(fp, c, d)
      PROVE  Cardinality(UpTo(c)) # Cardinality(UpTo(d))
    <2>1. UpTo(c) \subseteq UpTo(d)
        BY <1>2, PrecedesIsOrder, PresentIsFinite
    <2>2. d \notin UpTo(c)
        BY <1>2, PrecedesIsOrder, PresentIsFinite
    <2>3. d \in UpTo(d) /\ IsFiniteSet(UpTo(d))
        BY <1>1
    <2> HIDE DEF UpTo
    <2> QED
        BY <2>1, <2>2, <2>3, FS_Subset
<1>3. \A c : Position(fp, c) = Cardinality(UpTo(c))
    BY DEF Position
<1> HIDE DEF UpTo
<1> QED
    BY <1>1, <1>2, <1>3, PrecedesIsOrder, PresentIsFinite

\* So every place is taken, and DominantCategories lists each category once.
LEMMA EveryPlaceIsTaken ==
    ASSUME NEW fp, IsFingerprint(fp),
           NEW i \in 1..Cardinality(Present(fp))
    PROVE  /\ DominantCategories(fp)[i] \in Present(fp)
           /\ Position(fp, DominantCategories(fp)[i]) = i
<1> DEFINE n == Cardinality(Present(fp))
           place == [c \in Present(fp) |-> Position(fp, c)]
<1>1. place \in Injection(Present(fp), 1..n)
    BY PositionsAreDistinct DEF Injection, IsInjective
<1>2. IsFiniteSet(1..n) /\ Cardinality(1..n) = n
    BY PresentIsFinite, FS_Interval
<1>3. place \in Surjection(Present(fp), 1..n)
    BY <1>1, <1>2, FS_Injection
<1>4. \E c \in Present(fp) : Position(fp, c) = i
    BY <1>3 DEF Surjection
<1> QED
    BY <1>4 DEF DominantCategories

\* A category is found at its position.
LEMMA FoundAtItsPosition ==
    ASSUME NEW fp, IsFingerprint(fp), NEW c \in Present(fp)
    PROVE  DominantCategories(fp)[Position(fp, c)] = c
BY PositionsAreDistinct, EveryPlaceIsTaken
-----------------------------------------------------------------------------
(* Hashes.                                                                 *)

\* A hash is a sequence of categories and buckets.
LEMMA HashIsText ==
    ASSUME NEW fp, IsFingerprint(fp)
    PROVE  Hash(fp) \in Seq(Cats \X Int)
<1> DEFINE n == Cardinality(Present(fp))
<1>1. n \in Nat /\ DOMAIN DominantCategories(fp) = 1..n
    BY PresentIsFinite DEF DominantCategories
<1>2. ASSUME NEW i \in 1..n
      PROVE  DominantCategories(fp)[i] \in Cats
    BY EveryPlaceIsTaken, PresentIsFinite
<1>3. ASSUME NEW c \in Present(fp)
      PROVE  Bucket(fp, c) \in Int
    BY DEF Present, Bucket, IsFingerprint
<1>4. Hash(fp) \in [1..n -> Cats \X Int]
    BY <1>1, <1>2, <1>3, EveryPlaceIsTaken DEF Hash
<1> QED
    BY <1>1, <1>4

\* Equal hashes mean the same categories, in the same buckets.
LEMMA HashTellsBuckets ==
    ASSUME NEW fp, IsFingerprint(fp), NEW gp, IsFingerprint(gp), Hash(fp) = Hash(gp)
    PROVE  \A c \in Present(fp) : c \in Present(gp) /\ Bucket(fp, c) = Bucket(gp, c)
<1> SUFFICES ASSUME NEW c \in Present(fp)
             PROVE  c \in Present(gp) /\ Bucket(fp, c) = Bucket(gp, c)
    OBVIOUS
<1> DEFINE i == Position(fp, c)
<1>1. i \in 1..Cardinality(Present(fp)) /\ DominantCategories(fp)[i] = c
    BY PositionsAreDistinct, FoundAtItsPosition
<1>2. /\ DOMAIN Hash(fp) = 1..Cardinality(Present(fp))
      /\ DOMAIN Hash(gp) = 1..Cardinality(Present(gp))
    BY DEF Hash, DominantCategories
<1> HIDE DEF i
<1>3. i \in 1..Cardinality(Present(gp))
    BY <1>1, <1>2
<1>4. Hash(fp)[i] = <<c, Bucket(fp, c)>>
    BY <1>1 DEF Hash, DominantCategories
<1>5. Hash(gp)[i] = <<DominantCategories(gp)[i], Bucket(gp, DominantCategories(gp)[i])>>
    BY <1>3 DEF Hash, DominantCategories
<1>6. DominantCategories(gp)[i] = c /\ Bucket(gp, c) = Bucket(fp, c)
    BY <1>4, <1>5
<1> QED
    BY <1>3, <1>6, EveryPlaceIsTaken

\* Shares in the same bucket differ by less than one twentieth.
LEMMA SameBucketIsClose ==
    ASSUME NEW n \in Nat, NEW s \in Nat, s > 0, NEW m \in Nat, NEW t \in Nat, t > 0,
           ((20 * n) \div s) * 5 = ((20 * m) \div t) * 5
    PROVE  /\ 20 * (m * s - n * t) < s * t
           /\ 20 * (n * t - m * s) < s * t
<1> DEFINE k == (20 * n) \div s
<1>1. k \in Nat /\ k = (20 * m) \div t
    OBVIOUS
<1>2. k * s <= 20 * n /\ 20 * n < k * s + s
    OBVIOUS
<1>3. k * t <= 20 * m /\ 20 * m < k * t + t
    BY <1>1
<1> HIDE DEF k
<1>4. /\ (k * s) * t <= (20 * n) * t /\ (20 * n) * t < (k * s + s) * t
      /\ (k * t) * s <= (20 * m) * s /\ (20 * m) * s < (k * t + t) * s
    BY <1>1, <1>2, <1>3
<1> QED
    BY <1>1, <1>4

\* Fingerprints with the same hash show no drift.
LEMMA SameHashNoDrift ==
    ASSUME NEW fp, IsFingerprint(fp), NEW gp, IsFingerprint(gp), Hash(fp) = Hash(gp)
    PROVE  Changes(fp, gp) = {}
<1> SUFFICES ASSUME NEW c \in Cats
             PROVE  ~Reported(fp, gp, c)
    BY DEF Changes
<1>1. CASE c \in Present(fp)
    <2>1. c \in Present(gp) /\ Bucket(fp, c) = Bucket(gp, c)
        BY <1>1, HashTellsBuckets
    <2>2. /\ fp.count[c] \in Nat /\ fp.sum \in Nat /\ fp.sum > 0
          /\ gp.count[c] \in Nat /\ gp.sum \in Nat /\ gp.sum > 0
        BY <1>1, <2>1 DEF Present, IsFingerprint
    <2>3. /\ 20 * (gp.count[c] * fp.sum - fp.count[c] * gp.sum) < fp.sum * gp.sum
          /\ 20 * (fp.count[c] * gp.sum - gp.count[c] * fp.sum) < fp.sum * gp.sum
        BY <2>1, <2>2, SameBucketIsClose DEF Bucket
    <2>4. Base(fp) = fp.sum /\ Base(gp) = gp.sum
        BY <2>2 DEF Base
    <2> DEFINE diff == gp.count[c] * fp.sum - fp.count[c] * gp.sum
               w == fp.sum * gp.sum
    <2>5. diff \in Int /\ w \in Int /\ 20 * diff < w /\ 20 * (-diff) < w
        BY <2>2, <2>3
    <2>6. AbsDelta(fp, gp, c) = IF diff < 0 THEN -diff ELSE diff
        BY <2>4 DEF AbsDelta
    <2>7. Base(fp) * Base(gp) = w
        BY <2>4
    <2> HIDE DEF diff, w
    <2>8. ~ (20 * AbsDelta(fp, gp, c) >= w)
        BY <2>5, <2>6
    <2> QED
        BY <2>7, <2>8 DEF Reported
<1>2. CASE c \notin Present(fp)
    <2>1. c \notin Present(gp)
        BY <1>2, HashTellsBuckets
    <2>2. fp.count[c] = 0 /\ gp.count[c] = 0
        BY <1>2, <2>1 DEF Present, IsFingerprint
    <2>3. Base(fp) \in Nat /\ Base(gp) \in Nat /\ Base(fp) * Base(gp) > 0
        BY BaseIsPositive
    <2>4. AbsDelta(fp, gp, c) = 0
        BY <2>2, <2>3 DEF AbsDelta
    <2> QED
        BY <2>3, <2>4 DEF Reported
<1> QED
    BY <1>1, <1>2

-----------------------------------------------------------------------------
(* Reports.                                                                *)

\* A report can be told from none.
LEMMA ReportIsReport ==
    ASSUME NEW fp, IsFingerprint(fp), NEW gp, IsFingerprint(gp)
    PROVE  DetectDrift(fp, gp) # NoReport <=> fp.total # 0 /\ Changes(fp, gp) # {}
<1>1. Changes(fp, gp) \subseteq Cats
    BY DEF Changes
<1>2. [c \in Changes(fp, gp) |-> Direction(fp, gp, c)]
          \in UNION {[S -> {"appeared", "vanished", "decreased", "increased"}] :
                         S \in SUBSET Cats}
    BY <1>1 DEF Direction
<1>3. Severity(fp, gp) \in {"INFO", "WARN", "CRITICAL"}
    BY DEF Severity
<1> QED
    BY <1>2, <1>3, HashIsText, NoReportAssumption DEF DetectDrift

\* A mix that stays as it is shows no drift.
LEMMA SameMixNoDrift ==
    ASSUME NEW fp, IsFingerprint(fp)
    PROVE  DetectDrift(fp, fp) = NoReport
BY SameHashNoDrift DEF DetectDrift

\* Nothing is compared with an empty fingerprint.
LEMMA EmptyIsNoBaseline ==
    ASSUME NEW fp
    PROVE  DetectDrift(NoFingerprint, fp) = NoReport
BY DEF DetectDrift, NoFingerprint
=============================================================================
