---------------------------- MODULE Fingerprint ----------------------------
(***************************************************************************)
(* ComputeNodeFingerprint (pkg/classifier/fingerprint.go:65-155).  The     *)
(* predictions of a scan cycle are a function from the PIDs that were      *)
(* classified to their primary categories.  Percentages are kept as exact  *)
(* fractions count/sum; the hash is represented by the text that SHA-256   *)
(* digests, the sequence of "category:bucket" pairs.                       *)
(***************************************************************************)
EXTENDS Integers, FiniteSets

CONSTANTS Cats,     \* the categories, each named by its alphabetical rank
          Unknown   \* the category that counts towards no share

ASSUME CatsAssumption == /\ Cats \subseteq Nat
                         /\ IsFiniteSet(Cats)
                         /\ Unknown \notin Cats

\* What a slice of predictions can be: some PIDs, each with a category.
Predictions(pids) == UNION {[S -> Cats \cup {Unknown}] : S \in SUBSET pids}

Count(preds, c) == Cardinality({p \in DOMAIN preds : preds[p] = c})

Classified(preds) == Cardinality({p \in DOMAIN preds : preds[p] # Unknown})

\* count: CategoryShare.Count of each category (0 when it has no share);
\* sum: the denominator of the percentages; total: TotalClassified, which is
\* the number of predictions when every one of them is Unknown.
ComputeNodeFingerprint(preds) ==
    [count |-> [c \in Cats |-> Count(preds, c)],
     sum   |-> Classified(preds),
     total |-> IF Classified(preds) = 0 THEN Cardinality(DOMAIN preds)
                                        ELSE Classified(preds)]

\* The Go zero value, and what an empty slice of predictions yields.
NoFingerprint == [count |-> [c \in Cats |-> 0], sum |-> 0, total |-> 0]

\* The categories that have a CategoryShare.
Present(fp) == {c \in Cats : fp.count[c] > 0}

\* The order of DominantCategories: by count descending, then by name.
Precedes(fp, c, d) == \/ fp.count[c] > fp.count[d]
                      \/ fp.count[c] = fp.count[d] /\ c < d

Position(fp, c) == Cardinality({d \in Present(fp) : d = c \/ Precedes(fp, d, c)})

DominantCategories(fp) ==
    [i \in 1..Cardinality(Present(fp)) |->
        CHOOSE c \in Present(fp) : Position(fp, c) = i]

\* Mutant: buckets as wide as the qualifiers of the workload profile.
WideBucket(fp, c) == ((4 * fp.count[c]) \div fp.sum) * 25

\* int(s.Percentage/5.0) * 5, the percentage rounded down to a multiple of 5.
Bucket(fp, c) == ((20 * fp.count[c]) \div fp.sum) * 5

\* The text that is hashed; <<>> stands for the all-zero hash.
Hash(fp) == [i \in DOMAIN DominantCategories(fp) |->
                <<DominantCategories(fp)[i], Bucket(fp, DominantCategories(fp)[i])>>]
=============================================================================
