------------------------------ MODULE Explain ------------------------------
(***************************************************************************)
(* Explain (pkg/explain/explain.go:154-183, 278-351): how close a          *)
(* prediction was, and what could change it.  The contributions of the     *)
(* features to the similarity are numbers for display and left out.        *)
(***************************************************************************)
EXTENDS Classifier

\* Mutant: the runner-up must do worse than the winner.
SecondPlaceBelow(p) ==
    LET below == {c \in Categories : p.scores[c] < p.confidence}
        top == Max({p.scores[d] : d \in below} \cup {0})
    IN  {c \in Categories \ {p.primary} : p.scores[c] = top}

\* The categories a sort by score, which is not stable, can put second: with
\* a tie for the first place the winner itself is one of them.
SecondPlace(p) ==
    UNION {LET others == Categories \ {first}
               top == Max({p.scores[d] : d \in others})
           IN  {c \in others : p.scores[c] = top} :
              first \in {d \in Categories : p.scores[d] = p.confidence}}

\* The closest of the others that have a score at all; any one of several.
Rivals(p) ==
    LET others == Categories \ {p.primary}
        top == Max({p.scores[d] : d \in others})
    IN  {c \in others : p.scores[c] > 0 /\ p.scores[c] = top}

\* What each hint is about.  The one about memory asks for the category
\* Unknown, which Predict never returns.
TelemetryHints(p, s) ==
    (IF (s.sockets > 500 /\ p.primary # "LoadBalancer")
        \/ (s.sockets < 10 /\ p.primary # "UtilityBatch")
     THEN {"Socket Count"} ELSE {})
    \cup (IF s.cpu > 150 /\ p.primary # "AITraining" THEN {"CPU Usage"} ELSE {})

\* The alternatives of the hint about the gap: none, or a rival that is less
\* than fifteen points away.
GapHints(p) ==
    LET close == {c \in Rivals(p) : p.confidence - p.scores[c] < 15}
    IN  IF close = {} THEN {"none"} ELSE close

\* What Explain can return for a prediction and its telemetry.
Explanations(p, s) ==
    {[runnerUp |-> c, distance |-> p.confidence - p.scores[c],
      hints |-> TelemetryHints(p, s), closest |-> r] :
        c \in SecondPlace(p), r \in GapHints(p)}
=============================================================================
