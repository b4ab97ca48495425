--------------------------- MODULE MCDriftStream ---------------------------
(* Model values for DriftStream.  A fingerprint depends on how many PIDs   *)
(* fall into each category only, so one assignment of PIDs per vector of   *)
(* counts is enough.  Predict never returns Unknown, so no PID gets it.    *)
EXTENDS DriftStream, FiniteSetsExt

CONSTANTS MaxCount,            \* most PIDs of one category
          MinTotal, MaxTotal   \* PIDs classified in a cycle that is not empty

MCCats == {1, 2, 3}

UpTo(count, c) == MapThenSumSet(LAMBDA d : count[d], {d \in Cats : d <= c})

\* count[c] PIDs of each category c, numbered from 1.
Assign(count) == [p \in 1..UpTo(count, Max(Cats)) |-> Min({c \in Cats : p <= UpTo(count, c)})]

MCScans == {Assign(count) :
               count \in {f \in [Cats -> 0..MaxCount] :
                             UpTo(f, Max(Cats)) \in {0} \cup MinTotal..MaxTotal}}
=============================================================================
