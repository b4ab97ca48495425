---------------------------- MODULE DriftHistory ----------------------------
(***************************************************************************)
(* The drift command (pkg/cmd/drift_cmd.go:52-102, 185-283): it reads the  *)
(* log of a scan loop back and compares the node's fingerprints again.     *)
(* The log has, per cycle, an envelope with the fingerprint and one line   *)
(* per prediction, all with the same timestamp (pkg/cmd/scan.go:425-483).  *)
(* Timestamps are in half seconds.                                         *)
(***************************************************************************)
EXTENDS Drift, Sequences

CONSTANTS Cycles,     \* the predictions a cycle may come to
          MaxCycles   \* bound on the cycles logged

ASSUME CyclesAssumption == /\ Cycles \subseteq Seq(Cats \cup {Unknown})
                           /\ MaxCycles \in Nat

VARIABLES log,        \* [preds, time, long]: the cycles, and whether one of the lines of
                      \* a cycle is longer than the scanner's buffer
          emitted,    \* [report, time]: the drift reports among them
          source,     \* what the command reads: "none" before it is called
          entries,    \* [kind, fingerprint, time]: what it found, not sorted yet
          last,       \* the entry taken last
          reports,    \* [report, time]: what it will print
          outcome

historyVars == <<log, emitted, source, entries, last, reports, outcome>>

Nobody == [kind |-> "none", fingerprint |-> NoFingerprint, time |-> 0]

HistoryAt(place) ==
    /\ log = <<>> /\ emitted = <<>>
    /\ source = place
    /\ entries = {} /\ last = Nobody /\ reports = <<>>
    /\ outcome = "open"

HistoryInit == HistoryAt("none")

\* The fingerprint of a cycle of the log.
Mix(i) == ComputeNodeFingerprint(log[i].preds)

LastTime == IF log = <<>> THEN 0 ELSE log[Len(log)].time

PreviousFingerprint == IF log = <<>> THEN NoFingerprint
                       ELSE Mix(Len(log))

Extended(found, report, time) ==
    IF report = NoReport THEN found ELSE Append(found, [report |-> report, time |-> time])

\* A cycle of the scan loop: its lines have one timestamp, and its own report is
\* a line that the command skips.
LogCycle(preds, pause, long) ==
    /\ source = "none"
    /\ Len(log) < MaxCycles
    /\ LET time == LastTime + pause
       IN  /\ log' = Append(log, [preds |-> preds, time |-> time, long |-> long])
           /\ emitted' = Extended(emitted, DetectDrift(PreviousFingerprint,
                                                   ComputeNodeFingerprint(preds)), time)
    /\ UNCHANGED <<source, entries, last, reports, outcome>>

-----------------------------------------------------------------------------
Envelopes == {[kind |-> "envelope", fingerprint |-> Mix(i), time |-> log[i].time] :
                 i \in DOMAIN log}

\* Predictions are grouped by their time in whole seconds; a group has the time
\* of the last of its lines.  PIDs of different cycles count apart.
Second(time) == time \div 2

InSecond(n) == {i \in DOMAIN log : Second(log[i].time) = n /\ log[i].preds # <<>>}

Lines(n) == UNION {{<<i, p>> : p \in DOMAIN log[i].preds} : i \in InSecond(n)}

Group(n) ==
    [kind |-> "group",
     time |-> log[CHOOSE i \in InSecond(n) : \A j \in InSecond(n) : j <= i].time,
     fingerprint |-> ComputeNodeFingerprint([line \in Lines(n) |-> log[line[1]].preds[line[2]]])]

Groups == {Group(n) : n \in {m \in {Second(log[i].time) : i \in DOMAIN log} : InSecond(m) # {}}}

Call(from, found, result) ==
    /\ source = "none"
    /\ source' = from
    /\ entries' = found
    /\ outcome' = result
    /\ UNCHANGED <<log, emitted, last, reports>>

\* Fewer than two entries are no data; a cycle with predictions makes two.
Enough(found) == IF Cardinality(found) < 2 THEN "no_data" ELSE "open"

\* parseFingerprintsFromJSONL.
ReadLog ==
    /\ \A i \in DOMAIN log : ~log[i].long
    /\ Call("log", Envelopes \cup Groups, Enough(Envelopes \cup Groups))

\* A line that does not fit the scanner's buffer ends it with an error, and
\* everything read before it is dropped.
ScannerStops ==
    /\ \E i \in DOMAIN log : log[i].long
    /\ Call("log", {}, "no_data")

\* parseFingerprintsFromState: the entries of a JSON list, any of the cycles.
ReadState ==
    \E some \in SUBSET DOMAIN log :
        LET found == {[kind |-> "state", fingerprint |-> Mix(i), time |-> log[i].time] :
                          i \in some}
        IN  Call("state", found, Enough(found))

\* The file is missing or cannot be decoded: no data, and no error either.
CannotRead == \E from \in {"log", "state"} : Call(from, {}, "no_data")

\* Mutant: the entries stay as they were found, the envelopes first.
EarliestFound(e) ==
    /\ e \in entries
    /\ e.kind = "group" => \A f \in entries : f.kind = "group"
    /\ \A f \in entries : f.kind = e.kind => e.time <= f.time

\* The sort by timestamp is not stable: of those with the same one any is first.
Earliest(e) == e \in entries /\ \A f \in entries : e.time <= f.time

Compare(e) ==
    /\ outcome = "open" /\ source # "none"
    /\ Earliest(e)
    /\ entries' = entries \ {e}
    /\ last' = e
    /\ reports' = IF last = Nobody THEN reports
                  ELSE Extended(reports, DetectDrift(last.fingerprint, e.fingerprint), e.time)
    /\ UNCHANGED <<log, emitted, source, outcome>>

PrintReports ==
    /\ outcome = "open" /\ source # "none"
    /\ entries = {}
    /\ outcome' = "reports"
    /\ UNCHANGED <<log, emitted, source, entries, last, reports>>

HistoryDone == outcome # "open" /\ UNCHANGED historyVars

HistoryNext ==
    \/ \E preds \in Cycles, pause \in 1..2, long \in BOOLEAN : LogCycle(preds, pause, long)
    \/ ReadLog \/ ScannerStops \/ ReadState \/ CannotRead
    \/ \E e \in entries : Compare(e)
    \/ PrintReports \/ HistoryDone

-----------------------------------------------------------------------------
HistoryTypeOK ==
    /\ Len(log) <= MaxCycles /\ Len(emitted) <= Len(log)
    /\ source \in {"none", "log", "state"}
    /\ entries = {} \/ outcome \in {"open", "no_data"}
    /\ Len(reports) <= Cardinality(Envelopes) + Cardinality(Groups)
    /\ outcome \in {"open", "no_data", "reports"}

\* Reading the log of one scan loop back gives the drift reports the loop has
\* emitted itself, no more and no fewer, although every cycle is in the log
\* twice and equal timestamps may be sorted either way: provided that no two
\* cycles with predictions fall into one second, since those are merged
\* (drift_cmd.go:86-97, 211-256).
HistoryAgreesWithStream ==
    /\ source = "log" /\ outcome = "reports"
    /\ \A i, j \in DOMAIN log :
           i # j /\ log[i].preds # <<>> /\ log[j].preds # <<>> =>
               Second(log[i].time) # Second(log[j].time)
    => reports = emitted

\* The cycle has no drift report in the log.
Silent(i) == \A r \in DOMAIN emitted : emitted[r].time # log[i].time

\* A drift that is never reported is slow: each cycle is compared with the one
\* before only (scan.go:425), so a mix may creep any distance in silence, but no
\* category's share moves by five points per cycle or more on the way
\* (drift.go:138), as long as something was running in every cycle.
SilentDriftIsSlow ==
    \A i, j \in DOMAIN log :
        /\ i < j
        /\ \A k \in i..(j - 1) : log[k].preds # <<>>
        /\ \A k \in (i + 1)..j : Silent(k)
        => \A c \in Cats : 20 * AbsDelta(Mix(i), Mix(j), c) < (j - i) * (Base(Mix(i)) * Base(Mix(j)))
=============================================================================
