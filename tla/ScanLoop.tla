------------------------------ MODULE ScanLoop ------------------------------
(***************************************************************************)
(* RunScan (pkg/cmd/scan.go:131-623): list the processes, sample each of   *)
(* them, derive rates from two samples, classify, fingerprint, compare     *)
(* with the previous fingerprint, export, sleep.  Processes start, stop,   *)
(* work and reuse PIDs at any moment, between the reads of two PIDs of one *)
(* collection too.  A collection is modelled by its contract (module       *)
(* CollectContract): each listed PID is read at some moment or is missing. *)
(***************************************************************************)
EXTENDS Drift

CONSTANTS Pids,
          Kinds,        \* programs, known to the agent by name and cmdline
          Absent,       \* no process has this PID
          NoMap,        \* the nil map
          CategoryOf,   \* [Kinds \X BOOLEAN -> Cats]: Predict of a kind, busy or not
          MemOf,        \* resident memory of each kind
          MinCpu, MinMem,   \* --min-cpu and --min-mem
          Events,       \* what may happen: "start", "stop", "work", "restart", "signal"
          Faults,       \* what goes wrong: "partial", "timeout", "list"
          MaxStarts, MaxCpu   \* bounds on processes started and on CPU time

ASSUME ScanLoopAssumption ==
    /\ IsFiniteSet(Pids)
    /\ CategoryOf \in [Kinds \X BOOLEAN -> Cats]
    /\ MemOf \in [Kinds -> Nat]
    /\ {MinCpu, MinMem, MaxStarts, MaxCpu} \subseteq Nat
    /\ Absent \notin [kind : Kinds, start : Nat, cpu : Nat]
    /\ \A S \in SUBSET Pids :
           NoMap \notin [S -> [name : Kinds, start : Nat, cpu : Nat, mem : Nat, full : BOOLEAN]]

VARIABLES os,        \* the process table
          starts,    \* processes started so far, the clock of create times
          cancelled, \* ctx.Done() is closed
          loop,      \* scanOpts.Loop
          pc,
          procs,     \* the listing of this cycle: PIDs with cached names
          pending,   \* listed PIDs the running collection has not settled
          sampled,   \* the statsMap of the running collection
          s1Map, s2Map, lastStatsMap,
          previousFingerprint,
          emitted,   \* history: the last two fingerprints printed
          report,    \* the drift report printed with the last one, or nil
          gauges,    \* PredictionsCount, 0 for a category without a series
          used,      \* history: CPU time used under a PID since a cycle last looked at it
          window,    \* history: the same, between the last two collections
          calm       \* history: undisturbed steps since something happened

environment == <<os, starts>>
caches == <<s1Map, s2Map, lastStatsMap>>
outputs == <<previousFingerprint, emitted, report, gauges>>
vars == <<environment, cancelled, loop, pc, procs, pending, sampled, caches,
          outputs, used, window, calm>>

Process == [kind : Kinds, start : 0..MaxStarts, cpu : 0..MaxCpu]

Sample == [name : Kinds, start : 0..MaxStarts, cpu : 0..MaxCpu, mem : Nat, full : BOOLEAN]

Maps(T) == UNION {[S -> T] : S \in SUBSET Pids}

EmptyMap == [p \in {} |-> Absent]

Zero == [p \in Pids |-> 0]

Collecting == pc \in {"first", "second", "single"}

Init ==
    /\ os \in [Pids -> {Absent} \cup [kind : Kinds, start : {0}, cpu : {0}]]
    /\ starts = 0
    /\ cancelled = FALSE
    /\ loop \in BOOLEAN
    /\ pc = "listing"
    /\ procs = EmptyMap
    /\ pending = {}
    /\ sampled = EmptyMap
    /\ s1Map = EmptyMap /\ s2Map = EmptyMap /\ lastStatsMap = NoMap
    /\ previousFingerprint = NoFingerprint
    /\ emitted = <<NoFingerprint, NoFingerprint>>
    /\ report = NoReport
    /\ gauges = [c \in Cats |-> 0]
    /\ used = Zero /\ window = Zero
    /\ calm = 0

-----------------------------------------------------------------------------
(* The processes of the node.                                              *)

Disturb == /\ calm' = 0
           /\ pc # "stopped"
           /\ UNCHANGED <<cancelled, loop, pc, procs, pending, sampled, caches,
                          outputs, window>>

NewProcess(k) == [kind |-> k, start |-> starts + 1, cpu |-> 0]

Start(p, k) == /\ "start" \in Events
               /\ os[p] = Absent
               /\ starts < MaxStarts
               /\ starts' = starts + 1
               /\ os' = [os EXCEPT ![p] = NewProcess(k)]
               /\ Disturb
               /\ UNCHANGED used

Stop(p) == /\ "stop" \in Events
           /\ os[p] # Absent
           /\ os' = [os EXCEPT ![p] = Absent]
           /\ Disturb
           /\ UNCHANGED <<starts, used>>

Work(p) == /\ "work" \in Events
           /\ os[p] # Absent
           /\ os[p].cpu < MaxCpu
           /\ os' = [os EXCEPT ![p].cpu = @ + 1]
           /\ used' = [used EXCEPT ![p] = @ + 1]
           /\ Disturb
           /\ UNCHANGED starts

\* A supervisor replaces the process at p by one of the same kind at q.
Restart(p, q) == /\ "restart" \in Events
                 /\ os[p] # Absent
                 /\ os[q] = Absent
                 /\ starts < MaxStarts
                 /\ starts' = starts + 1
                 /\ os' = [os EXCEPT ![p] = Absent, ![q] = NewProcess(os[p].kind)]
                 /\ Disturb
                 /\ UNCHANGED used

\* The first interrupt or termination signal.
Cancel == /\ "signal" \in Events
          /\ ~cancelled
          /\ pc # "stopped"
          /\ cancelled' = TRUE
          /\ UNCHANGED <<environment, loop, pc, procs, pending, sampled, caches,
                         outputs, used, window, calm>>

Environment == \/ \E p \in Pids : Stop(p) \/ Work(p)
               \/ \E p \in Pids, k \in Kinds : Start(p, k)
               \/ \E p, q \in Pids : Restart(p, q)
               \/ Cancel

-----------------------------------------------------------------------------
(* Listing and collecting.                                                 *)

ListProcesses ==
    /\ pc = "listing"
    /\ procs' = [p \in {q \in Pids : os[q] # Absent} |-> os[p].kind]
    /\ pending' = DOMAIN procs'
    /\ pc' = IF loop /\ lastStatsMap # NoMap THEN "single" ELSE "first"
    /\ calm' = IF calm = 0 THEN 1 ELSE calm
    /\ used' = [p \in Pids |-> IF os[p] = Absent THEN 0 ELSE used[p]]
    /\ UNCHANGED <<environment, cancelled, loop, sampled, caches, outputs, window>>

\* Mutant: one-shot mode retries like loop mode does.
ListFailsRetrying ==
    /\ pc = "listing"
    /\ "list" \in Faults
    /\ pc' = "sleeping"
    /\ UNCHANGED <<environment, cancelled, loop, procs, pending, sampled, caches,
                   outputs, used, window, calm>>

\* One-shot mode gives the error up; loop mode retries after the sleep.
ListFails ==
    /\ pc = "listing"
    /\ "list" \in Faults
    /\ pc' = IF loop THEN "sleeping" ELSE "stopped"
    /\ UNCHANGED <<environment, cancelled, loop, procs, pending, sampled, caches,
                   outputs, used, window, calm>>

Settle(p) ==
    /\ Collecting
    /\ p \in pending
    /\ pending' = pending \ {p}
    /\ used' = [used EXCEPT ![p] = 0]
    /\ window' = [window EXCEPT ![p] = used[p]]
    /\ UNCHANGED <<environment, cancelled, loop, pc, procs, caches, outputs>>

Put(p, s) == [q \in DOMAIN sampled \cup {p} |-> IF q = p THEN s ELSE sampled[q]]

\* The name is the one cached by the listing, whatever runs at p by now.
Read(p) ==
    /\ Settle(p)
    /\ os[p] # Absent
    /\ sampled' = Put(p, [name |-> procs[p], start |-> os[p].start, cpu |-> os[p].cpu,
                          mem |-> MemOf[os[p].kind], full |-> TRUE])
    /\ UNCHANGED calm

\* A file that cannot be read leaves its counters at zero, without an error.
ReadPartly(p) ==
    /\ Settle(p)
    /\ "partial" \in Faults
    /\ os[p] # Absent
    /\ sampled' = Put(p, [name |-> procs[p], start |-> os[p].start, cpu |-> 0,
                          mem |-> 0, full |-> FALSE])
    /\ calm' = 0

Miss(p) ==
    /\ Settle(p)
    /\ os[p] = Absent \/ cancelled \/ "timeout" \in Faults
    /\ calm' = 0
    /\ UNCHANGED sampled

Collected == /\ pending = {}
             /\ sampled' = EmptyMap
             /\ calm' = IF calm \in 1..3 THEN calm + 1 ELSE calm
             /\ UNCHANGED <<environment, cancelled, loop, outputs, used, window>>

CollectFirst == /\ pc = "first"
                /\ Collected
                /\ s1Map' = sampled
                /\ pc' = "window"
                /\ UNCHANGED <<procs, pending, s2Map, lastStatsMap>>

\* The two selects wait for a timer and for the context.  When both become ready
\* at once the choice is random, but a timer chosen then is one that fired just
\* before the signal: nothing reads the context in between.
WindowElapses == /\ pc = "window"
                 /\ ~cancelled
                 /\ pc' = "second"
                 /\ pending' = DOMAIN procs
                 /\ UNCHANGED <<environment, cancelled, loop, procs, sampled, caches,
                                outputs, used, window, calm>>

WindowCancelled == /\ pc = "window"
                   /\ cancelled
                   /\ pc' = "stopped"
                   /\ UNCHANGED <<environment, cancelled, loop, procs, pending, sampled,
                                  caches, outputs, used, window, calm>>

CollectSecond == /\ pc = "second"
                 /\ Collected
                 /\ s2Map' = sampled
                 /\ lastStatsMap' = IF loop THEN sampled ELSE lastStatsMap
                 /\ pc' = "analysing"
                 /\ UNCHANGED <<procs, pending, s1Map>>

\* Mutant: a PID that was missed keeps its older sample as a baseline.
CollectSingleMerging ==
    /\ pc = "single"
    /\ Collected
    /\ s1Map' = lastStatsMap
    /\ s2Map' = sampled
    /\ lastStatsMap' = [p \in DOMAIN sampled \cup DOMAIN lastStatsMap |->
                           IF p \in DOMAIN sampled THEN sampled[p] ELSE lastStatsMap[p]]
    /\ pc' = "analysing"
    /\ UNCHANGED <<procs, pending>>

CollectSingle == /\ pc = "single"
                 /\ Collected
                 /\ s1Map' = lastStatsMap
                 /\ s2Map' = sampled
                 /\ lastStatsMap' = sampled
                 /\ pc' = "analysing"
                 /\ UNCHANGED <<procs, pending>>

-----------------------------------------------------------------------------
(* Analysing.                                                              *)

\* Mutant: a counter that went back counts with its absolute difference.
RateUnclamped(s1, s2) ==
    IF s2.cpu >= s1.cpu THEN s2.cpu - s1.cpu ELSE s1.cpu - s2.cpu

\* CPU used between two samples; a counter that went back counts as idle.
Rate(s1, s2) == IF s2.cpu >= s1.cpu THEN s2.cpu - s1.cpu ELSE 0

\* The PIDs with both samples: the others only count as errors.
Paired == {p \in DOMAIN procs : p \in DOMAIN s1Map /\ p \in DOMAIN s2Map}

PassesFilter(p) == \/ Rate(s1Map[p], s2Map[p]) >= MinCpu
                   \/ s2Map[p].mem >= MinMem

predictions ==
    [p \in {q \in Paired : PassesFilter(q)} |->
        CategoryOf[s2Map[p].name, Rate(s1Map[p], s2Map[p]) > 0]]

\* Mutant: the first baseline is kept for good.
AdvanceOnce(fp) == IF previousFingerprint.total = 0 THEN fp ELSE previousFingerprint

\* Mutant: a cycle that classified nothing does not become the baseline.
AdvanceWhenClassified(fp) == IF fp.total = 0 THEN previousFingerprint ELSE fp

\* previousFingerprint = currentFingerprint, on every completed cycle.
Advance(fp) == fp

\* Mutant: the gauges are added to as if they were counters.
UpdateAdding(preds) == [c \in Cats |-> gauges[c] + Count(preds, c)]

\* PredictionsCount after Reset and one Set per category.
UpdateMetrics(preds) == [c \in Cats |-> Count(preds, c)]

Analyse ==
    /\ pc = "analysing"
    /\ LET currentFingerprint == ComputeNodeFingerprint(predictions)
       IN  /\ emitted' = <<emitted[2], currentFingerprint>>
           /\ report' = DetectDrift(previousFingerprint, currentFingerprint)
           /\ previousFingerprint' = Advance(currentFingerprint)
    /\ gauges' = UpdateMetrics(predictions)
    /\ pc' = IF loop THEN "sleeping" ELSE "stopped"
    /\ procs' = EmptyMap
    /\ s1Map' = EmptyMap /\ s2Map' = EmptyMap
    /\ window' = Zero
    /\ UNCHANGED <<environment, cancelled, loop, pending, sampled, lastStatsMap, used, calm>>

-----------------------------------------------------------------------------
(* Sleeping.                                                               *)

WakeUp == /\ pc = "sleeping"
          /\ ~cancelled
          /\ pc' = "listing"
          /\ UNCHANGED <<environment, cancelled, loop, procs, pending, sampled, caches,
                         outputs, used, window, calm>>

Terminate == /\ pc = "sleeping"
             /\ cancelled
             /\ pc' = "stopped"
             /\ UNCHANGED <<environment, cancelled, loop, procs, pending, sampled,
                            caches, outputs, used, window, calm>>

Agent == \/ ListProcesses \/ ListFails
         \/ \E p \in Pids : Read(p) \/ ReadPartly(p) \/ Miss(p)
         \/ CollectFirst \/ WindowElapses \/ WindowCancelled
         \/ CollectSecond \/ CollectSingle
         \/ Analyse
         \/ WakeUp \/ Terminate

\* RunScan has returned.
Finished == pc = "stopped" /\ UNCHANGED vars

Next == Environment \/ Agent \/ Finished

Spec == Init /\ [][Next]_vars

\* The agent's goroutine keeps running, its reads finish (a collection returns:
\* module Collector) and its timers fire.
FairSpec == Spec /\ WF_vars(Agent)

-----------------------------------------------------------------------------
TypeOK ==
    /\ os \in [Pids -> Process \cup {Absent}]
    /\ starts \in 0..MaxStarts
    /\ cancelled \in BOOLEAN
    /\ loop \in BOOLEAN
    /\ pc \in {"listing", "first", "window", "second", "single", "analysing",
               "sleeping", "stopped"}
    /\ procs \in Maps(Kinds)
    /\ pending \subseteq DOMAIN procs
    /\ \A m \in {sampled, s1Map, s2Map} \cup ({lastStatsMap} \ {NoMap}) :
           /\ DOMAIN m \subseteq Pids
           /\ \A p \in DOMAIN m : m[p] \in Sample
    /\ previousFingerprint \in [count : [Cats -> Nat], sum : Nat, total : Nat]
    /\ gauges \in [Cats -> 0..Cardinality(Pids)]
    /\ used \in [Pids -> Nat]
    /\ window \in [Pids -> Nat]
    /\ calm \in 0..4

\* No rate is invented: the CPU a prediction is made from was used under its
\* PID between the last two collections, although PIDs are reused, PIDs are
\* missed and lists fail in between.  When the earlier sample was read partly,
\* the bound is what the process used in its whole life (scan.go:283-284,
\* collector.go:245 and 265-270).
RateWithinWindow ==
    pc = "analysing" =>
        \A p \in DOMAIN predictions :
            Rate(s1Map[p], s2Map[p]) <= IF s1Map[p].full THEN window[p] ELSE s2Map[p].cpu

\* No false alarm: once a listing and three collections in a row have seen the
\* same idle processes completely, no drift is reported, whatever happened
\* before (drift.go:26-27, scan.go:425 and 560).
QuietMeansNoDrift ==
    [][ pc = "analysing" /\ pc' # pc /\ calm = 4 => report' = NoReport ]_vars

\* The exporter shows the cycle that was last printed, also after a cycle whose
\* listing failed (prometheus.go:159-160, scan.go:597).
GaugesShowLastCycle == gauges = emitted[2].count

\* The output of the loop is a drift stream: each report compares the
\* fingerprint it is printed with to the one printed before it.
Stream == INSTANCE DriftStream WITH Scans <- Predictions(Pids), before <- emitted[1],
                                    current <- emitted[2]

ImplementsDriftStream == Stream!Spec

\* A signal ends the scan and a one-shot scan ends by itself (scan.go:599-620).
ScanEnds == cancelled \/ ~loop ~> pc = "stopped"

\* Documented at fingerprint.go:24-25: the fingerprint remains stable across
\* process restarts as long as the mix stays the same.
StableAcrossRestarts == Events = {"restart"} /\ Faults = {} => report = NoReport

\* Documented at fingerprint.go:20-21: a change between two cycles signals a
\* shift on the node, so none is reported while its processes do nothing.
ChangeSignalsShift == Events = {"signal"} /\ Faults = {} => report = NoReport
=============================================================================
