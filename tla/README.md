# A TLA+ model of proc-lens

proc-lens is an agent that samples the processes of a node, classifies each of
them into a workload category, and reports how the mix of categories (the node's
fingerprint) drifts. This directory holds TLA+ modules that model it, TLC
configurations that check them on small instances, and TLAPS proofs of the
results that hold for every instance. Line numbers refer to the Go files under
`pkg/`.

## Inventory of the system

| Component | State | Operations | Hard behaviour | What makes it correct |
|---|---|---|---|---|
| Concurrent collection (`collector.go:697-741`) | result map, mutex, semaphore channel, WaitGroup | one call per collection, one goroutine per listed PID | goroutine interleavings, cancellation, processes that exit, leaks on some path | bounded readers, no map race, each PID accounted for, nothing written after the return, nobody waits for ever, the call returns |
| Process sampling (`collector.go:45-336`) | none between calls | ListProcesses, GetRawStats, CalculateRateStats | reads that fail half-way, cached names, PID reuse, counters that go back | rates only from CPU used in the window |
| Pod metadata cache (`collector.go:600-680`) | map, time of the last scan, mutex | lookup, rescan after 30 s | stale and failed scans, ambiguous prefix | a full container ID that is listed gets its own pod; one that is not may get that of another with the same 12 characters, a short one never |
| Fingerprint and drift (`fingerprint.go`, `drift.go`) | none | ComputeNodeFingerprint, DetectDrift | thresholds, order, empty cycles | drift and hash agree, nothing vanishes silently, a silent drift is slow |
| Scan loop (`scan.go:131-623`) | lastStatsMap, previousFingerprint | one cycle: list, collect, analyse, export, sleep | failures of one step, cancellation in any phase, caches that are stale | each report compares neighbours, quiet nodes give no alarm, a signal ends the scan |
| Scan HTTP server (`scan.go:102-200`) | none | /metrics, /healthz, bearer token, shutdown | scrapes during an update, slow clients, shutdown not awaited | a scrape shows numbers of a cycle; a signal ends the process whatever clients do |
| Metrics (`prometheus.go`) | counters and gauges | UpdateMetrics, Record* | reset and set are separate, concurrent reads | seen between two updates they are those of whole cycles |
| Run command (`run.go:57-216`) | the child process, a signal channel | start, sample, wait, sample, report, kill, reap | exit of the child at any point, signals, error paths | nothing left behind, only the child is killed, always returns |
| Classifier (`classifier.go`, `centroids.go`) | tables | Predict | equal scores in map order, clamping | same telemetry, same category, unless two scores are equal |
| Drift history (`drift_cmd.go`) | none (a log or state file) | parse, group, order, compare neighbours | every cycle is in the log twice, equal timestamps, unstable sort | the reports are those the loop emitted |
| Completeness, pressure, hardware (`completeness.go`, `pressure.go`, `hardware.go`, `scan.go:340-416`) | a tracker per cycle | read file by file, record, score | files that appear and vanish between cycles; sources recorded without being looked at | what is said of pressure and hardware is what the files of the cycle say |
| Enrich (`enrich.go`) | none | capture or load, sort, filter, trim, query, report; a spinner goroutine | timeouts, an API that never answers, a goroutine that is not awaited | the heaviest processes are analysed, the command returns |
| Analyze, explain (`analyze.go`, `explain_cmd.go`, `explain.go`) | none | two samples of a PID, prediction, advice or explanation | PID reuse in the window, partial samples, ties | a mixed profile shows in the age, the gap is to the true rival |
| Optimizer (`optimizer.go`, `report.go`) | two tables | recommendations, plain and structured | written down twice | the two lists have the same subjects |
| Command line, capabilities | none | parse, print | | not modelled, see below |

How they interact: `RunScan` calls `ListProcesses`, hands the list to
`CollectConcurrentRawStats` (with the metrics recorders as callbacks), pairs the
new map with the one of the cycle before, filters, calls `Predict`,
`ComputeNodeFingerprint`, `DetectDrift`, prints, calls `UpdateMetrics` and
sleeps; in between it reads pressure and hardware, scores the completeness of the
data and measures itself. The readers of a collection look containers up in the
pod cache, under one mutex. The HTTP server reads the metrics concurrently. A signal handler cancels
the context that collections, the profiling window and the sleep watch. The run
command uses `GetRawStats` twice on a child process of its own, analyze and
explain on a PID they are given. The enrich command repeats the two collections of
a one-shot scan. The drift command reads the log of a scan loop back.

## Modules

| Module | Models | Relation to the others |
|---|---|---|
| `CollectContract` | what a collection promises its caller | abstract specification |
| `Collector` | `CollectConcurrentRawStats`, one action per statement that another goroutine can observe | implements `CollectContract` |
| `CollectorProofs` | | theorems about `Collector` |
| `Fingerprint`, `Drift` | `ComputeNodeFingerprint`, `DetectDrift` as operators | |
| `DriftStream` | the output a reader of the agent sees: a fingerprint per cycle and the report on it | abstract specification, extends `Drift` |
| `ScanLoop` | `RunScan` with the processes of the node as environment | extends `Drift`, uses collections by their contract, implements `DriftStream` |
| `RunSubprocess` | `RunSubprocessCmd`, its child and its signals | |
| `PodCache` | `getK8sPodMeta`, `scanK8sLogContainers`, the kubelet's directory | |
| `MetricsContract` | what `UpdateMetrics` promises who does not look in the middle of it | abstract specification |
| `Exporter` | `UpdateMetrics` metric by metric, the self readings, the HTTP server, its requests and the end of the process | implements `MetricsContract` |
| `Completeness`, `Pressure`, `Hardware` | the tracker and its score; what is concluded from PSI files and from `/proc` and `/sys` | operators |
| `NodeReport` | the part of a scan cycle that reads them | extends the three |
| `Classifier`, `Explain`, `Optimizer` | `Predict`, `Explain`, both tables of recommendations | operators |
| `Profile` | `MonitorProcess` with the commands analyze and explain, and the processes under their PID | extends the three |
| `DriftHistory` | the drift command on the log of a scan loop | extends `Drift` |
| `Enrich` | the enrich command, its spinner and the API | |
| `DriftLemmas` | | lemmas about fingerprints, hashes and drift reports, for the three modules of theorems that need them |
| `CommandProofs` | | theorems about `Enrich`, `NodeReport`, `Profile`, and about `MCCommands` |
| `ExporterProofs` | | theorems about `PodCache`, `Exporter`, and about `MCExporter` |
| other `*Proofs` | | theorems about the module they are named after |
| `MC*` | model values; `MCExporter` and `MCCommands` put components side by side | |

**Collector.** `pc[p]` is the control point of the goroutine of PID p; `tokens`
is the number of elements in `sem`, `wg` the WaitGroup, `mu` the owner of the
mutex. `GetRawStats` is two actions: finding the process (its only error) and
reading it, where any read may miss and leave a partial sample without an error.
`Cancel` stands for the signal and for the cycle's deadline. The goroutine that
finds both cases of its select ready takes either. The recorders are the sets
`timed` and `errored`. A listed PID occurs once, as in a listing of `/proc`.

**Fingerprint and Drift.** Predictions are a function from PIDs to categories.
A percentage is a fraction of integers and every comparison with a threshold is
done by cross-multiplication. The hash is represented by the text that is
digested, so two hashes are equal exactly when the texts are (SHA-256 taken as
injective). A category is its alphabetical rank.

**ScanLoop.** `os` is the process table: processes start (perhaps under a used
PID), exit, use CPU, or are replaced by a supervisor, between any two steps of
the agent. A collection settles its PIDs one by one: `Read`, `ReadPartly` (a
counter that could not be read is zero and no error is returned) or `Miss` (gone,
deadline, or cancelled). A sample carries the name cached by the listing and the
counters of whatever runs under the PID when it is read. The analysis, from the
pairing of the samples to `UpdateMetrics`, is one step of the agent, because
nothing it uses is shared with anything the module models. `Predict` is the
constant `CategoryOf`, a function of the program and of whether it used CPU. The
locals of an iteration are cleared when it ends. History variables (`emitted`,
`used`, `window`, `calm`) record what properties talk about and influence
nothing.

**RunSubprocess.** The child is `none`, `running`, `zombie` or `reaped`. The
signal channel has capacity one and its goroutine receives one signal. A second
interrupt therefore changes nothing, as in the code. The early returns of lines
58-113 are the single action `Refuse`. `json.MarshalIndent` of a prediction is
taken not to fail: every number in it is finite, since the window is positive and
norms of zero are guarded. If it could fail, run.go:198-200 would return without
killing the program.

**PodCache.** `podMetaMap` is the set of keys, each mapped to its own pod. A
lookup with a young map is one step under the mutex; a rescan is three (the
directory is opened, read, and the map stamped and looked up), with the mutex held
and the kubelet free to change the directory in between. A listing contains what
was there all the time (`steady`) and any part of what was there at some moment
(`touched`). A scan that fails leaves an empty map and is cached like any other.
Time passes in ticks; `age` saturates one beyond the limit.

**Exporter.** The writes of `UpdateMetrics` that a scrape can see apart are
separate actions; the cycle counter and the single gauges that precede the Reset
are part of it. A scrape takes hold of the series that exist, then writes each out
with the value it has by then, or had when the Reset dropped it. A reading of the
agent itself may fail or lack its CPU counter; the agent uses one unit of CPU per
cycle, so a difference of counters can be compared with a difference of times.
The server may fail to listen; it is closed by a goroutine that nobody waits for.
`RunScan` is here only what the metrics can tell of it; the rest is in `ScanLoop`.

**NodeReport.** One action per file read; each read finds any of the contents there
may be, so a file may vanish or appear between two reads and between two cycles.
The tracker is new in every cycle, its report is kept. `files` is the history of what
the cycle has found.

**Classifier, Explain, Optimizer.** `Predict` has all rules and keywords of the
code; a score is the sum of what each rule adds to it. Scores are hundredths, and the similarity to each centroid is an input. A Go
map is walked in any order, so `Predict` returns the set of predictions it may
come to: one per category with the best score before clamping. `Explain`'s
unstable sort returns any of the equal candidates likewise. A recommendation is
its subject and its status.

**Profile.** Identity (name, command line, creation time) is read in one step and
the counters of a sample in another, with exits, PID reuse and time in between;
creation time is read when the library first asks or at the end. The
second sample reuses the name and command line of the first. The two commands
differ only in the action `Conclude`. Their context is never cancelled.

**DriftHistory.** `LogCycle` writes what one cycle of the loop writes: an envelope,
its predictions and perhaps a report, all with one timestamp. Reading groups the
predictions by second. The sort is not stable, so entries with equal timestamps
are taken in either order. A line beyond the buffer of the scanner drops all.

**Enrich.** The conditions of the gates before the capture are one refusal that
may happen. A collection returns any set of PIDs. The goroutine of the spinner
looks at the channel, draws, and sleeps in separate steps.

**MCExporter and MCCommands.** The components in one of these share no variable,
and a behaviour runs one of them (`part`) while the others rest in a state where
they do nothing. The behaviours of each are complete; what is left out is only
their interleaving, which no property could tell. That each component of a behaviour
of these modules is a behaviour of its own specification is proved (`Composition`).

## What the runs check

| Run | Instance | Result |
|---|---|---|
| `collector` | 3 PIDs, 2 slots: goroutines queue, exits and cancellation anywhere; 236,093 states | BoundedReaders, SingleWriter, EveryPidAccounted, NeverStuck, refinement of the contract, CallReturns |
| `drift_stream` | 3 categories, cycles of 0 or 5 to 7 processes, at most 6 of one; 6,889 states | DriftChangesHash, VanishingIsReported, RoundTripMirrors |
| `scan_loop` | 2 PIDs, one program that is idle or busy, one start, CPU 0 to 1, partial reads, missed PIDs, failed listings, both modes; 977,970 states | RateWithinWindow, QuietMeansNoDrift, refinement of `DriftStream` |
| `scan_ends` | 2 PIDs, two programs, restarts, exits, signals, every fault; 102,365 states | ScanEnds |
| `run_subprocess` | the whole module; 155 states | NothingLeftBehind, KillsItsOwnChild, ProfileIsComplete, CommandReturns |
| `exporter` | pod cache: 2 goroutines, 3 container IDs that start alike, one of them short, a limit of 1 tick, scans of up to 1 tick; exporter: 3 cycles of two kinds, 1 request; 209,205 states | BoundedStaleness, OwnPodWhenSteady, LookupsReturn; SelfCpuSpansTheGap, ScrapedValuesBelongToACycle, refinement of `MetricsContract`, ProcessEnds |
| `commands` | node report: 3 contents of each PSI file, 2 or 3 of every other; profile: 2 programs, 17 telemetries, 3 ticks; history: 3 cycles, 4 mixes; enrich: 3 PIDs, 4 values of `--top`, 2 providers; 602,190 states | ReportMatchesFiles; CategoryIsStable, GapIsToTheRival, MixedProfileShowsInAge, AdviceListsAgree; HistoryAgreesWithStream, SilentDriftIsSlow; HeaviestAreAnalysed, AtMostOneLateFrame, EnrichReturns |
| `hash_order`, `rebaseline`, `restart`, `shutdown`, `early_exit` | the smallest instance that shows it | a documented statement that the code does not meet, see below |

*Bounds.* Three goroutines over two slots are the least for which a goroutine
waits while two hold slots, one is inside the mutex, and one gives up. The loop
needs two PIDs for one to be missed while another is read, one start to reuse a
PID, and one unit of CPU to go from idle to busy and, after a reuse, back to a
smaller counter. The number of cycles is not bounded. The totals of
`drift_stream` include those where a change of exactly 10 or 20 points exists, and
changes on both sides of 25. Up to a total of 11, float64 decides every threshold as the exact
fractions of the model do (computed over all pairs of counts); the first pair of
totals for which rounding moves a difference across a threshold has a total of
12 (for 25 points), 15 (for 10) and 20 (for 5), so the runs stay in the range
where the model is exact; the mixes of `commands`, and what two of them merged into one
second come to, were compared pair by pair. The bucket of a share is exact up to a total of 40,
which covers the totals of `hash_order`.

In `exporter`, two goroutines are the least for which one waits while the other
scans; three IDs with one prefix make the exact match, the ambiguous prefix and the
short ID all occur; three cycles are the least in which a reading of the agent
fails between two that succeed; the results of a cycle hold two categories, one,
and both outcomes of a pod lookup, so that a gauge disappears and comes back. In
`commands`, the PSI contents include a stall of exactly ten percent; one of the
telemetries takes several categories beyond 100% and makes two of them equal, the
others put each category with advice first; the mixes of the history are
an empty cycle and three with shares of 50, 45.5 and 42.9 percent, of which the first
and the last are seven points apart, but neighbours less than five; two of the three PIDs of enrich
use the same CPU.

*Splitting.* The rich environment of `scan_loop` has no signal and `scan_ends`
has no CPU use; each event is in one of them.

*Deadlock* is checked in every run. A call that has returned stutters by an
explicit `Finished` action.

*Fairness.* `Collector`: the caller and each goroutine run (Go schedules every
runnable goroutine, and reads of `/proc` return). No fairness for exits or for
the context. `ScanLoop`: the agent's steps only. The two selects on a timer and
the context are modelled with the timer chosen only while the context is open: a
timer chosen when both are ready is one that fired just before the signal, since
nothing reads the context in between. `RunSubprocess`: the agent's steps, and the
exit of a program *that was sent SIGKILL*. A program left alone may run for ever. `PodCache`: strong fairness of each
goroutine that waits for the mutex (a `sync.Mutex` hands itself to a waiter that
has starved for a millisecond), weak fairness of the one that holds it, none of
the kubelet. `Exporter`: the loop only; neither the server nor a client need ever
move. `Enrich`: the command's goroutine and its timers; neither the API nor the
spinner need move.

*What the properties mean.* `RateWithinWindow` compares the rate the code computes
with an independent account (`used`, `window`) of CPU charged under the PID
between the last two collections. When the earlier sample was partial the code's
rate may be as large as the CPU of the whole life of the process, and the
property says so. `QuietMeansNoDrift` counts in `calm` a listing and three
complete collections in which nothing happened; fewer are not enough, because a
rate needs two collections and a comparison needs two rates.
`OwnPodWhenSteady` and `BoundedStaleness` compare answers with an account of the
directory (`steady`, `touched`, `scanned`, `took`) that the code does not have. A
stale pod may be given 30 seconds and one scan after the listing was begun, not
just 30 seconds. `ScrapedValuesBelongToACycle` speaks of each gauge by itself: a
scrape that overlaps an update can show one category of the last cycle and another
of this one. `HistoryAgreesWithStream` needs cycles in different seconds; the
log of a loop with an interval below that is merged. `SilentDriftIsSlow` is what
comparing neighbours leaves to hold: a mix may creep any distance without a report
(the run has a log that creeps seven points), but no faster than five points a cycle,
and not across an empty cycle, which clears the baseline. `MixedProfileShowsInAge` is
all a reader has to notice that a PID was reused, for no error says so.

### Where the documentation and the code differ

1. `hash_order`. Shares are hashed in the order of raw counts, so two cycles with
   the same bucketed distribution can have different hashes (`fingerprint.go:62-63`).
2. `rebaseline`. An empty cycle clears the baseline and the cycle after it is
   treated as a first scan (`drift.go:101`, `scan.go:162-163`).
3. `restart`. A restarted process is left out of a cycle, so the fingerprint is
   not stable across restarts (`fingerprint.go:24-25`).
4. `shutdown`. A collection truncated by a signal is fingerprinted and may end the
   output with a CRITICAL drift of an unchanged node (`fingerprint.go:20-21`).
5. `early_exit`. A program that exits before the second sample is a zombie that
   can still be sampled, so its profile is completed (`run.go:29-30`).

Noticed while modelling, in the models as the code does it, without a run of
their own:

- `agent_cpu_usage_percent` can be negative after a reading that lacked the CPU
  counter (`scan.go:572`); paths that do not exist are counted as "200".
- A container started since the last listing counts as a failed enrichment.
- `hardware.go:428` says that dm- devices are skipped; they are not.
- A process without any activity is classified by the rules alone
  (`classifier.go:28-32` speaks of Unknown, which is never returned).
- `proc_io`, `proc_fd_types` and `proc_ctx_switches` are recorded full whenever there
  is a prediction (`scan.go:342-346`), `proc_oom` and `proc_cgroup` always
  (`scan.go:408-409`), also when the files behind them could not be read: an agent
  without privileges cannot read the I/O counters of others, `GetRawStats` keeps the
  zeroes (`collector.go:167`), and "full" is said to mean "complete, usable data"
  (`completeness.go:45`). No property speaks of these five sources.
- Disabled sources are left out of the score, so it can be 1.0 with pressure and
  hardware off, where `completeness.go:22-23` and `82` count a disabled source as 0.0.
  The comment at `completeness.go:220` and `TestScore_DisabledExcluded` say what the
  code does, and so does the model.
- The pressure alert is raised at exactly ten percent (`pressure.go:289`), where
  `pressure.go:117` and `284` say "exceeds".
- `hardware_cpu` is full when `/proc/cpuinfo` names a model, whether or not the PCI
  bus could be read (`hardware.go:324-330`): a GPU that is missing from the hints may
  just be out of sight.
- With equal scores the runner-up of explain may be the primary category itself
  (`explain.go:176`).
- Structured recommendations are never "already applied"; the merge of the two
  lists in text mode (`analyze.go:110-112`) takes place on other platforms only.
- With no descriptors counted, any socket gives the plain advice about their share
  (`optimizer.go:48`).
- `enrich --top` with a negative value panics (`enrich.go:194-195`), and with
  `--file` it keeps the order of the file, whatever the usage.
- `callGemini` and `callClaude` ignore `--endpoint`.
- One logged cycle makes two entries, so "only one cycle" is never the complaint
  about a log with predictions (`drift_cmd.go:71`); a line beyond 64 KB drops the
  whole history (`drift_cmd.go:238`).

## What is proved

`CollectorProofs`, for every finite set of PIDs and every capacity of at least
one (`CollectorAssumption`). The safety properties are not inductive: they follow
from `IInv`, the conjunction of

- `TokenInv`: `tokens` is the number of goroutines that own a slot,
- `WaitInv`: `wg` is the number of goroutines between Add and Done, and when the
  caller no longer spawns all have been spawned,
- `MutexInv`: the owner of the mutex is exactly the goroutine in the critical section,
- `FateInv`: what is in the map and in the recorders agrees with each control point.

`Move` computes how the number of goroutines in a set of control points changes when
one moves. `TokenStep`, `WaitStep`, `MutexStep` and `FateStep` preserve one conjunct
each. From `Inductive` follow `TypeCorrect`, `ReadersAreBounded` (readers own slots),
`WritesAreExclusive`, `PidsAreAccounted` (a WaitGroup at zero means all have exited)
and `ResultIsFinal`. So does `NobodyIsStuck`, the absence of deadlock as a state
predicate, which needs no fairness: if somebody holds the mutex it can go on; if not,
a goroutine past the select can; and if none is past it the channel is empty, so that
one in the select can. So no leak of a slot or of a lock blocks the call in any
instance; that it returns is checked on one (`CallReturns`). `Refinement` shows that
every step is a step of `CollectContract` or leaves its variables alone. That
justifies the use of the contract in `ScanLoop`.

`RunSubprocessProofs`, for any set of faults: `ChildIsReaped`, `KillIsSafe` and
`ProfileHasBothSamples`, from an invariant that ties the child's life, the samples
and the result to the control point.

`ExporterProofs` begins with the pod cache, for any containers, prefixes, goroutines
and limits (`PodCacheAssumption`). `LockInv` ties the owner of the mutex to the
goroutine that scans, `AgeInv` bounds the age of a listing by that of the map and the
time of the scan, `SteadyInv` says that a finished listing has every entry that was
there all along. `AnswersAreLookups` reduces an answer to the two actions that give
one; from it follow `AnswersAreRecent` and `PodsAreOwn`.

Then the exporter, for any predictions of finite size and any requests
(`ExporterAssumption`). `SelfInv` gives `SelfUsageIsHonest`. For the metrics,
`RestInv` and `UpdateInv` tell what has been written and what has not at each
point of an update, relative to the metrics after the last one (`base`); the
counting lemma `OneMore` makes one turn of the loop add up. `ScrapeInv` says that
what a scrape still has to write out exists. From them follow
`ScrapesShowRealCounts` and `Refinement`: the last write of an update is a step of
`MetricsContract`, every other step leaves its variables alone.

Last, the two of them side by side, as the run `exporter` checks them. `Composition`
says that a behaviour of `MCExporter` is one of the cache and one of the exporter, so
the theorems about each carry over (`BothAreSafe`, `TypeCorrect`). The types need that
a node has finitely many PIDs, that the requests are finite, and that the number of
cycles is bounded (`BoundsAssumption`; the bound is the model's).

`DriftLemmas` holds what is true of any two fingerprints, for any categories
(`CatsAssumption`, `NoReportAssumption`): the order of the shares, positions, hashes,
and when a report is one. `DriftStreamProofs`, `ScanLoopProofs` and
`DriftHistoryProofs` rest on it.

`DriftStreamProofs`, for any categories and any finite predictions
(`CatsAssumption`, `ScansAssumption`, `NoReportAssumption`). `IInv` says that the
report is the comparison of the last two fingerprints. The order of the shares is
strict and total (`PrecedesIsOrder`), so positions are distinct and every place is
taken, and equal texts have the same categories in the same buckets
(`HashTellsBuckets`). Shares in one bucket differ by less than a twentieth
(`SameBucketIsClose`), which is the threshold: hence `DriftMovesHash`.
`DeltaIsSymmetric`, `SeverityIsSymmetric` and `DirectionIsMirrored` give
`RoundTripIsMirrored`. All this is about exact fractions; the rounding of float64
is discussed under the bounds above.

`ScanLoopProofs`, for any processes, events, faults and bounds (`ScanLoopAssumption`).
`OutputInv` says that the baseline, the gauges and the last fingerprint printed are
one; `GaugesAreCurrent` and, with `PredictionsOfPids`, the refinement
`OutputIsADriftStream` follow; the theorems about drift streams, instantiated with
what the loop prints, are `OutputKeepsPromises`. `RatesAreReal` needs more: `SinceInv`
says that nothing under a PID has used more CPU than its last complete sample shows
plus what was charged under it since, for every map that a later step may use as a
baseline; `FairInv` says of the PIDs already sampled again that their rate is within
the window. The two hand over to each other when a PID is settled (`SettleStep`).
`TypeInv` adds to these the types and bounds of the state (`LoopTypeCorrect`); it
needs that no PID is pending outside a collection.

`QuietNodesDoNotDrift` is the absence of false alarms, for any processes and from
whatever state the node comes to rest. `calm` counts what has been seen since the
last event, so the invariant, `QuietInv`, says what the agent must know by then:
`SeenInv` that the listing, what is sampled so far and the finished maps are those
of the node as it is (`Listing`, `Snapshot`), `KeptInv` that the map kept for the
next cycle is one too, and from the third collection on the baseline is the
fingerprint of an idle node (`Quiet`). Two equal snapshots give every process a
rate of 0 (`QuietRates`), so the fingerprint is that of the programs alone, and a
fingerprint does not drift from itself (`SameMixNoDrift`). An event sets `calm` back
and nothing has to be shown of it; a signal changes nothing of this. The assumption
that no map of samples is `NoMap` is what a nil map is in the code.

`DriftHistoryProofs`, for any categories, any cycles and logs of any length
(`CatsAssumption`, `CyclesAssumption`): `HistoryIsTheStream`. What the loop reported
for the first i cycles is a function `told` of i that the state does not hold, so
the invariant `HistoryInv` says that there is one (`Told`) and that the command, when
the entry it took last is of cycle i, has found `told[i]` (`UpTo`) with everything
later still to be taken (`Left`). Logging extends `told` by one; the first of the two
entries of a cycle takes the command from `told[i]` to `told[i + 1]`, and the second
compares a fingerprint with itself. The entry of the envelope and the one grouped
from the predictions have equal fingerprints because renumbering predictions changes
no count (`RenamedPredictionsCountAlike`), and a group is of one cycle because of the
hypothesis of the property, that cycles with predictions fall into different seconds.

`SilenceIsSlow` is about the same logs. A cycle without a report moved each share by
less than a twentieth (`NoReportIsSlow`); such moves add up, over shares with three
different denominators (`PointsAdd`, `SlowAdds`), so that `SlowInv` holds of a log that
grows by one cycle (`SlowLog`). The sum over a silence of any length is the invariant's
induction over the steps, not one over data.

`CommandProofs`, for the commands and the node report.

- `OneLateFrame`, from `SpinnerInv` about the channel and the goroutine that looks
  at it.
- `AnalysisIsOfTheHeaviest`, for any finite set of processes (`EnrichAssumption`).
  `HeaviestInv` says that a live analysis has a sorted arrangement of all that was
  measured twice until it is trimmed; a prefix of such an arrangement has as many
  elements as its length, for nothing occurs twice, and nothing after it uses more
  CPU (`PrefixIsHeaviest`).
- `ReportsMatchFiles`, for any contents of the files (`NodeReportAssumption`): the
  statuses, the alert and the hints about pressure and hardware are what the files of the
  cycle say, and the level follows from the statuses. It says nothing of the sources
  behind which no file is looked at. `ReportInv` ties what is concluded and what is on record to `files`, the history of
  what this cycle has found: `PsiInv` and `HardwareInv`. The rest is arithmetic: the
  status of the PSI files by counting them (`StatusOfReads`), the alert by the last
  line of a file (`AverageOfTheLast`), and the score, where
  the four statuses add up to the number of sources (`StatusesAddUp`), so that it is
  full exactly when none is partial or without data (`FullMeansFull`).
- Of a profile (`ProfileAssumption`: numbers are natural, similarities are 0 to 100):
  `FirstInv` and `SecondInv` say which births and times the samples can have, given
  who runs under the PID now, and `PrintedInv` that what is printed is made of the two
  samples. `MixedProfilesAreYoung` follows from the first two. For
  `SameTelemetrySameCategory` and `GapIsTheLead` the lemmas about `Predict` bound every
  score (`BoundedScores`), so that the best exists (`MaxIsGreatest`), clamping keeps
  the order (`ShownScores`), and whichever of equal scores comes first the second
  place has the best score of the others (`SecondIsRival`). `BothListsAgree` compares
  the two tables row by row (`SameRows`) and the two conditions about sockets
  (`SameGeneric`).
- Of all of them side by side, as the run `commands` checks them: `Composition`, and
  with it `CommandsAreSafe` and `TypeCorrect`. The types need more than the invariants
  above: that a quotient of points is at most the points (`Quotient`, `ScoresArePoints`),
  that physical cores are no more than logical ones (`CoresAreFewer`, for which the
  packages listed in `/proc/cpuinfo` are finitely many, `NodeReportAssumption`), that
  the clock starts within its bound (`MaxTime`, `ProfileAssumption`), and that a payload stays a list of
  PIDs when it is filtered and cut (`PayloadInv`).

*Only model-checked:* liveness, which is out of the prover's reach (`CallReturns`,
`ScanEnds`, `CommandReturns`, `LookupsReturn`, `ProcessEnds`, `EnrichReturns`). Every
other property of the passing runs is a theorem, the type invariants included. Two
theorems are about properties that no run states by itself, because others that runs
check tell their violations: `NoLateWrite` (`SingleWriter` and the contract) and
`GaugesShowLastCycle` (the contract of the metrics, in `exporter`). Where a proof
needs the greatest of some numbers or the length of a list, it uses the
well-foundedness of the naturals and the library's facts about cardinality: induction
over data is out of reach.

## What is not modelled

- The parsers of `/proc`, `/sys` and of the names of container logs: what they find
  is an input. Reads that never return are outside the fairness assumed, so is a
  second signal, which the code does not receive.
- Cosine similarity and the diversity score: floating-point arithmetic. The
  similarity is an input of `Classifier`; in `ScanLoop` the whole of `Predict` is a
  function of a program and its activity. Feature contributions of explain.
- Metrics that are written and never read back: error counters, histograms,
  durations, memory.
- Texts, colours, JSON layout, prompts, bodies and headers; the gates of enrich are
  one refusal.
- The psi and hardware commands, which print what `NodeReport` models; the command
  line, host paths, redaction, and the capability report, which have no state.
- `ListProcesses` skips a process whose name cannot be read: the model lists all
  that run.

## Plan

Done: every component of the inventory but the command line and the capability
report; abstract specifications of collections, of the drift stream and of the
metrics, with the refinements proved; proofs of every safety property that the
passing runs check.

Left: the liveness properties beyond the instances of the runs; a composition of
`ScanLoop` with `PodCache`, whose failed lookups change what the metrics count and
nothing else; the float64 arithmetic of the thresholds beyond the totals above.
