------------------------------ MODULE Exporter ------------------------------
(***************************************************************************)
(* The metrics of the scan loop and the HTTP server that exposes them      *)
(* (pkg/metrics/prometheus.go:113-196; pkg/cmd/scan.go:104-131, 165-199    *)
(* and 563-620).  UpdateMetrics writes the metrics one by one while the    *)
(* goroutines of the server gather them for a scrape; on a signal the      *)
(* server is shut down by a goroutine that RunScan does not wait for.      *)
(***************************************************************************)
EXTENDS Integers, FiniteSets

CONSTANTS Cats,        \* categories
          Results,     \* predictions of a cycle: sets of [pid, cat, pod] records
          Requests,    \* HTTP requests
          Gone, Live,  \* no series; a series gathered but not yet written out
          MaxCycles    \* bound on the cycles begun

ASSUME ExporterAssumption ==
    /\ \A preds \in Results : IsFiniteSet(preds)
    /\ \A preds \in Results : \A p \in preds :
           p.cat \in Cats /\ p.pod \in {"none", "success", "failed"}
    /\ {Gone, Live} \cap Int = {} /\ Gone # Live

\* A node has finitely many PIDs, and its server finitely many requests.
ASSUME BoundsAssumption ==
    /\ IsFiniteSet(UNION Results) /\ IsFiniteSet(Requests)
    /\ MaxCycles \in Nat \ {0}

VARIABLES
    pc, loop, cancelled,
    time,            \* cycles begun: the clock, and the CPU time the agent has used
    predictions,     \* of the last cycle that came so far
    todo,            \* those UpdateMetrics has not counted yet
    unset,           \* the categories of predCounts whose gauge is not set yet
    scansTotal, classifiedTotal, enrichmentTotal, successRate, httpRequests,
    predictionsCount,      \* the series of the gauge vector
    lastSelfCpu, lastSelfTime,   \* the last reading of the agent itself, time 0 for none
    selfCpu,         \* <<CPU used, time passed>> of AgentCpuUsagePercent
    whole,           \* history: whether that and the reading before it were complete
    base,            \* history: the metrics after the last cycle they tell of
    server,          \* the server's goroutine
    at,              \* where each request is
    path, allowed,   \* what it asks for, and whether its bearer token is the right one
    sample           \* its copy of predictionsCount

registry == <<scansTotal, classifiedTotal, enrichmentTotal, predictionsCount, successRate>>
self == <<lastSelfCpu, lastSelfTime, selfCpu, whole>>
local == <<predictions, todo, unset>>
http == <<server, at, path, allowed>>
exporterVars == <<pc, loop, cancelled, time, local, registry, httpRequests, self, base,
                  http, sample>>

OfCategory(preds, c) == Cardinality({p \in preds : p.cat = c})
OfStatus(preds, s) == Cardinality({p \in preds : p.pod = s})

Statuses == {"200", "401"}

ExporterAt(place) ==
    /\ pc = place /\ loop \in BOOLEAN /\ cancelled = FALSE
    /\ time = 1
    /\ predictions = {} /\ todo = {} /\ unset = {}
    /\ scansTotal = 0
    /\ classifiedTotal = [c \in Cats |-> 0]
    /\ enrichmentTotal = [s \in {"success", "failed"} |-> 0]
    /\ predictionsCount = [c \in Cats |-> Gone]
    /\ successRate = <<0, 0>>
    /\ httpRequests = [s \in Statuses |-> 0]
    /\ lastSelfCpu = 0 /\ lastSelfTime = 0 /\ selfCpu = <<0, 1>> /\ whole = <<TRUE, TRUE>>
    /\ base = registry
    /\ server = "starting"
    /\ at = [r \in Requests |-> "idle"]
    /\ path = [r \in Requests |-> "other"]
    /\ allowed = [r \in Requests |-> FALSE]
    /\ sample = [r \in Requests |-> [c \in Cats |-> Gone]]

ExporterInit == ExporterAt("listing")

\* RunScan has returned and the process is gone.
ExporterDone == pc = "exited" /\ UNCHANGED exporterVars

-----------------------------------------------------------------------------
(* The loop, as far as the metrics can tell.                               *)

Signal == /\ ~cancelled /\ pc # "exited"
          /\ cancelled' = TRUE
          /\ UNCHANGED <<pc, loop, time, local, registry, httpRequests, self, base,
                         http, sample>>

AgentOnly == UNCHANGED <<loop, cancelled, httpRequests, http>>

\* A failed listing is an error and no cycle: the metrics keep the last one.
CycleFails ==
    /\ pc = "listing"
    /\ pc' = IF loop THEN "sleeping" ELSE "returned"
    /\ AgentOnly
    /\ UNCHANGED <<time, local, registry, self, base, sample>>

\* The first cycle of a loop and a one-shot scan wait for the profiling window.
WindowCancelled ==
    /\ pc = "listing"
    /\ cancelled
    /\ ~loop \/ scansTotal = 0
    /\ pc' = "returned"
    /\ AgentOnly
    /\ UNCHANGED <<time, local, registry, self, base, sample>>

Collect ==
    /\ pc = "listing"
    /\ predictions' \in Results
    /\ pc' = "measuring"
    /\ AgentOnly
    /\ UNCHANGED <<time, todo, unset, registry, self, base, sample>>

\* Mutant: the time of a reading that failed is kept as if it had succeeded.
ReadSelfAdvancing ==
    /\ pc = "measuring"
    /\ \/ \E cpu \in {0, time} :
              /\ selfCpu' = IF lastSelfTime = 0 THEN <<0, 1>>
                            ELSE <<cpu - lastSelfCpu, time - lastSelfTime>>
              /\ lastSelfCpu' = cpu
              /\ whole' = <<whole[2], cpu = time>>
       \/ /\ selfCpu' = <<0, 1>>
          /\ UNCHANGED <<lastSelfCpu, whole>>
    /\ lastSelfTime' = time
    /\ pc' = "updating"
    /\ AgentOnly
    /\ UNCHANGED <<time, local, registry, base, sample>>

\* GetRawStats of the agent itself.  It uses one unit of CPU per cycle.  A
\* counter that cannot be read is zero; an error leaves the last reading alone.
ReadSelf ==
    /\ pc = "measuring"
    /\ \/ \E cpu \in {0, time} :
              /\ selfCpu' = IF lastSelfTime = 0 THEN <<0, 1>>
                            ELSE <<cpu - lastSelfCpu, time - lastSelfTime>>
              /\ lastSelfCpu' = cpu
              /\ lastSelfTime' = time
              /\ whole' = <<whole[2], cpu = time>>
       \/ /\ selfCpu' = <<0, 1>>
          /\ UNCHANGED <<lastSelfCpu, lastSelfTime, whole>>
    /\ pc' = "updating"
    /\ AgentOnly
    /\ UNCHANGED <<time, local, registry, base, sample>>

-----------------------------------------------------------------------------
(* UpdateMetrics.                                                          *)

\* Reset: a scrape that holds a series of the old cycle keeps its last value.
\* The cycle counter, the duration and the gauges of single values, which come
\* before it, are part of this step.
CountAndReset ==
    /\ pc = "updating"
    /\ scansTotal' = scansTotal + 1
    /\ predictionsCount' = [c \in Cats |-> Gone]
    /\ sample' = [r \in Requests |-> [c \in Cats |->
                     IF sample[r][c] = Live THEN predictionsCount[c] ELSE sample[r][c]]]
    /\ todo' = predictions
    /\ unset' = {p.cat : p \in predictions}
    /\ pc' = "counting"
    /\ AgentOnly
    /\ UNCHANGED <<time, predictions, classifiedTotal, enrichmentTotal, successRate,
                   self, base>>

\* Mutant: the gauge is incremented in the loop over the predictions.
CountPredictionInGauge(p) ==
    /\ pc = "counting"
    /\ p \in todo
    /\ todo' = todo \ {p}
    /\ classifiedTotal' = [classifiedTotal EXCEPT ![p.cat] = @ + 1]
    /\ enrichmentTotal' = [s \in DOMAIN enrichmentTotal |->
                              enrichmentTotal[s] + (IF p.pod = s THEN 1 ELSE 0)]
    /\ predictionsCount' = [predictionsCount EXCEPT ![p.cat] = IF @ = Gone THEN 1 ELSE @ + 1]
    /\ AgentOnly
    /\ UNCHANGED <<pc, time, predictions, unset, scansTotal, successRate, self, base, sample>>

\* One turn of the loop over the predictions.
CountPrediction(p) ==
    /\ pc = "counting"
    /\ p \in todo
    /\ todo' = todo \ {p}
    /\ classifiedTotal' = [classifiedTotal EXCEPT ![p.cat] = @ + 1]
    /\ enrichmentTotal' = [s \in DOMAIN enrichmentTotal |->
                              enrichmentTotal[s] + (IF p.pod = s THEN 1 ELSE 0)]
    /\ AgentOnly
    /\ UNCHANGED <<pc, time, predictions, unset, scansTotal, predictionsCount,
                   successRate, self, base, sample>>

\* WithLabelValues makes a series, with the value 0.
CreateSeries(c) ==
    /\ pc = "counting"
    /\ todo = {} /\ c \in unset
    /\ \A d \in unset : predictionsCount[d] = Gone
    /\ predictionsCount' = [predictionsCount EXCEPT ![c] = 0]
    /\ AgentOnly
    /\ UNCHANGED <<pc, time, local, scansTotal, classifiedTotal, enrichmentTotal,
                   successRate, self, base, sample>>

SetSeries(c) ==
    /\ pc = "counting"
    /\ todo = {} /\ c \in unset
    /\ predictionsCount[c] # Gone
    /\ predictionsCount' = [predictionsCount EXCEPT ![c] = OfCategory(predictions, c)]
    /\ unset' = unset \ {c}
    /\ AgentOnly
    /\ UNCHANGED <<pc, time, predictions, todo, scansTotal, classifiedTotal,
                   enrichmentTotal, successRate, self, base, sample>>

\* Mutant: a cycle without containers leaves the rate of the last one.
SetRateWhenTried ==
    /\ pc = "counting"
    /\ todo = {} /\ unset = {}
    /\ LET successes == OfStatus(predictions, "success")
           attempts == successes + OfStatus(predictions, "failed")
       IN  successRate' = IF attempts > 0 THEN <<successes, attempts>> ELSE successRate
    /\ base' = <<scansTotal, classifiedTotal, enrichmentTotal, predictionsCount, successRate'>>
    /\ pc' = IF loop THEN "sleeping" ELSE "returned"
    /\ AgentOnly
    /\ UNCHANGED <<time, local, scansTotal, classifiedTotal, enrichmentTotal,
                   predictionsCount, self, sample>>

SetRate ==
    /\ pc = "counting"
    /\ todo = {} /\ unset = {}
    /\ LET successes == OfStatus(predictions, "success")
       IN  successRate' = <<successes, successes + OfStatus(predictions, "failed")>>
    /\ base' = <<scansTotal, classifiedTotal, enrichmentTotal, predictionsCount, successRate'>>
    /\ pc' = IF loop THEN "sleeping" ELSE "returned"
    /\ AgentOnly
    /\ UNCHANGED <<time, local, scansTotal, classifiedTotal, enrichmentTotal,
                   predictionsCount, self, sample>>

-----------------------------------------------------------------------------
(* The end of an iteration and of the process.                             *)

WakeUp == /\ pc = "sleeping" /\ ~cancelled
          /\ time < MaxCycles
          /\ time' = time + 1
          /\ pc' = "listing"
          /\ AgentOnly
          /\ UNCHANGED <<local, registry, self, base, sample>>

Terminate == /\ pc = "sleeping" /\ cancelled
             /\ pc' = "returned"
             /\ AgentOnly
             /\ UNCHANGED <<time, local, registry, self, base, sample>>

Active(r) == at[r] \in {"arrived", "counted", "gathering"}

\* Mutant: the process waits for the requests that are being served.
ExitWhenServed ==
    /\ pc = "returned"
    /\ \A r \in Requests : ~Active(r)
    /\ pc' = "exited" /\ server' = "closed"
    /\ UNCHANGED <<at, loop, cancelled, time, local, registry, httpRequests, self, base,
                   path, allowed, sample>>

\* main returns: requests that are being served are cut.
Exit == /\ pc = "returned"
        /\ pc' = "exited"
        /\ server' = "closed"
        /\ at' = [r \in Requests |-> IF Active(r) THEN "cut" ELSE at[r]]
        /\ UNCHANGED <<loop, cancelled, time, local, registry, httpRequests, self, base,
                       path, allowed, sample>>

-----------------------------------------------------------------------------
(* The server.                                                             *)

ServerOnly == UNCHANGED <<pc, loop, cancelled, time, local, registry, self, base>>

\* ListenAndServe; its error, for example an address in use, is only logged.
Listen == /\ server = "starting"
          /\ server' \in {"serving", "failed"}
          /\ ServerOnly
          /\ UNCHANGED <<httpRequests, at, path, allowed, sample>>

\* server.Shutdown: no new request is accepted from now on, also if the
\* listener was never opened.  It returns when no request is active, or after
\* two seconds, which leaves those that are to themselves: nobody waits for it.
Shutdown == /\ cancelled
            /\ server \in {"starting", "serving"}
            /\ server' = "closed"
            /\ ServerOnly
            /\ UNCHANGED <<httpRequests, at, path, allowed, sample>>

ArriveAt(r, place) == at' = [at EXCEPT ![r] = place]

Arrive(r) == /\ server = "serving" /\ pc # "exited"
             /\ at[r] = "idle"
             /\ ArriveAt(r, "arrived")
             /\ \E asked \in {"/metrics", "other"} : path' = [path EXCEPT ![r] = asked]
             /\ \E right \in BOOLEAN : allowed' = [allowed EXCEPT ![r] = right]
             /\ ServerOnly
             /\ UNCHANGED <<httpRequests, server, sample>>

\* secureMiddleware: every request is counted before it is served, whatever
\* path it asks for; one without the right token is counted as a 401.
Check(r) ==
    /\ at[r] = "arrived"
    /\ LET status == IF allowed[r] THEN "200" ELSE "401"
       IN  httpRequests' = [httpRequests EXCEPT ![status] = @ + 1]
    /\ ArriveAt(r, IF allowed[r] THEN "counted" ELSE "refused")
    /\ allowed' = [allowed EXCEPT ![r] = FALSE]
    /\ path' = [path EXCEPT ![r] = IF allowed[r] THEN @ ELSE "other"]
    /\ ServerOnly
    /\ UNCHANGED <<server, sample>>

\* Mutant: the handler counts the request that the middleware has counted.
ServeCountingAgain(r) ==
    /\ at[r] = "counted"
    /\ path[r] # "/metrics"
    /\ httpRequests' = [httpRequests EXCEPT !["200"] = @ + 1]
    /\ ArriveAt(r, "answered")
    /\ path' = [path EXCEPT ![r] = "other"]
    /\ ServerOnly
    /\ UNCHANGED <<server, allowed, sample>>

\* Any other path: /healthz writes OK, the rest are the multiplexer's 404.
Serve(r) ==
    /\ at[r] = "counted"
    /\ path[r] # "/metrics"
    /\ ArriveAt(r, "answered")
    /\ path' = [path EXCEPT ![r] = "other"]
    /\ ServerOnly
    /\ UNCHANGED <<httpRequests, server, allowed, sample>>

\* A scrape takes hold of the series that exist, and counts the requests; this
\* is the earliest moment it can.
Gather(r) ==
    /\ at[r] = "counted"
    /\ path[r] = "/metrics"
    /\ sample' = [sample EXCEPT ![r] =
                     [c \in Cats |-> IF predictionsCount[c] = Gone THEN Gone ELSE Live]]
    /\ ArriveAt(r, "gathering")
    /\ ServerOnly
    /\ UNCHANGED <<httpRequests, server, path, allowed>>

\* It writes each of them out with the value it has by then.
WriteOut(r, c) ==
    /\ at[r] = "gathering"
    /\ sample[r][c] = Live
    /\ sample' = [sample EXCEPT ![r][c] = predictionsCount[c]]
    /\ ServerOnly
    /\ UNCHANGED <<httpRequests, server, at, path, allowed>>

Answer(r) ==
    /\ at[r] = "gathering"
    /\ \A c \in Cats : sample[r][c] # Live
    /\ ArriveAt(r, "answered")
    /\ sample' = [sample EXCEPT ![r] = [c \in Cats |-> Gone]]
    /\ path' = [path EXCEPT ![r] = "other"]
    /\ ServerOnly
    /\ UNCHANGED <<httpRequests, server, allowed>>

Loop == \/ CycleFails \/ WindowCancelled \/ Collect \/ ReadSelf \/ CountAndReset
        \/ \E p \in todo : CountPrediction(p)
        \/ \E c \in Cats : CreateSeries(c) \/ SetSeries(c)
        \/ SetRate \/ WakeUp \/ Terminate \/ Exit

\* A request dies with the process.
Handler == /\ pc # "exited"
           /\ \/ Listen \/ Shutdown
              \/ \E r \in Requests : \/ Arrive(r) \/ Check(r) \/ Serve(r) \/ Gather(r)
                                     \/ Answer(r)
                                     \/ \E c \in Cats : WriteOut(r, c)

ExporterNext == Signal \/ Loop \/ Handler

\* The loop's goroutine runs and its timers fire.  Nothing is assumed of the
\* server: a client may be as slow as it likes.
ExporterFairness == WF_exporterVars(Loop)

-----------------------------------------------------------------------------
Amounts == 0..Cardinality(UNION Results)

LoopTypeOK ==
    /\ pc \in {"listing", "measuring", "updating", "counting", "sleeping", "returned",
               "exited"}
    /\ {loop, cancelled} \subseteq BOOLEAN
    /\ time \in 1..MaxCycles
    /\ predictions \in Results \cup {{}} /\ todo \subseteq predictions
    /\ unset \subseteq Cats
    /\ {lastSelfCpu, lastSelfTime} \subseteq 0..MaxCycles
    /\ selfCpu \in Int \X (1..MaxCycles)

RegistryTypeOK ==
    /\ scansTotal \in 0..MaxCycles
    /\ classifiedTotal \in [Cats -> Nat]
    /\ enrichmentTotal \in [{"success", "failed"} -> Nat]
    /\ predictionsCount \in [Cats -> Amounts \cup {Gone}]
    /\ successRate \in Nat \X Nat

ServerTypeOK ==
    /\ httpRequests \in [Statuses -> 0..Cardinality(Requests)]
    /\ server \in {"starting", "serving", "failed", "closed"}
    /\ at \in [Requests -> {"idle", "arrived", "counted", "gathering", "answered",
                            "refused", "cut"}]
    /\ sample \in [Requests -> [Cats -> Amounts \cup {Gone, Live}]]

ExporterTypeOK == LoopTypeOK /\ RegistryTypeOK /\ ServerTypeOK

\* Outside UpdateMetrics the metrics are what one cycle left; inside they are
\* mapped to what they were when it was called.
Updating == pc = "counting"

GaugeOf(series) == [c \in Cats |-> IF series[c] = Gone THEN 0 ELSE series[c]]

Contract == INSTANCE MetricsContract WITH
    scansTotal       <- IF Updating THEN base[1] ELSE scansTotal,
    classifiedTotal  <- IF Updating THEN base[2] ELSE classifiedTotal,
    enrichmentTotal  <- IF Updating THEN base[3] ELSE enrichmentTotal,
    predictionsCount <- GaugeOf(IF Updating THEN base[4] ELSE predictionsCount),
    successRate      <- IF Updating THEN base[5] ELSE successRate

\* Seen from between two updates, UpdateMetrics is one step that publishes one
\* cycle: no series of an older cycle stays, the success rate is that of the
\* same cycle, and the counters grow by what it classified
\* (prometheus.go:159-195).
ImplementsMetricsContract == Contract!Init /\ [][Contract!Next]_(Contract!published)

\* Also a scrape in the middle of an update sees no value that never was: each
\* category it shows has the count of the last cycle, that of the one being
\* published, or 0 (prometheus.go:160 and 185-187).
ScrapedValuesBelongToACycle ==
    [][ \A r \in Requests, c \in Cats :
            sample[r][c] = Live /\ sample'[r][c] # Live =>
                sample'[r][c] \in {0, OfCategory(predictions, c), base[4][c]} ]_exporterVars

\* The agent's own CPU usage is its usage since the last reading that
\* succeeded, however many cycles ago that was, and no more; it can only be
\* wrong when the CPU time of one of the two readings is missing
\* (scan.go:565-577).
SelfCpuSpansTheGap ==
    selfCpu[1] \in {0, selfCpu[2]} \/ whole # <<TRUE, TRUE>>

\* After a signal the process ends, whatever the clients of the server do
\* (scan.go:188-194 and 613-620).
ProcessEnds == cancelled \/ ~loop ~> pc = "exited"
=============================================================================
