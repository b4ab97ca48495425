--------------------------- MODULE ScanLoopProofs ---------------------------
(***************************************************************************)
(* The outputs and the rates of ScanLoop, for any processes, events and    *)
(* faults.                                                                 *)
(***************************************************************************)
EXTENDS ScanLoop, DriftLemmas

\* A map of samples as a collection makes it.
IsStats(m) == /\ DOMAIN m \subseteq Pids
              /\ \A p \in DOMAIN m : m[p] \in [name : Kinds, start : Nat, cpu : Nat,
                                              mem : Nat, full : BOOLEAN]

\* Names, counters and histories keep to their types.
MapInv ==
    /\ os \in [Pids -> [kind : Kinds, start : Nat, cpu : Nat] \cup {Absent}]
    /\ starts \in Nat
    /\ used \in [Pids -> Nat] /\ window \in [Pids -> Nat]
    /\ DOMAIN procs \subseteq Pids /\ \A p \in DOMAIN procs : procs[p] \in Kinds
    /\ Collecting => pending \subseteq DOMAIN procs
    /\ IsStats(sampled) /\ IsStats(s1Map) /\ IsStats(s2Map)
    /\ lastStatsMap # NoMap => IsStats(lastStatsMap)
    /\ loop \in BOOLEAN

\* What was printed last is the baseline, and what the exporter shows.
OutputInv ==
    /\ emitted = <<emitted[1], emitted[2]>>
    /\ previousFingerprint = emitted[2]
    /\ gauges = emitted[2].count

\* No process is further from a complete sample of its PID than what has been
\* used under the PID since.
Since(m, p) == m[p].full /\ os[p] # Absent => os[p].cpu <= m[p].cpu + used[p]

\* The last samples account for all that runs, until the next are taken.
SinceInv ==
    /\ \A p \in DOMAIN sampled : p \notin pending /\ Since(sampled, p)
    /\ ~Collecting => sampled = EmptyMap
    /\ pc = "window" => \A p \in DOMAIN s1Map : Since(s1Map, p)
    /\ pc = "second" => \A p \in DOMAIN s1Map : p \in pending => Since(s1Map, p)
    /\ pc \in {"listing", "sleeping", "analysing"} /\ lastStatsMap # NoMap =>
           \A p \in DOMAIN lastStatsMap : Since(lastStatsMap, p)
    /\ pc = "single" =>
           /\ lastStatsMap # NoMap
           /\ \A p \in DOMAIN lastStatsMap : p \in pending => Since(lastStatsMap, p)
    /\ pc \in {"first", "window", "second"} \/ ~loop => lastStatsMap = NoMap

\* A rate from a complete sample is no more than what was used in between.
Fair(m, n) == \A p \in DOMAIN m \cap DOMAIN n :
                  m[p].full => Rate(m[p], n[p]) <= window[p]

\* So are the rates the loop will compute.
FairInv == /\ pc = "second" => Fair(s1Map, sampled)
           /\ pc = "single" => Fair(lastStatsMap, sampled)
           /\ pc = "analysing" => Fair(s1Map, s2Map)

IInv == MapInv /\ OutputInv /\ SinceInv /\ FairInv

USE ScanLoopAssumption

\* The maps are empty at first, and nothing has been printed.
LEMMA InitIInv == Init => IInv
<1> SUFFICES ASSUME Init PROVE IInv
    OBVIOUS
<1>1. IsStats(EmptyMap)
    BY DEF IsStats, EmptyMap
<1>2. MapInv /\ OutputInv
    BY <1>1 DEF Init, MapInv, OutputInv, EmptyMap, Zero, NoFingerprint
<1>3. SinceInv /\ FairInv
    BY DEF Init, SinceInv, FairInv, EmptyMap
<1> QED
    BY <1>2, <1>3 DEF IInv

-----------------------------------------------------------------------------
(* The node.                                                               *)

\* Whatever the processes do, they stay processes.
LEMMA NodeMaps ==
    ASSUME MapInv, Environment
    PROVE  MapInv'
<1> USE DEF MapInv, IsStats, Disturb, caches, Collecting
<1>1. ASSUME NEW p \in Pids, Stop(p) PROVE MapInv'
    BY <1>1 DEF Stop
<1>2. ASSUME NEW p \in Pids, Work(p) PROVE MapInv'
    BY <1>2 DEF Work
<1>3. ASSUME NEW p \in Pids, NEW k \in Kinds, Start(p, k) PROVE MapInv'
    BY <1>3 DEF Start, NewProcess
<1>4. ASSUME NEW p \in Pids, NEW q \in Pids, Restart(p, q) PROVE MapInv'
    BY <1>4 DEF Restart, NewProcess
<1>5. CASE Cancel
    BY <1>5 DEF Cancel, environment
<1> QED
    BY <1>1, <1>2, <1>3, <1>4, <1>5 DEF Environment

\* CPU time is charged to the PID, and a process that is new has used no more
\* than was charged since it was started.
LEMMA NodeKeepsSince ==
    ASSUME MapInv, Environment, NEW m, IsStats(m), NEW p \in DOMAIN m, Since(m, p)
    PROVE  Since(m, p)'
<1> USE DEF MapInv, IsStats, Since
<1>1. ASSUME NEW q \in Pids, Stop(q) PROVE Since(m, p)'
    BY <1>1 DEF Stop
<1>2. ASSUME NEW q \in Pids, Work(q) PROVE Since(m, p)'
    BY <1>2 DEF Work
<1>3. ASSUME NEW q \in Pids, NEW k \in Kinds, Start(q, k) PROVE Since(m, p)'
    BY <1>3 DEF Start, NewProcess
<1>4. ASSUME NEW q \in Pids, NEW r \in Pids, Restart(q, r) PROVE Since(m, p)'
    BY <1>4 DEF Restart, NewProcess
<1>5. CASE Cancel
    BY <1>5 DEF Cancel, environment
<1> QED
    BY <1>1, <1>2, <1>3, <1>4, <1>5 DEF Environment
\* The node keeps the invariant.
LEMMA NodeStep ==
    ASSUME IInv, Environment
    PROVE  IInv'
<1>1. UNCHANGED <<pc, loop, procs, pending, sampled, caches, outputs, window>>
    BY DEF Environment, Stop, Work, Start, Restart, Cancel, Disturb
<1>2. MapInv'
    BY NodeMaps DEF IInv
<1>3. OutputInv'
    BY <1>1 DEF IInv, OutputInv, outputs
<1>4. UNCHANGED <<s1Map, s2Map, lastStatsMap>>
    BY <1>1 DEF caches
<1>5. FairInv'
    BY <1>1, <1>4 DEF IInv, FairInv, Fair, Rate
<1>6. ASSUME NEW m, IsStats(m), NEW p \in DOMAIN m, Since(m, p)
      PROVE  m[p].full /\ os'[p] # Absent => os'[p].cpu <= m[p].cpu + used'[p]
    BY <1>6, NodeKeepsSince DEF IInv, Since
<1>7. /\ IsStats(sampled) /\ IsStats(s1Map)
      /\ lastStatsMap # NoMap => IsStats(lastStatsMap)
    BY DEF IInv, MapInv
<1>8. \A p \in DOMAIN sampled' : p \notin pending' /\ Since(sampled, p)'
    BY <1>1, <1>6, <1>7 DEF IInv, SinceInv, Since
<1>9. /\ pc' = "window" => \A p \in DOMAIN s1Map' : Since(s1Map, p)'
      /\ pc' = "second" => \A p \in DOMAIN s1Map' : p \in pending' => Since(s1Map, p)'
    BY <1>1, <1>4, <1>6, <1>7 DEF IInv, SinceInv, Since
<1>10. /\ pc' \in {"listing", "sleeping", "analysing"} /\ lastStatsMap' # NoMap =>
              \A p \in DOMAIN lastStatsMap' : Since(lastStatsMap, p)'
       /\ pc' = "single" =>
              \A p \in DOMAIN lastStatsMap' : p \in pending' => Since(lastStatsMap, p)'
    BY <1>1, <1>4, <1>6, <1>7 DEF IInv, SinceInv, Since
<1>11. SinceInv'
    BY <1>1, <1>4, <1>8, <1>9, <1>10 DEF IInv, SinceInv, Collecting
<1> QED
    BY <1>2, <1>3, <1>5, <1>11 DEF IInv

-----------------------------------------------------------------------------
(* A collection.                                                           *)

\* Listing only forgets what was used under a PID that is free.
LEMMA ListStep ==
    ASSUME IInv, ListProcesses
    PROVE  IInv'
<1> USE DEF ListProcesses
<1>1. UNCHANGED <<os, starts, loop, sampled, s1Map, s2Map, lastStatsMap, outputs, window>>
    BY DEF environment, caches
<1>2. used' \in [Pids -> Nat] /\ \A p \in Pids : os[p] # Absent => used'[p] = used[p]
    BY DEF IInv, MapInv
<1>3. DOMAIN procs' \subseteq Pids /\ \A p \in DOMAIN procs' : procs'[p] \in Kinds
    BY DEF IInv, MapInv
<1>4. MapInv'
    BY <1>1, <1>2, <1>3 DEF IInv, MapInv, IsStats, Collecting
<1>5. OutputInv' /\ FairInv'
    BY <1>1, <1>2 DEF IInv, OutputInv, outputs, FairInv, Fair, SinceInv, EmptyMap, Collecting
<1>6. sampled' = EmptyMap
    BY <1>1 DEF IInv, SinceInv, Collecting
<1>7. lastStatsMap # NoMap =>
          \A p \in DOMAIN lastStatsMap : p \in Pids /\ Since(lastStatsMap, p)
    BY DEF IInv, SinceInv, MapInv, IsStats
<1>8. SinceInv'
    BY <1>1, <1>2, <1>6, <1>7 DEF IInv, SinceInv, Since, EmptyMap, Collecting
<1> QED
    BY <1>4, <1>5, <1>8 DEF IInv

\* The map that the running collection will be compared with.
Baseline == IF pc = "single" THEN lastStatsMap ELSE s1Map

\* A PID that is settled leaves the pending ones with a window of its own.
LEMMA SettleStep ==
    ASSUME IInv, NEW p \in Pids, Read(p) \/ ReadPartly(p) \/ Miss(p)
    PROVE  IInv'
<1>1. /\ Collecting /\ p \in pending /\ pending' = pending \ {p}
      /\ used' = [used EXCEPT ![p] = 0]
      /\ window' = [window EXCEPT ![p] = used[p]]
      /\ UNCHANGED <<os, starts, loop, pc, procs, s1Map, s2Map, lastStatsMap, outputs>>
    BY DEF Read, ReadPartly, Miss, Settle, environment, caches
<1>2. /\ p \in DOMAIN procs /\ procs[p] \in Kinds
      /\ p \notin DOMAIN sampled
      /\ DOMAIN sampled \subseteq Pids /\ DOMAIN procs \subseteq Pids
    BY <1>1 DEF IInv, MapInv, IsStats, SinceInv
<1>3. \/ UNCHANGED sampled
      \/ \E s \in [name : Kinds, start : Nat, cpu : Nat, mem : Nat, full : BOOLEAN] :
            /\ sampled' = Put(p, s)
            /\ s.full => s.cpu = os[p].cpu
            /\ s.cpu \in {0, os[p].cpu} /\ os[p] # Absent
    <2>1. CASE Miss(p)
        BY <2>1 DEF Miss
    <2>2. CASE Read(p)
        <3> DEFINE s == [name |-> procs[p], start |-> os[p].start, cpu |-> os[p].cpu,
                         mem |-> MemOf[os[p].kind], full |-> TRUE]
        <3>1. os[p] # Absent /\ sampled' = Put(p, s)
            BY <2>2 DEF Read
        <3>2. s \in [name : Kinds, start : Nat, cpu : Nat, mem : Nat, full : BOOLEAN]
            BY <1>2, <3>1 DEF IInv, MapInv
        <3> QED
            BY <3>1, <3>2
    <2>3. CASE ReadPartly(p)
        <3> DEFINE s == [name |-> procs[p], start |-> os[p].start, cpu |-> 0,
                         mem |-> 0, full |-> FALSE]
        <3>1. os[p] # Absent /\ sampled' = Put(p, s)
            BY <2>3 DEF ReadPartly
        <3>2. s \in [name : Kinds, start : Nat, cpu : Nat, mem : Nat, full : BOOLEAN]
            BY <1>2, <3>1 DEF IInv, MapInv
        <3> QED
            BY <3>1, <3>2
    <2> QED
        BY <2>1, <2>2, <2>3
<1>4. IsStats(sampled')
    BY <1>2, <1>3 DEF IInv, MapInv, IsStats, Put
<1>5. used' \in [Pids -> Nat] /\ window' \in [Pids -> Nat] /\ pending' \subseteq DOMAIN procs
    BY <1>1 DEF IInv, MapInv
<1>6. MapInv'
    BY <1>1, <1>4, <1>5 DEF IInv, MapInv, IsStats, Collecting
<1>7. OutputInv'
    BY <1>1 DEF IInv, OutputInv, outputs
<1>8. /\ DOMAIN sampled' \subseteq DOMAIN sampled \cup {p}
      /\ \A q \in DOMAIN sampled : q # p /\ sampled'[q] = sampled[q]
    BY <1>2, <1>3 DEF Put
<1>9. p \in DOMAIN sampled' => Since(sampled, p)' /\ sampled'[p].cpu \in {0, os[p].cpu}
    <2>1. used'[p] = 0
        BY <1>1 DEF IInv, MapInv
    <2>2. p \in DOMAIN sampled' =>
              /\ sampled'[p].full => sampled'[p].cpu = os[p].cpu
              /\ sampled'[p].cpu \in {0, os[p].cpu} /\ os[p] # Absent
        BY <1>2, <1>3 DEF Put
    <2>3. os[p] # Absent => os[p].cpu \in Nat
        BY DEF IInv, MapInv
    <2> QED
        BY <1>1, <2>1, <2>2, <2>3 DEF Since
<1>10. ASSUME NEW m, NEW q \in Pids, q # p
       PROVE  Since(m, q) => (m[q].full /\ os'[q] # Absent => os'[q].cpu <= m[q].cpu + used'[q])
    BY <1>1, <1>10 DEF Since, IInv, MapInv
<1>11. SinceInv'
    <2>1. \A q \in DOMAIN sampled' : q \notin pending' /\ Since(sampled, q)'
        <3> SUFFICES ASSUME NEW q \in DOMAIN sampled'
                     PROVE  q \notin pending' /\ Since(sampled, q)'
            OBVIOUS
        <3>1. CASE q = p
            BY <3>1, <1>1, <1>9
        <3>2. CASE q # p
            <4>1. q \in DOMAIN sampled /\ q \in Pids /\ sampled'[q] = sampled[q]
                BY <3>2, <1>2, <1>8
            <4>2. q \notin pending /\ Since(sampled, q)
                BY <4>1 DEF IInv, SinceInv
            <4> QED
                BY <3>2, <4>1, <4>2, <1>1, <1>10 DEF Since
        <3> QED
            BY <3>1, <3>2
    <2>2. pc' = "second" => \A q \in DOMAIN s1Map' : q \in pending' => Since(s1Map, q)'
        BY <1>1, <1>10 DEF IInv, MapInv, IsStats, SinceInv, Since
    <2>3. pc' = "single" =>
              /\ lastStatsMap' # NoMap
              /\ \A q \in DOMAIN lastStatsMap' : q \in pending' => Since(lastStatsMap, q)'
        BY <1>1, <1>10 DEF IInv, MapInv, IsStats, SinceInv, Since
    <2> QED
        BY <1>1, <2>1, <2>2, <2>3 DEF IInv, SinceInv, Collecting
<1>12. FairInv'
    <2>1. ASSUME NEW m, IsStats(m), Fair(m, sampled),
                 p \in DOMAIN m => Since(m, p)
          PROVE  \A q \in DOMAIN m \cap DOMAIN sampled' :
                     m[q].full => Rate(m[q], sampled'[q]) <= window'[q]
        <3> SUFFICES ASSUME NEW q \in DOMAIN m \cap DOMAIN sampled', m[q].full
                     PROVE  Rate(m[q], sampled'[q]) <= window'[q]
            OBVIOUS
        <3>1. CASE q = p
            <4>1. window'[p] = used[p] /\ used[p] \in Nat /\ m[p].cpu \in Nat
                BY <1>1, <2>1, <3>1 DEF IInv, MapInv, IsStats
            <4>2. sampled'[p].cpu \in {0, os[p].cpu} /\ Since(m, p)
                BY <1>9, <2>1, <3>1
            <4>3. os[p] # Absent /\ os[p].cpu \in Nat
                BY <1>3, <1>2, <3>1 DEF IInv, MapInv
            <4>4. os[p].cpu <= m[p].cpu + used[p]
                BY <4>2, <4>3, <3>1 DEF Since
            <4>5. sampled'[p].cpu \in Nat /\ sampled'[p].cpu <= m[p].cpu + used[p]
                BY <4>1, <4>2, <4>3, <4>4
            <4> QED
                BY <4>1, <4>5, <3>1 DEF Rate
        <3>2. CASE q # p
            BY <3>2, <1>1, <1>8, <2>1 DEF Fair, Rate, IInv, MapInv
        <3> QED
            BY <3>1, <3>2
    <2>2. pc = "second" => \A q \in DOMAIN s1Map \cap DOMAIN sampled' :
                     s1Map[q].full => Rate(s1Map[q], sampled'[q]) <= window'[q]
        <3>1. pc = "second" => /\ IsStats(s1Map) /\ Fair(s1Map, sampled)
                               /\ p \in DOMAIN s1Map => Since(s1Map, p)
            BY <1>1 DEF IInv, MapInv, SinceInv, FairInv
        <3> QED
            BY <2>1, <3>1
    <2>3. pc = "single" => \A q \in DOMAIN lastStatsMap \cap DOMAIN sampled' :
                     lastStatsMap[q].full => Rate(lastStatsMap[q], sampled'[q]) <= window'[q]
        <3>1. pc = "single" => /\ IsStats(lastStatsMap) /\ Fair(lastStatsMap, sampled)
                               /\ p \in DOMAIN lastStatsMap => Since(lastStatsMap, p)
            BY <1>1 DEF IInv, MapInv, SinceInv, FairInv
        <3> QED
            BY <2>1, <3>1
    <2>4. pc # "analysing" /\ pc' = pc
        BY <1>1 DEF Collecting
    <2>5. pc' = "second" => Fair(s1Map, sampled)'
        BY <1>1, <2>2, <2>4 DEF Fair, Rate
    <2>6. pc' = "single" => Fair(lastStatsMap, sampled)'
        BY <1>1, <2>3, <2>4 DEF Fair, Rate
    <2> QED
        BY <2>4, <2>5, <2>6 DEF FairInv
<1> QED
    BY <1>6, <1>7, <1>11, <1>12 DEF IInv

\* A collection that begins or fails changes no map.
LEMMA StayStep ==
    ASSUME IInv, ListFails \/ WindowElapses \/ WindowCancelled \/ WakeUp \/ Terminate
    PROVE  IInv'
<1>1. /\ UNCHANGED <<os, starts, loop, procs, sampled, s1Map, s2Map, lastStatsMap,
                     outputs, used, window>>
      /\ pc' \notin {"first", "single"} /\ (pc' = "second" => pending' = DOMAIN procs)
    BY DEF ListFails, WindowElapses, WindowCancelled, WakeUp, Terminate, environment, caches
<1>2. MapInv'
    BY <1>1 DEF IInv, MapInv, IsStats, Collecting
<1>3. OutputInv'
    BY <1>1 DEF IInv, OutputInv, outputs
<1>4. sampled = EmptyMap /\ pc' \notin {"single", "analysing", "first", "window"}
    BY DEF IInv, SinceInv, Collecting, ListFails, WindowElapses, WindowCancelled, WakeUp, Terminate
<1>5. FairInv'
    BY <1>1, <1>4 DEF FairInv, Fair, EmptyMap
<1>6. \A m, p : Since(m, p) =>
          (m[p].full /\ os'[p] # Absent => os'[p].cpu <= m[p].cpu + used'[p])
    BY <1>1 DEF Since
<1>7. ASSUME ListFails \/ WakeUp \/ Terminate PROVE SinceInv'
    <2>1. /\ pc \in {"listing", "sleeping"} /\ pc' \in {"listing", "sleeping", "stopped"}
        BY <1>7 DEF ListFails, WakeUp, Terminate
    <2>2. lastStatsMap # NoMap => \A p \in DOMAIN lastStatsMap : Since(lastStatsMap, p)
        BY <2>1 DEF IInv, SinceInv
    <2>3. ~loop => lastStatsMap = NoMap
        BY DEF IInv, SinceInv
    <2>4. lastStatsMap' # NoMap => \A p \in DOMAIN lastStatsMap' : Since(lastStatsMap, p)'
        BY <1>1, <1>6, <2>2 DEF Since
    <2>5. DOMAIN sampled' = {} /\ sampled' = EmptyMap' /\ ~Collecting'
        BY <1>1, <1>4, <2>1 DEF EmptyMap, Collecting
    <2>6. \A p \in DOMAIN sampled' : p \notin pending' /\ Since(sampled, p)'
        BY <2>5
    <2>7. pc' \in {"listing", "sleeping", "stopped"} /\ (~loop' => lastStatsMap' = NoMap)
        BY <1>1, <2>1, <2>3
    <2> QED
        BY <2>4, <2>5, <2>6, <2>7 DEF SinceInv
<1>8. ASSUME WindowElapses \/ WindowCancelled PROVE SinceInv'
    <2>1. pc = "window" /\ pc' \in {"second", "stopped"}
        BY <1>8 DEF WindowElapses, WindowCancelled
    <2>2. lastStatsMap = NoMap /\ \A p \in DOMAIN s1Map : Since(s1Map, p)
        BY <2>1 DEF IInv, SinceInv
    <2>3. \A p \in DOMAIN s1Map' : Since(s1Map, p)'
        BY <1>1, <1>6, <2>2 DEF Since
    <2> QED
        BY <1>1, <1>4, <2>1, <2>2, <2>3 DEF SinceInv, Since, EmptyMap, Collecting
<1>9. SinceInv'
    BY <1>7, <1>8
<1> QED
    BY <1>2, <1>3, <1>5, <1>9 DEF IInv

\* A collection that ends hands over what it sampled.
LEMMA CollectedStep ==
    ASSUME IInv, CollectFirst \/ CollectSecond \/ CollectSingle
    PROVE  IInv'
<1>1. /\ UNCHANGED <<os, starts, loop, procs, pending, outputs, used, window>>
      /\ sampled' = EmptyMap
      /\ pc' \in {"window", "analysing"}
    BY DEF CollectFirst, CollectSecond, CollectSingle, Collected, environment
<1>2. IsStats(EmptyMap)
    BY DEF IsStats, EmptyMap
<1>3. OutputInv'
    BY <1>1 DEF IInv, OutputInv, outputs
<1>4. CASE CollectFirst
    <2>1. s1Map' = sampled /\ UNCHANGED <<s2Map, lastStatsMap>> /\ pc = "first" /\ pc' = "window"
        BY <1>4 DEF CollectFirst
    <2>2. MapInv'
        BY <1>1, <1>2, <2>1 DEF IInv, MapInv, IsStats, Collecting
    <2>3. SinceInv' /\ FairInv'
        BY <1>1, <2>1 DEF IInv, SinceInv, Since, FairInv, Collecting, EmptyMap
    <2> QED
        BY <1>3, <2>2, <2>3 DEF IInv
<1>5. CASE CollectSecond
    <2>1. /\ s2Map' = sampled /\ s1Map' = s1Map /\ pc = "second" /\ pc' = "analysing"
          /\ lastStatsMap' = IF loop THEN sampled ELSE lastStatsMap
        BY <1>5 DEF CollectSecond
    <2>2. MapInv'
        BY <1>1, <1>2, <2>1 DEF IInv, MapInv, IsStats, Collecting
    <2>3. SinceInv'
        BY <1>1, <2>1 DEF IInv, SinceInv, Since, Collecting, EmptyMap
    <2>4. FairInv'
        BY <1>1, <2>1 DEF IInv, FairInv, Fair, Rate
    <2> QED
        BY <1>3, <2>2, <2>3, <2>4 DEF IInv
<1>6. CASE CollectSingle
    <2>1. /\ s2Map' = sampled /\ s1Map' = lastStatsMap /\ lastStatsMap' = sampled
          /\ pc = "single" /\ pc' = "analysing"
        BY <1>6 DEF CollectSingle
    <2>2. lastStatsMap # NoMap /\ loop
        BY <2>1 DEF IInv, SinceInv, MapInv
    <2>3. MapInv'
        BY <1>1, <1>2, <2>1, <2>2 DEF IInv, MapInv, IsStats, Collecting
    <2>4. SinceInv'
        BY <1>1, <2>1, <2>2 DEF IInv, SinceInv, Since, Collecting, EmptyMap
    <2>5. FairInv'
        BY <1>1, <2>1 DEF IInv, FairInv, Fair, Rate
    <2> QED
        BY <1>3, <2>3, <2>4, <2>5 DEF IInv
<1> QED
    BY <1>4, <1>5, <1>6

-----------------------------------------------------------------------------
(* A cycle that completes.                                                 *)

\* The categories are predicted of PIDs that were listed.
LEMMA PredictionsOfPids ==
    ASSUME MapInv
    PROVE  predictions \in Predictions(Pids)
<1> DEFINE S == {q \in Paired : PassesFilter(q)}
           busy(p) == Rate(s1Map[p], s2Map[p]) > 0
           F(p) == CategoryOf[s2Map[p].name, busy(p)]
<1>1. predictions = [p \in S |-> F(p)]
    BY Zenon DEF predictions
<1>2. S \in SUBSET Pids
    <2> HIDE DEF F
    <2> QED
        BY DEF Paired, MapInv
<1>3. ASSUME NEW p \in S PROVE F(p) \in Cats
    <2>1. p \in DOMAIN s2Map
        BY <1>3 DEF Paired
    <2>2. s2Map[p].name \in Kinds
        BY <2>1 DEF MapInv, IsStats
    <2>3. busy(p) \in BOOLEAN
        <3>1. Rate(s1Map[p], s2Map[p]) \in Int
            BY <1>3 DEF Paired, MapInv, IsStats, Rate
        <3> QED
            BY <3>1
    <2> HIDE DEF busy
    <2>4. <<s2Map[p].name, busy(p)>> \in Kinds \X BOOLEAN
        BY <2>2, <2>3, Zenon
    <2> QED
        BY <2>4, Zenon
<1> HIDE DEF S, F
<1>4. [p \in S |-> F(p)] \in [S -> Cats \cup {Unknown}]
    BY <1>3
<1> QED
    BY <1>1, <1>2, <1>4, Zenon DEF Predictions

\* The outputs of a cycle are about its own predictions.
LEMMA AnalyseStep ==
    ASSUME IInv, Analyse
    PROVE  IInv'
<1>1. /\ UNCHANGED <<os, starts, loop, pending, sampled, lastStatsMap, used>>
      /\ procs' = EmptyMap /\ s1Map' = EmptyMap /\ s2Map' = EmptyMap /\ window' = Zero
      /\ pc = "analysing" /\ pc' \in {"sleeping", "stopped"}
    BY Zenon DEF Analyse, environment
<1>2. IsStats(EmptyMap)
    BY DEF IsStats, EmptyMap
<1>3. MapInv'
    BY <1>1, <1>2 DEF IInv, MapInv, EmptyMap, Zero, Collecting
<1>4. OutputInv'
    <2> DEFINE preds == predictions
               now == ComputeNodeFingerprint(preds)
    <2>1. emitted' = <<emitted[2], now>> /\ previousFingerprint' = Advance(now)
        BY Zenon DEF Analyse
    <2>2. gauges' = UpdateMetrics(preds)
        BY Zenon DEF Analyse
    <2>3. UpdateMetrics(preds) = now.count
        <3> HIDE DEF preds
        <3> QED
            BY DEF UpdateMetrics, ComputeNodeFingerprint
    <2> HIDE DEF now
    <2> QED
        BY <2>1, <2>2, <2>3 DEF OutputInv, Advance
<1>5. sampled = EmptyMap
    BY <1>1 DEF IInv, SinceInv, Collecting
<1>6. lastStatsMap # NoMap => \A p \in DOMAIN lastStatsMap : Since(lastStatsMap, p)
    BY <1>1 DEF IInv, SinceInv
<1>7. ~loop => lastStatsMap = NoMap
    BY <1>1 DEF IInv, SinceInv
<1>8. SinceInv'
    BY <1>1, <1>5, <1>6, <1>7 DEF SinceInv, Since, EmptyMap, Collecting
<1>9. FairInv'
    BY <1>1 DEF FairInv
<1> QED
    BY <1>3, <1>4, <1>8, <1>9 DEF IInv

\* Every step keeps the invariant.
LEMMA StepIInv == IInv /\ [Next]_vars => IInv'
<1> SUFFICES ASSUME IInv, [Next]_vars PROVE IInv'
    OBVIOUS
<1>1. CASE Environment
    BY <1>1, NodeStep
<1>2. CASE ListProcesses
    BY <1>2, ListStep
<1>3. ASSUME NEW p \in Pids, Read(p) \/ ReadPartly(p) \/ Miss(p) PROVE IInv'
    BY <1>3, SettleStep
<1>4. CASE CollectFirst \/ CollectSecond \/ CollectSingle
    BY <1>4, CollectedStep
<1>5. CASE Analyse
    BY <1>5, AnalyseStep
<1>6. CASE ListFails \/ WindowElapses \/ WindowCancelled \/ WakeUp \/ Terminate
    BY <1>6, StayStep
<1>7. CASE UNCHANGED vars
    <2>1. UNCHANGED <<os, starts, loop, pc, procs, pending, sampled, s1Map, s2Map,
                      lastStatsMap, previousFingerprint, emitted, gauges, used, window>>
        BY <1>7, Zenon DEF vars, environment, caches, outputs
    <2>2. MapInv' /\ OutputInv'
        BY <2>1, Zenon DEF IInv, MapInv, IsStats, OutputInv, Collecting
    <2>3. SinceInv' /\ FairInv'
        BY <2>1 DEF IInv, SinceInv, Since, FairInv, Fair, Rate, Collecting
    <2> QED
        BY <2>2, <2>3 DEF IInv
<1> QED
    BY <1>1, <1>2, <1>3, <1>4, <1>5, <1>6, <1>7 DEF Next, Agent, Finished

\* The invariant holds of every behaviour.
THEOREM LoopInductive == Spec => []IInv
BY InitIInv, StepIInv, PTL DEF Spec

-----------------------------------------------------------------------------
(* The properties.                                                         *)

\* No prediction is made from more CPU time than was used under its PID
\* between the two collections, for any processes and any PID reuse.
THEOREM RatesAreReal == Spec => []RateWithinWindow
<1>1. IInv => RateWithinWindow
    <2> SUFFICES ASSUME IInv, pc = "analysing", NEW p \in DOMAIN predictions
                 PROVE  Rate(s1Map[p], s2Map[p]) <=
                            IF s1Map[p].full THEN window[p] ELSE s2Map[p].cpu
        BY Zenon DEF RateWithinWindow
    <2>1. p \in Paired
        BY Zenon DEF predictions
    <2>2. p \in DOMAIN s1Map \cap DOMAIN s2Map
        BY <2>1 DEF Paired
    <2>3. s1Map[p].cpu \in Nat /\ s2Map[p].cpu \in Nat /\ s1Map[p].full \in BOOLEAN
        BY <2>2 DEF IInv, MapInv, IsStats, Collecting
    <2>4. s1Map[p].full => Rate(s1Map[p], s2Map[p]) <= window[p]
        BY <2>2 DEF IInv, FairInv, Fair
    <2>5. Rate(s1Map[p], s2Map[p]) <= s2Map[p].cpu
        BY <2>3 DEF Rate
    <2> QED
        BY <2>4, <2>5
<1> QED
    BY <1>1, LoopInductive, PTL

\* The exporter shows the cycle that was printed last, at every moment.
THEOREM GaugesAreCurrent == Spec => []GaugesShowLastCycle
<1>1. IInv => GaugesShowLastCycle
    BY DEF IInv, OutputInv, GaugesShowLastCycle
<1> QED
    BY <1>1, LoopInductive, PTL

-----------------------------------------------------------------------------
(* Types and bounds.                                                       *)

\* A map of samples within the bounds.
IsSampled(m) == DOMAIN m \subseteq Pids /\ \A p \in DOMAIN m : m[p] \in Sample

\* Clocks and counters stay within their bounds.
NodeTypeInv == /\ os \in [Pids -> Process \cup {Absent}]
               /\ starts \in 0..MaxStarts
               /\ cancelled \in BOOLEAN /\ loop \in BOOLEAN
               /\ used \in [Pids -> Nat] /\ window \in [Pids -> Nat]

\* So do the samples; nothing is pending but during a collection.
CycleTypeInv ==
    /\ pc \in {"listing", "first", "window", "second", "single", "analysing",
               "sleeping", "stopped"}
    /\ calm \in 0..4
    /\ procs \in Maps(Kinds)
    /\ pending \subseteq DOMAIN procs /\ (~Collecting => pending = {})
    /\ IsSampled(sampled) /\ IsSampled(s1Map) /\ IsSampled(s2Map)
    /\ lastStatsMap # NoMap => IsSampled(lastStatsMap)

\* So are the numbers that are put out.
OutputTypeInv == /\ previousFingerprint \in [count : [Cats -> Nat], sum : Nat, total : Nat]
                 /\ gauges \in [Cats -> 0..Cardinality(Pids)]

TypeInv == NodeTypeInv /\ CycleTypeInv /\ OutputTypeInv

\* The initial values are of these types.
LEMMA TypeInit == Init => TypeInv
<1> SUFFICES ASSUME Init PROVE TypeInv
    OBVIOUS
<1>1. IsSampled(EmptyMap) /\ EmptyMap \in [{} -> Kinds] /\ DOMAIN EmptyMap = {}
    BY DEF IsSampled, EmptyMap
<1>2. EmptyMap \in Maps(Kinds)
    BY <1>1 DEF Maps
<1>3. NodeTypeInv
  <2>1. MaxStarts \in Nat /\ MaxCpu \in Nat
      BY ScanLoopAssumption DEF ScanLoopAssumption
  <2>2. [kind : Kinds, start : {0}, cpu : {0}] \subseteq Process
      BY <2>1 DEF Process
  <2>3. os \in [Pids -> {Absent} \cup [kind : Kinds, start : {0}, cpu : {0}]]
      BY DEF Init
  <2>4. os \in [Pids -> Process \cup {Absent}]
      BY <2>2, <2>3
  <2>5. used \in [Pids -> Nat] /\ window \in [Pids -> Nat]
      BY DEF Init, Zero
  <2>6. starts \in 0..MaxStarts /\ cancelled \in BOOLEAN /\ loop \in BOOLEAN
    <3>1. starts = 0 /\ cancelled = FALSE /\ loop \in BOOLEAN
        BY DEF Init
    <3>2. 0 \in 0..MaxStarts
        BY <2>1
    <3> QED
        BY <3>1, <3>2
  <2> QED
      BY <2>4, <2>5, <2>6 DEF NodeTypeInv
<1>4. CycleTypeInv
    BY <1>1, <1>2 DEF Init, CycleTypeInv, Collecting
<1>5. OutputTypeInv
    BY FS_CardinalityType DEF Init, OutputTypeInv, NoFingerprint
<1> QED
    BY <1>3, <1>4, <1>5 DEF TypeInv

\* The node keeps to the bounds on starts and CPU time.
LEMMA TypeNode ==
    ASSUME TypeInv, Environment
    PROVE  TypeInv'
<1>1. UNCHANGED <<loop, pc, procs, pending, sampled, s1Map, s2Map, lastStatsMap,
                  previousFingerprint, gauges, window>>
    BY DEF Environment, Stop, Work, Start, Restart, Cancel, Disturb, caches, outputs
<1>2. calm' \in {0, calm}
    BY DEF Environment, Stop, Work, Start, Restart, Cancel, Disturb
<1>3. CycleTypeInv' /\ OutputTypeInv'
    BY <1>1, <1>2 DEF TypeInv, CycleTypeInv, OutputTypeInv, Collecting, IsSampled
<1>4. NodeTypeInv'
    <2> USE <1>1 DEF TypeInv, NodeTypeInv, Process
    <2>1. ASSUME NEW p \in Pids, Stop(p) PROVE NodeTypeInv'
        BY <2>1 DEF Stop, Disturb
    <2>2. ASSUME NEW p \in Pids, Work(p) PROVE NodeTypeInv'
        BY <2>2 DEF Work, Disturb
    <2>3. ASSUME NEW p \in Pids, NEW k \in Kinds, Start(p, k) PROVE NodeTypeInv'
        BY <2>3 DEF Start, NewProcess, Disturb
    <2>4. ASSUME NEW p \in Pids, NEW q \in Pids, Restart(p, q) PROVE NodeTypeInv'
        BY <2>4 DEF Restart, NewProcess, Disturb
    <2>5. CASE Cancel
        BY <2>5 DEF Cancel, environment
    <2> QED
        BY <2>1, <2>2, <2>3, <2>4, <2>5 DEF Environment
<1> QED
    BY <1>3, <1>4 DEF TypeInv

\* A listing is a map of names.
LEMMA TypeList ==
    ASSUME TypeInv, ListProcesses
    PROVE  TypeInv'
<1>1. /\ UNCHANGED <<os, starts, cancelled, loop, sampled, s1Map, s2Map, lastStatsMap,
                     previousFingerprint, gauges, window>>
      /\ pc' \in {"single", "first"} /\ calm' \in {1, calm} /\ pending' = DOMAIN procs'
    BY DEF ListProcesses, environment, caches, outputs
<1>2. used' \in [Pids -> Nat]
    BY DEF ListProcesses, TypeInv, NodeTypeInv
<1>3. procs' \in Maps(Kinds)
    <2> DEFINE S == {q \in Pids : os[q] # Absent}
    <2>1. procs' = [p \in S |-> os[p].kind]
        BY DEF ListProcesses
    <2>2. \A p \in S : os[p].kind \in Kinds
        BY DEF TypeInv, NodeTypeInv, Process
    <2>3. S \in SUBSET Pids
        OBVIOUS
    <2> HIDE DEF S
    <2>4. procs' \in [S -> Kinds]
        BY <2>1, <2>2
    <2> QED
        BY <2>3, <2>4 DEF Maps
<1>4. NodeTypeInv' /\ OutputTypeInv'
    BY <1>1, <1>2 DEF TypeInv, NodeTypeInv, OutputTypeInv
<1>5. CycleTypeInv'
    BY <1>1, <1>3 DEF TypeInv, CycleTypeInv, Collecting, IsSampled
<1> QED
    BY <1>4, <1>5 DEF TypeInv

\* A sample has the counters of a process, or none.
LEMMA TypeSettle ==
    ASSUME TypeInv, NEW p \in Pids, Read(p) \/ ReadPartly(p) \/ Miss(p)
    PROVE  TypeInv'
<1>1. /\ Collecting /\ p \in pending /\ pending' = pending \ {p}
      /\ used' = [used EXCEPT ![p] = 0]
      /\ window' = [window EXCEPT ![p] = used[p]]
      /\ UNCHANGED <<os, starts, cancelled, loop, pc, procs, s1Map, s2Map, lastStatsMap,
                     previousFingerprint, gauges>>
      /\ calm' \in {0, calm}
    BY DEF Read, ReadPartly, Miss, Settle, environment, caches, outputs
<1>2. procs[p] \in Kinds
    BY <1>1 DEF TypeInv, CycleTypeInv, Maps
<1>3. sampled' = sampled \/ \E s \in Sample : sampled' = Put(p, s)
    <2>1. CASE Miss(p)
        BY <2>1 DEF Miss
    <2>2. CASE Read(p)
        <3>1. os[p] \in Process /\ os[p].kind \in Kinds
            BY <2>2 DEF Read, TypeInv, NodeTypeInv, Process
        <3>2. [name |-> procs[p], start |-> os[p].start, cpu |-> os[p].cpu,
               mem |-> MemOf[os[p].kind], full |-> TRUE] \in Sample
            BY <1>2, <3>1 DEF Process, Sample
        <3> QED
            BY <2>2, <3>2 DEF Read
    <2>3. CASE ReadPartly(p)
        <3>1. os[p] \in Process
            BY <2>3 DEF ReadPartly, TypeInv, NodeTypeInv
        <3>2. [name |-> procs[p], start |-> os[p].start, cpu |-> 0,
               mem |-> 0, full |-> FALSE] \in Sample
            BY <1>2, <3>1 DEF Process, Sample
        <3> QED
            BY <2>3, <3>2 DEF ReadPartly
    <2> QED
        BY <2>1, <2>2, <2>3
<1>4. IsSampled(sampled')
    BY <1>3 DEF TypeInv, CycleTypeInv, IsSampled, Put
<1>5. NodeTypeInv' /\ OutputTypeInv'
    BY <1>1 DEF TypeInv, NodeTypeInv, OutputTypeInv
<1>6. CycleTypeInv'
    BY <1>1, <1>4 DEF TypeInv, CycleTypeInv, Collecting, IsSampled
<1> QED
    BY <1>5, <1>6 DEF TypeInv

\* Between the collections only maps change places.
LEMMA TypeMaps ==
    ASSUME IInv, TypeInv,
           \/ CollectFirst \/ CollectSecond \/ CollectSingle
           \/ ListFails \/ WindowElapses \/ WindowCancelled \/ WakeUp \/ Terminate
    PROVE  TypeInv'
<1>1. /\ UNCHANGED <<os, starts, cancelled, loop, procs, previousFingerprint, gauges,
                     used, window>>
      /\ pc' \in {"listing", "window", "second", "analysing", "sleeping", "stopped"}
      /\ calm' \in {calm, calm + 1} /\ (calm' # calm => calm \in 1..3)
      /\ pending' \subseteq DOMAIN procs' \/ pending' = pending
      /\ pc' # "second" => pending' = {}
    BY DEF CollectFirst, CollectSecond, CollectSingle, Collected, ListFails, WindowElapses,
           WindowCancelled, WakeUp, Terminate, environment, outputs, TypeInv, CycleTypeInv,
           Collecting
<1>2. IsSampled(EmptyMap)
    BY DEF IsSampled, EmptyMap
<1>3. /\ IsSampled(sampled') /\ IsSampled(s1Map') /\ IsSampled(s2Map')
      /\ lastStatsMap' # NoMap => IsSampled(lastStatsMap')
    <2>1. CASE CollectFirst \/ CollectSecond \/ CollectSingle
        <3>1. pc = "single" => lastStatsMap # NoMap
            BY DEF IInv, SinceInv
        <3> QED
            BY <1>2, <2>1, <3>1 DEF TypeInv, CycleTypeInv, CollectFirst, CollectSecond,
                                    CollectSingle, Collected
    <2>2. CASE ListFails \/ WindowElapses \/ WindowCancelled \/ WakeUp \/ Terminate
        BY <2>2 DEF TypeInv, CycleTypeInv, ListFails, WindowElapses, WindowCancelled,
                    WakeUp, Terminate, caches
    <2> QED
        BY <2>1, <2>2
<1>4. NodeTypeInv' /\ OutputTypeInv'
    BY <1>1 DEF TypeInv, NodeTypeInv, OutputTypeInv
<1>5. CycleTypeInv'
    BY <1>1, <1>3 DEF TypeInv, CycleTypeInv, Collecting, IsSampled
<1> QED
    BY <1>4, <1>5 DEF TypeInv

\* No category has more processes than there are PIDs.
LEMMA CountsAreBounded ==
    ASSUME NEW preds \in Predictions(Pids), NEW c
    PROVE  Count(preds, c) \in 0..Cardinality(Pids)
<1> DEFINE Of == {p \in DOMAIN preds : preds[p] = c}
<1>1. Of \subseteq Pids
    BY DEF Predictions
<1>2. IsFiniteSet(Of) /\ Cardinality(Of) <= Cardinality(Pids)
    BY <1>1, FS_Subset
<1>3. Cardinality(Of) \in Nat /\ Cardinality(Pids) \in Nat
    BY <1>2, FS_CardinalityType
<1> QED
    BY <1>2, <1>3 DEF Count

\* A fingerprint is made of numbers.
LEMMA FingerprintsAreNumbers ==
    ASSUME NEW preds \in Predictions(Pids)
    PROVE  ComputeNodeFingerprint(preds) \in [count : [Cats -> Nat], sum : Nat, total : Nat]
<1>1. \A c \in Cats : Count(preds, c) \in Nat
    <2>1. Cardinality(Pids) \in Nat
        BY FS_CardinalityType
    <2> QED
        BY <2>1, CountsAreBounded
<1>2. DOMAIN preds \subseteq Pids
    BY DEF Predictions
<1>3. IsFiniteSet(DOMAIN preds)
    BY <1>2, FS_Subset
<1>4. IsFiniteSet({p \in DOMAIN preds : preds[p] # Unknown})
    BY <1>3, FS_Subset
<1>5. Classified(preds) \in Nat /\ Cardinality(DOMAIN preds) \in Nat
    BY <1>3, <1>4, FS_CardinalityType DEF Classified
<1> QED
    BY <1>1, <1>5 DEF ComputeNodeFingerprint

\* What a cycle puts out is of these types.
LEMMA TypeAnalyse ==
    ASSUME IInv, TypeInv, Analyse
    PROVE  TypeInv'
<1> DEFINE preds == predictions
           now == ComputeNodeFingerprint(preds)
<1>1. /\ UNCHANGED <<os, starts, cancelled, loop, pending, sampled, lastStatsMap, used, calm>>
      /\ procs' = EmptyMap /\ s1Map' = EmptyMap /\ s2Map' = EmptyMap /\ window' = Zero
      /\ pc = "analysing" /\ pc' \in {"sleeping", "stopped"}
    BY Zenon DEF Analyse, environment
<1>2. previousFingerprint' = now /\ gauges' = UpdateMetrics(preds)
    BY Zenon DEF Analyse, Advance
<1>3. preds \in Predictions(Pids)
    BY PredictionsOfPids DEF IInv
<1> HIDE DEF preds
<1>4. OutputTypeInv'
    BY <1>2, <1>3, FingerprintsAreNumbers, CountsAreBounded DEF OutputTypeInv, UpdateMetrics
<1>5. IsSampled(EmptyMap) /\ EmptyMap \in [{} -> Kinds] /\ DOMAIN EmptyMap = {}
    BY DEF IsSampled, EmptyMap
<1>6. EmptyMap \in Maps(Kinds)
    BY <1>5 DEF Maps
<1>7. CycleTypeInv'
    BY <1>1, <1>5, <1>6 DEF TypeInv, CycleTypeInv, Collecting, IsSampled
<1>8. NodeTypeInv'
    BY <1>1 DEF TypeInv, NodeTypeInv, Zero
<1> QED
    BY <1>4, <1>7, <1>8 DEF TypeInv

\* Every step keeps the types.
LEMMA TypeStep == IInv /\ TypeInv /\ [Next]_vars => TypeInv'
<1> SUFFICES ASSUME IInv, TypeInv, [Next]_vars PROVE TypeInv'
    OBVIOUS
<1>1. ASSUME NEW p \in Pids, Read(p) \/ ReadPartly(p) \/ Miss(p) PROVE TypeInv'
    BY <1>1, TypeSettle
<1>2. CASE UNCHANGED vars
    <2>1. UNCHANGED <<os, starts, cancelled, loop, pc, procs, pending, sampled, s1Map, s2Map,
                      lastStatsMap, previousFingerprint, gauges, used, window, calm>>
        BY <1>2, Zenon DEF vars, environment, caches, outputs
    <2> QED
        BY <2>1 DEF TypeInv, NodeTypeInv, CycleTypeInv, OutputTypeInv, Collecting, IsSampled
<1> QED
    BY <1>1, <1>2, TypeNode, TypeList, TypeMaps, TypeAnalyse DEF Next, Agent, Finished

\* Every variable keeps to its type, and every counter to its bound.
THEOREM LoopTypeCorrect == Spec => []TypeOK
<1>1. TypeInv => TypeOK
    BY DEF TypeInv, NodeTypeInv, CycleTypeInv, OutputTypeInv, IsSampled, TypeOK
<1> QED
    BY <1>1, TypeInit, TypeStep, LoopInductive, PTL DEF Spec

-----------------------------------------------------------------------------
(* The drift stream.                                                       *)

\* At first nothing is before the first fingerprint.
LEMMA StreamInit == Init => Stream!Init
BY DEF Init, Stream!Init, Stream!NoFingerprint, NoFingerprint

\* A cycle that completes appends to the stream.
LEMMA StreamCycle ==
    ASSUME IInv, Analyse
    PROVE  Stream!Next
<1> DEFINE now == ComputeNodeFingerprint(predictions)
<1>1. predictions \in Predictions(Pids)
    BY PredictionsOfPids DEF IInv
<1>2. previousFingerprint = emitted[2]
    BY DEF IInv, OutputInv
<1>3. emitted' = <<emitted[2], now>> /\ report' = DetectDrift(previousFingerprint, now)
    BY Zenon DEF Analyse
<1> HIDE DEF now
<1>4. Stream!ComputeNodeFingerprint(predictions) = now
    <2> DEFINE preds == predictions
    <2>1. ASSUME NEW x PROVE Stream!ComputeNodeFingerprint(x) = ComputeNodeFingerprint(x)
        BY DEF Stream!ComputeNodeFingerprint, ComputeNodeFingerprint, Stream!Count, Count,
               Stream!Classified, Classified, Stream!Cardinality, Cardinality
    <2> HIDE DEF preds
    <2>2. Stream!ComputeNodeFingerprint(preds) = ComputeNodeFingerprint(preds)
        BY <2>1
    <2> QED
        BY <2>2, Zenon DEF preds, now
<1>5. Stream!DetectDrift(emitted[2], now) = DetectDrift(emitted[2], now)
    <2>1. ASSUME NEW x, NEW y PROVE Stream!DetectDrift(x, y) = DetectDrift(x, y)
        BY DEF Stream!DetectDrift, DetectDrift, Stream!Changes, Changes, Stream!Reported,
               Reported, Stream!AbsDelta, AbsDelta, Stream!Base, Base, Stream!Severity,
               Severity, Stream!Direction, Direction, Stream!Hash, Hash,
               Stream!DominantCategories, DominantCategories, Stream!Bucket, Bucket,
               Stream!Present, Present, Stream!Position, Position, Stream!Precedes,
               Precedes, Stream!Cardinality, Cardinality
    <2> QED
        BY <2>1
<1>6. Stream!Cycle(predictions)
    BY <1>2, <1>3, <1>4, <1>5, Zenon DEF Stream!Cycle
<1> QED
    BY <1>1, <1>6, Zenon DEF Stream!Next

\* Nothing else is printed.
LEMMA StreamStep == IInv /\ [Next]_vars => [Stream!Next]_(Stream!vars)
<1> SUFFICES ASSUME IInv, [Next]_vars, ~Analyse
             PROVE  UNCHANGED outputs
    BY StreamCycle DEF Stream!vars, outputs
<1>1. CASE UNCHANGED vars
    BY <1>1, Zenon DEF vars
<1>2. CASE Environment
    BY <1>2 DEF Environment, Stop, Work, Start, Restart, Cancel, Disturb
<1>3. ASSUME NEW p \in Pids, Read(p) \/ ReadPartly(p) \/ Miss(p) PROVE UNCHANGED outputs
    BY <1>3 DEF Read, ReadPartly, Miss, Settle
<1>4. CASE ListProcesses \/ ListFails \/ WakeUp \/ Terminate
    BY <1>4 DEF ListProcesses, ListFails, WakeUp, Terminate
<1>5. CASE CollectFirst \/ CollectSecond \/ CollectSingle \/ WindowElapses \/ WindowCancelled
    BY <1>5 DEF CollectFirst, CollectSecond, CollectSingle, WindowElapses, WindowCancelled,
                Collected
<1> QED
    BY <1>1, <1>2, <1>3, <1>4, <1>5 DEF Next, Agent, Finished

\* The scan loop implements the drift stream: whatever happens to the processes,
\* whatever fails and is missed, its output is a stream of fingerprints, each with
\* the report that compares it with the one before it.
THEOREM OutputIsADriftStream == Spec => ImplementsDriftStream
BY StreamInit, StreamStep, LoopInductive, PTL DEF Spec, ImplementsDriftStream, Stream!Spec

\* The theorems about drift streams, said of what the loop prints.
Output == INSTANCE DriftStreamProofs WITH Scans <- Predictions(Pids), before <- emitted[1],
                                          current <- emitted[2]

\* They ask for finite categories, finite predictions and a report that is none.
LEMMA OutputAssumptions ==
    Output!CatsAssumption /\ Output!ScansAssumption /\ Output!NoReportAssumption
<1>1. ASSUME NEW S PROVE Output!IsFiniteSet(S) <=> IsFiniteSet(S)
    BY Zenon DEF Output!IsFiniteSet, IsFiniteSet
<1>2. \A preds \in Predictions(Pids) : IsFiniteSet(DOMAIN preds)
    BY FS_Subset DEF Predictions
<1>3. Output!CatsAssumption
    BY <1>1, CatsAssumption DEF Output!CatsAssumption
<1>4. Output!ScansAssumption
    BY <1>1, <1>2 DEF Output!ScansAssumption, Predictions, Output!Predictions
<1>5. Output!NoReportAssumption
    BY NoReportAssumption DEF Output!NoReportAssumption
<1> QED
    BY <1>3, <1>4, <1>5

\* They are about the same stream.
LEMMA OutputIsTheStream == Stream!Spec => Output!Spec
<1>1. Stream!Init => Output!Init
    BY DEF Stream!Init, Output!Init, Stream!NoFingerprint, Output!NoFingerprint
<1>2. ASSUME NEW x
      PROVE  Stream!ComputeNodeFingerprint(x) = Output!ComputeNodeFingerprint(x)
    BY DEF Stream!ComputeNodeFingerprint, Output!ComputeNodeFingerprint, Stream!Count,
           Output!Count, Stream!Classified, Output!Classified, Stream!Cardinality,
           Output!Cardinality
<1>3. ASSUME NEW x, NEW y
      PROVE  Stream!DetectDrift(x, y) = Output!DetectDrift(x, y)
    BY DEF Stream!DetectDrift, Output!DetectDrift, Stream!Changes, Output!Changes,
           Stream!Reported, Output!Reported, Stream!AbsDelta, Output!AbsDelta,
           Stream!Base, Output!Base, Stream!Severity, Output!Severity,
           Stream!Direction, Output!Direction, Stream!Hash, Output!Hash,
           Stream!DominantCategories, Output!DominantCategories, Stream!Bucket,
           Output!Bucket, Stream!Present, Output!Present, Stream!Position,
           Output!Position, Stream!Precedes, Output!Precedes, Stream!Cardinality,
           Output!Cardinality
<1>4. ASSUME NEW x, Stream!Cycle(x)
      PROVE  Output!Cycle(x)
    <2>1. Stream!ComputeNodeFingerprint(x) = Output!ComputeNodeFingerprint(x)
        BY <1>2
    <2>2. Stream!DetectDrift(emitted[2], emitted[2]') = Output!DetectDrift(emitted[2], emitted[2]')
        BY <1>3
    <2> QED
        BY <1>4, <2>1, <2>2, Zenon DEF Stream!Cycle, Output!Cycle
<1>5. [Stream!Next]_(Stream!vars) => [Output!Next]_(Output!vars)
    BY <1>4 DEF Stream!Next, Output!Next, Stream!vars, Output!vars
<1> QED
    BY <1>1, <1>5, PTL DEF Stream!Spec, Output!Spec

\* So whatever the processes do and whatever fails, the loop reports no drift under
\* an unchanged hash, nothing that held a twentieth of the node is missing from a
\* cycle without being reported as vanished, and a transient is reported twice.
THEOREM OutputKeepsPromises ==
    Spec => []Output!DriftChangesHash /\ []Output!VanishingIsReported /\ Output!RoundTripMirrors
<1>1. Output!Spec => []Output!DriftChangesHash
    BY OutputAssumptions, Output!DriftMovesHash, PTL DEF Output!DriftMovesHash
<1>2. Output!Spec => []Output!VanishingIsReported
    BY OutputAssumptions, Output!NothingVanishesSilently, PTL
    DEF Output!NothingVanishesSilently
<1>3. Output!Spec => Output!RoundTripMirrors
    BY OutputAssumptions, Output!RoundTripIsMirrored, PTL DEF Output!RoundTripIsMirrored
<1> QED
    BY <1>1, <1>2, <1>3, OutputIsTheStream, OutputIsADriftStream, PTL DEF ImplementsDriftStream

-----------------------------------------------------------------------------
(* Quiet nodes.                                                            *)

\* What a listing, a complete sample and a snapshot of the node are now.
Live == {p \in Pids : os[p] # Absent}

Listing == [p \in Live |-> os[p].kind]

Snap(p) == [name |-> os[p].kind, start |-> os[p].start, cpu |-> os[p].cpu,
            mem |-> MemOf[os[p].kind], full |-> TRUE]

Snapshot == [p \in Live |-> Snap(p)]

\* What an analysis of two such snapshots comes to.
QuietPredictions ==
    [p \in {q \in Live : 0 >= MinCpu \/ MemOf[os[q].kind] >= MinMem} |->
        CategoryOf[os[p].kind, FALSE]]

Quiet == ComputeNodeFingerprint(QuietPredictions)

\* The running cycle has seen the node as it is.
SeenInv == /\ Collecting \/ pc \in {"window", "analysing"} => procs = Listing
           /\ Collecting => sampled = [p \in Live \ pending |-> Snap(p)]
           /\ pc = "first" => calm = 1
           /\ pc \in {"window", "second"} => calm = 2 /\ s1Map = Snapshot
           /\ pc = "analysing" => calm >= 2 /\ s2Map = Snapshot
           /\ pc = "analysing" /\ calm >= 3 => s1Map = Snapshot

\* So have the cycles before it, and one that saw it twice has printed it.
KeptInv == /\ pc \in {"listing", "sleeping"} => calm >= 2 /\ lastStatsMap # NoMap
           /\ calm >= 2 /\ (pc \in {"listing", "sleeping", "single"} \/ (pc = "analysing" /\ loop))
                  => lastStatsMap = Snapshot
           /\ calm >= 3 /\ pc \in {"listing", "sleeping", "single"} => previousFingerprint = Quiet
           /\ calm = 4 /\ pc = "analysing" => previousFingerprint = Quiet

\* Undisturbed steps are counted, and what they saw is what is.
QuietInv == calm \in 0..4 /\ (calm >= 1 => SeenInv /\ KeptInv)

\* A snapshot is a map of complete samples.
LEMMA SnapshotIsAMap ==
    ASSUME MapInv
    PROVE  Snapshot # NoMap
<1>1. Snapshot \in [Live -> [name : Kinds, start : Nat, cpu : Nat, mem : Nat, full : BOOLEAN]]
    BY DEF MapInv, Snapshot, Live, Snap
<1>2. Live \in SUBSET Pids
    BY DEF Live
<1> QED
    BY <1>1, <1>2

\* They change with the process table only.
LEMMA SnapshotsStay ==
    ASSUME UNCHANGED os
    PROVE  Listing' = Listing /\ Live' = Live /\ Snapshot' = Snapshot /\ Quiet' = Quiet
<1>1. Listing' = Listing /\ Live' = Live /\ Snapshot' = Snapshot
    BY DEF Listing, Snapshot, Snap, Live
<1>2. Quiet' = Quiet
    BY <1>1, Zenon DEF Quiet, QuietPredictions
<1> QED
    BY <1>1, <1>2

\* Nothing has been seen at first.
LEMMA QuietInit == Init => QuietInv
BY DEF Init, QuietInv

\* The node disturbs, except for the signal.
LEMMA QuietNode ==
    ASSUME QuietInv, Environment
    PROVE  QuietInv'
<1>1. CASE Cancel
    <2>1. UNCHANGED <<os, loop, pc, procs, pending, sampled, s1Map, s2Map, lastStatsMap,
                      previousFingerprint, calm>>
        BY <1>1 DEF Cancel, environment, caches, outputs
    <2>2. /\ Listing' = Listing /\ Live' = Live /\ Snapshot' = Snapshot /\ Quiet' = Quiet
          /\ [p \in Live \ pending |-> Snap(p)]' = [p \in Live \ pending |-> Snap(p)]
        BY <2>1, SnapshotsStay DEF Snap
    <2> QED
        BY <2>1, <2>2 DEF QuietInv, SeenInv, KeptInv, Collecting
<1>2. CASE ~Cancel
    <2>1. calm' = 0
        BY <1>2 DEF Environment, Stop, Work, Start, Restart, Disturb
    <2> QED
        BY <2>1 DEF QuietInv
<1> QED
    BY <1>1, <1>2

\* A listing that comes first is the beginning of the count.
LEMMA QuietList ==
    ASSUME IInv, QuietInv, ListProcesses
    PROVE  QuietInv'
<1>1. /\ UNCHANGED <<os, loop, sampled, s1Map, s2Map, lastStatsMap, previousFingerprint>>
      /\ pc = "listing" /\ procs' = Listing /\ pending' = Live
      /\ pc' = IF loop /\ lastStatsMap # NoMap THEN "single" ELSE "first"
      /\ calm' = IF calm = 0 THEN 1 ELSE calm
    BY DEF ListProcesses, environment, caches, outputs, Listing, Live
<1>2. sampled = EmptyMap /\ (~loop => lastStatsMap = NoMap)
    BY <1>1 DEF IInv, SinceInv, Collecting
<1>3. Listing' = Listing /\ Live' = Live /\ Snapshot' = Snapshot /\ Quiet' = Quiet
    BY <1>1, SnapshotsStay
<1>4. sampled' = [p \in Live' \ pending' |-> Snap(p)']
    BY <1>1, <1>2, <1>3 DEF EmptyMap
<1>5. SeenInv'
    BY <1>1, <1>2, <1>3, <1>4 DEF QuietInv, SeenInv, KeptInv, Collecting
<1>6. KeptInv'
    BY <1>1, <1>2, <1>3 DEF QuietInv, KeptInv, Collecting
<1> QED
    BY <1>1, <1>5, <1>6 DEF QuietInv

\* A complete read is what the node shows; any other one disturbs.
LEMMA QuietSettle ==
    ASSUME IInv, QuietInv, NEW p \in Pids, Read(p) \/ ReadPartly(p) \/ Miss(p)
    PROVE  QuietInv'
<1>1. CASE ~Read(p)
    <2>1. calm' = 0
        BY <1>1 DEF ReadPartly, Miss
    <2> QED
        BY <2>1 DEF QuietInv
<1>2. CASE Read(p)
    <2>1. /\ UNCHANGED <<os, loop, pc, procs, s1Map, s2Map, lastStatsMap,
                         previousFingerprint, calm>>
          /\ Collecting /\ p \in pending /\ pending' = pending \ {p} /\ os[p] # Absent
          /\ sampled' = Put(p, [name |-> procs[p], start |-> os[p].start, cpu |-> os[p].cpu,
                                mem |-> MemOf[os[p].kind], full |-> TRUE])
        BY <1>2 DEF Read, Settle, environment, caches, outputs
    <2>2. Listing' = Listing /\ Live' = Live /\ Snapshot' = Snapshot /\ Quiet' = Quiet
        BY <2>1, SnapshotsStay
    <2>3. ASSUME calm >= 1 PROVE sampled' = [q \in Live' \ pending' |-> Snap(q)']
        <3>1. procs = Listing /\ sampled = [q \in Live \ pending |-> Snap(q)] /\ p \in Live
            BY <2>1, <2>3 DEF QuietInv, SeenInv, Live
        <3>2. sampled' = Put(p, Snap(p))
            BY <2>1, <3>1 DEF Listing, Snap
        <3>3. (Live \ pending) \cup {p} = Live \ pending'
            BY <2>1, <3>1
        <3>4. sampled' = [q \in Live \ pending' |-> Snap(q)]
            BY <3>1, <3>2, <3>3 DEF Put
        <3> QED
            BY <2>1, <2>2, <3>4 DEF Snap
    <2>4. calm >= 1 => SeenInv' /\ KeptInv'
        BY <2>1, <2>2, <2>3 DEF QuietInv, SeenInv, KeptInv, Collecting
    <2> QED
        BY <2>1, <2>4 DEF QuietInv
<1> QED
    BY <1>1, <1>2

\* A collection that is complete is a snapshot.
LEMMA QuietCollected ==
    ASSUME IInv, QuietInv, CollectFirst \/ CollectSecond \/ CollectSingle
    PROVE  QuietInv'
<1>1. /\ UNCHANGED <<os, loop, procs, pending, previousFingerprint>>
      /\ Collecting /\ pending = {} /\ pc' \in {"window", "analysing"}
      /\ calm' = IF calm \in 1..3 THEN calm + 1 ELSE calm
    BY DEF CollectFirst, CollectSecond, CollectSingle, Collected, Collecting, environment, outputs
<1>2. Listing' = Listing /\ Live' = Live /\ Snapshot' = Snapshot /\ Quiet' = Quiet
    BY <1>1, SnapshotsStay
<1>3. calm >= 1 => procs = Listing /\ sampled = Snapshot
    BY <1>1 DEF QuietInv, SeenInv, Snapshot
<1>4. CASE CollectFirst
    <2>1. pc = "first" /\ pc' = "window" /\ s1Map' = sampled
        BY <1>4 DEF CollectFirst
    <2> QED
        BY <1>1, <1>2, <1>3, <2>1 DEF QuietInv, SeenInv, KeptInv, Collecting
<1>5. CASE CollectSecond
    <2>1. /\ pc = "second" /\ pc' = "analysing" /\ s1Map' = s1Map /\ s2Map' = sampled
          /\ loop => lastStatsMap' = sampled
        BY <1>5 DEF CollectSecond
    <2> QED
        BY <1>1, <1>2, <1>3, <2>1 DEF QuietInv, SeenInv, KeptInv, Collecting
<1>6. CASE CollectSingle
    <2>1. /\ pc = "single" /\ pc' = "analysing" /\ s1Map' = lastStatsMap /\ s2Map' = sampled
          /\ lastStatsMap' = sampled
        BY <1>6 DEF CollectSingle
    <2> QED
        BY <1>1, <1>2, <1>3, <2>1 DEF QuietInv, SeenInv, KeptInv, Collecting
<1> QED
    BY <1>4, <1>5, <1>6

\* A wait, or a listing that fails, leaves all as it was.
LEMMA QuietStay ==
    ASSUME IInv, QuietInv, ListFails \/ WindowElapses \/ WindowCancelled \/ WakeUp \/ Terminate
    PROVE  QuietInv'
<1>1. UNCHANGED <<os, loop, procs, sampled, s1Map, s2Map, lastStatsMap,
                  previousFingerprint, calm>>
    BY DEF ListFails, WindowElapses, WindowCancelled, WakeUp, Terminate, environment, caches,
           outputs
<1>2. Listing' = Listing /\ Live' = Live /\ Snapshot' = Snapshot /\ Quiet' = Quiet
    BY <1>1, SnapshotsStay
<1>3. \/ pc' = "stopped"
      \/ pc \in {"listing", "sleeping"} /\ pc' \in {"listing", "sleeping"}
      \/ pc = "window" /\ pc' = "second" /\ pending' = DOMAIN procs
    BY DEF ListFails, WindowElapses, WindowCancelled, WakeUp, Terminate
<1>4. sampled = EmptyMap
    BY DEF IInv, SinceInv, Collecting, ListFails, WindowElapses, WindowCancelled, WakeUp, Terminate
<1>5. CASE pc' # "second"
    BY <1>1, <1>2, <1>3, <1>5 DEF QuietInv, SeenInv, KeptInv, Collecting
<1>6. CASE pc' = "second"
    <2>1. calm >= 1 => sampled' = [p \in Live' \ pending' |-> Snap(p)']
        BY <1>1, <1>2, <1>3, <1>4, <1>6 DEF QuietInv, SeenInv, Listing, EmptyMap
    <2> QED
        BY <1>1, <1>2, <1>3, <1>6, <2>1 DEF QuietInv, SeenInv, KeptInv, Collecting
<1> QED
    BY <1>5, <1>6

\* Two snapshots of a node that has not changed show no rate.
LEMMA QuietRates ==
    ASSUME IInv, procs = Listing, s1Map = Snapshot, s2Map = Snapshot
    PROVE  predictions = QuietPredictions
<1>1. Paired = Live
    BY DEF Paired, Listing, Snapshot
<1>2. \A p \in Live : /\ s1Map[p] = Snap(p) /\ s2Map[p] = Snap(p)
                      /\ os[p].kind \in Kinds /\ os[p].cpu \in Nat
    BY DEF Snapshot, IInv, MapInv, Live
<1>3. \A p \in Live : /\ Rate(s1Map[p], s2Map[p]) = 0
                      /\ s2Map[p].mem = MemOf[os[p].kind] /\ s2Map[p].name = os[p].kind
    <2>1. \A p \in Live : Snap(p).cpu = os[p].cpu /\ Snap(p).mem = MemOf[os[p].kind]
                          /\ Snap(p).name = os[p].kind
        BY DEF Snap
    <2> QED
        BY <1>2, <2>1 DEF Rate
<1> DEFINE S == {q \in Live : 0 >= MinCpu \/ MemOf[os[q].kind] >= MinMem}
<1>4. {q \in Paired : PassesFilter(q)} = S
    BY <1>1, <1>3 DEF PassesFilter
<1> HIDE DEF S
<1>5. \A p \in S : (Rate(s1Map[p], s2Map[p]) > 0) = FALSE
    BY <1>3 DEF S
<1>6. \A p \in S : CategoryOf[s2Map[p].name, Rate(s1Map[p], s2Map[p]) > 0] =
                       CategoryOf[os[p].kind, FALSE]
    BY <1>3, <1>5, ZenonT(40) DEF S
<1>7. predictions = [p \in S |-> CategoryOf[os[p].kind, FALSE]]
    BY <1>4, <1>6, Zenon DEF predictions
<1> QED
    BY <1>7 DEF QuietPredictions, S

\* An analysis of a quiet node comes to the quiet fingerprint.
LEMMA QuietAnalyse ==
    ASSUME IInv, QuietInv, Analyse
    PROVE  QuietInv'
<1>1. /\ UNCHANGED <<os, loop, lastStatsMap, calm>>
      /\ pc = "analysing" /\ pc' = IF loop THEN "sleeping" ELSE "stopped"
    BY Zenon DEF Analyse, environment
<1>2. previousFingerprint' = ComputeNodeFingerprint(predictions)
    BY Zenon DEF Analyse, Advance
<1>3. Listing' = Listing /\ Live' = Live /\ Snapshot' = Snapshot /\ Quiet' = Quiet
    BY <1>1, SnapshotsStay
<1>4. calm >= 3 => previousFingerprint' = Quiet
    <2> SUFFICES ASSUME calm >= 3 PROVE previousFingerprint' = Quiet
        OBVIOUS
    <2>1. procs = Listing /\ s1Map = Snapshot /\ s2Map = Snapshot
        BY <1>1 DEF QuietInv, SeenInv
    <2>2. predictions = QuietPredictions
        BY <2>1, QuietRates
    <2> QED
        BY <1>2, <2>2, Zenon DEF Quiet
<1>5. Snapshot # NoMap
    BY SnapshotIsAMap DEF IInv
<1>6. ASSUME calm >= 1 PROVE SeenInv' /\ KeptInv'
    <2>1. calm >= 2 /\ calm \in Nat
        BY <1>1, <1>6 DEF QuietInv, SeenInv
    <2>2. loop => lastStatsMap = Snapshot
        BY <1>1, <2>1 DEF QuietInv, KeptInv
    <2>3. SeenInv'
        BY <1>1 DEF SeenInv, Collecting
    <2>4. KeptInv'
        BY <1>1, <1>3, <1>4, <1>5, <2>1, <2>2 DEF KeptInv
    <2> QED
        BY <2>3, <2>4
<1> QED
    BY <1>1, <1>6 DEF QuietInv

\* Every step counts and sees what is.
LEMMA QuietStep == IInv /\ QuietInv /\ [Next]_vars => QuietInv'
<1> SUFFICES ASSUME IInv, QuietInv, [Next]_vars PROVE QuietInv'
    OBVIOUS
<1>1. ASSUME NEW p \in Pids, Read(p) \/ ReadPartly(p) \/ Miss(p) PROVE QuietInv'
    BY <1>1, QuietSettle
<1>2. CASE UNCHANGED vars
    <2>1. UNCHANGED <<os, loop, pc, procs, pending, sampled, s1Map, s2Map, lastStatsMap,
                      previousFingerprint, calm>>
        BY <1>2, Zenon DEF vars, environment, caches, outputs
    <2>2. /\ Listing' = Listing /\ Live' = Live /\ Snapshot' = Snapshot /\ Quiet' = Quiet
          /\ [p \in Live \ pending |-> Snap(p)]' = [p \in Live \ pending |-> Snap(p)]
        BY <2>1, SnapshotsStay DEF Snap
    <2> QED
        BY <2>1, <2>2 DEF QuietInv, SeenInv, KeptInv, Collecting
<1> QED
    BY <1>1, <1>2, QuietNode, QuietList, QuietCollected, QuietStay, QuietAnalyse
    DEF Next, Agent, Finished

\* A node that has been quiet for a listing and three complete collections does
\* not drift, from whatever state it came to rest.
THEOREM QuietNodesDoNotDrift == Spec => QuietMeansNoDrift
<1>1. ASSUME IInv, QuietInv, [Next]_vars
      PROVE  pc = "analysing" /\ pc' # pc /\ calm = 4 => report' = NoReport
    <2> SUFFICES ASSUME pc = "analysing", pc' # pc, calm = 4 PROVE report' = NoReport
        OBVIOUS
    <2>1. Analyse
        BY <1>1, Zenon DEF vars, Next, Agent, Finished, Environment, Stop, Work, Start, Restart,
               Cancel, Disturb, ListProcesses, ListFails, Read, ReadPartly, Miss, Settle,
               Collecting, CollectFirst, CollectSecond, CollectSingle, WindowElapses,
               WindowCancelled, WakeUp, Terminate
    <2>2. predictions = QuietPredictions
        BY <1>1, QuietRates DEF QuietInv, SeenInv
    <2>3. report' = DetectDrift(Quiet, ComputeNodeFingerprint(predictions))
        <3>1. previousFingerprint = Quiet
            BY <1>1 DEF QuietInv, KeptInv
        <3> QED
            BY <2>1, <3>1, Zenon DEF Analyse
    <2>4. report' = DetectDrift(Quiet, Quiet)
        BY <2>2, <2>3, Zenon DEF Quiet
    <2>5. IsFingerprint(Quiet)
        <3>1. QuietPredictions \in Predictions(Pids)
            BY <1>1, <2>2, PredictionsOfPids DEF IInv
        <3>2. IsFiniteSet(DOMAIN QuietPredictions)
            BY <3>1, FS_Subset DEF Predictions
        <3> QED
            BY <3>2, ComputedIsFingerprint DEF Quiet
    <2> HIDE DEF Quiet
    <2> QED
        BY <2>4, <2>5, SameMixNoDrift
<1> QED
    BY <1>1, QuietInit, QuietStep, LoopInductive, PTL DEF Spec, QuietMeansNoDrift
=============================================================================
