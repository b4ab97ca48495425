--------------------------- MODULE ExporterProofs ---------------------------
(***************************************************************************)
(* The pod cache for any containers, goroutines and limits, the metrics of *)
(* Exporter for any cycles, requests and categories, and the agent that    *)
(* has both.                                                               *)
(***************************************************************************)
EXTENDS MCExporter, FiniteSetTheorems, TLAPS

-----------------------------------------------------------------------------
(* The pod cache.                                                          *)

CacheSpec == CacheInit /\ [][CacheNext]_cacheVars

\* The goroutine inside the mutex for longer than a step is its owner.
LockInv == \A g \in Goroutines : call[g] \in {"reading", "stamping"} <=> owner = g

\* While it scans the listing is as old as the scan; afterwards the map is not
\* much younger than its listing, unless it is too old to be used anyway.
AgeInv == /\ owner # Nothing => scanned <= took
          /\ owner = Nothing /\ age <= TTL => scanned <= age + took

\* A finished listing has every entry that was there all along.
SteadyInv == owner = Nothing \/ call[owner] = "stamping" => steady \subseteq podMetaMap

CacheInv == CacheTypeOK /\ LockInv /\ AgeInv /\ SteadyInv

USE PodCacheAssumption DEF Stale

\* The cache is empty and old at first, and nobody holds the mutex.
LEMMA CacheInitInv == CacheInit => CacheInv
BY DEF CacheInit, CacheInv, CacheTypeOK, LockInv, AgeInv, SteadyInv

\* The node does not take part in the mutex, and only shortens what is steady.
LEMMA NodeStep ==
    ASSUME CacheInv, (\E id \in Ids : KubeletAdds(id) \/ KubeletRemoves(id)) \/ Tick
    PROVE  CacheInv'
<1> USE DEF CacheInv, CacheTypeOK, LockInv, AgeInv, SteadyInv
<1>1. CASE \E id \in Ids : KubeletAdds(id) \/ KubeletRemoves(id)
    BY <1>1 DEF KubeletAdds, KubeletRemoves, times
<1>2. CASE Tick
    <2>1. LockInv' /\ SteadyInv' /\ CacheTypeOK'
        BY <1>2 DEF Tick, directory
    <2>2. AgeInv'
        BY <1>2 DEF Tick
    <2> QED
        BY <2>1, <2>2
<1> QED
    BY <1>1, <1>2

\* A lookup answers with a key of the map or with nothing.
LEMMA MatchesAreKeys ==
    ASSUME CacheTypeOK, NEW id
    PROVE  Matches(id) \subseteq podMetaMap \cup {id, Nothing}
BY DEF Matches

\* A lookup takes the mutex when it is free, and gives it back with a map whose
\* listing is no older than the scan took.
LEMMA LookupStep ==
    ASSUME CacheInv, NEW g \in Goroutines,
           Ask(g) \/ Acquire(g) \/ Proceed(g) \/ AskAgain(g)
    PROVE  CacheInv'
<1> USE DEF CacheInv, CacheTypeOK, LockInv, AgeInv, SteadyInv, GoTo, directory, times
<1>1. CASE Ask(g) \/ AskAgain(g)
    BY <1>1 DEF Ask, AskAgain
<1>2. Matches(IdOf[g]) \subseteq Ids \cup {Nothing}
    BY MatchesAreKeys
<1>3. CASE Lookup(g)
    BY <1>3, <1>2 DEF Lookup, Return
<1>4. CASE OpenDirectory(g)
    BY <1>4 DEF OpenDirectory
<1>5. CASE ReadDirectory(g)
    BY <1>5 DEF ReadDirectory
<1>6. CASE ReadFails(g)
    BY <1>6 DEF ReadFails
<1>7. CASE StampAndLookup(g)
    BY <1>7, <1>2 DEF StampAndLookup, Return
<1> QED
    BY <1>1, <1>3, <1>4, <1>5, <1>6, <1>7 DEF Acquire, Proceed

\* Every step keeps the invariant.
LEMMA CacheStepInv == CacheInv /\ [CacheNext]_cacheVars => CacheInv'
<1>1. ASSUME CacheInv, UNCHANGED cacheVars
      PROVE  CacheInv'
    BY <1>1 DEF CacheInv, CacheTypeOK, LockInv, AgeInv, SteadyInv, cacheVars, directory, times
<1> QED
    BY <1>1, NodeStep, LookupStep DEF CacheNext

\* The mutex has one owner, and no listing is older than its map claims.
THEOREM CacheInductive == CacheSpec => []CacheInv
BY CacheInitInv, CacheStepInv, PTL DEF CacheSpec

\* Every variable keeps to its type: no clock runs past its bound.
THEOREM CacheTypeCorrect == CacheSpec => []CacheTypeOK
<1>1. CacheInv => CacheTypeOK
    BY DEF CacheInv
<1> QED
    BY <1>1, CacheInductive, PTL

\* An answer is given by Lookup or by StampAndLookup, to nobody but the caller.
LEMMA AnswersAreLookups ==
    ASSUME CacheInv, CacheNext, NEW g \in Goroutines, Answers(g)
    PROVE  /\ Lookup(g) \/ StampAndLookup(g)
           /\ \E key \in Matches(IdOf[g]) : answer'[g] = key
<1> USE DEF CacheInv, CacheTypeOK, Answers, GoTo
<1>1. ~ \E id \in Ids : KubeletAdds(id) \/ KubeletRemoves(id)
    BY DEF KubeletAdds, KubeletRemoves
<1>2. ~ Tick
    BY DEF Tick
<1>3. ASSUME NEW h \in Goroutines, Ask(h) \/ OpenDirectory(h) \/ ReadDirectory(h)
                                      \/ ReadFails(h) \/ AskAgain(h)
      PROVE  FALSE
    BY <1>3 DEF Ask, OpenDirectory, ReadDirectory, ReadFails, AskAgain
<1>4. ASSUME NEW h \in Goroutines, Lookup(h) \/ StampAndLookup(h)
      PROVE  h = g
    BY <1>4 DEF Lookup, StampAndLookup, Return
<1>5. Lookup(g) \/ StampAndLookup(g)
    BY <1>1, <1>2, <1>3, <1>4 DEF CacheNext, Acquire, Proceed
<1> QED
    BY <1>5 DEF Lookup, StampAndLookup, Return

\* No answer is older than 30 seconds and the time of one scan.
THEOREM AnswersAreRecent == CacheSpec => BoundedStaleness
<1>1. ASSUME CacheInv, [CacheNext]_cacheVars
      PROVE  [\A g \in Goroutines : Answers(g) => scanned <= TTL + took]_cacheVars
    <2> SUFFICES ASSUME CacheNext, NEW g \in Goroutines, Answers(g)
                 PROVE  scanned <= TTL + took
        BY <1>1
    <2>1. Lookup(g) \/ StampAndLookup(g)
        BY <1>1, AnswersAreLookups
    <2>2. (owner = Nothing /\ age <= TTL) \/ owner = g
        BY <1>1, <2>1 DEF Lookup, StampAndLookup, CacheInv, CacheTypeOK, LockInv
    <2> QED
        BY <1>1, <2>2 DEF CacheInv, CacheTypeOK, AgeInv
<1> QED
    BY <1>1, CacheInductive, PTL DEF CacheSpec, BoundedStaleness

\* A container whose log was there all the time gets its own pod, whatever the
\* scan and the other goroutines did; no short ID gets another's.
THEOREM PodsAreOwn == CacheSpec => OwnPodWhenSteady
<1> DEFINE Own(g) == \/ answer'[g] = IdOf[g]
                     \/ /\ IdOf[g] \notin steady
                        /\ answer'[g] \in Ids =>
                               /\ IdOf[g] \notin Short
                               /\ Prefix[answer'[g]] = Prefix[IdOf[g]]
<1>1. ASSUME CacheInv, [CacheNext]_cacheVars
      PROVE  [\A g \in Goroutines : Answers(g) => Own(g)]_cacheVars
    <2> SUFFICES ASSUME CacheNext, NEW g \in Goroutines, Answers(g)
                 PROVE  Own(g)
        BY <1>1
    <2>1. PICK key \in Matches(IdOf[g]) : answer'[g] = key
        BY <1>1, AnswersAreLookups
    <2>2. steady \subseteq podMetaMap
        <3>1. Lookup(g) \/ StampAndLookup(g)
            BY <1>1, AnswersAreLookups
        <3> QED
            BY <1>1, <3>1 DEF Lookup, StampAndLookup, CacheInv, LockInv, SteadyInv
    <2> QED
        BY <2>1, <2>2 DEF Matches
<1> QED
    BY <1>1, CacheInductive, PTL DEF CacheSpec, OwnPodWhenSteady

HIDE PodCacheAssumption DEF Stale

-----------------------------------------------------------------------------
(* What the agent says of itself.                                          *)

\* The exporter begins with a listing, or does not take part in the behaviour.
Begins == ExporterInit \/ ExporterAt("exited")

ExporterSpec == Begins /\ [][ExporterNext \/ ExporterDone]_exporterVars

\* The last reading took the agent's CPU time, which is the cycle it was in, or
\* zero when the counter was missing; whole tells which of them it was.
SelfInv ==
    /\ time \in Nat /\ lastSelfTime \in Nat /\ lastSelfTime <= time
    /\ lastSelfCpu \in {0, lastSelfTime}
    /\ whole \in BOOLEAN \X BOOLEAN
    /\ whole[2] => lastSelfCpu = lastSelfTime
    /\ selfCpu \in Int \X Int
    /\ SelfCpuSpansTheGap

\* Nothing has been read at first.
LEMMA SelfInit == Begins => SelfInv
<1> SUFFICES ASSUME Begins PROVE SelfInv
    OBVIOUS
<1>1. time = 1 /\ lastSelfTime = 0 /\ lastSelfCpu = 0 /\ selfCpu = <<0, 1>> 
    BY DEF Begins, ExporterInit, ExporterAt
<1>2. whole = <<TRUE, TRUE>>
    BY DEF Begins, ExporterInit, ExporterAt
<1>3. whole \in BOOLEAN \X BOOLEAN
    BY <1>2
<1>4. SelfCpuSpansTheGap
    BY <1>1 DEF SelfCpuSpansTheGap
<1> QED
    BY <1>1, <1>3, <1>4 DEF SelfInv

\* A reading covers the time since the last one that succeeded, and so do the
\* two counters it is the difference of when neither is missing.
LEMMA ReadStep ==
    ASSUME SelfInv, ReadSelf
    PROVE  SelfInv'
<1>1. time' = time
    BY DEF ReadSelf
<1>2. CASE \E cpu \in {0, time} :
               /\ selfCpu' = IF lastSelfTime = 0 THEN <<0, 1>>
                             ELSE <<cpu - lastSelfCpu, time - lastSelfTime>>
               /\ lastSelfCpu' = cpu /\ lastSelfTime' = time
               /\ whole' = <<whole[2], cpu = time>>
    <2>1. PICK cpu \in {0, time} :
              /\ selfCpu' = IF lastSelfTime = 0 THEN <<0, 1>>
                            ELSE <<cpu - lastSelfCpu, time - lastSelfTime>>
              /\ lastSelfCpu' = cpu /\ lastSelfTime' = time
              /\ whole' = <<whole[2], cpu = time>>
        BY <1>2
    <2>2. whole' \in BOOLEAN \X BOOLEAN
        BY <2>1 DEF SelfInv
    <2>3. whole'[2] <=> cpu = time
        BY <2>1
    <2>4. whole' = <<TRUE, TRUE>> => whole[2] /\ cpu = time
        BY <2>1
    <2>5. SelfCpuSpansTheGap'
        <3>1. CASE lastSelfTime = 0
            BY <2>1, <3>1 DEF SelfCpuSpansTheGap
        <3>2. CASE lastSelfTime # 0 /\ whole[2] /\ cpu = time
            BY <2>1, <3>2 DEF SelfInv, SelfCpuSpansTheGap
        <3> QED
            BY <2>4, <3>1, <3>2 DEF SelfCpuSpansTheGap
    <2> QED
        BY <1>1, <2>1, <2>2, <2>3, <2>5 DEF SelfInv
<1>3. CASE selfCpu' = <<0, 1>> /\ UNCHANGED <<lastSelfCpu, lastSelfTime, whole>>
    BY <1>1, <1>3 DEF SelfInv, SelfCpuSpansTheGap
<1> QED
    BY <1>2, <1>3 DEF ReadSelf

\* Nothing else writes what is known of the agent itself; the clock only grows.
LEMMA OtherStep ==
    ASSUME SelfInv, UNCHANGED self, UNCHANGED time \/ WakeUp
    PROVE  SelfInv'
<1>1. UNCHANGED <<lastSelfCpu, lastSelfTime, selfCpu, whole>>
    BY DEF self
<1>2. time' \in Nat /\ time' >= time
    BY DEF SelfInv, WakeUp
<1>3. lastSelfTime' \in Nat /\ lastSelfTime' <= time'
    BY <1>1, <1>2 DEF SelfInv
<1>4. SelfCpuSpansTheGap'
    BY <1>1 DEF SelfInv, SelfCpuSpansTheGap
<1>5. /\ lastSelfCpu' \in {0, lastSelfTime'}
      /\ whole' \in BOOLEAN \X BOOLEAN
      /\ whole'[2] => lastSelfCpu' = lastSelfTime'
      /\ selfCpu' \in Int \X Int
    BY <1>1 DEF SelfInv
<1> QED
    BY <1>2, <1>3, <1>4, <1>5 DEF SelfInv

\* Every step keeps the invariant.
LEMMA SelfInductive ==
    SelfInv /\ [ExporterNext \/ ExporterDone]_exporterVars => SelfInv'
<1> SUFFICES ASSUME SelfInv, [ExporterNext \/ ExporterDone]_exporterVars
             PROVE  SelfInv'
    OBVIOUS
<1>1. CASE Handler \/ Signal
    <2>1. UNCHANGED <<self, time>>
        BY <1>1 DEF Handler, Signal, ServerOnly, Listen, Shutdown, Arrive, Check, Serve,
                    Gather, Answer, WriteOut
    <2> QED
        BY <2>1, OtherStep
<1>2. CASE Loop /\ ~ReadSelf
    <2>1. UNCHANGED self /\ (UNCHANGED time \/ WakeUp)
        BY <1>2 DEF Loop, CycleFails, WindowCancelled, Collect, CountAndReset,
                    CountPrediction, CreateSeries, SetSeries, SetRate, WakeUp, Terminate,
                    Exit
    <2> QED
        BY <2>1, OtherStep
<1>3. CASE ExporterDone \/ UNCHANGED exporterVars
    BY <1>3, OtherStep DEF ExporterDone, exporterVars
<1> QED
    BY <1>1, <1>2, <1>3, ReadStep DEF ExporterNext, Loop

\* The usage the agent shows of itself is that of the time it is divided by,
\* unless a counter was missing when one of the two readings was taken.
THEOREM SelfUsageIsHonest == ExporterSpec => []SelfCpuSpansTheGap
<1>1. SelfInv => SelfCpuSpansTheGap
    BY DEF SelfInv
<1> QED
    BY <1>1, SelfInit, SelfInductive, PTL DEF ExporterSpec
-----------------------------------------------------------------------------
(* Counting predictions.                                                   *)

\* A finite set of predictions has a number of each category and status.
LEMMA CountsAreNumbers ==
    ASSUME NEW S, IsFiniteSet(S), NEW c, NEW s
    PROVE  OfCategory(S, c) \in Nat /\ OfStatus(S, s) \in Nat
<1>1. IsFiniteSet({p \in S : p.cat = c}) /\ IsFiniteSet({p \in S : p.pod = s})
    BY FS_Subset
<1> QED
    BY <1>1, FS_CardinalityType DEF OfCategory, OfStatus

\* Where no prediction has a category or status, its number is zero.
LEMMA NoneIsZero ==
    ASSUME NEW S, NEW c, NEW s
    PROVE  /\ (\A p \in S : p.cat # c) => OfCategory(S, c) = 0
           /\ (\A p \in S : p.pod # s) => OfStatus(S, s) = 0
<1>1. (\A p \in S : p.cat # c) => {p \in S : p.cat = c} = {}
    OBVIOUS
<1>2. (\A p \in S : p.pod # s) => {p \in S : p.pod = s} = {}
    OBVIOUS
<1> QED
    BY <1>1, <1>2, FS_EmptySet DEF OfCategory, OfStatus

\* One more prediction counts once for its category and for its status.
LEMMA OneMore ==
    ASSUME NEW S, IsFiniteSet(S), NEW q, q \notin S, NEW c, NEW s
    PROVE  /\ OfCategory(S \cup {q}, c) = OfCategory(S, c) + (IF q.cat = c THEN 1 ELSE 0)
           /\ OfStatus(S \cup {q}, s) = OfStatus(S, s) + (IF q.pod = s THEN 1 ELSE 0)
<1> DEFINE InCat(T) == {p \in T : p.cat = c}
           InPod(T) == {p \in T : p.pod = s}
<1>1. IsFiniteSet(InCat(S)) /\ IsFiniteSet(InPod(S))
    BY FS_Subset
<1>2. q \notin InCat(S) /\ q \notin InPod(S)
    OBVIOUS
<1>3. /\ InCat(S \cup {q}) = IF q.cat = c THEN InCat(S) \cup {q} ELSE InCat(S)
      /\ InPod(S \cup {q}) = IF q.pod = s THEN InPod(S) \cup {q} ELSE InPod(S)
    OBVIOUS
<1>4. \A T : OfCategory(T, c) = Cardinality(InCat(T)) /\ OfStatus(T, s) = Cardinality(InPod(T))
    BY DEF OfCategory, OfStatus
<1> HIDE DEF InCat, InPod
<1>5. /\ Cardinality(InCat(S)) \in Nat
      /\ Cardinality(InCat(S) \cup {q}) = Cardinality(InCat(S)) + 1
      /\ Cardinality(InPod(S)) \in Nat
      /\ Cardinality(InPod(S) \cup {q}) = Cardinality(InPod(S)) + 1
    BY <1>1, <1>2, FS_CardinalityType, FS_AddElement
<1> QED
    BY <1>3, <1>4, <1>5
-----------------------------------------------------------------------------
(* The registry.                                                           *)

Kinds == {"success", "failed"}

\* The metrics are numbers, and what a cycle came to is one of its results.
RegistryTypeInv ==
    /\ scansTotal \in Nat
    /\ classifiedTotal \in [Cats -> Nat]
    /\ enrichmentTotal \in [Kinds -> Nat]
    /\ predictionsCount \in [Cats -> Nat \cup {Gone}]
    /\ pc \in {"measuring", "updating", "counting"} => predictions \in Results
    /\ todo \subseteq predictions

\* Between two updates nothing has changed since the last one.
RestInv == pc # "counting" => base = registry /\ todo = {}

\* Within an update the counters have what has been counted, and a category
\* that is not waiting for its gauge has the right one, or none.
UpdateInv ==
    pc = "counting" =>
        /\ scansTotal = base[1] + 1
        /\ classifiedTotal =
               [c \in Cats |-> base[2][c] + OfCategory(predictions \ todo, c)]
        /\ enrichmentTotal =
               [s \in Kinds |-> base[3][s] + OfStatus(predictions \ todo, s)]
        /\ successRate = base[5]
        /\ \A c \in Cats :
               IF c \in unset THEN predictionsCount[c] \in {0, Gone}
               ELSE \/ predictionsCount[c] = OfCategory(predictions, c)
                    \/ predictionsCount[c] = Gone /\ OfCategory(predictions, c) = 0

\* What a scrape still has to write out is a series that exists.
ScrapeInv == /\ sample \in [Requests -> [Cats -> Nat \cup {Gone, Live}]]
             /\ \A r \in Requests, c \in Cats :
                    sample[r][c] = Live => predictionsCount[c] # Gone

\* The metrics of the last cycle are numbers.
BaseInv == base[2] \in [Cats -> Nat] /\ base[3] \in [Kinds -> Nat]

IInv == RegistryTypeInv /\ RestInv /\ UpdateInv /\ BaseInv /\ ScrapeInv

USE DEF Kinds

\* The registry is empty at first.
LEMMA InitIInv == Begins => IInv
<1> SUFFICES ASSUME NEW place \in {"listing", "exited"}, ExporterAt(place)
             PROVE  IInv
    BY DEF Begins, ExporterInit
<1>1. RegistryTypeInv /\ RestInv /\ UpdateInv
    BY ExporterAssumption DEF ExporterAt, RegistryTypeInv, RestInv, UpdateInv, registry
<1>2. BaseInv /\ ScrapeInv
    BY ExporterAssumption DEF ExporterAt, BaseInv, ScrapeInv, registry
<1> QED
    BY <1>1, <1>2 DEF IInv

\* Outside UpdateMetrics the loop does not touch the registry.
LEMMA OutsideStep ==
    ASSUME IInv, UNCHANGED <<registry, base, sample>>,
           pc # "counting", pc' # "counting", UNCHANGED todo,
           \/ UNCHANGED predictions /\ pc' \notin {"measuring", "updating"}
           \/ UNCHANGED predictions /\ pc \in {"measuring", "updating"}
           \/ predictions' \in Results
    PROVE  IInv'
BY DEF IInv, RegistryTypeInv, RestInv, UpdateInv, BaseInv, ScrapeInv, registry
\* What a cycle comes to is finite, and of known categories and statuses.
LEMMA ResultIsFinite ==
    ASSUME NEW preds \in Results
    PROVE  /\ IsFiniteSet(preds)
           /\ \A p \in preds : p.cat \in Cats
BY ExporterAssumption

\* The Reset leaves the counters to be made up and all gauges to be set.
LEMMA ResetStep ==
    ASSUME IInv, CountAndReset
    PROVE  IInv'
<1> USE DEF CountAndReset
<1>1. predictions \in Results /\ base = registry /\ base' = base
    BY DEF IInv, RegistryTypeInv, RestInv
<1>2. RegistryTypeInv' /\ RestInv'
    BY <1>1 DEF IInv, RegistryTypeInv, RestInv
<1>3. ASSUME NEW c \in Cats, c \notin unset'
      PROVE  OfCategory(predictions, c) = 0
    BY <1>3, NoneIsZero
<1>4. predictions' \ todo' = {}
    OBVIOUS
<1>5. /\ \A c : OfCategory(predictions' \ todo', c) = 0
      /\ \A s : OfStatus(predictions' \ todo', s) = 0
    BY <1>4, NoneIsZero
<1>6. /\ classifiedTotal' \in [Cats -> Nat] /\ enrichmentTotal' \in [Kinds -> Nat]
      /\ base'[1] = scansTotal /\ base'[5] = successRate'
      /\ base'[2] = classifiedTotal' /\ base'[3] = enrichmentTotal'
    BY <1>1 DEF IInv, RegistryTypeInv, registry
<1>7. /\ classifiedTotal' = [c \in Cats |-> base'[2][c] + OfCategory(predictions' \ todo', c)]
      /\ enrichmentTotal' = [s \in Kinds |-> base'[3][s] + OfStatus(predictions' \ todo', s)]
    <2>1. ASSUME NEW c \in Cats
          PROVE  classifiedTotal'[c] = base'[2][c] + OfCategory(predictions' \ todo', c)
        BY ONLY <1>5, <1>6, <2>1
    <2>2. ASSUME NEW s \in Kinds
          PROVE  enrichmentTotal'[s] = base'[3][s] + OfStatus(predictions' \ todo', s)
        BY ONLY <1>5, <1>6, <2>2
    <2> QED
        BY ONLY <1>6, <2>1, <2>2
<1>8. UpdateInv'
    BY <1>3, <1>6, <1>7 DEF UpdateInv
<1>9. ScrapeInv' /\ BaseInv'
    BY <1>6, ExporterAssumption DEF IInv, RegistryTypeInv, ScrapeInv, BaseInv
<1> QED
    BY <1>2, <1>8, <1>9 DEF IInv

\* A prediction counted is a prediction less to do.
LEMMA CountStep ==
    ASSUME IInv, NEW p \in todo, CountPrediction(p)
    PROVE  IInv'
<1> USE DEF CountPrediction
<1> DEFINE S == predictions \ todo
<1>1. predictions \in Results /\ todo \subseteq predictions
    BY DEF IInv, RegistryTypeInv
<1>2. /\ predictions' \ todo' = S \cup {p}
      /\ p \notin S /\ IsFiniteSet(S) /\ p.cat \in Cats
    BY <1>1, ResultIsFinite, FS_Subset
<1>3. \A c, s : /\ OfCategory(S \cup {p}, c) = OfCategory(S, c) + (IF p.cat = c THEN 1 ELSE 0)
                 /\ OfStatus(S \cup {p}, s) = OfStatus(S, s) + (IF p.pod = s THEN 1 ELSE 0)
                 /\ OfCategory(S, c) \in Nat /\ OfStatus(S, s) \in Nat
    BY <1>2, OneMore, CountsAreNumbers
<1> HIDE DEF S
<1>4. RegistryTypeInv' /\ RestInv'
    BY <1>1, <1>2 DEF IInv, RegistryTypeInv, RestInv
<1>5. classifiedTotal' = [c \in Cats |-> base'[2][c] + OfCategory(S \cup {p}, c)]
    <2>1. classifiedTotal = [c \in Cats |-> base[2][c] + OfCategory(S, c)]
        BY DEF IInv, UpdateInv, S
    <2>2. ASSUME NEW c \in Cats
          PROVE  classifiedTotal'[c] = base'[2][c] + OfCategory(S \cup {p}, c)
        <3>1. classifiedTotal'[c] = classifiedTotal[c] + (IF p.cat = c THEN 1 ELSE 0)
            BY DEF IInv, RegistryTypeInv
        <3>2. classifiedTotal[c] = base[2][c] + OfCategory(S, c)
            BY <2>1
        <3>3. base' = base /\ base[2][c] \in Nat
            BY DEF IInv, BaseInv
        <3>4. /\ OfCategory(S \cup {p}, c) = OfCategory(S, c) + (IF p.cat = c THEN 1 ELSE 0)
              /\ OfCategory(S, c) \in Nat
            BY <1>3
        <3> QED
            BY ONLY <3>1, <3>2, <3>3, <3>4
    <2> QED
        BY <1>4, <2>2 DEF RegistryTypeInv
<1>6. enrichmentTotal' = [s \in Kinds |-> base'[3][s] + OfStatus(S \cup {p}, s)]
    <2>1. enrichmentTotal = [s \in Kinds |-> base[3][s] + OfStatus(S, s)]
        BY DEF IInv, UpdateInv, S
    <2>2. \A s \in Kinds : enrichmentTotal'[s] = base'[3][s] + OfStatus(S \cup {p}, s)
        BY <1>2, <1>3, <2>1 DEF IInv, RegistryTypeInv, BaseInv
    <2> QED
        BY <1>4, <2>2 DEF RegistryTypeInv
<1>7. UpdateInv'
    BY <1>2, <1>5, <1>6 DEF IInv, UpdateInv
<1>8. BaseInv' /\ ScrapeInv'
    BY DEF IInv, BaseInv, ScrapeInv
<1> QED
    BY <1>4, <1>7, <1>8 DEF IInv

\* A gauge is made before it is set, and set to what the cycle came to.
LEMMA GaugeStep ==
    ASSUME IInv, NEW c \in Cats, CreateSeries(c) \/ SetSeries(c)
    PROVE  IInv'
<1>1. OfCategory(predictions, c) \in Nat /\ Gone \notin Nat
    BY ResultIsFinite, CountsAreNumbers, ExporterAssumption
    DEF IInv, RegistryTypeInv, CreateSeries, SetSeries
<1>2. UNCHANGED <<pc, predictions, todo, scansTotal, classifiedTotal, enrichmentTotal,
                  successRate, base, sample>>
    BY DEF CreateSeries, SetSeries, local
<1>3. \E n \in {0, OfCategory(predictions, c)} :
          predictionsCount' = [predictionsCount EXCEPT ![c] = n]
    BY DEF CreateSeries, SetSeries
<1>4. RegistryTypeInv' /\ BaseInv' /\ RestInv'
    BY <1>1, <1>2, <1>3 DEF IInv, RegistryTypeInv, BaseInv, RestInv, CreateSeries, SetSeries
<1>5. ScrapeInv'
    BY <1>1, <1>2, <1>3 DEF IInv, RegistryTypeInv, ScrapeInv
<1>6. UpdateInv'
    <2>1. CASE CreateSeries(c)
        BY <1>2, <2>1 DEF CreateSeries, local, IInv, RegistryTypeInv, UpdateInv
    <2>2. CASE SetSeries(c)
        BY <1>2, <2>2 DEF SetSeries, IInv, RegistryTypeInv, UpdateInv
    <2> QED
        BY <2>1, <2>2
<1> QED
    BY <1>4, <1>5, <1>6 DEF IInv

\* The last metric ends the update.
LEMMA RateStep ==
    ASSUME IInv, SetRate
    PROVE  IInv'
<1> USE DEF SetRate
<1>1. base' = registry' /\ todo' = {} /\ pc' \in {"sleeping", "returned"}
    BY DEF registry, local
<1>2. RegistryTypeInv'
    BY <1>1 DEF local, IInv, RegistryTypeInv
<1>3. RestInv' /\ UpdateInv' /\ BaseInv'
    BY <1>1, <1>2 DEF RestInv, UpdateInv, BaseInv, RegistryTypeInv, registry
<1>4. ScrapeInv'
    BY DEF IInv, ScrapeInv
<1> QED
    BY <1>2, <1>3, <1>4 DEF IInv
\* The server reads the registry and keeps copies of its series.
LEMMA ServerStep ==
    ASSUME IInv, Handler
    PROVE  IInv'
<1>1. UNCHANGED <<pc, local, registry, base>>
    BY DEF Handler, ServerOnly, Listen, Shutdown, Arrive, Check, Serve, Gather, Answer, WriteOut
<1>2. RegistryTypeInv' /\ RestInv' /\ UpdateInv' /\ BaseInv'
    BY <1>1 DEF IInv, RegistryTypeInv, RestInv, UpdateInv, BaseInv, local, registry
<1>3. UNCHANGED predictionsCount
    BY <1>1 DEF registry
<1>4. CASE UNCHANGED sample
    BY <1>2, <1>3, <1>4 DEF IInv, ScrapeInv
<1>5. ASSUME NEW r \in Requests, Gather(r)
      PROVE  ScrapeInv'
    BY <1>3, <1>5, ExporterAssumption DEF Gather, IInv, ScrapeInv
<1>6. ASSUME NEW r \in Requests, NEW c \in Cats, WriteOut(r, c)
      PROVE  ScrapeInv'
    BY <1>3, <1>6, ExporterAssumption DEF WriteOut, IInv, ScrapeInv, RegistryTypeInv
<1>7. ASSUME NEW r \in Requests, Answer(r)
      PROVE  ScrapeInv'
    BY <1>3, <1>7, ExporterAssumption DEF Answer, IInv, ScrapeInv
<1> QED
    BY <1>2, <1>4, <1>5, <1>6, <1>7
    DEF IInv, Handler, Listen, Shutdown, Arrive, Check, Serve

\* Every step keeps the invariant.
LEMMA StepIInv == IInv /\ [ExporterNext \/ ExporterDone]_exporterVars => IInv'
<1> SUFFICES ASSUME IInv, [ExporterNext \/ ExporterDone]_exporterVars
             PROVE  IInv'
    OBVIOUS
<1>1. CASE CycleFails \/ WindowCancelled \/ Collect \/ ReadSelf \/ WakeUp \/ Terminate \/ Exit
    <2>1. UNCHANGED <<registry, base, todo>> /\ pc # "counting" /\ pc' # "counting"
        BY <1>1 DEF CycleFails, WindowCancelled, Collect, ReadSelf, WakeUp, Terminate, Exit, local
    <2>2. UNCHANGED sample
        BY <1>1 DEF CycleFails, WindowCancelled, Collect, ReadSelf, WakeUp, Terminate, Exit
    <2>3. \/ UNCHANGED predictions /\ pc' \notin {"measuring", "updating"}
          \/ UNCHANGED predictions /\ pc \in {"measuring", "updating"}
          \/ predictions' \in Results
        BY <1>1 DEF CycleFails, WindowCancelled, Collect, ReadSelf, WakeUp, Terminate, Exit, local
    <2> QED
        BY <2>1, <2>2, <2>3, OutsideStep
<1>2. CASE Signal \/ UNCHANGED exporterVars
    <2>1. UNCHANGED <<pc, local, registry, base, sample>>
        BY <1>2 DEF Signal, exporterVars
    <2> QED
        BY <2>1 DEF IInv, RegistryTypeInv, RestInv, UpdateInv, BaseInv, ScrapeInv, local, registry
<1> QED
    BY <1>1, <1>2, ResetStep, CountStep, GaugeStep, RateStep, ServerStep
    DEF ExporterNext, Loop, ExporterDone

\* The registry is never anything but the last cycle and a part of the next.
THEOREM RegistryInductive == ExporterSpec => []IInv
BY InitIInv, StepIInv, PTL DEF ExporterSpec

\* A scrape writes out the last cycle's number, the new one or zero, however
\* slowly it gathers and however often it is overtaken by an update.
THEOREM ScrapesShowRealCounts == ExporterSpec => ScrapedValuesBelongToACycle
<1> DEFINE Real(r, c) == sample[r][c] = Live /\ sample'[r][c] # Live =>
                             sample'[r][c] \in {0, OfCategory(predictions, c), base[4][c]}
<1>1. ASSUME IInv, [ExporterNext \/ ExporterDone]_exporterVars
      PROVE  [\A r \in Requests, c \in Cats : Real(r, c)]_exporterVars
    <2> SUFFICES ASSUME ExporterNext \/ ExporterDone, NEW r \in Requests, NEW c \in Cats,
                        sample[r][c] = Live, sample'[r][c] # Live
                 PROVE  sample'[r][c] \in {0, OfCategory(predictions, c), base[4][c]}
        BY <1>1
    <2>1. sample'[r][c] = predictionsCount[c]
        <3>1. CASE Handler
            BY <1>1, <3>1 DEF Handler, Listen, Shutdown, Arrive, Check, Serve, Gather, Answer,
                              WriteOut, IInv, ScrapeInv
        <3>2. CASE CountAndReset
            BY <1>1, <3>2 DEF CountAndReset, IInv, ScrapeInv
        <3>3. CASE UNCHANGED sample
            BY <3>3
        <3> QED
            BY <3>1, <3>2, <3>3
            DEF ExporterNext, ExporterDone, exporterVars, Signal, Loop, CycleFails,
                WindowCancelled, Collect, ReadSelf, CountPrediction, CreateSeries, SetSeries,
                SetRate, WakeUp, Terminate, Exit
    <2>2. predictionsCount[c] # Gone
        BY <1>1 DEF IInv, ScrapeInv
    <2>3. CASE pc = "counting"
        BY <1>1, <2>1, <2>2, <2>3 DEF IInv, UpdateInv
    <2>4. CASE pc # "counting"
        BY <1>1, <2>1, <2>4 DEF IInv, RestInv, registry
    <2> QED
        BY <2>3, <2>4
<1> QED
    BY <1>1, RegistryInductive, PTL DEF ExporterSpec, ScrapedValuesBelongToACycle

-----------------------------------------------------------------------------
(* The refinement.                                                         *)

\* At first nothing is published.
LEMMA ContractInit == Begins => Contract!Init
BY DEF Begins, ExporterInit, ExporterAt, registry, Contract!Init, Updating, GaugeOf

\* Only the last write of an update is seen, and it publishes the cycle.
LEMMA ContractRate ==
    ASSUME IInv, SetRate
    PROVE  Contract!Next
<1> USE DEF SetRate, Updating
<1>1. predictions \in Results
    BY DEF IInv, RegistryTypeInv
<1>2. predictions \ todo = predictions
    OBVIOUS
<1>3. /\ scansTotal' = base[1] + 1
      /\ classifiedTotal' = [c \in Cats |-> base[2][c] + OfCategory(predictions, c)]
      /\ enrichmentTotal' = [s \in Kinds |-> base[3][s] + OfStatus(predictions, s)]
    BY <1>2 DEF IInv, UpdateInv
<1>4. GaugeOf(predictionsCount') = [c \in Cats |-> OfCategory(predictions, c)]
    <2>1. \A c \in Cats : OfCategory(predictions, c) \in Nat
        BY <1>1, ResultIsFinite, CountsAreNumbers
    <2> QED
        BY <2>1, ExporterAssumption DEF IInv, UpdateInv, GaugeOf
<1>5. successRate' = <<OfStatus(predictions, "success"),
                       OfStatus(predictions, "success") + OfStatus(predictions, "failed")>>
    OBVIOUS
<1>6. ~Updating'
    OBVIOUS
<1>7. /\ \A c : Contract!OfCategory(predictions, c) = OfCategory(predictions, c)
      /\ \A s : Contract!OfStatus(predictions, s) = OfStatus(predictions, s)
    BY DEF Contract!OfCategory, Contract!OfStatus, OfCategory, OfStatus,
           Contract!Cardinality, Cardinality
<1>8. Contract!RateOf(predictions) = successRate'
    BY <1>5, <1>7 DEF Contract!RateOf
<1>9. Contract!Publish(predictions)
    BY <1>3, <1>4, <1>6, <1>7, <1>8 DEF Contract!Publish
<1> QED
    BY <1>1, <1>9 DEF Contract!Next

\* Every other step leaves alone what is seen from between two updates.
LEMMA ContractStep ==
    IInv /\ [ExporterNext \/ ExporterDone]_exporterVars => [Contract!Next]_(Contract!published)
<1> SUFFICES ASSUME IInv, [ExporterNext \/ ExporterDone]_exporterVars, ~SetRate
             PROVE  UNCHANGED Contract!published
    BY ContractRate
<1>1. CASE CountAndReset
    BY <1>1 DEF CountAndReset, IInv, RestInv, registry, Updating, Contract!published
<1>2. CASE pc = "counting" /\ pc' = "counting" /\ base' = base
    BY <1>2 DEF Updating, Contract!published
<1>3. CASE pc # "counting" /\ pc' # "counting" /\ UNCHANGED registry
    BY <1>3 DEF registry, Updating, Contract!published
<1>4. CASE UNCHANGED <<pc, base, registry>>
    BY <1>4 DEF registry, Updating, Contract!published
<1> QED
    BY <1>1, <1>2, <1>3, <1>4
    DEF ExporterNext, ExporterDone, exporterVars, Signal, Loop, CycleFails, WindowCancelled,
        Collect, ReadSelf, CountPrediction, CreateSeries, SetSeries, WakeUp, Terminate, Exit,
        Handler, ServerOnly, Listen, Shutdown, Arrive, Check, Serve, Gather, Answer, WriteOut

\* To whoever does not look in its middle UpdateMetrics is one step.
THEOREM Refinement == ExporterSpec => ImplementsMetricsContract
BY ContractInit, ContractStep, RegistryInductive, PTL
    DEF ExporterSpec, ImplementsMetricsContract

-----------------------------------------------------------------------------
(* Types.                                                                  *)

\* A reading or a cycle is counted at most once per turn of the loop, so the
\* counters stay behind the clock, which waits for MaxCycles.
ClockInv ==
    /\ time \in 1..MaxCycles
    /\ scansTotal \in Nat
    /\ scansTotal <= IF pc \in {"listing", "measuring", "updating"} THEN time - 1 ELSE time
    /\ pc \in {"listing", "measuring"} => lastSelfTime < time

\* The requests that have passed the middleware.
Checked == {r \in Requests : at[r] \notin {"idle", "arrived"}}

\* A request is counted once, under one of the two statuses.
HttpInv ==
    /\ at \in [Requests -> {"idle", "arrived", "counted", "gathering", "answered",
                            "refused", "cut"}]
    /\ httpRequests \in [Statuses -> Nat]
    /\ httpRequests["200"] + httpRequests["401"] <= Cardinality(Checked)

TypeInv == ExporterTypeOK /\ ClockInv /\ HttpInv

\* The clock starts with the first cycle, before anything is counted.
LEMMA ClockInit == Begins => ClockInv
<1> SUFFICES ASSUME Begins PROVE ClockInv
    OBVIOUS
<1>1. time = 1 /\ scansTotal = 0 /\ lastSelfTime = 0
    BY DEF Begins, ExporterInit, ExporterAt
<1> QED
    BY <1>1, BoundsAssumption DEF ClockInv

\* No step counts a cycle twice, and only a new turn lets the clock go on.
LEMMA ClockStep ==
    ASSUME ClockInv, SelfInv, ExporterNext \/ ExporterDone \/ UNCHANGED exporterVars
    PROVE  ClockInv'
<1> USE BoundsAssumption DEF ClockInv, SelfInv
<1>1. CASE Handler \/ ExporterDone \/ Signal \/ UNCHANGED exporterVars
    <2>1. UNCHANGED <<pc, time, scansTotal, lastSelfTime>>
        BY <1>1 DEF Handler, ExporterDone, exporterVars, registry, self, ServerOnly, Signal,
                    Listen, Shutdown, Arrive, Check, Serve, Gather, Answer, WriteOut
    <2> QED
        BY <2>1
<1>2. CASE CycleFails \/ WindowCancelled \/ Collect \/ Terminate \/ Exit
    BY <1>2 DEF CycleFails, WindowCancelled, Collect, Terminate, Exit, registry, self
<1>3. CASE ReadSelf
    BY <1>3 DEF ReadSelf, registry
<1>4. CASE CountAndReset \/ SetRate
    BY <1>4 DEF CountAndReset, SetRate, self
<1>5. CASE WakeUp
    BY <1>5 DEF WakeUp, registry, self
<1>6. CASE (\E p \in todo : CountPrediction(p)) \/ \E c \in Cats : CreateSeries(c) \/ SetSeries(c)
    BY <1>6 DEF CountPrediction, CreateSeries, SetSeries, self
<1> QED
    BY <1>1, <1>2, <1>3, <1>4, <1>5, <1>6 DEF ExporterNext, Loop

\* No request has been counted at first.
LEMMA HttpInit == Begins => HttpInv
<1> SUFFICES ASSUME Begins PROVE HttpInv
    OBVIOUS
<1>1. /\ at = [r \in Requests |-> "idle"]
      /\ httpRequests = [s \in Statuses |-> 0]
    BY DEF Begins, ExporterInit, ExporterAt
<1>2. Checked = {}
    BY <1>1 DEF Checked
<1> QED
    BY <1>1, <1>2, FS_EmptySet DEF HttpInv, Statuses

\* Only the middleware counts, and a request passes it once.
LEMMA HttpStep ==
    ASSUME HttpInv, ExporterNext \/ ExporterDone \/ UNCHANGED exporterVars
    PROVE  HttpInv'
<1> DEFINE Places == {"idle", "arrived", "counted", "gathering", "answered", "refused", "cut"}
<1>1. IsFiniteSet(Checked) /\ Cardinality(Checked) \in Nat
    BY BoundsAssumption, FS_Subset, FS_CardinalityType DEF Checked
<1>2. CASE /\ UNCHANGED httpRequests /\ at' \in [Requests -> Places]
           /\ \A r \in Requests : at[r] \notin {"idle", "arrived"} =>
                                      at'[r] \notin {"idle", "arrived"}
    <2>1. IsFiniteSet(Checked') /\ Cardinality(Checked') \in Nat /\ Checked \subseteq Checked'
        BY <1>2, BoundsAssumption, FS_Subset, FS_CardinalityType DEF Checked
    <2>2. Cardinality(Checked) <= Cardinality(Checked')
        BY <2>1, FS_Subset
    <2> QED
        BY <1>1, <1>2, <2>1, <2>2 DEF HttpInv, Statuses
<1>3. ASSUME NEW r \in Requests, Check(r)
      PROVE  HttpInv'
    <2>1. PICK place \in {"counted", "refused"} : at' = [at EXCEPT ![r] = place]
        BY <1>3 DEF Check, ArriveAt
    <2>2. PICK status \in Statuses :
              httpRequests' = [httpRequests EXCEPT ![status] = @ + 1]
        BY <1>3 DEF Check, Statuses
    <2>3. r \notin Checked /\ Checked' = Checked \cup {r}
        BY <1>3, <2>1 DEF Check, Checked, HttpInv
    <2>4. Cardinality(Checked') = Cardinality(Checked) + 1
        BY <1>1, <2>3, FS_AddElement
    <2> QED
        BY <1>1, <2>1, <2>2, <2>4 DEF HttpInv, Statuses
<1>4. CASE \E r \in Requests : Arrive(r) \/ Serve(r) \/ Gather(r) \/ Answer(r)
    BY <1>2, <1>4 DEF Arrive, Serve, Gather, Answer, ArriveAt, HttpInv
<1>5. CASE Exit
    BY <1>2, <1>5 DEF Exit, Active, HttpInv
<1>6. CASE UNCHANGED <<httpRequests, at>>
    BY <1>2, <1>6 DEF HttpInv
<1> QED
    BY <1>3, <1>4, <1>5, <1>6
    DEF ExporterNext, ExporterDone, exporterVars, http, Signal, Loop, CycleFails, WindowCancelled,
        Collect, ReadSelf, CountAndReset, CountPrediction, CreateSeries, SetSeries, SetRate,
        WakeUp, Terminate, Handler, Listen, Shutdown, WriteOut, AgentOnly

\* No category has more predictions than there are in all cycles.
LEMMA CountsAreAmounts ==
    ASSUME NEW preds \in Results, NEW c
    PROVE  OfCategory(preds, c) \in Amounts
<1> DEFINE Here == {p \in preds : p.cat = c}
<1>1. Here \subseteq UNION Results
    OBVIOUS
<1> HIDE DEF Here
<1>2. /\ IsFiniteSet(Here) /\ Cardinality(Here) <= Cardinality(UNION Results)
      /\ Cardinality(Here) \in Nat /\ Cardinality(UNION Results) \in Nat
    BY <1>1, BoundsAssumption, FS_Subset, FS_CardinalityType
<1> QED
    BY <1>2 DEF Here, OfCategory, Amounts

\* Zero is an amount.
LEMMA ZeroIsAnAmount == 0 \in Amounts /\ Gone \notin Amounts
BY BoundsAssumption, ExporterAssumption, FS_CardinalityType DEF Amounts

\* Every variable begins in its type.
LEMMA TypeInit == Begins => ExporterTypeOK
<1> SUFFICES ASSUME NEW place \in {"listing", "exited"}, ExporterAt(place)
             PROVE  ExporterTypeOK
    BY DEF Begins, ExporterInit
<1>1. Cardinality(Requests) \in Nat
    BY BoundsAssumption, FS_CardinalityType
<1>2. LoopTypeOK
    <2>1. loop \in BOOLEAN /\ cancelled \in BOOLEAN
        BY DEF ExporterAt
    <2>2. 1 \in 1..MaxCycles /\ 0 \in 0..MaxCycles
        BY BoundsAssumption
    <2> QED
        BY <2>1, <2>2 DEF ExporterAt, LoopTypeOK
<1>3. RegistryTypeOK
    BY BoundsAssumption, ZeroIsAnAmount DEF ExporterAt, RegistryTypeOK
<1>4. ServerTypeOK
    BY <1>1 DEF ExporterAt, ServerTypeOK, Statuses
<1> QED
    BY <1>2, <1>3, <1>4 DEF ExporterTypeOK

\* What the loop's goroutine works on keeps its types.
LEMMA LoopTypeStep ==
    ASSUME LoopTypeOK, ClockInv, ClockInv', SelfInv', IInv,
           ExporterNext \/ ExporterDone \/ UNCHANGED exporterVars
    PROVE  LoopTypeOK'
<1> USE DEF LoopTypeOK
<1>1. time' \in 1..MaxCycles /\ lastSelfCpu' \in 0..MaxCycles /\ lastSelfTime' \in 0..MaxCycles
    BY BoundsAssumption DEF ClockInv, SelfInv
<1>2. CASE Handler \/ ExporterDone \/ UNCHANGED exporterVars
    <2>1. UNCHANGED <<pc, loop, cancelled, time, local, self>>
        BY <1>2 DEF Handler, ExporterDone, exporterVars, registry, ServerOnly,
                    Listen, Shutdown, Arrive, Check, Serve, Gather, Answer, WriteOut
    <2> QED
        BY <2>1 DEF local, self
<1>3. CASE Signal
    BY <1>3 DEF Signal, local, self
<1>4. CASE CycleFails \/ WindowCancelled \/ Collect \/ Terminate \/ Exit \/ WakeUp
    <2>1. /\ UNCHANGED <<loop, todo, unset, self>> /\ cancelled' \in BOOLEAN
          /\ UNCHANGED predictions \/ predictions' \in Results
          /\ pc' \in {"listing", "measuring", "sleeping", "returned", "exited"}
        BY <1>4 DEF CycleFails, WindowCancelled, Collect, Terminate, Exit, WakeUp, AgentOnly, local
    <2>2. todo' \subseteq predictions'
        BY <1>4, <2>1 DEF CycleFails, WindowCancelled, Collect, Terminate, Exit, WakeUp, local,
            IInv, RestInv
    <2> QED
        BY <1>1, <2>1, <2>2 DEF self
<1>5. CASE ReadSelf
    <2>1. selfCpu' \in Int \X (1..MaxCycles)
        BY <1>5, BoundsAssumption DEF ReadSelf, ClockInv
    <2> QED
        BY <1>1, <1>5, <2>1 DEF ReadSelf, AgentOnly, local
<1>6. CASE CountAndReset
    <2>1. \A p \in predictions : p.cat \in Cats
        BY <1>6, ResultIsFinite DEF CountAndReset, IInv, RegistryTypeInv
    <2> QED
        BY <1>6, <2>1 DEF CountAndReset, AgentOnly, self
<1>7. CASE SetRate
    BY <1>7 DEF SetRate, AgentOnly, local, self
<1>8. CASE (\E p \in todo : CountPrediction(p)) \/ \E c \in Cats : CreateSeries(c) \/ SetSeries(c)
    BY <1>8 DEF CountPrediction, CreateSeries, SetSeries, AgentOnly, local, self
<1> QED
    BY <1>2, <1>3, <1>4, <1>5, <1>6, <1>7, <1>8 DEF ExporterNext, Loop

\* What stays behind the clock stays within its bound.
LEMMA BehindTheClock ==
    ASSUME NEW M \in Nat, NEW t \in 1..M, NEW n \in Nat, n <= t \/ n <= t - 1
    PROVE  n \in 0..M
OBVIOUS

\* The metrics keep their types: a gauge is set to the count of a cycle.
LEMMA RegistryTypeStep ==
    ASSUME RegistryTypeOK, ClockInv', IInv, IInv',
           ExporterNext \/ ExporterDone \/ UNCHANGED exporterVars
    PROVE  RegistryTypeOK'
<1>1. /\ scansTotal' \in 0..MaxCycles
      /\ classifiedTotal' \in [Cats -> Nat] /\ enrichmentTotal' \in [Kinds -> Nat]
    <2>1. MaxCycles \in Nat
        BY BoundsAssumption
    <2>2. /\ scansTotal' \in Nat /\ time' \in 1..MaxCycles
          /\ scansTotal' <= time' \/ scansTotal' <= time' - 1
        BY DEF ClockInv
    <2> QED
        BY <2>1, <2>2, BehindTheClock DEF IInv, RegistryTypeInv
<1>2. predictionsCount' \in [Cats -> Amounts \cup {Gone}] /\ successRate' \in Nat \X Nat
    <2>1. CASE UNCHANGED <<predictionsCount, successRate>>
        BY <2>1 DEF RegistryTypeOK
    <2>2. CASE CountAndReset
        BY <2>2 DEF CountAndReset, RegistryTypeOK
    <2>3. ASSUME NEW c \in Cats, CreateSeries(c) \/ SetSeries(c)
          PROVE  /\ predictionsCount' \in [Cats -> Amounts \cup {Gone}]
                 /\ successRate' \in Nat \X Nat
        <3>1. OfCategory(predictions, c) \in Amounts
            BY <2>3, CountsAreAmounts DEF CreateSeries, SetSeries, IInv, RegistryTypeInv
        <3> QED
            BY <2>3, <3>1, ZeroIsAnAmount DEF CreateSeries, SetSeries, RegistryTypeOK
    <2>4. CASE SetRate
        <3>1. \A s : OfStatus(predictions, s) \in Nat
            BY <2>4, ResultIsFinite, CountsAreNumbers DEF SetRate, IInv, RegistryTypeInv
        <3> QED
            BY <2>4, <3>1 DEF SetRate, RegistryTypeOK
    <2> QED
        BY <2>1, <2>2, <2>3, <2>4
        DEF ExporterNext, ExporterDone, exporterVars, registry, Signal, Loop, CycleFails,
            WindowCancelled, Collect, ReadSelf, CountPrediction, WakeUp, Terminate, Exit,
            Handler, ServerOnly, Listen, Shutdown, Arrive, Check, Serve, Gather, Answer, WriteOut
<1> QED
    BY <1>1, <1>2 DEF RegistryTypeOK

\* So does the server: no status is counted more often than there are requests.
LEMMA ServerTypeStep ==
    ASSUME ServerTypeOK, RegistryTypeOK, HttpInv',
           ExporterNext \/ ExporterDone \/ UNCHANGED exporterVars
    PROVE  ServerTypeOK'
<1>1. httpRequests' \in [Statuses -> 0..Cardinality(Requests)]
    <2>1. /\ Cardinality(Checked') <= Cardinality(Requests)
          /\ Cardinality(Checked') \in Nat /\ Cardinality(Requests) \in Nat
        <3>1. Checked' \subseteq Requests
            BY DEF Checked
        <3> QED
            BY <3>1, BoundsAssumption, FS_Subset, FS_CardinalityType
    <2> QED
        BY <2>1 DEF HttpInv, Statuses
<1>2. at' \in [Requests -> {"idle", "arrived", "counted", "gathering", "answered",
                            "refused", "cut"}]
    BY DEF HttpInv
<1>3. server' \in {"starting", "serving", "failed", "closed"}
    BY DEF ServerTypeOK, ExporterNext, ExporterDone, exporterVars, http, Signal, Loop, CycleFails,
        WindowCancelled, Collect, ReadSelf, CountAndReset, CountPrediction, CreateSeries, SetSeries,
        SetRate, WakeUp, Terminate, Exit, Handler, Listen, Shutdown, Arrive, Check, Serve, Gather,
        Answer, WriteOut, AgentOnly
<1>4. sample' \in [Requests -> [Cats -> Amounts \cup {Gone, Live}]]
    <2>1. CASE UNCHANGED sample
        BY <2>1 DEF ServerTypeOK
    <2>2. CASE CountAndReset
        BY <2>2 DEF CountAndReset, ServerTypeOK, RegistryTypeOK
    <2>3. ASSUME NEW r \in Requests, Gather(r) \/ Answer(r)
          PROVE  sample' \in [Requests -> [Cats -> Amounts \cup {Gone, Live}]]
        BY <2>3 DEF Gather, Answer, ServerTypeOK
    <2>4. ASSUME NEW r \in Requests, NEW c \in Cats, WriteOut(r, c)
          PROVE  sample' \in [Requests -> [Cats -> Amounts \cup {Gone, Live}]]
        BY <2>4 DEF WriteOut, ServerTypeOK, RegistryTypeOK
    <2> QED
        BY <2>1, <2>2, <2>3, <2>4
        DEF ExporterNext, ExporterDone, exporterVars, Signal, Loop, CycleFails, WindowCancelled,
            Collect, ReadSelf, CountPrediction, CreateSeries, SetSeries, SetRate, WakeUp,
            Terminate, Exit, Handler, Listen, Shutdown, Arrive, Check, Serve
<1> QED
    BY <1>1, <1>2, <1>3, <1>4 DEF ServerTypeOK

\* The types, with the clock and the count of the requests that they rest on.
LEMMA ExporterTypeCorrect == ExporterSpec => []ExporterTypeOK
<1> DEFINE All == SelfInv /\ IInv /\ ClockInv /\ HttpInv /\ ExporterTypeOK
<1>1. Begins => All
    BY SelfInit, InitIInv, ClockInit, HttpInit, TypeInit
<1>2. ASSUME All, [ExporterNext \/ ExporterDone]_exporterVars
      PROVE  All'
    <2>1. SelfInv' /\ IInv' /\ ClockInv' /\ HttpInv'
        BY <1>2, SelfInductive, StepIInv, ClockStep, HttpStep
    <2> QED
        BY <1>2, <2>1, LoopTypeStep, RegistryTypeStep, ServerTypeStep DEF ExporterTypeOK
<1> QED
    BY <1>1, <1>2, PTL DEF ExporterSpec

-----------------------------------------------------------------------------
(* The exporter beside the pod cache.                                      *)

\* Neither moves a variable of the other, so a behaviour of both is one of each.
THEOREM Composition == Spec => CacheSpec /\ ExporterSpec
<1>1. Init => CacheInit /\ Begins
    BY DEF Init, Begins
<1>2. [Next]_vars => [CacheNext]_cacheVars /\ [ExporterNext \/ ExporterDone]_exporterVars
    BY DEF Next, vars
<1> QED
    BY <1>1, <1>2, PTL DEF Spec, CacheSpec, ExporterSpec

\* Every variable of the cache and of the exporter keeps its type.
THEOREM TypeCorrect == Spec => []TypeOK
<1>1. CacheTypeOK /\ ExporterTypeOK => TypeOK
    BY DEF TypeOK
<1> QED
    BY <1>1, Composition, CacheTypeCorrect, ExporterTypeCorrect, PTL

\* All that is said of the cache and of the exporter alone holds of them side
\* by side: whose pod a lookup gives and how old it is, what a scrape sees, and
\* that an update of the metrics is one step.
THEOREM BothAreSafe ==
    Spec => /\ OwnPodWhenSteady /\ BoundedStaleness
            /\ ScrapedValuesBelongToACycle /\ ImplementsMetricsContract
            /\ []SelfCpuSpansTheGap
BY Composition, AnswersAreRecent, PodsAreOwn, ScrapesShowRealCounts, Refinement, SelfUsageIsHonest
=============================================================================
