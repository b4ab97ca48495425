---------------------------- MODULE CommandProofs ----------------------------
(***************************************************************************)
(* Proofs about the commands that run once, and about the node report, for *)
(* any processes, options, files and node: the spinner of Enrich and what  *)
(* it analyses, what NodeReport makes of files, and what Profile prints.   *)
(***************************************************************************)
EXTENDS MCCommands, DriftHistoryProofs, FiniteSetTheorems, WellFoundedInduction,
        NaturalsInduction, TLAPS

\* A set of numbers with a bound has a greatest.
LEMMA Greatest ==
    ASSUME NEW N \in Nat, NEW S \in SUBSET (0..N), S # {}
    PROVE  \E x \in S : \A y \in S : y <= x
<1> DEFINE T == {N - x : x \in S}
<1>1. T \subseteq Nat /\ T # {}
    <2>1. \A x \in S : N - x \in Nat
        BY S \in SUBSET (0..N), N \in Nat
    <2> QED
        BY <2>1
<1> HIDE DEF T
<1>2. PICK t \in T : \A u \in T : ~ (<<u, t>> \in OpToRel(<, Nat))
    BY <1>1, NatLessThanWellFounded, WFMin
<1>3. \A u \in T : ~ (u < t)
    BY <1>1, <1>2 DEF OpToRel
<1>4. PICK x \in S : t = N - x
    BY DEF T
<1>5. ASSUME NEW y \in S PROVE y <= x
    <2>1. N - y \in T
        BY DEF T
    <2> QED
        BY <2>1, <1>3, <1>4
<1> QED
    BY <1>5

\* The greatest of some integers between two bounds.
LEMMA MaxIsGreatest ==
    ASSUME NEW M \in Nat, NEW S \in SUBSET (-M..M), S # {}
    PROVE  Max(S) \in S /\ \A y \in S : y <= Max(S)
<1> DEFINE T == {x + M : x \in S}
<1>1. T \in SUBSET (0..2 * M) /\ T # {}
    <2>1. \A x \in S : x + M \in 0..2 * M
        BY S \in SUBSET (-M..M), M \in Nat
    <2> QED
        BY <2>1
<1>2. 2 * M \in Nat
    BY M \in Nat
<1> HIDE DEF T
<1>3. PICK t \in T : \A u \in T : u <= t
    BY <1>1, <1>2, Greatest
<1>4. PICK x \in S : t = x + M
    BY DEF T
<1>5. \A y \in S : y <= x
    <2> TAKE y \in S
    <2>1. y + M \in T
        BY DEF T
    <2>2. y + M <= x + M
        BY <2>1, <1>3, <1>4
    <2> QED
        BY <2>2, S \in SUBSET (-M..M), M \in Nat
<1>6. \E z \in S : \A y \in S : z >= y
    BY <1>5, S \in SUBSET (-M..M), M \in Nat
<1>7. Max(S) \in S /\ \A y \in S : Max(S) >= y
    BY <1>6 DEF Max
<1> QED
    BY <1>7, S \in SUBSET (-M..M), M \in Nat

-----------------------------------------------------------------------------
(* Enrich: the spinner.                                                    *)

\* The command is called, or it is not and rests.
EnrichBegins == EnrichInit \/ EnrichAt("returned")

EnrichSpec == EnrichBegins /\ [][EnrichNext]_enrichVars

\* The channel is closed before the line is cleared, and the goroutine, which
\* reads it before each frame, lives only until the report is out.  When it has
\* drawn over the report it will read the closed channel next.
SpinnerInv ==
    /\ spinner \in {"none", "checking", "drawing", "sleeping"}
    /\ lateFrames \in {0, 1}
    /\ phase \in {"clearing", "reporting"} => done
    /\ spinner # "none" => phase \in {"querying", "clearing", "reporting"}
    /\ lateFrames = 1 => phase \in {"reporting", "returned"} /\ spinner # "drawing"

\* The command begins without a spinner.
LEMMA SpinnerInit == EnrichBegins => SpinnerInv
BY DEF EnrichBegins, EnrichInit, EnrichAt, SpinnerInv

\* Nothing before the query, and nothing that the API does, is about the spinner.
LEMMA CommandStep ==
    ASSUME SpinnerInv, Command \/ Respond \/ EnrichSignal
    PROVE  SpinnerInv'
<1> USE DEF SpinnerInv, Steps, Return, drawing
<1>1. CASE Reject \/ Accept \/ Load \/ List
    BY <1>1 DEF Reject, Accept, Load, List
<1>2. CASE CollectFirst \/ WaitWindow \/ CollectSecond
    BY <1>2 DEF CollectFirst, WaitWindow, CollectSecond
<1>3. CASE Sort \/ Filter \/ Trim \/ PrintPayload
    BY <1>3 DEF Sort, Filter, Trim, PrintPayload
<1>4. CASE StartSpinner
    BY <1>4 DEF StartSpinner
<1>5. CASE Unsupported \/ TimeOut \/ Respond
    BY <1>5 DEF Unsupported, TimeOut, Respond, AnswerWith
<1>6. CASE CloseDone \/ ClearLine
    BY <1>6 DEF CloseDone, ClearLine
<1>7. CASE Report
    BY <1>7 DEF Report
<1>8. CASE EnrichSignal
    BY <1>8 DEF EnrichSignal
<1> QED
    BY <1>1, <1>2, <1>3, <1>4, <1>5, <1>6, <1>7, <1>8 DEF Command

\* A frame drawn over the report needs a goroutine that looked before the close.
LEMMA SpinnerStep ==
    ASSUME SpinnerInv, Spinner
    PROVE  SpinnerInv'
BY DEF SpinnerInv, Spinner, Spin, CheckDone, Draw, Wake

\* Every step keeps the invariant.
LEMMA SpinnerInductive == SpinnerInv /\ [EnrichNext]_enrichVars => SpinnerInv'
<1>1. ASSUME SpinnerInv, UNCHANGED enrichVars
      PROVE  SpinnerInv'
    BY <1>1 DEF SpinnerInv, enrichVars, drawing
<1> QED
    BY <1>1, CommandStep, SpinnerStep DEF EnrichNext, EnrichDone

\* At most one frame is drawn over the report, whenever the channel is closed.
THEOREM OneLateFrame == EnrichSpec => []AtMostOneLateFrame
<1>1. SpinnerInv => AtMostOneLateFrame
    BY DEF SpinnerInv, AtMostOneLateFrame
<1> QED
    BY <1>1, SpinnerInit, SpinnerInductive, PTL DEF EnrichSpec

-----------------------------------------------------------------------------
(* The predictions that are analysed.                                      *)

\* A live analysis of all processes.
LiveForAll == ~options.file /\ options.pid = 0

\* What has been measured is sorted, and what is left of it when it is trimmed
\* are the heaviest.
HeaviestInv ==
    /\ options.top \in Int
    /\ first \subseteq Pids /\ second \subseteq Pids
    /\ phase = "loading" => options.file
    /\ phase \in {"filtering", "trimming"} /\ LiveForAll => payload \in ByCpu
    /\ HeaviestAreAnalysed

\* The smaller of two numbers.
LEMMA MinOfTwo ==
    ASSUME NEW m \in Nat, NEW n \in Nat
    PROVE  Min({m, n}) = IF n > m THEN m ELSE n
BY DEF Min

\* A prefix of the predictions by CPU usage has the heaviest.
LEMMA PrefixIsHeaviest ==
    ASSUME NEW measured \in SUBSET Pids, NEW s \in SetToSeqs(measured),
           \A i, j \in DOMAIN s : i < j => CpuOf[s[i]] >= CpuOf[s[j]],
           NEW n \in Nat
    PROVE  LET cut == IF Len(s) > n THEN SubSeq(s, 1, n) ELSE s
               kept == ToSet(cut)
           IN  /\ kept \subseteq measured
               /\ Cardinality(kept) = Min({n, Cardinality(measured)})
               /\ \A p \in kept, q \in measured \ kept : CpuOf[p] >= CpuOf[q]
<1> DEFINE size == Cardinality(measured)
           cut == IF Len(s) > n THEN SubSeq(s, 1, n) ELSE s
           kept == ToSet(cut)
           length == IF size > n THEN n ELSE size
<1>1. IsFiniteSet(measured) /\ size \in Nat
    BY EnrichAssumption, FS_Subset, FS_CardinalityType
<1>2. /\ s \in [1..size -> measured] /\ s \in Seq(measured) /\ Len(s) = size /\ DOMAIN s = 1..size
      /\ \A i, j \in 1..size : i # j => s[i] # s[j]
    <2>1. s \in [1..size -> measured] /\ \A i, j \in 1..size : i # j => s[i] # s[j]
        BY DEF SetToSeqs
    <2> HIDE DEF size
    <2> QED
        BY <1>1, <2>1
<1> HIDE DEF size
<1>3. s \in Surjection(1..size, measured)
    <2>1. s \in Injection(1..size, measured)
        BY <1>2 DEF Injection, IsInjective
    <2>2. IsFiniteSet(1..size) /\ Cardinality(1..size) = size
        BY <1>1, FS_Interval
    <2> QED
        BY <1>1, <2>1, <2>2, FS_Injection DEF size
<1>4. length \in 0..size /\ length <= size /\ length \in Nat
    BY <1>1
<1>5. DOMAIN cut = 1..length /\ \A i \in 1..length : cut[i] = s[i]
    BY <1>1, <1>2
<1> HIDE DEF cut, length
<1>6. kept = {s[i] : i \in 1..length}
    BY <1>5 DEF ToSet
<1> HIDE DEF kept
<1>7. kept \subseteq measured
    BY <1>2, <1>4, <1>6
<1>8. Cardinality(kept) = length
    <2> DEFINE f == [i \in 1..length |-> s[i]]
    <2>1. f \in Surjection(1..length, kept)
        BY <1>6 DEF Surjection
    <2>2. f \in Injection(1..length, kept)
        BY <1>2, <1>4, <1>6 DEF Injection, IsInjective
    <2>3. IsFiniteSet(1..length) /\ Cardinality(1..length) = length
        BY <1>4, FS_Interval
    <2> HIDE DEF f
    <2> QED
        BY <2>1, <2>2, <2>3, FS_Surjection
<1>9. length = Min({n, size})
    BY <1>1, MinOfTwo DEF length
<1>10. ASSUME NEW p \in kept, NEW q \in measured \ kept PROVE CpuOf[p] >= CpuOf[q]
    <2>1. PICK i \in 1..length : p = s[i]
        BY <1>6
    <2>2. PICK j \in 1..size : q = s[j]
        BY <1>3 DEF Surjection
    <2>3. j \notin 1..length
        BY <1>6, <2>2
    <2>4. i < j /\ i \in DOMAIN s /\ j \in DOMAIN s
        BY <1>1, <1>2, <1>4, <2>1, <2>2, <2>3
    <2> QED
        BY <2>1, <2>2, <2>4
<1> QED
    BY <1>7, <1>8, <1>9, <1>10 DEF kept, cut, size

\* The command begins without predictions.
LEMMA HeaviestInit == EnrichBegins => HeaviestInv
BY EnrichAssumption DEF EnrichBegins, EnrichInit, EnrichAt, Options, HeaviestInv, HeaviestAreAnalysed

\* Trimming a list in order keeps the heaviest.
LEMMA TrimStep ==
    ASSUME HeaviestInv, Trim
    PROVE  HeaviestInv'
<1>1. UNCHANGED <<options, first, second>> /\ phase = "trimming" /\ phase' \in {"trimmed", "returned"}
    BY DEF Trim, Steps, Return
<1>2. ASSUME phase' = "trimmed", LiveForAll
      PROVE  HeaviestAreAnalysed'
    <2>1. /\ options.top \in Nat
          /\ payload' = IF Len(payload) > options.top THEN SubSeq(payload, 1, options.top)
                        ELSE payload
        BY <1>2 DEF Trim, Return, HeaviestInv
    <2>2. payload \in ByCpu /\ first \cap second \in SUBSET Pids
        BY <1>1, <1>2 DEF HeaviestInv
    <2>3. /\ payload \in SetToSeqs(first \cap second)
          /\ \A i, j \in DOMAIN payload : i < j => CpuOf[payload[i]] >= CpuOf[payload[j]]
        BY <2>2 DEF ByCpu
    <2>4. LET kept == ToSet(payload')
          IN  /\ kept \subseteq first \cap second
              /\ Cardinality(kept) = Min({options.top, Cardinality(first \cap second)})
              /\ \A p \in kept, q \in (first \cap second) \ kept : CpuOf[p] >= CpuOf[q]
        BY <2>1, <2>2, <2>3, PrefixIsHeaviest
    <2> QED
        BY <1>1, <2>4 DEF HeaviestAreAnalysed
<1>3. HeaviestAreAnalysed'
    BY <1>1, <1>2 DEF HeaviestAreAnalysed, LiveForAll
<1> QED
    BY <1>1, <1>3 DEF HeaviestInv, LiveForAll, ByCpu

\* Every step keeps the invariant.
LEMMA HeaviestStep == HeaviestInv /\ [EnrichNext]_enrichVars => HeaviestInv'
<1> SUFFICES ASSUME HeaviestInv, [EnrichNext]_enrichVars PROVE HeaviestInv'
    OBVIOUS
<1> USE DEF HeaviestInv, HeaviestAreAnalysed, LiveForAll, ByCpu, Steps, Return, capture
<1>1. CASE EnrichSignal \/ Spinner \/ UNCHANGED enrichVars
    BY <1>1 DEF EnrichSignal, Spinner, enrichVars
<1>2. CASE Reject \/ Accept \/ Load \/ List
    BY <1>2 DEF Reject, Accept, Load, List
<1>3. CASE CollectFirst \/ WaitWindow \/ CollectSecond
    BY <1>3 DEF CollectFirst, WaitWindow, CollectSecond
<1>4. CASE Sort
    BY <1>4 DEF Sort
<1>5. CASE Filter
    BY <1>5 DEF Filter
<1>6. CASE PrintPayload \/ StartSpinner
    BY <1>6 DEF PrintPayload, StartSpinner
<1>7. CASE Unsupported \/ TimeOut \/ Respond
    BY <1>7 DEF Unsupported, TimeOut, Respond, AnswerWith
<1>8. CASE CloseDone \/ ClearLine \/ Report
    BY <1>8 DEF CloseDone, ClearLine, Report
<1> QED
    BY <1>1, <1>2, <1>3, <1>4, <1>5, <1>6, <1>7, <1>8, TrimStep DEF EnrichNext, Command, EnrichDone

\* A live analysis is of the heaviest processes, however many are asked for and
\* whatever the two collections missed.
THEOREM AnalysisIsOfTheHeaviest == EnrichSpec => []HeaviestAreAnalysed
<1>1. HeaviestInv => HeaviestAreAnalysed
    BY DEF HeaviestInv
<1> QED
    BY <1>1, HeaviestInit, HeaviestStep, PTL DEF EnrichSpec

-----------------------------------------------------------------------------
(* NodeReport: the invariant of a cycle.                                   *)

\* What the pressure files found by this cycle come to.
Reads == [r \in Resources |-> readPSIFile(files.psi[r])]

\* The files are read once each, and the three sources get the status of all.
PsiInv ==
    /\ stage \in {"stat"} \cup Resources => "psi" \in features
    /\ \A s \in PsiSources :
           tracker[s] = IF "psi" \notin features \/ stage \in {"scan", "stat"} \cup Resources
                        THEN "disabled" ELSE psiData.status
    /\ IF "psi" \in features /\ stage \notin {"scan", "stat"}
       THEN psiData = PressureData(Reads)
       ELSE files.psi = [r \in Resources |-> NoFile] /\ psiData = NoPressure("disabled")

\* The profile is that of the files found by this cycle.
HardwareInv ==
    IF "hardware" \in features /\ stage \in {"build", "reported"}
    THEN /\ hwProfile = HardwareProfile(collectCPU(files.cpu, LogicalCores, files.pci),
                                        collectNUMA(files.numa), collectStorage(files.block))
         /\ tracker["hardware_cpu"] = Recorded(hwProfile.cpu.status)
         /\ tracker["hardware_numa"] = Recorded(hwProfile.numa.status)
         /\ tracker["hardware_storage"] = Recorded(hwProfile.storage.status)
    ELSE /\ hwProfile = DisabledProfile
         /\ files.cpu = Unreadable /\ files.numa = Unreadable /\ files.block = Unreadable
         /\ \A s \in HardwareSources : tracker[s] = "disabled"

FileTypes == [dir : BOOLEAN, psi : [Resources -> PsiFiles \cup {NoFile}],
              cpu : CpuInfos \cup {Unreadable}, pci : Vendors \cup {Unreadable},
              numa : NodeCounts \cup {Unreadable}, block : Blocks \cup {Unreadable}]

ReportInv ==
    /\ stage \in {"scan", "stat", "hardware", "build", "reported"} \cup Resources
    /\ files \in FileTypes
    /\ tracker \in [Sources -> DataStatus]
    /\ PsiInv
    /\ HardwareInv
    /\ stage = "reported" => compReport = Build(tracker)

-----------------------------------------------------------------------------
(* Pressure.                                                               *)

\* There are three resources, and a source of each kind for a finite number of
\* them.
LEMMA ThreeResources == IsFiniteSet(Resources) /\ Cardinality(Resources) = 3
<1>1. IsFiniteSet({"cpu"}) /\ Cardinality({"cpu"}) = 1
    BY FS_Singleton
<1>2. /\ IsFiniteSet({"cpu"} \cup {"memory"})
      /\ Cardinality({"cpu"} \cup {"memory"}) = 2
    BY <1>1, FS_AddElement
<1>3. /\ IsFiniteSet(({"cpu"} \cup {"memory"}) \cup {"io"})
      /\ Cardinality(({"cpu"} \cup {"memory"}) \cup {"io"}) = 3
    BY <1>2, FS_AddElement
<1>4. Resources = ({"cpu"} \cup {"memory"}) \cup {"io"}
    BY DEF Resources
<1> QED
    BY <1>3, <1>4

\* The status says whether none, all or some of the files were read.
LEMMA StatusOfReads ==
    ASSUME NEW read
    PROVE  /\ PressureStatus(read) \in {"no_data", "partial", "full"}
           /\ PressureStatus(read) = "full" <=> \A r \in Resources : read[r].available
           /\ PressureStatus(read) = "no_data" <=> \A r \in Resources : ~read[r].available
<1> DEFINE T == {r \in Resources : read[r].available}
<1>1. IsFiniteSet(T) /\ Cardinality(T) \in Nat
    BY ThreeResources, FS_Subset, FS_CardinalityType
<1>2. Cardinality(T) = 3 <=> \A r \in Resources : read[r].available
    <2>1. T \in SUBSET Resources
        OBVIOUS
    <2>2. Cardinality(T) = 3 => T = Resources
        BY <2>1, ThreeResources, FS_Subset
    <2> QED
        BY <2>2, ThreeResources
<1>3. Cardinality(T) = 0 <=> \A r \in Resources : ~read[r].available
    BY <1>1, FS_EmptySet
<1> HIDE DEF T
<1>4. PressureStatus(read) = IF Cardinality(T) = 0 THEN "no_data"
                             ELSE IF Cardinality(T) = 3 THEN "full" ELSE "partial"
    BY DEF PressureStatus, Readable, T
<1> QED
    BY <1>2, <1>3, <1>4

\* A directory that is missing is like three files that are.
LEMMA MissingDirectory == NoPressure("no_data") = PressureData([r \in Resources |-> readPSIFile(NoFile)])
<1> DEFINE read == [r \in Resources |-> readPSIFile(NoFile)]
<1>1. \A r \in Resources : ~read[r].available
    BY DEF readPSIFile
<1>2. Unavailable = read
    BY DEF Unavailable
<1> HIDE DEF read
<1>3. PressureStatus(read) = "no_data" /\ detectHighPressure(read) = {}
    BY <1>1, StatusOfReads DEF detectHighPressure
<1> QED
    BY <1>2, <1>3 DEF NoPressure, PressureData, read

\* An average is that of the last line with the word.
LEMMA AverageOfTheLast ==
    ASSUME NEW file \in PsiFiles, file # NoFile
    PROVE  Avg10(file, "full") >= 100 <=> Stalled(file)
<1> DEFINE lines == {i \in DOMAIN file : file[i].word = "full"}
           top == CHOOSE i \in lines : \A j \in lines : j <= i
<1>1. file \in Seq([word : STRING, avg10 : Nat])
    BY NodeReportAssumption
<1>2. DOMAIN file = 1..Len(file) /\ Len(file) \in Nat
    BY <1>1
<1>3. CASE lines = {}
    <2>1. Avg10(file, "full") = 0
        BY <1>3, Zenon DEF Avg10
    <2>2. ~Stalled(file)
        BY <1>3 DEF Stalled
    <2> QED
        BY <2>1, <2>2
<1>4. CASE lines # {}
    <2>1. lines \in SUBSET (0..Len(file)) /\ lines \subseteq DOMAIN file
        BY <1>2
    <2>2. Avg10(file, "full") = file[top].avg10
        BY <1>4, Zenon DEF Avg10
    <2>3. Stalled(file) <=> \E i \in lines : file[i].avg10 >= 100 /\ \A j \in lines : j <= i
        BY DEF Stalled
    <2> HIDE DEF lines
    <2>4. \E i \in lines : \A j \in lines : j <= i
        BY <1>2, <1>4, <2>1, Greatest
    <2>5. top \in lines /\ \A j \in lines : j <= top
        BY <2>4
    <2> HIDE DEF top
    <2>6. \A i \in lines : (\A j \in lines : j <= i) => i = top
        BY <1>2, <2>1, <2>5
    <2> QED
        BY <2>2, <2>3, <2>5, <2>6
<1> QED
    BY <1>3, <1>4

\* What the files found come to is what they say.
LEMMA PressureOfReads ==
    ASSUME NEW psi \in [Resources -> PsiFiles \cup {NoFile}],
           NEW data, data = PressureData([r \in Resources |-> readPSIFile(psi[r])])
    PROVE  /\ data.status \in {"no_data", "partial", "full"}
           /\ data.status = "full" <=> \A r \in Resources : psi[r] # NoFile
           /\ data.status = "no_data" <=> \A r \in Resources : psi[r] = NoFile
           /\ data.alert = {r \in Resources : psi[r] # NoFile /\ Stalled(psi[r])}
<1> DEFINE read == [r \in Resources |-> readPSIFile(psi[r])]
<1>1. data.status = PressureStatus(read) /\ data.alert = detectHighPressure(read)
    BY DEF PressureData
<1>2. \A r \in Resources : read[r].available <=> psi[r] # NoFile
    BY DEF readPSIFile
<1>3. ASSUME NEW r \in Resources, psi[r] # NoFile
      PROVE  read[r].full >= 100 <=> Stalled(psi[r])
    <2>1. read[r].full = Avg10(psi[r], "full")
        BY <1>3 DEF readPSIFile
    <2> QED
        BY <1>3, <2>1, AverageOfTheLast
<1> HIDE DEF read
<1>4. /\ data.status \in {"no_data", "partial", "full"}
      /\ data.status = "full" <=> \A r \in Resources : psi[r] # NoFile
      /\ data.status = "no_data" <=> \A r \in Resources : psi[r] = NoFile
    BY <1>1, <1>2, StatusOfReads
<1>5. data.alert = {r \in Resources : psi[r] # NoFile /\ Stalled(psi[r])}
    BY <1>1, <1>2, <1>3 DEF detectHighPressure
<1> QED
    BY <1>4, <1>5

-----------------------------------------------------------------------------
(* Hardware.                                                               *)

\* What a profile says of its parts is what the files it is made of say.
LEMMA HardwareOfFiles ==
    ASSUME hwProfile = HardwareProfile(collectCPU(files.cpu, LogicalCores, files.pci),
                                       collectNUMA(files.numa), collectStorage(files.block))
    PROVE  /\ hwProfile.cpu.status = "full" <=> Usable("hardware_cpu")
           /\ hwProfile.numa.status = "full" <=> Usable("hardware_numa")
           /\ hwProfile.storage.status = "full" <=> Usable("hardware_storage")
           /\ \A gpu \in {"nvidia", "amd"} :
                  gpu \in hwProfile.hints <=>
                      files.cpu # Unreadable /\ files.pci # Unreadable /\ gpu \in files.pci
           /\ "NUMA" \in hwProfile.hints <=> files.numa # Unreadable /\ files.numa > 1
<1> DEFINE cpu == collectCPU(files.cpu, LogicalCores, files.pci)
           numa == collectNUMA(files.numa)
           storage == collectStorage(files.block)
<1>1. /\ hwProfile.cpu = cpu /\ hwProfile.numa = numa /\ hwProfile.storage = storage
      /\ hwProfile.hints = generateHints(cpu, numa, storage)
    BY DEF HardwareProfile
<1>2. /\ cpu.status = "full" <=> Usable("hardware_cpu")
      /\ cpu.gpus \subseteq {"nvidia", "amd"}
      /\ \A gpu \in {"nvidia", "amd"} :
             gpu \in cpu.gpus <=>
                 files.cpu # Unreadable /\ files.pci # Unreadable /\ gpu \in files.pci
    BY DEF collectCPU, CpuStatus, detectGPU, Usable
<1>3. /\ numa.status = "full" <=> Usable("hardware_numa")
      /\ numa.nodes > 1 <=> files.numa # Unreadable /\ files.numa > 1
    BY DEF collectNUMA, Usable
<1>4. storage.status = "full" <=> Usable("hardware_storage")
    BY DEF collectStorage, Disks, Usable
<1> HIDE DEF cpu, numa, storage
<1>5. /\ \A gpu \in {"nvidia", "amd"} :
             gpu \in generateHints(cpu, numa, storage) <=> gpu \in cpu.gpus
      /\ "NUMA" \in generateHints(cpu, numa, storage) <=> numa.nodes > 1
    BY <1>2 DEF generateHints
<1> QED
    BY <1>1, <1>2, <1>3, <1>4, <1>5

-----------------------------------------------------------------------------
(* Completeness.                                                           *)

\* There are finitely many sources.
LEMMA SourcesAreFinite == IsFiniteSet(Sources)
<1>1. ASSUME NEW a, NEW b, NEW c PROVE IsFiniteSet({a, b, c})
    <2>1. IsFiniteSet(({a} \cup {b}) \cup {c})
        BY FS_Singleton, FS_AddElement
    <2>2. {a, b, c} = ({a} \cup {b}) \cup {c}
        OBVIOUS
    <2> QED
        BY <2>1, <2>2
<1>2. IsFiniteSet(PsiSources) /\ IsFiniteSet(HardwareSources) /\ IsFiniteSet(OtherSources)
    BY <1>1 DEF PsiSources, HardwareSources, OtherSources
<1>3. IsFiniteSet(ProcessSources)
    <2>1. IsFiniteSet({"proc_basic", "proc_io", "proc_fd_types"} \cup {"proc_ctx_switches"})
        BY <1>1, FS_AddElement
    <2>2. ProcessSources =
              {"proc_basic", "proc_io", "proc_fd_types"} \cup {"proc_ctx_switches"}
        BY DEF ProcessSources
    <2> QED
        BY <2>1, <2>2
<1> QED
    BY <1>2, <1>3, FS_Union DEF Sources

\* Disjoint sets add up.
LEMMA DisjointSets ==
    ASSUME NEW S, NEW T, IsFiniteSet(S), IsFiniteSet(T), S \cap T = {}
    PROVE  IsFiniteSet(S \cup T) /\ Cardinality(S \cup T) = Cardinality(S) + Cardinality(T)
<1>1. Cardinality(S) \in Nat /\ Cardinality(T) \in Nat /\ Cardinality(S \cap T) = 0
    BY FS_CardinalityType, FS_EmptySet
<1>2. /\ IsFiniteSet(S \cup T)
      /\ Cardinality(S \cup T) = Cardinality(S) + Cardinality(T) - Cardinality(S \cap T)
    BY FS_Union
<1> QED
    BY <1>1, <1>2

\* Every source counts once, under its status.
LEMMA StatusesAddUp ==
    ASSUME NEW map \in [Sources -> DataStatus]
    PROVE  /\ \A status \in DataStatus : With(map, status) \in Nat
           /\ Cardinality(Sources) = With(map, "full") + With(map, "partial")
                                     + With(map, "no_data") + With(map, "disabled")
           /\ \A status \in DataStatus :
                  With(map, status) = 0 <=> \A s \in Sources : map[s] # status
<1> DEFINE Having(status) == {s \in Sources : map[s] = status}
<1>1. ASSUME NEW status
      PROVE  IsFiniteSet(Having(status)) /\ Cardinality(Having(status)) \in Nat
    BY SourcesAreFinite, FS_Subset, FS_CardinalityType
<1>2. /\ Having("full") \cap Having("partial") = {}
      /\ (Having("full") \cup Having("partial")) \cap Having("no_data") = {}
      /\ (Having("full") \cup Having("partial") \cup Having("no_data")) \cap Having("disabled") = {}
      /\ Sources = Having("full") \cup Having("partial") \cup Having("no_data") \cup Having("disabled")
    BY DEF DataStatus
<1>3. \A status : With(map, status) = Cardinality(Having(status))
    BY DEF With
<1>4. \A status : Cardinality(Having(status)) = 0 <=> \A s \in Sources : map[s] # status
    BY <1>1, FS_EmptySet
<1> HIDE DEF Having
<1>5. /\ IsFiniteSet(Having("full") \cup Having("partial"))
      /\ Cardinality(Having("full") \cup Having("partial")) =
             Cardinality(Having("full")) + Cardinality(Having("partial"))
    BY <1>1, <1>2, DisjointSets
<1>6. /\ IsFiniteSet(Having("full") \cup Having("partial") \cup Having("no_data"))
      /\ Cardinality(Having("full") \cup Having("partial") \cup Having("no_data")) =
             Cardinality(Having("full")) + Cardinality(Having("partial")) + Cardinality(Having("no_data"))
    BY <1>1, <1>2, <1>5, DisjointSets
<1>7. Cardinality(Sources) = Cardinality(Having("full")) + Cardinality(Having("partial"))
                             + Cardinality(Having("no_data")) + Cardinality(Having("disabled"))
    BY <1>1, <1>2, <1>6, DisjointSets
<1> QED
    BY <1>1, <1>3, <1>4, <1>7

\* The level is full when nothing that is enabled fell short, and only then.
LEMMA FullMeansFull ==
    ASSUME NEW map \in [Sources -> DataStatus]
    PROVE  Level(Score(map)) = "Full" <=> \A s \in Sources : map[s] \in {"full", "disabled"}
<1> DEFINE F == With(map, "full")
           P == With(map, "partial")
           N == With(map, "no_data")
           D == With(map, "disabled")
<1>1. F \in Nat /\ P \in Nat /\ N \in Nat /\ D \in Nat
    BY StatusesAddUp DEF DataStatus
<1>2. /\ P = 0 <=> \A s \in Sources : map[s] # "partial"
      /\ N = 0 <=> \A s \in Sources : map[s] # "no_data"
    BY StatusesAddUp DEF DataStatus
<1>3. Cardinality(Sources) = F + P + N + D
    BY StatusesAddUp
<1>4. (P = 0 /\ N = 0) <=> \A s \in Sources : map[s] \in {"full", "disabled"}
    BY <1>2 DEF DataStatus
<1>5. CASE \A s \in Sources : map[s] = "disabled"
    <2>1. Score(map) = <<1, 1>>
        BY <1>5 DEF Score
    <2>2. Level(Score(map)) = "Full"
        BY <2>1 DEF Level
    <2> QED
        BY <1>5, <2>2
<1>6. CASE ~ \A s \in Sources : map[s] = "disabled"
    <2>1. Score(map) = <<2 * F + P, 2 * (Cardinality(Sources) - D)>>
        BY <1>6 DEF Score
    <2> HIDE DEF F, P, N, D
    <2>2. PICK x \in Nat, y \in Nat : x = 2 * F + P /\ y = 2 * (F + P + N)
        BY <1>1
    <2>3. Score(map) = <<x, y>>
        BY <1>1, <1>3, <2>1, <2>2
    <2>4. Level(<<x, y>>) = "Full" <=> x >= y
        BY DEF Level
    <2>5. x >= y <=> P = 0 /\ N = 0
        BY <1>1, <2>2
    <2> QED
        BY <1>4, <2>3, <2>4, <2>5
<1> QED
    BY <1>5, <1>6

-----------------------------------------------------------------------------
(* The cycle.                                                              *)

\* Nothing is read at first.
LEMMA ReportInitInv == ReportInit => ReportInv
BY DEF ReportInit, ReportInv, PsiInv, HardwareInv, FileTypes, NoFiles, NewTracker, DataStatus,
       Sources, PsiSources, HardwareSources, Resources, Reads

\* A cycle begins without knowledge of the one before.
LEMMA ScanStep == ASSUME ReportInv, Scan PROVE ReportInv'
<1>1. files' = NoFiles
    BY DEF Scan
<1>2. /\ psiData' = NoPressure("disabled") /\ hwProfile' = DisabledProfile
      /\ features' = features
      /\ stage' = IF "psi" \in features THEN "stat" ELSE "hardware"
    BY DEF Scan
<1>3. /\ tracker' \in [Sources -> DataStatus]
      /\ \A s \in PsiSources \cup HardwareSources : tracker'[s] = "disabled"
    BY DEF Scan, Record, NewTracker, DataStatus, Sources, PsiSources, HardwareSources,
           ProcessSources
<1>4. /\ files' \in FileTypes /\ files'.psi = [r \in Resources |-> NoFile]
      /\ files'.cpu = Unreadable /\ files'.numa = Unreadable /\ files'.block = Unreadable
    BY <1>1 DEF NoFiles, FileTypes
<1>5. PsiInv'
    BY <1>2, <1>3, <1>4 DEF PsiInv, Resources
<1>6. HardwareInv'
    BY <1>2, <1>3, <1>4 DEF HardwareInv
<1> QED
    BY <1>2, <1>3, <1>4, <1>5, <1>6 DEF ReportInv

\* A status recorded for the pressure sources changes no other source.
LEMMA RecordedPressure ==
    ASSUME tracker \in [Sources -> DataStatus], NEW data, data.status \in DataStatus
    PROVE  /\ RecordPressure(data) \in [Sources -> DataStatus]
           /\ \A s \in PsiSources : RecordPressure(data)[s] = data.status
           /\ \A s \in HardwareSources : RecordPressure(data)[s] = tracker[s]
BY DEF RecordPressure, Record, Sources, PsiSources, HardwareSources

\* The missing directory is on record at once.
LEMMA StatStep == ASSUME ReportInv, StatPressure PROVE ReportInv'
<1>1. PICK exists \in BOOLEAN :
          /\ stage = "stat"
          /\ files' = [files EXCEPT !.dir = exists]
          /\ psiData' = NoPressure("no_data")
          /\ stage' = IF exists THEN "cpu" ELSE "hardware"
          /\ tracker' = IF exists THEN tracker ELSE RecordPressure(psiData')
          /\ UNCHANGED <<features, hwProfile>>
    BY DEF StatPressure
<1>2. files' \in FileTypes /\ files'.psi = files.psi
    BY <1>1 DEF ReportInv, FileTypes
<1>3. "psi" \in features /\ files.psi = [r \in Resources |-> NoFile]
    BY <1>1 DEF ReportInv, PsiInv
<1>4. psiData' = PressureData([r \in Resources |-> readPSIFile(NoFile)])
    BY <1>1, MissingDirectory
<1>5. psiData' = PressureData(Reads)'
    <2>1. Reads' = [r \in Resources |-> readPSIFile(NoFile)]
        BY <1>2, <1>3 DEF Reads
    <2> QED
        BY <1>4, <2>1
<1>6. psiData'.status = "no_data"
    BY <1>1 DEF NoPressure
<1>7. /\ RecordPressure(psiData') \in [Sources -> DataStatus]
      /\ \A s \in PsiSources : RecordPressure(psiData')[s] = psiData'.status
      /\ \A s \in HardwareSources : RecordPressure(psiData')[s] = tracker[s]
    BY <1>6, RecordedPressure DEF ReportInv, DataStatus
<1>8. PsiInv'
    BY <1>1, <1>3, <1>5, <1>7 DEF ReportInv, PsiInv, Resources
<1>9. HardwareInv'
    BY <1>1, <1>7 DEF ReportInv, HardwareInv
<1> QED
    BY <1>1, <1>2, <1>7, <1>8, <1>9 DEF ReportInv, Resources

\* The status of the three is recorded after the last of them.
LEMMA PressureStep == ASSUME ReportInv, NEW r \in Resources, ReadPressure(r) PROVE ReportInv'
<1>1. PICK file \in PsiFiles :
          /\ stage = r
          /\ files' = [files EXCEPT !.psi[r] = file]
          /\ psiData' = PressureData([psiData.read EXCEPT ![r] = readPSIFile(files'.psi[r])])
          /\ tracker' = IF r = "io" THEN RecordPressure(psiData') ELSE tracker
          /\ stage' = NextFile[r]
          /\ UNCHANGED <<features, hwProfile>>
    BY DEF ReadPressure
<1>2. /\ files' \in FileTypes
      /\ files'.psi = [files.psi EXCEPT ![r] = file]
      /\ files.psi \in [Resources -> PsiFiles \cup {NoFile}]
    BY <1>1 DEF ReportInv, FileTypes
<1>3. "psi" \in features /\ psiData = PressureData(Reads)
    BY <1>1 DEF ReportInv, PsiInv, Resources
<1>4. psiData.read = Reads
    BY <1>3 DEF PressureData
<1>5. psiData' = PressureData(Reads)'
    <2>1. [psiData.read EXCEPT ![r] = readPSIFile(files'.psi[r])] = Reads'
        BY <1>2, <1>4 DEF Reads
    <2> QED
        BY <1>1, <2>1
<1>6. psiData'.status \in {"no_data", "partial", "full"}
    <2>1. files'.psi \in [Resources -> PsiFiles \cup {NoFile}]
        BY <1>2
    <2> QED
        BY <1>5, <2>1, PressureOfReads DEF Reads
<1>7. /\ RecordPressure(psiData') \in [Sources -> DataStatus]
      /\ \A s \in PsiSources : RecordPressure(psiData')[s] = psiData'.status
      /\ \A s \in HardwareSources : RecordPressure(psiData')[s] = tracker[s]
    BY <1>6, RecordedPressure DEF ReportInv, DataStatus
<1>8. stage' \in {"memory", "io", "hardware"} /\ (stage' = "hardware" <=> r = "io")
    BY <1>1 DEF NextFile, Resources
<1>9. PsiInv'
    BY <1>1, <1>3, <1>5, <1>7, <1>8 DEF ReportInv, PsiInv, Resources
<1>10. HardwareInv'
    BY <1>1, <1>7, <1>8 DEF ReportInv, HardwareInv, Resources
<1> QED
    BY <1>1, <1>2, <1>7, <1>8, <1>9, <1>10 DEF ReportInv, Resources

\* The profile is made of what is found, whatever that is.
LEMMA HardwareStep == ASSUME ReportInv, ReadHardware PROVE ReportInv'
<1>1. PICK info \in CpuInfos, vendors \in Vendors, nodes \in NodeCounts, block \in Blocks :
          /\ files' = [files EXCEPT !.cpu = info, !.numa = nodes, !.block = block,
                                    !.pci = IF info = Unreadable THEN Unreadable ELSE vendors]
          /\ hwProfile' = HardwareProfile(collectCPU(info, LogicalCores, vendors),
                                          collectNUMA(nodes), collectStorage(block))
    BY DEF ReadHardware
<1>2. /\ stage = "hardware" /\ stage' = "build" /\ "hardware" \in features
      /\ tracker' = RecordHardware(hwProfile')
      /\ UNCHANGED <<features, psiData>>
    BY DEF ReadHardware
<1>3. /\ files' \in FileTypes /\ files'.psi = files.psi
      /\ files'.cpu = info /\ files'.numa = nodes /\ files'.block = block
      /\ files'.pci = IF info = Unreadable THEN Unreadable ELSE vendors
    BY <1>1 DEF ReportInv, FileTypes
<1>4. collectCPU(info, LogicalCores, vendors) = collectCPU(files'.cpu, LogicalCores, files'.pci)
    BY <1>3 DEF collectCPU
<1>5. /\ tracker' \in [Sources -> DataStatus]
      /\ \A s \in PsiSources : tracker'[s] = tracker[s]
      /\ tracker'["hardware_cpu"] = Recorded(hwProfile'.cpu.status)
      /\ tracker'["hardware_numa"] = Recorded(hwProfile'.numa.status)
      /\ tracker'["hardware_storage"] = Recorded(hwProfile'.storage.status)
    <2>1. \A status : Recorded(status) \in DataStatus
        BY DEF Recorded, DataStatus
    <2> HIDE DEF Recorded
    <2> QED
        BY <1>2, <2>1 DEF ReportInv, RecordHardware, Sources, PsiSources, HardwareSources
<1>6. HardwareInv'
    BY <1>1, <1>2, <1>3, <1>4, <1>5 DEF HardwareInv
<1>7. PsiInv'
    BY <1>2, <1>3, <1>5 DEF ReportInv, PsiInv, Reads, Resources
<1> QED
    BY <1>2, <1>3, <1>5, <1>6, <1>7 DEF ReportInv

\* The report is built from the tracker as it is.
LEMMA BuildStep == ASSUME ReportInv, SkipHardware \/ BuildReport PROVE ReportInv'
<1>1. CASE SkipHardware
    BY <1>1 DEF SkipHardware, ReportInv, PsiInv, HardwareInv, Reads, Resources
<1>2. CASE BuildReport
    <2>1. /\ stage = "build" /\ stage' = "reported" /\ compReport' = Build(tracker')
          /\ UNCHANGED <<features, files, psiData, hwProfile>>
        BY <1>2 DEF BuildReport
    <2>2. /\ tracker' \in [Sources -> DataStatus]
          /\ \A s \in PsiSources \cup HardwareSources : tracker'[s] = tracker[s]
        BY <1>2 DEF BuildReport, Record, ReportInv, DataStatus, Sources, PsiSources, HardwareSources
    <2>3. PsiInv'
        BY <2>1, <2>2 DEF ReportInv, PsiInv, Reads, Resources
    <2>4. HardwareInv'
        BY <2>1, <2>2 DEF ReportInv, HardwareInv, HardwareSources
    <2> QED
        BY <2>1, <2>2, <2>3, <2>4 DEF ReportInv
<1> QED
    BY <1>1, <1>2

\* Every step of a cycle keeps the invariant.
LEMMA ReportStep == ReportInv /\ [ReportNext]_reportVars => ReportInv'
<1>1. ASSUME ReportInv, UNCHANGED reportVars PROVE ReportInv'
    BY <1>1 DEF reportVars, ReportInv, PsiInv, HardwareInv, Reads
<1> QED
    BY <1>1, ScanStep, StatStep, PressureStep, HardwareStep, BuildStep DEF ReportNext

\* What is on record for a finished report is what the files were.
LEMMA ReportInvMatches == ReportInv => ReportMatchesFiles
<1> SUFFICES ASSUME ReportInv, stage = "reported"
             PROVE  /\ PressureMatchesFiles /\ HardwareMatchesFiles
                    /\ compReport.level = "Full" <=>
                           \A s \in Sources : Reached(s) \in {"full", "disabled"}
    BY DEF ReportMatchesFiles
<1>1. compReport.level = Level(Score(tracker)) /\ \A s : Reached(s) = tracker[s]
    BY DEF ReportInv, Build, Reached
<1>2. files.psi \in [Resources -> PsiFiles \cup {NoFile}] /\ tracker \in [Sources -> DataStatus]
    BY DEF ReportInv, FileTypes
<1>3. PressureMatchesFiles
    <2>1. CASE "psi" \in features
        <3>1. psiData = PressureData(Reads) /\ \A s \in PsiSources : tracker[s] = psiData.status
            BY <2>1 DEF ReportInv, PsiInv, Resources
        <3>2. /\ psiData.status \in {"no_data", "partial", "full"}
              /\ psiData.status = "full" <=> \A r \in Resources : files.psi[r] # NoFile
              /\ psiData.status = "no_data" <=> \A r \in Resources : files.psi[r] = NoFile
              /\ psiData.alert = {r \in Resources : files.psi[r] # NoFile /\ Stalled(files.psi[r])}
            BY <1>2, <3>1, PressureOfReads DEF Reads
        <3>3. /\ Found = {} <=> \A r \in Resources : files.psi[r] = NoFile
              /\ Found = Resources <=> \A r \in Resources : files.psi[r] # NoFile
            BY DEF Found
        <3>4. psiData.alert = {r \in Found : Stalled(files.psi[r])}
            BY <3>2 DEF Found
        <3> QED
            BY <1>1, <2>1, <3>1, <3>2, <3>3, <3>4 DEF PressureMatchesFiles
    <2>2. CASE "psi" \notin features
        <3>1. /\ \A s \in PsiSources : Reached(s) = "disabled"
              /\ psiData.alert = {}
              /\ \A r \in Resources : files.psi[r] = NoFile
            BY <1>1, <2>2 DEF ReportInv, PsiInv, NoPressure
        <3>2. Found = {}
            BY <3>1 DEF Found
        <3> QED
            BY <2>2, <3>1, <3>2 DEF PressureMatchesFiles, Resources
    <2> QED
        BY <2>1, <2>2
<1>4. HardwareMatchesFiles
    <2>1. CASE "hardware" \in features
        <3>1. /\ hwProfile = HardwareProfile(collectCPU(files.cpu, LogicalCores, files.pci),
                                        collectNUMA(files.numa), collectStorage(files.block))
              /\ tracker["hardware_cpu"] = Recorded(hwProfile.cpu.status)
              /\ tracker["hardware_numa"] = Recorded(hwProfile.numa.status)
              /\ tracker["hardware_storage"] = Recorded(hwProfile.storage.status)
            BY <2>1 DEF ReportInv, HardwareInv
        <3>2. \A status : Recorded(status) = IF status = "full" THEN "full" ELSE "no_data"
            BY DEF Recorded
        <3>3. \A s \in HardwareSources : Reached(s) = IF Usable(s) THEN "full" ELSE "no_data"
            BY <1>1, <3>1, <3>2, HardwareOfFiles DEF HardwareSources
        <3> QED
            BY <2>1, <3>1, <3>3, HardwareOfFiles DEF HardwareMatchesFiles
    <2>2. CASE "hardware" \notin features
        <3>1. /\ \A s \in HardwareSources : Reached(s) = "disabled"
              /\ hwProfile.hints = {}
              /\ files.cpu = Unreadable /\ files.numa = Unreadable /\ files.block = Unreadable
            BY <1>1, <2>2 DEF ReportInv, HardwareInv, DisabledProfile
        <3>2. \A s : ~Usable(s)
            BY <3>1 DEF Usable
        <3> QED
            BY <2>2, <3>1, <3>2 DEF HardwareMatchesFiles
    <2> QED
        BY <2>1, <2>2
<1>5. compReport.level = "Full" <=> \A s \in Sources : Reached(s) \in {"full", "disabled"}
    BY <1>1, <1>2, FullMeansFull
<1> QED
    BY <1>3, <1>4, <1>5

\* A finished report says of pressure and hardware what the files of its cycle
\* say, for any contents of them and any that change, appear or vanish while they
\* are read.  It says nothing of the sources that no file is read for.
THEOREM ReportsMatchFiles == ReportSpec => []ReportMatchesFiles
BY ReportInitInv, ReportStep, ReportInvMatches, PTL DEF ReportSpec

-----------------------------------------------------------------------------
(* Profile: the invariant of the two samples.                              *)

\* The command is called, or it is not and rests.
ProfileBegins == ProfileInit \/ ProfileAt("failed")

ProfileSpec == ProfileBegins /\ [][ProfileNext]_profileVars

\* The fields of a sample that is begun, and of one that is complete.
Begun(s) == DOMAIN s = {"name", "cmdline", "born", "missed", "taken"}
Whole(s) == DOMAIN s = {"name", "cmdline", "born", "missed", "taken", "cpu", "reads", "writes",
                        "switches", "memory", "threads", "sockets", "fds"}

Sampling == {"first", "window", "second", "sampled", "printed"}

\* What runs under the PID, and the first sample.
FirstInv ==
    /\ clock \in Nat
    /\ proc # Vacant =>
           proc \in [program : Programs, born : Nat, ran : Nat] /\ proc.born <= clock
    /\ step \in Sampling =>
           /\ Begun(s1) \/ Whole(s1)
           /\ step = "first" => Begun(s1)
           /\ s1.taken \in Nat /\ s1.taken <= clock
           /\ owners[1] \in Nat /\ owners[1] <= s1.taken
           /\ proc # Vacant => proc.born = owners[1] \/ proc.born >= s1.taken

\* The second sample is of a process that was there in time, and so is what runs
\* since.
SecondInv ==
    /\ step \in {"second", "sampled", "printed"} =>
           /\ s2.taken \in Nat /\ s2.taken <= clock
           /\ s2.born # Vacant =>
                  /\ s2.born \in Nat /\ s2.born <= clock
                  /\ proc # Vacant => s2.born <= proc.born
                  /\ owners[1] # owners[2] => s2.born >= s1.taken
           /\ proc # Vacant /\ owners[1] # owners[2] => proc.born >= s1.taken
    /\ step = "second" => Begun(s2)
    /\ step \in {"sampled", "printed"} => Whole(s2) /\ s2.fds \in Nat /\ s2.sockets \in Nat

\* What is printed is a prediction with advice or an explanation.
PrintedInv ==
    step = "printed" =>
        \E similar \in Similarities :
            LET stats == Joined(CalculateRateStats(s1, s2), [similar |-> similar])
            IN  \E p \in Predict(stats) :
                    \/ report = Joined(Joined(p, [stats |-> stats]), Advised(stats, p.primary))
                    \/ \E x \in Explanations(p, stats) :
                           report = Joined(Joined(p, [stats |-> stats]), x)

ProfileInv == FirstInv /\ SecondInv /\ PrintedInv

\* Nothing has been sampled at first.
LEMMA ProfileInitInv == ProfileBegins => ProfileInv
BY DEF ProfileBegins, ProfileInit, ProfileAt, ProfileInv, FirstInv, SecondInv, PrintedInv, Sampling

\* The processes come and go; those that come are not older than the command.
LEMMA ProcessesStep ==
    ASSUME ProfileInv, Elapse \/ Exits \/ \E program \in Successors : Starts(program)
    PROVE  ProfileInv'
<1> USE DEF ProfileInv, FirstInv, SecondInv, PrintedInv, NodeOnly, Seen, samples, Sampling
<1>1. CASE Elapse
    BY <1>1 DEF Elapse, Begun, Whole
<1>2. CASE Exits
    BY <1>2 DEF Exits, Begun, Whole
<1>3. ASSUME NEW program \in Successors, Starts(program) PROVE ProfileInv'
    <2>1. program \in Programs
        BY ProfileAssumption
    <2> QED
        BY <1>3, <2>1 DEF Starts, Begun, Whole
<1> QED
    BY <1>1, <1>2, <1>3

\* What identifies a process.
LEMMA Identified ==
    ASSUME NEW cached, NEW missed, FirstInv, proc # Vacant
    PROVE  /\ Begun(Identity(cached, missed))
           /\ Identity(cached, missed).taken = clock
           /\ Identity(cached, missed).born \in {Vacant, proc.born}
BY DEF Identity, Begun

\* The counters of a sample that is begun complete it.
LEMMA Completed ==
    ASSUME FirstInv, NEW s, Begun(s), NEW t \in Complete(s)
    PROVE  /\ Whole(t) /\ t.taken = s.taken
           /\ t.fds \in Nat /\ t.sockets \in Nat
           /\ t.born = s.born \/ t.born = Vacant \/ (proc # Vacant /\ t.born = proc.born)
<1> DEFINE counters == Counters(s.missed)
<1>1. /\ DOMAIN counters = {"cpu", "reads", "writes", "switches", "memory", "threads",
                            "sockets", "fds", "born"}
      /\ counters.born = Vacant \/ (proc # Vacant /\ counters.born = proc.born)
    BY DEF Counters
<1>2. counters.fds \in Nat /\ counters.sockets \in Nat
    <2>1. proc # Vacant => proc.program.fds \in Nat /\ proc.program.sockets \in Nat
        BY ProfileAssumption DEF FirstInv
    <2> QED
        BY <2>1 DEF Counters
<1>3. t = Joined(s, counters) \/ t = Joined(counters, s)
    BY DEF Complete
<1> HIDE DEF counters
<1>4. CASE t = Joined(s, counters)
    <2>1. DOMAIN t = DOMAIN s \cup DOMAIN counters
        BY <1>4 DEF Joined
    <2>2. t.taken = s.taken /\ t.born = s.born
        BY <1>4 DEF Begun, Joined
    <2>3. t.fds = counters.fds /\ t.sockets = counters.sockets
        BY <1>1, <1>4 DEF Begun, Joined
    <2> QED
        BY <1>1, <1>2, <2>1, <2>2, <2>3 DEF Begun, Whole
<1>5. CASE t = Joined(counters, s)
    <2>1. DOMAIN t = DOMAIN s \cup DOMAIN counters
        BY <1>5 DEF Joined
    <2>2. t.fds = counters.fds /\ t.sockets = counters.sockets /\ t.born = counters.born
        BY <1>1, <1>5 DEF Joined
    <2>3. t.taken = s.taken
        BY <1>1, <1>5 DEF Begun, Joined
    <2> QED
        BY <1>1, <1>2, <2>1, <2>2, <2>3 DEF Begun, Whole
<1> QED
    BY <1>3, <1>4, <1>5

\* Sampling twice.
LEMMA SamplingStep ==
    ASSUME ProfileInv, \/ Refuse \/ NotFound \/ ReadFirst \/ ReadSecond
                       \/ \E missed \in Misses : FindFirst(missed) \/ FindSecond(missed)
    PROVE  ProfileInv'
<1> USE DEF ProfileInv, FirstInv, SecondInv, PrintedInv, GoOn, table, samples, Sampling
<1>1. CASE Refuse \/ NotFound
    BY <1>1 DEF Refuse, NotFound
<1>2. ASSUME NEW missed \in Misses, FindFirst(missed) PROVE ProfileInv'
    <2>1. /\ Begun(s1') /\ s1'.taken = clock /\ owners' = <<proc.born, Vacant>>
          /\ step' = "first" /\ proc # Vacant /\ UNCHANGED <<clock, proc>>
        BY <1>2, Identified DEF FindFirst
    <2> QED
        BY <2>1
<1>3. CASE ReadFirst
    <2>1. /\ Whole(s1') /\ s1'.taken = s1.taken
          /\ step = "first" /\ step' = "window" /\ UNCHANGED <<clock, proc, owners>>
        BY <1>3, Completed DEF ReadFirst
    <2> QED
        BY <2>1
<1>4. ASSUME NEW missed \in Misses, FindSecond(missed) PROVE ProfileInv'
    <2>1. /\ Begun(s2') /\ s2'.taken = clock /\ s2'.born \in {Vacant, proc.born}
          /\ owners' = <<owners[1], proc.born>> /\ proc # Vacant
          /\ step = "window" /\ step' = "second" /\ UNCHANGED <<clock, proc, s1>>
        BY <1>4, Identified DEF FindSecond, Elapsed
    <2> QED
        BY <2>1
<1>5. CASE ReadSecond
    <2>1. /\ Whole(s2') /\ s2'.taken = s2.taken /\ s2'.fds \in Nat /\ s2'.sockets \in Nat
          /\ s2'.born = s2.born \/ s2'.born = Vacant \/ (proc # Vacant /\ s2'.born = proc.born)
          /\ step = "second" /\ step' = "sampled" /\ UNCHANGED <<clock, proc, s1, owners>>
        BY <1>5, Completed DEF ReadSecond
    <2> QED
        BY <2>1
<1> QED
    BY <1>1, <1>2, <1>3, <1>4, <1>5

\* What is printed is concluded from the samples.
LEMMA ConcludeStep ==
    ASSUME ProfileInv, NEW similar \in Similarities, Conclude(similar)
    PROVE  ProfileInv'
<1>1. /\ step = "sampled" /\ step' = "printed"
      /\ UNCHANGED <<clock, linux, settings, proc, s1, s2, owners>>
    BY DEF Conclude, table, samples
<1>2. FirstInv' /\ SecondInv'
    BY <1>1 DEF ProfileInv, FirstInv, SecondInv, Sampling, Begun, Whole
<1>3. CalculateRateStats(s1, s2)' = CalculateRateStats(s1, s2)
    BY <1>1 DEF CalculateRateStats, Age, Rate
<1>4. ASSUME NEW stats, NEW c PROVE Advised(stats, c)' = Advised(stats, c)
    BY <1>1 DEF Advised
<1> DEFINE stats == Joined(CalculateRateStats(s1, s2), [similar |-> similar])
<1>5. \E p \in Predict(stats) :
          \/ report' = Joined(Joined(p, [stats |-> stats]), Advised(stats, p.primary))
          \/ \E x \in Explanations(p, stats) : report' = Joined(Joined(p, [stats |-> stats]), x)
    BY Zenon DEF Conclude
<1>6. PrintedInv'
    BY <1>3, <1>4, <1>5, Zenon DEF PrintedInv
<1> QED
    BY <1>2, <1>6 DEF ProfileInv

\* Every step of the command and of the node keeps the invariant.
LEMMA ProfileStep == ProfileInv /\ [ProfileNext]_profileVars => ProfileInv'
<1> SUFFICES ASSUME ProfileInv, [ProfileNext]_profileVars PROVE ProfileInv'
    OBVIOUS
<1>1. CASE Elapse \/ Exits \/ \E program \in Successors : Starts(program)
    BY <1>1, ProcessesStep
<1>2. CASE \/ Refuse \/ NotFound \/ ReadFirst \/ ReadSecond
           \/ \E missed \in Misses : FindFirst(missed) \/ FindSecond(missed)
    BY <1>2, SamplingStep
<1>3. CASE \E similar \in Similarities : Conclude(similar)
    BY <1>3, ConcludeStep
<1>4. CASE UNCHANGED profileVars
    <2>1. UNCHANGED <<clock, linux, settings, proc, step, s1, s2, owners, report>>
        BY <1>4 DEF profileVars, table, samples
    <2>2. FirstInv' /\ SecondInv'
        BY <2>1 DEF ProfileInv, FirstInv, SecondInv, Begun, Whole
    <2>3. CalculateRateStats(s1, s2)' = CalculateRateStats(s1, s2)
        BY <2>1 DEF CalculateRateStats, Age, Rate
    <2>4. ASSUME NEW stats, NEW c PROVE Advised(stats, c)' = Advised(stats, c)
        BY <2>1 DEF Advised
    <2>5. PrintedInv'
        BY <2>1, <2>3, <2>4, Zenon DEF ProfileInv, PrintedInv
    <2> QED
        BY <2>2, <2>5 DEF ProfileInv
<1> QED
    BY <1>1, <1>2, <1>3, <1>4 DEF ProfileNext, ProfileDone

\* So it holds always.
LEMMA ProfileInvariant == ProfileSpec => []ProfileInv
<1> QED
    BY ProfileInitInv, ProfileStep, PTL DEF ProfileSpec

-----------------------------------------------------------------------------
(* What is printed.                                                        *)

\* A prediction is for one of the categories with the best score.
LEMMA Predicted ==
    ASSUME NEW s, NEW p \in Predict(s)
    PROVE  \E c \in Best(ScoresOf(s)) : p = Prediction(ScoresOf(s), c)
BY DEF Predict

\* The report repeats the prediction and the telemetry.
LEMMA Printed ==
    ASSUME ProfileInv, step = "printed"
    PROVE  \E p \in Predict(report.stats) :
               /\ report.primary = p.primary /\ report.confidence = p.confidence
               /\ report.scores = p.scores
               /\ \E similar \in Similarities :
                      report.stats = Joined(CalculateRateStats(s1, s2), [similar |-> similar])
               /\ \/ report = Joined(Joined(p, [stats |-> report.stats]),
                                    Advised(report.stats, p.primary))
                  \/ \E x \in Explanations(p, report.stats) :
                         report = Joined(Joined(p, [stats |-> report.stats]), x)
<1>1. PICK similar \in Similarities :
          LET stats == Joined(CalculateRateStats(s1, s2), [similar |-> similar])
          IN  \E p \in Predict(stats) :
                  \/ report = Joined(Joined(p, [stats |-> stats]), Advised(stats, p.primary))
                  \/ \E x \in Explanations(p, stats) :
                         report = Joined(Joined(p, [stats |-> stats]), x)
    BY Zenon DEF ProfileInv, PrintedInv
<1>2. PICK stats : stats = Joined(CalculateRateStats(s1, s2), [similar |-> similar])
    OBVIOUS
<1>3. PICK p \in Predict(stats) :
          \/ report = Joined(Joined(p, [stats |-> stats]), Advised(stats, p.primary))
          \/ \E x \in Explanations(p, stats) : report = Joined(Joined(p, [stats |-> stats]), x)
    BY <1>1, <1>2, Zenon
<1>4. DOMAIN p = {"primary", "confidence", "scores"}
    BY Predicted DEF Prediction
<1>5. ASSUME NEW y, report = Joined(Joined(p, [stats |-> stats]), y)
      PROVE  /\ report.primary = p.primary /\ report.confidence = p.confidence
             /\ report.scores = p.scores /\ report.stats = stats
    BY <1>4, <1>5 DEF Joined
<1>6. /\ report.primary = p.primary /\ report.confidence = p.confidence
      /\ report.scores = p.scores /\ report.stats = stats
    BY <1>3, <1>5, Zenon
<1> QED
    BY <1>2, <1>3, <1>6, Zenon

\* Whatever is sampled and however the map is walked: a process whose telemetry
\* has not changed gets the same category again, unless the scores of two are equal
\* (the loop over the scores in Predict, which keeps the first of the best).
THEOREM SameTelemetrySameCategory == ProfileSpec => []CategoryIsStable
<1>1. ProfileInv => CategoryIsStable
    <2> SUFFICES ASSUME ProfileInv, step = "printed",
                        NEW q \in Predict(report.stats)
                 PROVE  ScoresOf(report.stats)[q.primary]
                            = ScoresOf(report.stats)[report.primary]
        BY DEF CategoryIsStable
    <2>1. PICK p \in Predict(report.stats) : report.primary = p.primary
        BY Printed
    <2>2. /\ p.primary \in Best(ScoresOf(report.stats))
          /\ q.primary \in Best(ScoresOf(report.stats))
        BY Predicted DEF Prediction
    <2> QED
        BY <2>1, <2>2 DEF Best
<1> QED
    BY <1>1, ProfileInvariant, PTL

\* Whenever the process under the PID exits and whatever comes after it, whichever
\* reads fail: a profile of two processes has an age within the time of the command,
\* one of a single process an age of at least the window (MonitorProcess).
THEOREM MixedProfilesAreYoung == ProfileSpec => []MixedProfileShowsInAge
<1>1. ProfileInv => MixedProfileShowsInAge
    <2> SUFFICES ASSUME ProfileInv, step = "printed" PROVE MixedProfileShowsInAge
        BY DEF MixedProfileShowsInAge
    <2>1. report.stats.age = Age(s1, s2)
        <3>1. PICK similar :
                  report.stats = Joined(CalculateRateStats(s1, s2), [similar |-> similar])
            BY Printed
        <3> QED
            BY <3>1 DEF Joined, CalculateRateStats
    <2>2. /\ clock \in Nat /\ s1.taken \in Nat /\ s1.taken <= clock
          /\ owners[1] \in Nat /\ owners[1] <= s1.taken
          /\ s2.taken \in Nat /\ s2.taken <= clock
          /\ s2.born # Vacant =>
                 /\ s2.born \in Nat /\ s2.born <= clock
                 /\ proc # Vacant => s2.born <= proc.born
                 /\ owners[1] # owners[2] => s2.born >= s1.taken
        BY DEF ProfileInv, FirstInv, SecondInv, Sampling
    <2>3. Age(s1, s2) = IF s2.born = Vacant THEN 0 ELSE clock - s2.born
        BY <2>2 DEF Age
    <2> QED
        BY <2>1, <2>2, <2>3 DEF MixedProfileShowsInAge
<1> QED
    BY <1>1, ProfileInvariant, PTL

-----------------------------------------------------------------------------
(* The two lists of advice.                                                *)

\* What the structured list has for a category is what the plain one has.
LEMMA SameRows ==
    ASSUME NEW c
    PROVE  Row(PlainTable, c) = Row(NetworkAdvice, c) \cup Row(DatabaseAdvice, c)
                                \cup Row(StreamAndModelAdvice, c) \cup Row(NodeAdvice, c)
<1>1. DOMAIN PlainTable = DOMAIN NetworkAdvice \cup DOMAIN DatabaseAdvice
                          \cup DOMAIN StreamAndModelAdvice \cup DOMAIN NodeAdvice
    BY DEF PlainTable, NetworkAdvice, DatabaseAdvice, StreamAndModelAdvice, NodeAdvice
<1>2. CASE c \in DOMAIN NetworkAdvice
    BY <1>2 DEF Row, PlainTable, NetworkAdvice, DatabaseAdvice, StreamAndModelAdvice, NodeAdvice
<1>3. CASE c \in DOMAIN DatabaseAdvice
    BY <1>3 DEF Row, PlainTable, NetworkAdvice, DatabaseAdvice, StreamAndModelAdvice, NodeAdvice
<1>4. CASE c \in DOMAIN StreamAndModelAdvice
    BY <1>4 DEF Row, PlainTable, NetworkAdvice, DatabaseAdvice, StreamAndModelAdvice, NodeAdvice
<1>5. CASE c \in DOMAIN NodeAdvice
    BY <1>5 DEF Row, PlainTable, NetworkAdvice, DatabaseAdvice, StreamAndModelAdvice, NodeAdvice
<1> QED
    BY <1>1, <1>2, <1>3, <1>4, <1>5 DEF Row

\* What holds for every process is the same but for the ratio without descriptors.
LEMMA SameGeneric ==
    ASSUME NEW s, s.fds \in Nat, s.sockets \in Nat
    PROVE  PlainGeneric(s) = StructuredGeneric(s)
                             \cup (IF s.fds = 0 /\ s.sockets > 0 THEN {"socket_fd_ratio"}
                                   ELSE {})
<1>1. s.fds = 0 => (10 * s.sockets > 9 * s.fds <=> s.sockets > 0)
    OBVIOUS
<1>2. s.fds # 0 => s.fds > 0
    OBVIOUS
<1> QED
    BY <1>1, <1>2 DEF PlainGeneric, StructuredGeneric


\* The subjects of advice, whatever its statuses.
LEMMA SubjectsOfAdvice ==
    ASSUME NEW S, NEW status
    PROVE  Subjects({Advice(x, status[x]) : x \in S}) = S
<1> DEFINE list == {Advice(x, status[x]) : x \in S}
<1>1. \A a \in list : a.subject \in S
    BY DEF Advice
<1>2. \A x \in S : \E a \in list : a.subject = x
    <2> TAKE x \in S
    <2>1. Advice(x, status[x]) \in list /\ Advice(x, status[x]).subject = x
        BY DEF Advice
    <2> QED
        BY <2>1
<1> HIDE DEF list
<1>3. Subjects(list) = S
    BY <1>1, <1>2 DEF Subjects
<1> QED
    BY <1>3 DEF list

\* The subjects of the plain list, which is empty on other platforms.
LEMMA SubjectsOfPlain ==
    ASSUME NEW s, NEW c, linux
    PROVE  Subjects(Optimize(linux, s, c, settings)) = PlainGeneric(s) \cup Row(PlainTable, c)
<1>1. PICK S : S = PlainGeneric(s) \cup Row(PlainTable, c)
    OBVIOUS
<1>2. PICK status : status = [x \in S |-> PlainStatus(settings, x)]
    OBVIOUS
<1>3. PICK list : list = {Advice(x, status[x]) : x \in S}
    OBVIOUS
<1>4. Optimize(linux, s, c, settings) = list
    BY <1>1, <1>2, <1>3 DEF Optimize
<1>5. Subjects(list) = S
    BY <1>3, SubjectsOfAdvice
<1> QED
    BY <1>1, <1>4, <1>5

\* The subjects of the structured list.
LEMMA SubjectsOfStructured ==
    ASSUME NEW s, NEW c
    PROVE  Subjects(OptimizeStructured(linux, s, c)) =
               StructuredGeneric(s) \cup Row(NetworkAdvice, c) \cup Row(DatabaseAdvice, c)
               \cup Row(StreamAndModelAdvice, c) \cup Row(NodeAdvice, c)
<1>1. PICK S : S = StructuredGeneric(s) \cup Row(NetworkAdvice, c)
                   \cup Row(DatabaseAdvice, c) \cup Row(StreamAndModelAdvice, c)
                   \cup Row(NodeAdvice, c)
    OBVIOUS
<1>2. PICK status : status = [x \in S |-> StructuredStatus(linux, x)]
    OBVIOUS
<1>3. OptimizeStructured(linux, s, c) = {Advice(x, status[x]) : x \in S}
    BY <1>1, <1>2 DEF OptimizeStructured
<1> QED
    BY <1>1, <1>3, SubjectsOfAdvice

\* For every sample, category and node: Optimize and OptimizeStructured have the
\* same subjects, but for the share of sockets when no descriptor was counted.
THEOREM BothListsAgree == ProfileSpec => []AdviceListsAgree
<1>1. ProfileInv => AdviceListsAgree
    <2> SUFFICES ASSUME ProfileInv, step = "printed", "plain" \in DOMAIN report
                 PROVE  AdviceListsAgree
        BY DEF AdviceListsAgree, Analysed
    <2>1. PICK p \in Predict(report.stats) :
              /\ \E similar : report.stats = Joined(CalculateRateStats(s1, s2),
                                                   [similar |-> similar])
              /\ \/ report = Joined(Joined(p, [stats |-> report.stats]),
                                   Advised(report.stats, p.primary))
                 \/ \E x \in Explanations(p, report.stats) :
                        report = Joined(Joined(p, [stats |-> report.stats]), x)
        BY Printed
    <2>2. PICK stats : stats = report.stats
        OBVIOUS
    <2>3. stats.fds \in Nat /\ stats.sockets \in Nat
        <3>1. s2.fds \in Nat /\ s2.sockets \in Nat
            BY DEF ProfileInv, SecondInv
        <3>2. PICK similar : stats = Joined(CalculateRateStats(s1, s2), [similar |-> similar])
            BY <2>1, <2>2
        <3> QED
            BY <3>1, <3>2 DEF Joined, CalculateRateStats
    <2>4. DOMAIN p = {"primary", "confidence", "scores"}
        BY Predicted DEF Prediction
    <2>5. PICK advised : /\ advised = Advised(stats, p.primary)
                         /\ report = Joined(Joined(p, [stats |-> stats]), advised)
        <3>1. ASSUME NEW x \in Explanations(p, stats)
              PROVE  "plain" \notin DOMAIN Joined(Joined(p, [stats |-> stats]), x)
            <4>1. DOMAIN x = {"runnerUp", "distance", "hints", "closest"}
                BY DEF Explanations
            <4> QED
                BY <2>4, <4>1 DEF Joined
        <3> QED
            BY <2>1, <2>2, <3>1
    <2>6. /\ report.plain = Optimize(linux, stats, p.primary, settings)
          /\ report.structured = OptimizeStructured(linux, stats, p.primary)
          /\ report.text = Shown(report.plain, report.structured)
        <3>1. /\ report.plain = advised.plain /\ report.structured = advised.structured
              /\ report.text = advised.text
            BY <2>4, <2>5 DEF Joined, Advised
        <3> QED
            BY <2>5, <3>1 DEF Advised
    <2>7. linux => Subjects(report.plain) =
                       Subjects(report.structured) \cup
                           (IF stats.fds = 0 /\ stats.sockets > 0 THEN {"socket_fd_ratio"}
                            ELSE {})
        <3>1. PICK c : c = p.primary
            OBVIOUS
        <3>2. linux => Subjects(report.plain) = PlainGeneric(stats) \cup Row(PlainTable, c)
            BY <2>6, <3>1, SubjectsOfPlain
        <3>3. Subjects(report.structured) =
                  StructuredGeneric(stats) \cup Row(NetworkAdvice, c) \cup Row(DatabaseAdvice, c)
                  \cup Row(StreamAndModelAdvice, c) \cup Row(NodeAdvice, c)
            BY <2>6, <3>1, SubjectsOfStructured
        <3> QED
            BY <2>3, <3>2, <3>3, SameRows, SameGeneric
    <2>8. Subjects(report.text) =
              Subjects(IF linux THEN report.plain ELSE report.structured)
        <3>1. CASE ~linux
            BY <2>6, <3>1 DEF Shown, Optimize
        <3>2. CASE linux /\ report.plain # {}
            BY <2>6, <3>2 DEF Shown
        <3>3. CASE linux /\ report.plain = {}
            <4>1. Subjects(report.plain) = {}
                BY <3>3 DEF Subjects
            <4>2. Subjects(report.structured) = {}
                BY <2>7, <3>3, <4>1
            <4> QED
                BY <2>6, <3>3, <4>1, <4>2 DEF Shown
        <3> QED
            BY <3>1, <3>2, <3>3
    <2> QED
        BY <2>2, <2>7, <2>8 DEF AdviceListsAgree
<1> QED
    BY <1>1, ProfileInvariant, PTL

-----------------------------------------------------------------------------
(* Scores.                                                                 *)

\* The bounds of what the rules add.
LEMMA BoundedBoosts ==
    ASSUME NEW s, NEW c
    PROVE  /\ SocketAndCpuBoost(s, c) \in -200..200
           /\ MemoryAndDiskBoost(s, c) \in -200..200
           /\ ThreadAndHandleBoost(s, c) \in -200..200
<1>1. SocketAndCpuBoost(s, c) \in -200..200
    <2> DEFINE many == Rule(c, s.sockets > 500,
                            [LoadBalancer |-> 10, CacheStore |-> 5, WebServer |-> 5,
                             APIGateway |-> 8, ServiceMesh |-> 10, InteractiveShell |-> -40,
                             UtilityBatch |-> -40])
               none == Rule(c, s.sockets = 0,
                            [LoadBalancer |-> -40, WebServer |-> -40, CacheStore |-> -30,
                             ServiceMesh |-> -30, InteractiveShell |-> 5, UtilityBatch |-> 5,
                             CIRunner |-> 5])
               hot == Rule(c, s.cpu > 150,
                           [AITraining |-> 15, AIInference |-> 5, ColumnarDB |-> 5,
                            OLAPEngine |-> 8, StreamProcessor |-> 5, InteractiveShell |-> -40])
               warm == Rule(c, s.cpu > 50 /\ s.cpu <= 150,
                            [CIRunner |-> 5, UtilityBatch |-> 5, StreamProcessor |-> 3])
               idle == Rule(c, s.cpu < 2,
                            [InteractiveShell |-> 5, SchedulerDaemon |-> 5,
                             OrchestratorPod |-> 5])
    <2>1. /\ many \in -40..40 /\ none \in -40..40 /\ hot \in -40..40
          /\ warm \in -40..40 /\ idle \in -40..40
        BY DEF Rule
    <2>2. SocketAndCpuBoost(s, c) = many + none + hot + warm + idle
        BY DEF SocketAndCpuBoost
    <2> HIDE DEF many, none, hot, warm, idle
    <2> QED
        BY <2>1, <2>2
<1>2. MemoryAndDiskBoost(s, c) \in -200..200
    <2> DEFINE huge == Rule(c, s.memory > 8192,
                            [AITraining |-> 5, ColumnarDB |-> 5, NoSQLDB |-> 5, RelationalDB |-> 5,
                             OLAPEngine |-> 5, VectorDB |-> 5, InteractiveShell |-> -30])
               large == Rule(c, s.memory > 2048 /\ s.memory <= 8192,
                             [RelationalDB |-> 3, SearchEngine |-> 3, GraphDB |-> 3,
                              LegacySOAService |-> 3, StreamProcessor |-> 3])
               small == Rule(c, s.memory < 32,
                             [InteractiveShell |-> 5, TracingAgent |-> 3, SchedulerDaemon |-> 3,
                              OrchestratorPod |-> 5])
               reader == Rule(c, s.reads > 10000,
                              [ColumnarDB |-> 10, OLAPEngine |-> 8, EventStreaming |-> 5,
                               ObjectStore |-> 8, CDNEdgeNode |-> 8, UtilityBatch |-> 5])
               writer == Rule(c, s.writes > 10000,
                              [EventStreaming |-> 10, LogAggregator |-> 12, TimeSeriesDB |-> 8,
                               ObjectStore |-> 5, MonitoringAgent |-> 5])
    <2>1. /\ huge \in -40..40 /\ large \in -40..40 /\ small \in -40..40
          /\ reader \in -40..40 /\ writer \in -40..40
        BY DEF Rule
    <2>2. MemoryAndDiskBoost(s, c) = huge + large + small + reader + writer
        BY DEF MemoryAndDiskBoost
    <2> HIDE DEF huge, large, small, reader, writer
    <2> QED
        BY <2>1, <2>2
<1>3. ThreadAndHandleBoost(s, c) \in -200..200
    <2> DEFINE wide == Rule(c, s.threads > 200,
                            [NoSQLDB |-> 5, LegacySOAService |-> 8, SearchEngine |-> 5])
               single == Rule(c, s.threads = 1, [InteractiveShell |-> 5, UtilityBatch |-> 5])
               busy == Rule(c, s.switches > 5000,
                            [CacheStore |-> 5, LoadBalancer |-> 5, ServiceMesh |-> 5,
                             AITraining |-> 3])
               open == Rule(c, s.fds > 1000,
                            [LogAggregator |-> 5, ObjectStore |-> 5, EventStreaming |-> 3])
    <2>1. /\ wide \in -40..40 /\ single \in -40..40
          /\ busy \in -40..40 /\ open \in -40..40
        BY DEF Rule
    <2>2. ThreadAndHandleBoost(s, c) = wide + single + busy + open
        BY DEF ThreadAndHandleBoost
    <2> HIDE DEF wide, single, busy, open
    <2> QED
        BY <2>1, <2>2
<1> QED
    BY <1>1, <1>2, <1>3

\* The words of a category count once.
LEMMA BoundedKeywords ==
    ASSUME NEW s, NEW c
    PROVE  KeywordBoost(s, c) \in -200..200
BY DEF KeywordBoost

\* The rules that want more than one word, each for itself.
LEMMA BoundedCombinations ==
    ASSUME NEW s, NEW c
    PROVE  CombinedBoost(s, c) \in -280..280
<1> DEFINE name(words) == s.name \cap words # {}
           cmdline(words) == s.cmdline \cap words # {}
           proxied == cmdline({"reverse_proxy", "proxy"})
           web == Rule(c, name({"caddy"}) /\ ~proxied, [WebServer |-> 20])
           proxy == Rule(c, name({"caddy"}) /\ proxied, [LoadBalancer |-> 15, APIGateway |-> 10])
           training == Rule(c, cmdline({"python"}) /\ cmdline({"train", "torch", "cuda", "fit", "jax"}),
                            [AITraining |-> 30])
           serving == Rule(c, cmdline({"python"}) /\ cmdline({"serve", "predict", "model-server",
                                                             "triton", "vllm", "ollama"}),
                           [AIInference |-> 30])
           pause == Rule(c, name({"pause", "init"}) /\ s.memory < 16, [OrchestratorPod |-> 30])
           systemd == Rule(c, name({"systemd"}) /\ s.threads > 1,
                           [SchedulerDaemon |-> 15, InteractiveShell |-> -10])
           runner == Rule(c, name({"runner", "agent"}) /\
                                 cmdline({"github-actions", "gitlab-runner", "jenkins",
                                          "buildkite", "circleci"}),
                          [CIRunner |-> 30])
<1>1. web \in -40..40 /\ proxy \in -40..40 /\ training \in -40..40 /\ serving \in -40..40
    BY DEF Rule
<1>2. pause \in -40..40 /\ systemd \in -40..40 /\ runner \in -40..40
    BY DEF Rule
<1>3. CombinedBoost(s, c) = web + proxy + training + serving + pause + systemd + runner
    BY Zenon DEF CombinedBoost
<1> HIDE DEF web, proxy, training, serving, pause, systemd, runner
<1> QED
    BY <1>1, <1>2, <1>3

\* The scores of a process whose similarities are those of the centroids.
LEMMA BoundedScores ==
    ASSUME NEW s, \A c \in DOMAIN s.similar : s.similar[c] \in 0..100
    PROVE  ScoresOf(s) \in [Categories -> -2000..2000]
<1> DEFINE score(c) == Similarity(s, c) + KeywordBoost(s, c) + SocketAndCpuBoost(s, c)
                       + MemoryAndDiskBoost(s, c) + ThreadAndHandleBoost(s, c)
                       + CombinedBoost(s, c)
<1>1. ScoresOf(s) = [c \in Categories |-> score(c)]
    BY Zenon DEF ScoresOf
<1>2. ASSUME NEW c \in Categories PROVE score(c) \in -2000..2000
    <2>1. Similarity(s, c) \in 0..100
        BY DEF Similarity
    <2>2. /\ KeywordBoost(s, c) \in -200..200
          /\ SocketAndCpuBoost(s, c) \in -200..200
          /\ MemoryAndDiskBoost(s, c) \in -200..200
          /\ ThreadAndHandleBoost(s, c) \in -200..200
          /\ CombinedBoost(s, c) \in -280..280
        BY BoundedBoosts, BoundedKeywords, BoundedCombinations
    <2>3. PICK a \in 0..100, k \in -200..200, b1 \in -200..200, b2 \in -200..200,
               b3 \in -200..200, b4 \in -280..280 :
              /\ Similarity(s, c) = a /\ KeywordBoost(s, c) = k
              /\ SocketAndCpuBoost(s, c) = b1 /\ MemoryAndDiskBoost(s, c) = b2
              /\ ThreadAndHandleBoost(s, c) = b3 /\ CombinedBoost(s, c) = b4
        BY <2>1, <2>2, ZenonT(40)
    <2>4. PICK sum \in -2000..2000 : sum = a + k + b1 + b2 + b3 + b4
        OBVIOUS
    <2>5. score(c) = sum
        BY <2>3, <2>4
    <2> HIDE DEF score
    <2> QED
        BY <2>5
<1> HIDE DEF score
<1> QED
    BY <1>1, <1>2

\* No category is the only one.
LEMMA TwoCategories == "LoadBalancer" \in Categories /\ "APIGateway" \in Categories
BY DEF Categories

\* What is shown of the scores, and the winner.
LEMMA ShownScores ==
    ASSUME NEW M \in Nat, NEW scores \in [Categories -> -M..M], NEW w \in Best(scores)
    PROVE  LET p == Prediction(scores, w)
           IN  /\ p.primary \in Categories
               /\ p.scores \in [Categories -> 0..100]
               /\ p.confidence = p.scores[p.primary]
               /\ \A c \in Categories : p.scores[c] <= p.confidence
<1> DEFINE all == {scores[d] : d \in Categories}
<1>1. all \in SUBSET (-M..M) /\ all # {}
    BY TwoCategories
<1>2. w \in Categories /\ scores[w] = Max(all)
    BY DEF Best
<1>3. \A c \in Categories : scores[c] \in all
    OBVIOUS
<1> HIDE DEF all
<1>4. \A y \in all : y <= Max(all)
    BY <1>1, MaxIsGreatest
<1>5. \A c \in Categories : scores[c] <= scores[w]
    BY <1>2, <1>3, <1>4
<1>6. \A c \in Categories : Clamp(scores[c]) \in 0..100 /\ Clamp(scores[c]) <= Clamp(scores[w])
    <2> TAKE c \in Categories
    <2>1. scores[c] \in Int /\ scores[w] \in Int /\ scores[c] <= scores[w]
        BY <1>2, <1>5
    <2> QED
        BY <2>1 DEF Clamp
<1> QED
    BY <1>2, <1>6 DEF Prediction

\* What is shown of two samples, whatever they are.
LEMMA ShownOfSamples ==
    ASSUME NEW similar \in Similarities, NEW stats,
           stats = Joined(CalculateRateStats(s1, s2), [similar |-> similar]),
           NEW p \in Predict(stats)
    PROVE  /\ p.primary \in Categories /\ p.scores \in [Categories -> 0..100]
           /\ p.confidence = p.scores[p.primary]
           /\ \A c \in Categories : p.scores[c] <= p.confidence
<1>1. \A c \in DOMAIN stats.similar : stats.similar[c] \in 0..100
    <2>1. stats.similar = similar
        BY DEF Joined, CalculateRateStats
    <2> QED
        BY <2>1, ProfileAssumption
<1>2. PICK w \in Best(ScoresOf(stats)) : p = Prediction(ScoresOf(stats), w)
    BY Predicted
<1>3. PICK M \in Nat : M = 2000
    OBVIOUS
<1>4. ScoresOf(stats) \in [Categories -> -M..M]
    BY <1>1, <1>3, BoundedScores, SMTT(30)
<1> QED
    BY <1>2, <1>4, ShownScores

\* The best of all but one.
BestBut(shown, c) == Max({shown[d] : d \in Categories \ {c}})

\* It is the score of one of them, and no other has more.
LEMMA BestOfOthers ==
    ASSUME NEW shown \in [Categories -> 0..100], NEW c \in Categories
    PROVE  /\ BestBut(shown, c) \in 0..100
           /\ \E d \in Categories \ {c} : shown[d] = BestBut(shown, c)
           /\ \A d \in Categories \ {c} : shown[d] <= BestBut(shown, c)
<1> DEFINE others == {shown[d] : d \in Categories \ {c}}
<1>1. others \in SUBSET (-100..100) /\ others # {}
    <2>1. \E d \in Categories : d # c
        BY TwoCategories
    <2> QED
        BY <2>1
<1> HIDE DEF others
<1>2. Max(others) \in others /\ \A y \in others : y <= Max(others)
    BY <1>1, MaxIsGreatest
<1> QED
    BY <1>2 DEF BestBut, others

\* Whichever of equal scores the sort puts first, the second place has the best
\* score of the others.
LEMMA SecondIsRival ==
    ASSUME NEW p, p.primary \in Categories, p.scores \in [Categories -> 0..100],
           p.confidence = p.scores[p.primary],
           \A c \in Categories : p.scores[c] <= p.confidence,
           NEW follower \in SecondPlace(p)
    PROVE  p.scores[follower] = BestBut(p.scores, p.primary)
<1>1. PICK leader \in Categories :
          /\ p.scores[leader] = p.confidence
          /\ follower \in Categories \ {leader}
          /\ p.scores[follower] = BestBut(p.scores, leader)
    BY Zenon DEF SecondPlace, BestBut
<1>2. CASE leader = p.primary
    BY <1>1, <1>2
<1>3. CASE leader # p.primary
    <2>1. PICK shown \in [Categories -> 0..100], w \in Categories :
              shown = p.scores /\ w = p.primary
        OBVIOUS
    <2>2. shown[leader] = shown[w] /\ \A c \in Categories : shown[c] <= shown[w]
        BY <1>1, <2>1
    <2>3. BestBut(shown, leader) = shown[w]
        <3>1. shown[w] <= BestBut(shown, leader)
            BY <1>3, <2>1, BestOfOthers
        <3>2. BestBut(shown, leader) \in 0..100 /\ BestBut(shown, leader) <= shown[w]
            BY <2>2, BestOfOthers
        <3> QED
            BY <3>1, <3>2
    <2>4. BestBut(shown, w) = shown[w]
        <3>1. shown[leader] <= BestBut(shown, w)
            BY <1>3, <2>1, BestOfOthers
        <3>2. BestBut(shown, w) \in 0..100 /\ BestBut(shown, w) <= shown[w]
            BY <2>2, BestOfOthers
        <3> QED
            BY <2>2, <3>1, <3>2
    <2> QED
        BY <1>1, <2>1, <2>3, <2>4
<1> QED
    BY <1>2, <1>3

\* For any telemetry and any order in which Explain's sort leaves equal scores: the
\* gap it prints is the lead over the best of the other categories, and the hint
\* about it names such a category exactly when the gap is below fifteen points.
THEOREM GapIsTheLead == ProfileSpec => []GapIsToTheRival
<1>1. ProfileInv => GapIsToTheRival
    <2> SUFFICES ASSUME ProfileInv, step = "printed", "runnerUp" \in DOMAIN report
                 PROVE  GapIsToTheRival
        BY DEF GapIsToTheRival, Explained
    <2>1. PICK p \in Predict(report.stats) :
              /\ report.primary = p.primary /\ report.confidence = p.confidence
              /\ report.scores = p.scores
              /\ \E similar \in Similarities :
                     report.stats = Joined(CalculateRateStats(s1, s2), [similar |-> similar])
              /\ \/ report = Joined(Joined(p, [stats |-> report.stats]),
                                   Advised(report.stats, p.primary))
                 \/ \E x \in Explanations(p, report.stats) :
                        report = Joined(Joined(p, [stats |-> report.stats]), x)
        BY Printed
    <2>2. PICK stats : stats = report.stats
        OBVIOUS
    <2>3. PICK similar \in Similarities :
              stats = Joined(CalculateRateStats(s1, s2), [similar |-> similar])
        BY <2>1, <2>2
    <2>4. p \in Predict(stats)
        BY <2>1, <2>2
    <2>5. /\ p.primary \in Categories /\ p.scores \in [Categories -> 0..100]
          /\ p.confidence = p.scores[p.primary]
          /\ \A c \in Categories : p.scores[c] <= p.confidence
        BY <2>3, <2>4, ShownOfSamples
    <2>6. DOMAIN p = {"primary", "confidence", "scores"}
        BY <2>4, Predicted DEF Prediction
    <2>7. PICK x \in Explanations(p, stats) :
              report = Joined(Joined(p, [stats |-> stats]), x)
        <3>1. ASSUME NEW advised, advised = Advised(stats, p.primary)
              PROVE  "runnerUp" \notin DOMAIN Joined(Joined(p, [stats |-> stats]), advised)
            BY <2>6, <3>1 DEF Joined, Advised
        <3> QED
            BY <2>1, <2>2, <3>1, Zenon
    <2>8. PICK follower \in SecondPlace(p), rival \in GapHints(p) :
              x = [runnerUp |-> follower, distance |-> p.confidence - p.scores[follower],
                   hints |-> TelemetryHints(p, stats), closest |-> rival]
        BY DEF Explanations
    <2>9. /\ report.runnerUp = follower /\ report.closest = rival
          /\ report.distance = p.confidence - p.scores[follower]
        BY <2>6, <2>7, <2>8 DEF Joined
    <2>10. PICK best : best = BestBut(p.scores, p.primary)
        OBVIOUS
    <2>11. p.scores[follower] = best
        BY <2>5, <2>10, SecondIsRival
    <2>12. /\ best \in 0..100 /\ best <= p.confidence
           /\ \E d \in Categories \ {p.primary} : p.scores[d] = best
        BY <2>5, <2>10, BestOfOthers
    <2>13. /\ rival # "none" => rival \in Categories \ {p.primary} /\ p.scores[rival] = best
           /\ (rival # "none") = (best > 0 /\ p.confidence - best < 15)
        <3>1. "none" \notin Categories
            BY DEF Categories
        <3>2. PICK close : close = {c \in Rivals(p) : p.confidence - p.scores[c] < 15}
            OBVIOUS
        <3>3. \A c : c \in close <=> /\ c \in Categories \ {p.primary}
                                    /\ p.scores[c] > 0 /\ p.scores[c] = best
                                    /\ p.confidence - p.scores[c] < 15
            BY <2>10, <3>2, Zenon DEF Rivals, BestBut
        <3>4. rival \in (IF close = {} THEN {"none"} ELSE close)
            BY <3>2, Zenon DEF GapHints
        <3>5. CASE close = {}
            BY <2>12, <3>3, <3>4, <3>5
        <3>6. CASE close # {}
            BY <2>12, <3>1, <3>3, <3>4, <3>6
        <3> QED
            BY <3>5, <3>6
    <2>14. best = Max({report.scores[c] : c \in Categories \ {report.primary}})
        BY <2>1, <2>10 DEF BestBut
    <2> QED
        BY <2>1, <2>5, <2>9, <2>11, <2>12, <2>13, <2>14 DEF GapIsToTheRival
<1> QED
    BY <1>1, ProfileInvariant, PTL

-----------------------------------------------------------------------------
(* Types.                                                                  *)

\* What the flags say, and a report that is built from some statuses.
FlagsInv == /\ features \subseteq {"psi", "hardware", "kubernetes"}
            /\ found \in BOOLEAN
            /\ \E map \in [Sources -> DataStatus] : compReport = Build(map)

\* Every step keeps them.
LEMMA FlagsStep == ReportInv /\ FlagsInv /\ [ReportNext]_reportVars => FlagsInv'
<1> SUFFICES ASSUME ReportInv, FlagsInv, [ReportNext]_reportVars PROVE FlagsInv'
    OBVIOUS
<1>1. features' = features /\ found' \in BOOLEAN
    BY DEF FlagsInv, ReportNext, Scan, StatPressure, ReadPressure, ReadHardware, SkipHardware,
           BuildReport, reportVars
<1>2. CASE BuildReport
    <2>1. compReport' = Build(tracker') /\ tracker' \in [Sources -> DataStatus]
        BY <1>2, BuildStep DEF BuildReport, ReportInv
    <2> QED
        BY <1>1, <2>1 DEF FlagsInv
<1>3. CASE ~BuildReport
    <2>1. compReport' = compReport
        BY <1>3 DEF ReportNext, Scan, StatPressure, ReadPressure, ReadHardware, SkipHardware,
                    reportVars
    <2> QED
        BY <1>1, <2>1 DEF FlagsInv
<1> QED
    BY <1>2, <1>3

\* A part of a number is no more than the number.
LEMMA Quotient ==
    ASSUME NEW n \in Nat, NEW d \in Nat \ {0}
    PROVE  n \div d \in 0..n
<1>1. n \div d \in Int /\ n = d * (n \div d) + (n % d) /\ n % d \in 0..(d - 1)
    OBVIOUS
<1>2. PICK q \in Int, r \in Nat : q = n \div d /\ n = d * q + r /\ r < d
    BY <1>1
<1>3. q >= 0
    <2>1. q < 0 => d * q <= -d
        OBVIOUS
    <2> QED
        BY <1>2, <2>1
<1>4. d * q >= q
    BY <1>3
<1> QED
    BY <1>2, <1>3, <1>4

\* Physical cores are no more than there are logical ones.
LEMMA CoresAreFewer ==
    ASSUME NEW info \in CpuInfos \cup {Unreadable}, NEW vendors
    PROVE  collectCPU(info, LogicalCores, vendors).cores \in 0..LogicalCores
<1>1. CASE info = Unreadable
    BY <1>1, NodeReportAssumption DEF collectCPU
<1>2. CASE info # Unreadable
    <2>1. IsFiniteSet(info.packages) /\ LogicalCores \in Nat
        BY <1>2, NodeReportAssumption
    <2>2. info.packages # {} => Cardinality(info.packages) \in Nat \ {0}
        BY <2>1, FS_CardinalityType, FS_EmptySet
    <2>3. Cores(info, LogicalCores) \in 0..LogicalCores
        BY <2>1, <2>2, Quotient DEF Cores
    <2> QED
        BY <1>2, <2>3 DEF collectCPU
<1> QED
    BY <1>1, <1>2

\* A score is between none and all of the points that could be reached.
LEMMA ScoresArePoints ==
    ASSUME NEW map \in [Sources -> DataStatus]
    PROVE  Build(map).score[1] \in 0..Build(map).score[2] /\ Build(map).score[2] > 0
<1> DEFINE F == With(map, "full")
           P == With(map, "partial")
           N == With(map, "no_data")
           D == With(map, "disabled")
<1>1. F \in Nat /\ P \in Nat /\ N \in Nat /\ D \in Nat
    BY StatusesAddUp DEF DataStatus
<1>2. Cardinality(Sources) = F + P + N + D
    BY StatusesAddUp
<1>3. F + P + N = 0 => \A s \in Sources : map[s] = "disabled"
    BY <1>1, StatusesAddUp DEF DataStatus
<1>4. Build(map).score = Score(map)
    BY DEF Build
<1>5. CASE \A s \in Sources : map[s] = "disabled"
    <2>1. Score(map) = <<1, 1>>
        BY <1>5 DEF Score
    <2> QED
        BY <1>4, <2>1
<1>6. CASE ~ \A s \in Sources : map[s] = "disabled"
    <2>1. Score(map) = <<2 * F + P, 2 * (Cardinality(Sources) - D)>>
        BY <1>6 DEF Score
    <2> HIDE DEF F, P, N, D
    <2>2. PICK x \in Nat, y \in Nat : x = 2 * F + P /\ y = 2 * (F + P + N)
        BY <1>1
    <2>3. Score(map) = <<x, y>>
        BY <1>1, <1>2, <2>1, <2>2
    <2>4. x <= y /\ y > 0
        BY <1>1, <1>3, <1>6, <2>2
    <2> QED
        BY <1>4, <2>3, <2>4
<1> QED
    BY <1>5, <1>6

\* What the invariant of the cycle says of the types.
LEMMA ReportTypes == ReportInv /\ FlagsInv => ReportTypeOK
<1> SUFFICES ASSUME ReportInv, FlagsInv PROVE ReportTypeOK
    OBVIOUS
<1>1. psiData.status \in DataStatus /\ psiData.alert \subseteq Resources
    <2>1. CASE "psi" \in features /\ stage \notin {"scan", "stat"}
        <3>1. psiData = PressureData(Reads)
            BY <2>1 DEF ReportInv, PsiInv
        <3> QED
            BY <3>1, StatusOfReads DEF PressureData, detectHighPressure, DataStatus
    <2>2. CASE ~("psi" \in features /\ stage \notin {"scan", "stat"})
        BY <2>2 DEF ReportInv, PsiInv, NoPressure, DataStatus
    <2> QED
        BY <2>1, <2>2
<1>2. hwProfile.status \in DataStatus /\ hwProfile.cpu.cores \in 0..LogicalCores
    <2>1. CASE "hardware" \in features /\ stage \in {"build", "reported"}
        <3>1. PICK cpu, numa, storage :
                  /\ cpu = collectCPU(files.cpu, LogicalCores, files.pci)
                  /\ hwProfile = HardwareProfile(cpu, numa, storage)
            BY <2>1 DEF ReportInv, HardwareInv
        <3>2. cpu.cores \in 0..LogicalCores
            BY <3>1, CoresAreFewer DEF ReportInv, FileTypes
        <3>3. hwProfile.cpu = cpu /\ hwProfile.status = ProfileStatus(cpu, numa, storage)
            BY <3>1 DEF HardwareProfile
        <3> QED
            BY <3>2, <3>3 DEF ProfileStatus, DataStatus
    <2>2. CASE ~("hardware" \in features /\ stage \in {"build", "reported"})
        BY <2>2, NodeReportAssumption DEF ReportInv, HardwareInv, DisabledProfile, DataStatus
    <2> QED
        BY <2>1, <2>2
<1>3. compReport.score[1] \in 0..compReport.score[2] /\ compReport.score[2] > 0
    BY ScoresArePoints DEF FlagsInv
<1> QED
    BY <1>1, <1>2, <1>3 DEF ReportInv, FlagsInv, ReportTypeOK

\* Every variable of the node report keeps its type.
LEMMA ReportTypeCorrect == ReportSpec => []ReportTypeOK
<1>1. ReportInit => ReportInv /\ FlagsInv
    <2>1. NewTracker \in [Sources -> DataStatus]
        BY DEF NewTracker, DataStatus
    <2> QED
        BY <2>1, ReportInitInv DEF ReportInit, FlagsInv
<1> QED
    BY <1>1, ReportStep, FlagsStep, ReportTypes, PTL DEF ReportSpec

\* Where the command is; there is no report before it is printed.
PlaceInv == /\ clock \in 1..MaxTime
            /\ linux \in BOOLEAN
            /\ settings \in Settings
            /\ step \in {"asked", "first", "window", "second", "sampled", "printed", "failed"}
            /\ step # "printed" => report = Vacant

\* Every step keeps it.
LEMMA PlaceStep == PlaceInv /\ [ProfileNext]_profileVars => PlaceInv'
<1> SUFFICES ASSUME PlaceInv, [ProfileNext]_profileVars PROVE PlaceInv'
    OBVIOUS
<1> USE DEF PlaceInv, table, samples
<1>1. CASE Elapse
    BY <1>1, ProfileAssumption DEF Elapse, NodeOnly
<1>2. CASE Exits \/ \E program \in Successors : Starts(program)
    BY <1>2 DEF Exits, Starts, NodeOnly
<1>3. CASE Refuse \/ NotFound \/ ReadFirst \/ ReadSecond
    BY <1>3 DEF Refuse, NotFound, Elapsed, ReadFirst, ReadSecond, GoOn
<1>4. CASE \E missed \in Misses : FindFirst(missed) \/ FindSecond(missed)
    BY <1>4 DEF FindFirst, FindSecond, Elapsed, GoOn
<1>5. ASSUME NEW similar \in Similarities, Conclude(similar) PROVE PlaceInv'
    <2>1. step' = "printed" /\ UNCHANGED <<clock, linux, settings>>
        BY <1>5 DEF Conclude
    <2> QED
        BY <2>1
<1>6. CASE UNCHANGED profileVars
    BY <1>6 DEF profileVars
<1> QED
    BY <1>1, <1>2, <1>3, <1>4, <1>5, <1>6 DEF ProfileNext, ProfileDone

\* Every variable of the commands that profile a PID keeps its type.
LEMMA ProfileTypeCorrect == ProfileSpec => []ProfileTypeOK
<1>1. ProfileBegins => PlaceInv
    BY ProfileAssumption DEF ProfileBegins, ProfileInit, ProfileAt, PlaceInv
<1>2. ProfileInv /\ PlaceInv => ProfileTypeOK
    <2> SUFFICES ASSUME ProfileInv, PlaceInv PROVE ProfileTypeOK
        OBVIOUS
    <2>1. proc # Vacant => proc.program \in Programs /\ proc.born \in 0..clock
        BY DEF ProfileInv, FirstInv
    <2>2. ASSUME step = "printed"
          PROVE  report.primary \in Categories /\ report.confidence \in 0..100
        <3>1. PICK p \in Predict(report.stats) :
                  /\ report.primary = p.primary /\ report.confidence = p.confidence
                  /\ \E similar \in Similarities :
                         report.stats = Joined(CalculateRateStats(s1, s2), [similar |-> similar])
            BY <2>2, Printed
        <3>2. /\ p.primary \in Categories /\ p.scores \in [Categories -> 0..100]
              /\ p.confidence = p.scores[p.primary]
            BY <3>1, ShownOfSamples
        <3> QED
            BY <3>1, <3>2
    <2> QED
        BY <2>1, <2>2 DEF PlaceInv, ProfileTypeOK
<1> QED
    BY <1>1, <1>2, PlaceStep, ProfileInvariant, PTL DEF ProfileSpec

\* Some of the PIDs, one after the other, and where the command is.
PayloadInv == /\ options \in Options
              /\ first \in SUBSET Pids /\ second \in SUBSET Pids
              /\ payload \in Seq(Pids)
              /\ answer \in {"none", "text", "error"}
              /\ signalled \in BOOLEAN /\ done \in BOOLEAN
              /\ result \in {"none", "error", "panic", "nothing found", "payload", "report"}

\* A list of some of the PIDs.
LEMMA ListOfPids ==
    ASSUME NEW some \in SUBSET Pids, NEW list \in SetToSeqs(some)
    PROVE  list \in Seq(Pids)
<1>1. Cardinality(some) \in Nat
    BY EnrichAssumption, FS_Subset, FS_CardinalityType
<1>2. list \in [1..Cardinality(some) -> some]
    BY DEF SetToSeqs
<1>3. list \in Seq(some)
    BY <1>1, <1>2
<1> QED
    BY <1>3

\* What is kept of a list for one PID.
LEMMA OnlyOnePid ==
    ASSUME NEW list \in Seq(Pids), NEW pid
    PROVE  Only(pid, list) \in Seq(Pids)
<1>1. \A i \in DOMAIN list : list[i] \in Pids
    OBVIOUS
<1>2. CASE \E i \in DOMAIN list : list[i] = pid
    BY <1>1, <1>2 DEF Only
<1>3. CASE ~ \E i \in DOMAIN list : list[i] = pid
    BY <1>3 DEF Only
<1> QED
    BY <1>2, <1>3

\* What is left of a list that is cut.
LEMMA CutOfPids ==
    ASSUME NEW list \in Seq(Pids), NEW n \in Nat
    PROVE  (IF Len(list) > n THEN SubSeq(list, 1, n) ELSE list) \in Seq(Pids)
<1>1. Len(list) \in Nat /\ \A i \in 1..Len(list) : list[i] \in Pids
    OBVIOUS
<1>2. CASE Len(list) > n
    <2>1. SubSeq(list, 1, n) = [i \in 1..n |-> list[i]]
        BY <1>1, <1>2
    <2>2. [i \in 1..n |-> list[i]] \in [1..n -> Pids]
        BY <1>1, <1>2
    <2> QED
        BY <1>2, <2>1, <2>2
<1> QED
    BY <1>2

\* A list that is trimmed.
LEMMA TrimmedPids ==
    ASSUME options \in Options, payload \in Seq(Pids), Trim
    PROVE  payload' \in Seq(Pids)
<1>1. PICK top \in Int : top = options.top
    BY EnrichAssumption DEF Options
<1>2. top < 0 => payload' = payload
    BY <1>1 DEF Trim
<1>3. top >= 0 => payload' = IF Len(payload) > top THEN SubSeq(payload, 1, top) ELSE payload
    BY <1>1 DEF Trim
<1>4. CASE top < 0
    BY <1>2, <1>4
<1>5. CASE top \in Nat
    BY <1>3, <1>5, CutOfPids
<1> QED
    BY <1>4, <1>5

\* Every step keeps it.
LEMMA PayloadStep == PayloadInv /\ [EnrichNext]_enrichVars => PayloadInv'
<1> SUFFICES ASSUME PayloadInv, [EnrichNext]_enrichVars PROVE PayloadInv'
    OBVIOUS
<1> USE DEF PayloadInv, Steps, Return, capture
<1>1. CASE EnrichSignal \/ Spinner \/ UNCHANGED enrichVars
    BY <1>1 DEF EnrichSignal, Spinner, enrichVars
<1>2. CASE Reject \/ Accept \/ List
    BY <1>2 DEF Reject, Accept, List
<1>3. CASE Load
    BY <1>3, ListOfPids DEF Load
<1>4. CASE CollectFirst \/ WaitWindow \/ CollectSecond
    BY <1>4 DEF CollectFirst, WaitWindow, CollectSecond
<1>5. CASE Sort
    <2>1. first \cap second \in SUBSET Pids
        OBVIOUS
    <2>2. payload' \in SetToSeqs(first \cap second)
        BY <1>5 DEF Sort, ByCpu
    <2> QED
        BY <1>5, <2>1, <2>2, ListOfPids DEF Sort
<1>6. CASE Filter
    BY <1>6, OnlyOnePid DEF Filter
<1>7. CASE Trim
    <2>1. payload' \in Seq(Pids)
        BY <1>7, TrimmedPids
    <2> QED
        BY <1>7, <2>1 DEF Trim
<1>8. CASE PrintPayload \/ StartSpinner
    BY <1>8 DEF PrintPayload, StartSpinner
<1>9. CASE Unsupported \/ TimeOut \/ Respond
    BY <1>9 DEF Unsupported, TimeOut, Respond, AnswerWith
<1>10. CASE CloseDone \/ ClearLine \/ Report
    BY <1>10 DEF CloseDone, ClearLine, Report
<1> QED
    BY <1>1, <1>2, <1>3, <1>4, <1>5, <1>6, <1>7, <1>8, <1>9, <1>10
       DEF EnrichNext, Command, EnrichDone

\* Nothing comes of a command that goes on, and something of one that returned.
ResultInv == result # "none" <=> phase = "returned"

\* Every step keeps it.
LEMMA ResultStep == ResultInv /\ [EnrichNext]_enrichVars => ResultInv'
<1> SUFFICES ASSUME ResultInv, [EnrichNext]_enrichVars PROVE ResultInv'
    OBVIOUS
<1> USE DEF ResultInv, Steps, Return, capture
<1>1. CASE EnrichSignal \/ Spinner \/ UNCHANGED enrichVars
    BY <1>1 DEF EnrichSignal, Spinner, enrichVars
<1>2. CASE Reject \/ Accept \/ Load \/ List
    BY <1>2 DEF Reject, Accept, Load, List
<1>3. CASE CollectFirst \/ WaitWindow \/ CollectSecond
    BY <1>3 DEF CollectFirst, WaitWindow, CollectSecond
<1>4. CASE Sort \/ Filter \/ Trim
    BY <1>4 DEF Sort, Filter, Trim
<1>5. CASE PrintPayload \/ StartSpinner
    BY <1>5 DEF PrintPayload, StartSpinner
<1>6. CASE Unsupported \/ TimeOut \/ Respond
    BY <1>6 DEF Unsupported, TimeOut, Respond, AnswerWith
<1>7. CASE CloseDone \/ ClearLine \/ Report
    BY <1>7 DEF CloseDone, ClearLine, Report
<1> QED
    BY <1>1, <1>2, <1>3, <1>4, <1>5, <1>6, <1>7 DEF EnrichNext, Command, EnrichDone

\* The types but for what a command at rest has none of.
LEMMA EnrichTypes ==
    PayloadInv /\ SpinnerInv /\ ResultInv => EnrichTypeOK
<1> SUFFICES ASSUME PayloadInv, SpinnerInv, ResultInv PROVE EnrichTypeOK
    OBVIOUS
<1>1. ToSet(payload) \subseteq Pids
    <2>1. payload \in Seq(Pids)
        BY DEF PayloadInv
    <2>2. \A i \in DOMAIN payload : payload[i] \in Pids
        BY <2>1
    <2> QED
        BY <2>2 DEF ToSet
<1>2. {signalled, done} \subseteq BOOLEAN
    BY Zenon DEF PayloadInv
<1>3. {first, second} \subseteq SUBSET Pids
    BY Zenon DEF PayloadInv
<1>4. lateFrames \in 0..2
    BY DEF SpinnerInv
<1> QED
    BY <1>1, <1>2, <1>3, <1>4, Zenon DEF PayloadInv, SpinnerInv, ResultInv, EnrichTypeOK

\* What the capture and its analysis go through.
LEMMA PayloadCorrect == EnrichSpec => [](PayloadInv /\ SpinnerInv)
<1>1. EnrichBegins => PayloadInv /\ SpinnerInv
    <2>1. EnrichBegins => /\ options \in Options /\ first = {} /\ second = {} /\ payload = <<>>
                          /\ answer = "none" /\ signalled = FALSE /\ done = FALSE
                          /\ result = "none"
        BY Zenon DEF EnrichBegins, EnrichInit, EnrichAt
    <2>2. <<>> \in Seq(Pids)
        OBVIOUS
    <2>3. EnrichBegins => PayloadInv
        BY <2>1, <2>2, Zenon DEF PayloadInv
    <2> QED
        BY <2>3, SpinnerInit
<1> QED
    BY <1>1, PayloadStep, SpinnerInductive, PTL DEF EnrichSpec

-----------------------------------------------------------------------------
(* The commands side by side.                                              *)

\* Every behaviour is one of each command and of the node report: they share no
\* variable, and those that are not called rest.
THEOREM Composition == Spec => ReportSpec /\ ProfileSpec /\ HistorySpec /\ EnrichSpec
<1>1. Init => ReportInit /\ ProfileBegins /\ HistoryInit /\ EnrichBegins
    BY DEF Init, ReportRests, ProfileRests, ProfileBegins, EnrichRests, EnrichBegins
<1>2. [Next]_vars => /\ [ReportNext]_reportVars /\ [ProfileNext]_profileVars
                     /\ [HistoryNext]_historyVars /\ [EnrichNext]_enrichVars
    BY DEF Next, vars
<1> QED
    BY <1>1, <1>2, PTL DEF Spec, ReportSpec, ProfileSpec, HistorySpec, EnrichSpec

\* A command that was called has a result exactly when it has returned.
LEMMA ResultOfACall == Spec => [](Selected("enrich") => ResultInv)
<1>1. Init => (Selected("enrich") => ResultInv)
    BY DEF Init, EnrichInit, EnrichAt, ResultInv
<1>2. (Selected("enrich") => ResultInv) /\ [Next]_vars => (Selected("enrich") => ResultInv)'
    <2>1. [Next]_vars => [EnrichNext]_enrichVars /\ UNCHANGED part
        BY DEF Next, vars
    <2> QED
        BY <2>1, ResultStep DEF Selected
<1> QED
    BY <1>1, <1>2, PTL DEF Spec

\* Every variable of the commands and of the node report keeps its type, for any
\* files, processes, samples, cycles and options: the score of a report is one of
\* its points, a confidence a percentage, what was printed no more than was found.
THEOREM TypeCorrect == Spec => []TypeOK
<1>1. /\ ReportTypeOK /\ ProfileTypeOK /\ HistoryTypeOK /\ PayloadInv /\ SpinnerInv
      /\ Selected("enrich") => ResultInv
      => TypeOK
    BY EnrichTypes DEF TypeOK
<1> QED
    BY <1>1, Composition, ReportTypeCorrect, ProfileTypeCorrect, HistoryTypeCorrect,
       PayloadCorrect, ResultOfACall, PTL

\* All that is said of each command and of the node report holds whichever is
\* called.
THEOREM CommandsAreSafe ==
    Spec => /\ []ReportMatchesFiles
            /\ []CategoryIsStable /\ []GapIsToTheRival
            /\ []MixedProfileShowsInAge /\ []AdviceListsAgree
            /\ []HistoryAgreesWithStream /\ []SilentDriftIsSlow
            /\ []HeaviestAreAnalysed /\ []AtMostOneLateFrame
BY Composition, ReportsMatchFiles, SameTelemetrySameCategory, GapIsTheLead, MixedProfilesAreYoung,
   BothListsAgree, HistoryIsTheStream, SilenceIsSlow, AnalysisIsOfTheHeaviest, OneLateFrame
=============================================================================
