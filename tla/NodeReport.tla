----------------------------- MODULE NodeReport -----------------------------
(***************************************************************************)
(* What a scan cycle says of the node besides its processes: pressure,     *)
(* hardware, and how complete the data is (pkg/cmd/scan.go:340-416).  The  *)
(* files are read one after the other and may change, appear or vanish in  *)
(* between, so every read finds any of the contents there may be.          *)
(***************************************************************************)
EXTENDS Completeness, Pressure, Hardware

CONSTANTS PsiFiles,     \* contents of a PSI file
          CpuInfos, Vendors, NodeCounts, Blocks,
          LogicalCores  \* runtime.NumCPU()

ASSUME NodeReportAssumption ==
    /\ PsiFiles \subseteq Seq([word : STRING, avg10 : Nat]) \cup {NoFile}
    /\ LogicalCores \in Nat \ {0}
    /\ \A info \in CpuInfos \ {Unreadable} : IsFiniteSet(info.packages)

VARIABLES
    stage,        \* what is read next
    features,     \* what the flags and the environment enable, or tell
    found,        \* whether the cycle has predictions
    files,        \* history: the contents found by this cycle
    psiData, hwProfile, tracker, compReport

reportVars == <<stage, features, found, files, psiData, hwProfile, tracker, compReport>>

NoFiles == [dir |-> FALSE, psi |-> [r \in Resources |-> NoFile],
            cpu |-> Unreadable, pci |-> Unreadable, numa |-> Unreadable, block |-> Unreadable]

ReportInit ==
    /\ stage = "scan"
    /\ features \in SUBSET {"psi", "hardware", "kubernetes"}
    /\ found = FALSE
    /\ files = NoFiles
    /\ psiData = NoPressure("disabled")
    /\ hwProfile = DisabledProfile
    /\ tracker = NewTracker
    /\ compReport = Build(NewTracker)

\* A new tracker for every cycle.  One without predictions leaves three of the
\* four process sources as they are registered.
Scan ==
    /\ stage \in {"scan", "reported"}
    /\ found' \in BOOLEAN
    /\ tracker' = IF found' THEN Record(NewTracker, ProcessSources, "full")
                  ELSE Record(NewTracker, {"proc_basic"}, "no_data")
    /\ files' = NoFiles
    /\ stage' = IF "psi" \in features THEN "stat" ELSE "hardware"
    /\ psiData' = NoPressure("disabled")
    /\ hwProfile' = DisabledProfile
    /\ UNCHANGED <<features, compReport>>

\* Mutant: whatever was collected is recorded as full.
RecordPressureAnyway(data) ==
    Record(tracker, PsiSources, IF data.status = "no_data" THEN "no_data" ELSE "full")

\* One status for the three of them.
RecordPressure(data) == Record(tracker, PsiSources, data.status)

\* os.Stat of the pressure directory.
StatPressure ==
    /\ stage = "stat"
    /\ \E exists \in BOOLEAN :
           /\ files' = [files EXCEPT !.dir = exists]
           /\ psiData' = NoPressure("no_data")
           /\ stage' = IF exists THEN "cpu" ELSE "hardware"
           /\ tracker' = IF exists THEN tracker ELSE RecordPressure(psiData')
    /\ UNCHANGED <<features, found, hwProfile, compReport>>

NextFile == [cpu |-> "memory", memory |-> "io", io |-> "hardware"]

ReadPressure(r) ==
    /\ stage = r
    /\ \E file \in PsiFiles : files' = [files EXCEPT !.psi[r] = file]
    /\ psiData' = PressureData([psiData.read EXCEPT ![r] = readPSIFile(files'.psi[r])])
    /\ tracker' = IF r = "io" THEN RecordPressure(psiData') ELSE tracker
    /\ stage' = NextFile[r]
    /\ UNCHANGED <<features, found, hwProfile, compReport>>

\* A part of the profile is full or else it counts as without data.
Recorded(status) == IF status = "full" THEN "full" ELSE "no_data"

RecordHardware(profile) ==
    [tracker EXCEPT !["hardware_cpu"] = Recorded(profile.cpu.status),
                    !["hardware_numa"] = Recorded(profile.numa.status),
                    !["hardware_storage"] = Recorded(profile.storage.status)]

\* hardware.Collect reads cpuinfo, the PCI bus, the NUMA nodes and the disks.
ReadHardware ==
    /\ stage = "hardware"
    /\ "hardware" \in features
    /\ \E info \in CpuInfos, vendors \in Vendors, nodes \in NodeCounts, block \in Blocks :
           /\ files' = [files EXCEPT !.cpu = info, !.numa = nodes, !.block = block,
                                     !.pci = IF info = Unreadable THEN Unreadable ELSE vendors]
           /\ hwProfile' = HardwareProfile(collectCPU(info, LogicalCores, vendors),
                                           collectNUMA(nodes), collectStorage(block))
    /\ tracker' = RecordHardware(hwProfile')
    /\ stage' = "build"
    /\ UNCHANGED <<features, found, psiData, compReport>>

SkipHardware ==
    /\ stage = "hardware"
    /\ "hardware" \notin features
    /\ stage' = "build"
    /\ UNCHANGED <<features, found, files, psiData, hwProfile, tracker, compReport>>

\* The rest of the sources do not depend on what was read.
BuildReport ==
    /\ stage = "build"
    /\ LET known == Record(tracker, {"proc_oom", "proc_cgroup"}, "full")
       IN  tracker' = Record(known, {"k8s_metadata"},
                             IF "kubernetes" \in features THEN "full" ELSE "no_data")
    /\ compReport' = Build(tracker')
    /\ stage' = "reported"
    /\ UNCHANGED <<features, found, files, psiData, hwProfile>>

ReportNext == \/ Scan \/ StatPressure
              \/ \E r \in Resources : ReadPressure(r)
              \/ ReadHardware \/ SkipHardware \/ BuildReport

ReportSpec == ReportInit /\ [][ReportNext]_reportVars

-----------------------------------------------------------------------------
ReportTypeOK ==
    /\ stage \in {"scan", "stat", "hardware", "build", "reported"} \cup Resources
    /\ features \subseteq {"psi", "hardware", "kubernetes"}
    /\ found \in BOOLEAN
    /\ psiData.status \in DataStatus /\ psiData.alert \subseteq Resources
    /\ hwProfile.status \in DataStatus
    /\ hwProfile.cpu.cores \in 0..LogicalCores
    /\ tracker \in [Sources -> DataStatus]
    /\ compReport.score[1] \in 0..compReport.score[2] /\ compReport.score[2] > 0

Reached(source) == compReport.sources[source]

\* The resources whose file this cycle has found.
Found == {r \in Resources : files.psi[r] # NoFile}

\* The last line of the file that begins with "full" has ten percent or more.
Stalled(file) == \E i \in DOMAIN file :
                     /\ file[i].word = "full" /\ file[i].avg10 >= 100
                     /\ \A j \in DOMAIN file : file[j].word = "full" => j <= i

PressureMatchesFiles ==
    /\ \A s \in PsiSources :
           /\ Reached(s) = "disabled" <=> "psi" \notin features
           /\ Reached(s) = "full" <=> Found = Resources
           /\ Reached(s) = "partial" <=> Found \notin {{}, Resources}
    /\ psiData.alert = {r \in Found : Stalled(files.psi[r])}

\* The cycle has found what the source stands for: a model of the processor, a
\* NUMA node, a disk.
Usable(source) ==
    \/ /\ source = "hardware_cpu"
       /\ files.cpu # Unreadable /\ files.cpu.model # ""
    \/ source = "hardware_numa" /\ files.numa \notin {Unreadable, 0}
    \/ /\ source = "hardware_storage" /\ files.block # Unreadable
       /\ \E dev \in files.block : dev.kind \notin {"ram", "loop", "sr"}

HardwareMatchesFiles ==
    /\ \A s \in HardwareSources :
           /\ Reached(s) = "disabled" <=> "hardware" \notin features
           /\ Reached(s) = "full" <=> Usable(s)
           /\ Reached(s) # "partial"
    /\ \A gpu \in {"nvidia", "amd"} :
           gpu \in hwProfile.hints <=>
               /\ files.cpu # Unreadable /\ files.pci # Unreadable
               /\ gpu \in files.pci
    /\ "NUMA" \in hwProfile.hints <=> files.numa # Unreadable /\ files.numa > 1

\* A finished report says of pressure and hardware what this cycle's files say,
\* whatever became of them since and whatever an earlier cycle has found.
\* Pressure: all three sources are full when all three files were found, partial
\* when some were, without data when none was; the alert names the resources
\* whose last "full" line has ten percent or more (pressure.go:289; the comments
\* at 117 and 284 say "exceeds").  Hardware: a source is full when cpuinfo names a
\* model, a NUMA node was found, or a disk; the PCI bus has no source and is
\* vouched for by none, so no GPU is hinted at without it.  The level is full
\* exactly when no source that is enabled fell short (completeness.go:219-222).
\* Nothing is said of the other sources, which are vouched for without a look at
\* any file: proc_io, proc_fd_types and proc_ctx_switches when there is a
\* prediction (scan.go:342-346), proc_oom and proc_cgroup always (408-409),
\* proc_basic by the predictions and k8s_metadata by the environment.
ReportMatchesFiles ==
    stage = "reported" =>
        /\ PressureMatchesFiles
        /\ HardwareMatchesFiles
        /\ compReport.level = "Full" <=>
               \A s \in Sources : Reached(s) \in {"full", "disabled"}
=============================================================================
