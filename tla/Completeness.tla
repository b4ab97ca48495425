---------------------------- MODULE Completeness ----------------------------
(***************************************************************************)
(* The completeness tracker (pkg/completeness/completeness.go): the status *)
(* of every data source of a scan cycle and the score made of them.        *)
(***************************************************************************)
EXTENDS Integers, FiniteSets

PsiSources == {"psi_cpu", "psi_memory", "psi_io"}
HardwareSources == {"hardware_cpu", "hardware_numa", "hardware_storage"}
ProcessSources == {"proc_basic", "proc_io", "proc_fd_types", "proc_ctx_switches"}
OtherSources == {"proc_oom", "proc_cgroup", "k8s_metadata"}
Sources == PsiSources \cup HardwareSources \cup ProcessSources \cup OtherSources

DataStatus == {"full", "partial", "no_data", "disabled"}

NewTracker == [s \in Sources |-> "disabled"]

\* RecordFull, RecordPartial, RecordNoData and RecordDisabled.
Record(tracker, sources, status) ==
    [s \in Sources |-> IF s \in sources THEN status ELSE tracker[s]]

With(tracker, status) == Cardinality({s \in Sources : tracker[s] = status})

\* Half points reached, and those that could be: a full source has two, a
\* partial one has one, a disabled one is left out.
Score(tracker) ==
    IF \A s \in Sources : tracker[s] = "disabled" THEN <<1, 1>>
    ELSE <<2 * With(tracker, "full") + With(tracker, "partial"),
           2 * (Cardinality(Sources) - With(tracker, "disabled"))>>

\* buildScoreSummary.
Level(score) == IF 10 * score[1] < 4 * score[2] THEN "Limited"
                ELSE IF 10 * score[1] < 7 * score[2] THEN "Partial"
                ELSE IF score[1] < score[2] THEN "Good"
                ELSE "Full"

\* The order of the report is that of its keys: nothing depends on the map.
Build(tracker) == [sources |-> tracker, score |-> Score(tracker),
                   level |-> Level(Score(tracker))]
=============================================================================
