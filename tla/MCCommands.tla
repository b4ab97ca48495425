----------------------------- MODULE MCCommands -----------------------------
(***************************************************************************)
(* The one-shot commands and the node report on small instances.  They     *)
(* share no variable: a behaviour runs one of them while the others rest,  *)
(* and what holds of each of these behaviours holds of every interleaving. *)
(***************************************************************************)
EXTENDS NodeReport, Profile, DriftHistory, Enrich

VARIABLE part

-----------------------------------------------------------------------------
(* The node report.                                                        *)

Line(word, avg10) == [word |-> word, avg10 |-> avg10]

\* No file, one without "full" as of an older kernel, and a stall of exactly ten
\* percent.
MCPsiFiles == {NoFile, <<Line("some", 200)>>, <<Line("some", 200), Line("full", 100)>>}

MCCpuInfos == {Unreadable,
               [model |-> "xeon", flags |-> {"avx2", "avx512"}, packages |-> {0, 1}],
               [model |-> "", flags |-> {"neon"}, packages |-> {}]}

MCVendors == {Unreadable, {"nvidia", "intel"}}

MCNodeCounts == {Unreadable, 1, 2}

Disk(name, kind, rotational) == [name |-> name, kind |-> kind, rotational |-> rotational]

MCBlocks == {Unreadable, {Disk(1, "loop", TRUE)},
             {Disk(1, "loop", TRUE), Disk(3, "nvme", FALSE), Disk(2, "sd", TRUE)}}

-----------------------------------------------------------------------------
(* Profiling.                                                              *)

\* A shell, and a process whose name and traffic take several categories beyond
\* 100% and whose descriptors are nearly all sockets.
Shell == [name |-> {"bash", "sh"}, cmdline |-> {"bash", "sh"}, cpu |-> 1,
          reads |-> 0, writes |-> 0, switches |-> 1, memory |-> 8, threads |-> 1,
          sockets |-> 0, fds |-> 4]
Queue == [name |-> {"kafka"}, cmdline |-> {"object-store"}, cpu |-> 200,
          reads |-> 20000, writes |-> 20000, switches |-> 20000, memory |-> 9000,
          threads |-> 300, sockets |-> 2100, fds |-> 2200]

MCPrograms == {Shell, Queue}
MCSuccessors == {Shell}

MCMisses == {{}, {"name", "cmdline", "born", "cpu", "io", "fds"}}

\* Like one category above all, for each that has advice of its own; or like
\* two of them alike, and like two others a little less.
MCSimilarities ==
    {[c \in Categories |-> IF c = d THEN 90 ELSE IF c = "Microservice" THEN 60 ELSE 30] :
        d \in DOMAIN PlainTable}
    \cup {[c \in Categories |-> IF c \in {"EventStreaming", "ObjectStore"} THEN 95
                                ELSE IF c \in {"GraphDB", "CacheStore"} THEN 85 ELSE 0]}

\* Some as advised, one as on a fresh node, one that cannot be read.
MCSettings == {[x \in DOMAIN Checks |-> CASE x = "swappiness" -> 60
                                          [] x = "dirty_ratio" -> NoValue
                                          [] OTHER -> Checks[x].value]}

-----------------------------------------------------------------------------
(* Drift history: three mixes, neighbours of which are less than five      *)
(* points apart and the outer two seven, and an empty cycle.               *)

MCCats == {1, 2}

Split(n, m) == [i \in 1..(n + m) |-> IF i <= n THEN 1 ELSE 2]

MCCycles == {Split(1, 1), Split(5, 6), Split(3, 4), <<>>}

-----------------------------------------------------------------------------
MCPids == {1, 2, 3}
MCCpuOf == <<5, 0, 5>>
MCTopCounts == {-1, 0, 2, 5}
MCProviders == {"gemini", "custom"}

Selected(which) == part = which

ReportRests == ReportInit /\ features = {}
ProfileRests == /\ ProfileAt("failed") /\ linux /\ proc = Vacant
EnrichRests == EnrichAt("returned") /\ options = CHOOSE o \in Options : TRUE

vars == <<part, reportVars, profileVars, historyVars, enrichVars>>

Init ==
    /\ part \in {"report", "profile", "history", "enrich"}
    /\ IF Selected("report") THEN ReportInit ELSE ReportRests
    /\ IF Selected("profile") THEN ProfileInit ELSE ProfileRests
    /\ HistoryInit
    /\ IF Selected("enrich") THEN EnrichInit ELSE EnrichRests

Next ==
    /\ UNCHANGED part
    /\ \/ /\ Selected("report") /\ ReportNext
          /\ UNCHANGED <<profileVars, historyVars, enrichVars>>
       \/ /\ Selected("profile") /\ ProfileNext
          /\ UNCHANGED <<reportVars, historyVars, enrichVars>>
       \/ /\ Selected("history") /\ HistoryNext
          /\ UNCHANGED <<reportVars, profileVars, enrichVars>>
       \/ /\ Selected("enrich") /\ EnrichNext
          /\ UNCHANGED <<reportVars, profileVars, historyVars>>

Spec == Init /\ [][Next]_vars /\ EnrichFairness

TypeOK == /\ ReportTypeOK
          /\ ProfileTypeOK
          /\ HistoryTypeOK
          /\ Selected("enrich") => EnrichTypeOK
=============================================================================
