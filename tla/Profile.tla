------------------------------ MODULE Profile ------------------------------
(***************************************************************************)
(* The commands that profile one PID: analyze (pkg/cmd/analyze.go:54-118)  *)
(* and explain (pkg/cmd/explain_cmd.go:78-146), by MonitorProcess (pkg/    *)
(* collector/collector.go:217-336).  Two samples are taken of whatever     *)
(* runs under the PID: processes exit and the PID may be used again while  *)
(* the command reads and waits.                                            *)
(***************************************************************************)
EXTENDS Explain, Optimizer

CONSTANTS Programs,    \* records: the words of name and cmdline; cpu, reads, writes and
                       \* switches per tick; memory, threads, sockets, fds
          Successors,  \* those that may run under the PID when it is free again
          Vacant,      \* no process, no sample, no report
          Misses,      \* sets of reads that fail in one sample, of "name", "cmdline",
                       \* "cpu", "io", "switches", "fds", "sockets" and "born"
          Similarities,   \* what the centroids may say of the telemetry
          Settings,       \* values of the checked settings of the node
          MaxTime         \* bound on the clock

ASSUME ProfileAssumption ==
    /\ Successors \subseteq Programs
    /\ \A p \in Programs :
           /\ {p.cpu, p.reads, p.writes, p.switches, p.memory, p.threads, p.sockets, p.fds}
                  \subseteq Nat
           /\ p.name # {} /\ p.cmdline # {}
    /\ \A similar \in Similarities : \A c \in DOMAIN similar : similar[c] \in 0..100
    /\ Vacant \notin Nat
    /\ MaxTime \in Nat \ {0}

VARIABLES clock, linux, settings,
          proc,      \* [program, born, ran]: what runs under the PID, or Vacant
          step,      \* where the command is
          s1, s2,    \* the samples
          owners,    \* history: births of the processes found for the samples
          report     \* what is printed

table == <<clock, linux, settings, proc>>
samples == <<s1, s2, owners>>
profileVars == <<table, step, samples, report>>

ProfileAt(place) ==
    /\ clock = 1
    /\ linux \in BOOLEAN /\ settings \in Settings
    /\ proc \in {Vacant} \cup {[program |-> p, born |-> 0, ran |-> 1] : p \in Programs}
    /\ step = place
    /\ s1 = Vacant /\ s2 = Vacant /\ owners = <<Vacant, Vacant>>
    /\ report = Vacant

ProfileInit == ProfileAt("asked")

-----------------------------------------------------------------------------
(* The node, while the command can see it: what it did before is in the    *)
(* initial state.                                                          *)

NodeOnly == UNCHANGED <<linux, settings, step, samples, report>>

Seen == step \in {"first", "window", "second"}

Elapse == /\ Seen \/ step = "sampled"
          /\ clock < MaxTime
          /\ clock' = clock + 1
          /\ proc' = IF proc = Vacant THEN Vacant ELSE [proc EXCEPT !.ran = @ + 1]
          /\ NodeOnly

Exits == /\ Seen
         /\ proc # Vacant
         /\ proc' = Vacant
         /\ NodeOnly /\ UNCHANGED clock

Starts(program) ==
    /\ Seen
    /\ proc = Vacant
    /\ proc' = [program |-> program, born |-> clock, ran |-> 0]
    /\ NodeOnly /\ UNCHANGED clock

-----------------------------------------------------------------------------
(* MonitorProcess.                                                         *)

GoOn(next) == step' = next /\ UNCHANGED <<table, report>>

\* A PID or, for analyze, a duration that is not positive is an error; explain
\* takes one second for the latter.  Nobody cancels the context of these
\* commands, so the window always elapses.
Refuse == step = "asked" /\ GoOn("failed") /\ UNCHANGED samples

Elapsed == step = "window" /\ clock > s1.taken

\* NewProcess does not find the PID: the only error of GetRawStats.  Whatever the
\* error is, explain then exits with success.
NotFound == /\ proc = Vacant
            /\ step = "asked" \/ Elapsed
            /\ GoOn("failed") /\ UNCHANGED samples

\* The name and the command line, which is the name if it cannot be read.
\* Those that are cached are not read again.
Identity(cached, missed) ==
    LET name == IF cached.name # {} THEN cached.name
                ELSE IF "name" \in missed THEN {} ELSE proc.program.name
    IN  [name    |-> name,
         cmdline |-> IF cached.cmdline # {} THEN cached.cmdline
                     ELSE IF "cmdline" \in missed THEN name ELSE proc.program.cmdline,
         born    |-> IF "born" \in missed THEN Vacant ELSE proc.born,
         missed  |-> missed,
         taken   |-> clock]

Nameless == [name |-> {}, cmdline |-> {}]

FindFirst(missed) ==
    /\ step = "asked"
    /\ proc # Vacant
    /\ s1' = Identity(Nameless, missed)
    /\ owners' = <<proc.born, Vacant>>
    /\ UNCHANGED s2
    /\ GoOn("first")

\* The rest of a sample, of what is under the PID by now.  What cannot be read, for
\* lack of permission or because the process has gone, is zero.
Counters(missed) ==
    LET none == [cpu |-> 0, reads |-> 0, writes |-> 0, switches |-> 0,
                 memory |-> 0, threads |-> 0, sockets |-> 0, fds |-> 0]
        program == IF proc = Vacant THEN none ELSE proc.program
        total(read, rate) == IF proc = Vacant \/ read \in missed THEN 0 ELSE rate * proc.ran
    IN  [cpu      |-> total("cpu", program.cpu),
         reads    |-> total("io", program.reads),
         writes   |-> total("io", program.writes),
         switches |-> total("switches", program.switches),
         memory   |-> program.memory, threads |-> program.threads,
         sockets  |-> IF "sockets" \in missed THEN 0 ELSE program.sockets,
         fds      |-> IF "fds" \in missed THEN 0 ELSE program.fds,
         born     |-> IF proc = Vacant \/ "born" \in missed THEN Vacant ELSE proc.born]

\* Two records as one; of a field that both have, the first counts.
Joined(r, t) == [x \in DOMAIN r \cup DOMAIN t |-> IF x \in DOMAIN r THEN r[x] ELSE t[x]]

\* The creation time comes last, but the library may have kept that of the
\* process it found.
Complete(sample) ==
    LET counters == Counters(sample.missed)
    IN  {Joined(sample, counters), Joined(counters, sample)}

ReadFirst ==
    /\ step = "first"
    /\ s1' \in Complete(s1)
    /\ UNCHANGED <<s2, owners>>
    /\ GoOn("window")

FindSecond(missed) ==
    /\ Elapsed
    /\ proc # Vacant
    /\ s2' = Identity(s1, missed)
    /\ owners' = <<owners[1], proc.born>>
    /\ UNCHANGED s1
    /\ GoOn("second")

ReadSecond ==
    /\ step = "second"
    /\ s2' \in Complete(s2)
    /\ UNCHANGED <<s1, owners>>
    /\ GoOn("sampled")

-----------------------------------------------------------------------------
(* CalculateRateStats and the report.                                      *)

\* A counter that went back counts as idle, and a window of no length as one.
Rate(first, second, elapsed) ==
    IF second < first THEN 0 ELSE (second - first) \div elapsed

\* Mutant: the age is that of the process that was found first.
AgeOfFirst(first, second) ==
    IF first.born = Vacant \/ first.born > clock THEN 0 ELSE clock - first.born

\* A creation time that could not be read gives age 0.
Age(first, second) ==
    IF second.born = Vacant \/ second.born > clock THEN 0 ELSE clock - second.born

CalculateRateStats(first, second) ==
    LET elapsed == IF second.taken > first.taken THEN second.taken - first.taken ELSE 1
    IN  [name     |-> second.name, cmdline |-> second.cmdline,
         cpu      |-> Rate(first.cpu, second.cpu, elapsed),
         reads    |-> Rate(first.reads, second.reads, elapsed),
         writes   |-> Rate(first.writes, second.writes, elapsed),
         switches |-> Rate(first.switches, second.switches, elapsed),
         memory   |-> second.memory, threads |-> second.threads,
         sockets  |-> second.sockets, fds |-> second.fds,
         age      |-> Age(first, second)]

\* In text mode the structured list takes the place of an empty plain one.
Shown(plain, structured) == IF plain = {} THEN structured ELSE plain

Advised(s, category) ==
    LET plain == Optimize(linux, s, category, settings)
        structured == OptimizeStructured(linux, s, category)
    IN  [plain |-> plain, structured |-> structured, text |-> Shown(plain, structured)]

\* Nothing from here on is shared with the node: the telemetry is classified
\* and printed with the recommendations, or with the explanation.
Conclude(similar) ==
    /\ step = "sampled"
    /\ LET stats == Joined(CalculateRateStats(s1, s2), [similar |-> similar])
           told(p) == Joined(p, [stats |-> stats])
       IN  \E p \in Predict(stats) :
               \/ report' = Joined(told(p), Advised(stats, p.primary))
               \/ \E x \in Explanations(p, stats) : report' = Joined(told(p), x)
    /\ step' = "printed"
    /\ UNCHANGED <<table, samples>>

ProfileDone == step \in {"printed", "failed"} /\ UNCHANGED profileVars

ProfileNext ==
    \/ Elapse \/ Exits \/ \E program \in Successors : Starts(program)
    \/ Refuse \/ NotFound
    \/ \E missed \in Misses : FindFirst(missed) \/ FindSecond(missed)
    \/ ReadFirst \/ ReadSecond
    \/ \E similar \in Similarities : Conclude(similar)
    \/ ProfileDone

-----------------------------------------------------------------------------
ProfileTypeOK ==
    /\ clock \in 1..MaxTime
    /\ linux \in BOOLEAN /\ settings \in Settings
    /\ proc # Vacant => proc.program \in Programs /\ proc.born \in 0..clock
    /\ step \in {"asked", "first", "window", "second", "sampled", "printed", "failed"}
    /\ report # Vacant => report.primary \in Categories /\ report.confidence \in 0..100

Explained == step = "printed" /\ "runnerUp" \in DOMAIN report
Analysed == step = "printed" /\ "plain" \in DOMAIN report

\* A process whose telemetry has not changed keeps its category when the command
\* is given again, unless two categories have exactly the same score: that two
\* are both shown at 100% does not make it change (classifier.go:376-397).
CategoryIsStable ==
    step = "printed" =>
        LET scores == ScoresOf(report.stats)
        IN  \A p \in Predict(report.stats) :
                p.primary # report.primary => scores[p.primary] = scores[report.primary]

\* The distance explain prints is the lead over the best of the other
\* categories, never negative, whichever way the unstable sort put equal
\* scores; the winner is named as its own runner-up only at distance 0; and
\* the hint about the gap speaks of the same distance (explain.go:168-178,
\* 318-333).
GapIsToTheRival ==
    Explained =>
        LET best == Max({report.scores[c] : c \in Categories \ {report.primary}})
        IN  /\ report.distance = report.confidence - best
            /\ report.distance >= 0
            /\ report.runnerUp = report.primary => report.distance = 0
            /\ report.closest # "none" => /\ report.closest # report.primary
                                         /\ report.scores[report.closest] = best
            /\ (report.closest # "none") = (best > 0 /\ report.distance < 15)

\* A PID that was used again during the window gives the name of one process with
\* the counters of another, and no error says so: but the age in the report is
\* then at most the time since the command began, and for one process that is
\* still there, if its age could be read, it is no less than the window
\* (collector.go:230, 283-289).
MixedProfileShowsInAge ==
    step = "printed" =>
        /\ owners[1] # owners[2] => report.stats.age <= clock - s1.taken
        /\ proc # Vacant /\ proc.born = owners[1] /\ s2.born # Vacant =>
               report.stats.age >= s2.taken - s1.taken

\* The two lists of recommendations, which are written down twice, have the
\* same subjects, except that without a number of descriptors only the plain
\* one speaks of the share of sockets; on other platforms the text shows the
\* structured one (optimizer.go:26-155, report.go:138-586, analyze.go:110).
AdviceListsAgree ==
    Analysed =>
        LET uncounted == report.stats.fds = 0 /\ report.stats.sockets > 0
        IN  /\ linux => Subjects(report.plain) =
                   Subjects(report.structured) \cup
                       (IF uncounted THEN {"socket_fd_ratio"} ELSE {})
            /\ Subjects(report.text) =
                   Subjects(IF linux THEN report.plain ELSE report.structured)
=============================================================================
