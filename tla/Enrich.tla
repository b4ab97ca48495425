------------------------------- MODULE Enrich -------------------------------
(***************************************************************************)
(* The enrich command (pkg/cmd/enrich.go:84-328, 386-486, 488-718): it     *)
(* takes a live capture or a file of predictions, keeps a few of them and  *)
(* has a provider's API write a report, while a goroutine animates a       *)
(* spinner.  Predictions are represented by their PIDs.                    *)
(***************************************************************************)
EXTENDS Integers, Sequences, FiniteSets, SequencesExt

CONSTANTS Pids,
          CpuOf,       \* [Pids -> Nat]: the CPU usage that the capture comes to
          TopCounts,   \* values of --top
          Providers    \* "gemini", "openai", "grok", "claude" or another one

ASSUME EnrichAssumption == /\ IsFiniteSet(Pids) /\ CpuOf \in [Pids -> Nat]
                           /\ TopCounts \subseteq Int

VARIABLES phase,
          options,     \* [file, json, pid (0 for all), top, provider, endpoint]
          signalled,   \* the context that the signal handler cancels is done
          first, second,   \* the PIDs of the two collections of a capture
          payload,     \* the predictions, in order
          answer,      \* of the API: "none", "text" or "error"
          done,        \* the channel is closed
          spinner,     \* where its goroutine is
          lateFrames,  \* history: frames drawn after the line was cleared, up to 2
          result       \* what the command came to

capture == <<first, second, payload>>
drawing == <<spinner, lateFrames>>
enrichVars == <<phase, options, signalled, capture, answer, done, drawing, result>>

Options == [file : BOOLEAN, json : BOOLEAN, pid : {0, CHOOSE p \in Pids : TRUE},
            top : TopCounts, provider : Providers, endpoint : BOOLEAN]

EnrichAt(place) ==
    /\ phase = place
    /\ options \in Options
    /\ signalled = FALSE
    /\ first = {} /\ second = {} /\ payload = <<>>
    /\ answer = "none" /\ done = FALSE
    /\ spinner = "none" /\ lateFrames = 0
    /\ result = "none"

EnrichInit == EnrichAt("called")

\* The handler of SIGINT and SIGTERM cancels the context and does no more.
EnrichSignal == /\ ~signalled /\ phase # "returned"
                /\ signalled' = TRUE
                /\ UNCHANGED <<phase, options, capture, answer, done, drawing, result>>

-----------------------------------------------------------------------------
(* The predictions.                                                        *)

Return(value) == phase' = "returned" /\ result' = value

Steps == UNCHANGED <<options, signalled, answer, done, drawing>>

\* The gates: a duration that is not positive, live telemetry of a privileged
\* context meant for a remote API, no consent to one, or no key and no endpoint.
Reject == /\ phase = "called"
          /\ Return("error")
          /\ Steps /\ UNCHANGED capture

Accept == /\ phase = "called"
          /\ phase' = IF options.file THEN "loading" ELSE "listing"
          /\ Steps /\ UNCHANGED <<capture, result>>

\* An envelope with predictions, or an array, which may be empty; in the order
\* of the file.  Anything else is an error, an envelope without any included.
Load == /\ phase = "loading"
        /\ \/ /\ \E some \in SUBSET Pids : payload' \in SetToSeqs(some)
              /\ phase' = "filtering" /\ UNCHANGED result
           \/ Return("error") /\ UNCHANGED payload
        /\ Steps /\ UNCHANGED <<first, second>>

List == /\ phase = "listing"
        /\ \/ phase' = "first" /\ UNCHANGED result
           \/ Return("error")
        /\ Steps /\ UNCHANGED capture

\* A collection returns some of the PIDs listed, also when its five seconds are
\* over or a signal came.
CollectFirst == /\ phase = "first"
                /\ first' \in SUBSET Pids
                /\ phase' = "window"
                /\ Steps /\ UNCHANGED <<second, payload, result>>

\* After a signal the window may also have elapsed just before it.
WaitWindow == /\ phase = "window"
              /\ \/ phase' = "second" /\ UNCHANGED result
                 \/ signalled /\ Return("error")
              /\ Steps /\ UNCHANGED capture

CollectSecond == /\ phase = "second"
                 /\ second' \in SUBSET Pids
                 /\ phase' = "sorting"
                 /\ Steps /\ UNCHANGED <<first, payload, result>>

\* Mutant: the predictions stay in the order of the listing.
AnyOrder == SetToSeqs(first \cap second)

\* A process measured only once is left out; of two with the same usage either
\* may come first.
ByCpu == {s \in SetToSeqs(first \cap second) :
             \A i, j \in DOMAIN s : i < j => CpuOf[s[i]] >= CpuOf[s[j]]}

Sort == /\ phase = "sorting"
        /\ payload' \in ByCpu
        /\ phase' = "filtering"
        /\ Steps /\ UNCHANGED <<first, second, result>>

\* The first prediction of a PID, if there is one.
Only(pid, s) == IF \E i \in DOMAIN s : s[i] = pid THEN <<pid>> ELSE <<>>

Filter == /\ phase = "filtering"
          /\ payload' = IF options.pid = 0 THEN payload ELSE Only(options.pid, payload)
          /\ phase' = "trimming"
          /\ Steps /\ UNCHANGED <<first, second, result>>

\* A slice with a negative bound panics, also when there is nothing to cut.
Trim == /\ phase = "trimming"
        /\ \/ /\ options.top < 0
              /\ Return("panic") /\ UNCHANGED payload
           \/ /\ options.top >= 0
              /\ payload' = IF Len(payload) > options.top
                            THEN SubSeq(payload, 1, options.top) ELSE payload
              /\ phase' = "trimmed" /\ UNCHANGED result
        /\ Steps /\ UNCHANGED <<first, second>>

PrintPayload == /\ phase = "trimmed"
                /\ \/ payload = <<>> /\ Return("nothing found")
                   \/ payload # <<>> /\ options.json /\ Return("payload")
                /\ Steps /\ UNCHANGED capture

-----------------------------------------------------------------------------
(* The query and the spinner.                                              *)

StartSpinner == /\ phase = "trimmed"
                /\ payload # <<>> /\ ~options.json
                /\ spinner' = "checking"
                /\ phase' = "querying"
                /\ UNCHANGED <<options, signalled, capture, answer, done, lateFrames, result>>

\* Whether the provider has a call at all: the last resort is an endpoint.
Supported == options.provider \in {"gemini", "openai", "grok", "claude"} \/ options.endpoint

AnswerWith(value) ==
    /\ phase = "querying" /\ answer = "none"
    /\ answer' = value
    /\ UNCHANGED <<phase, options, signalled, capture, done, drawing, result>>

\* The text of the first candidate, or one of the errors: no connection, a status
\* other than 200, a body that cannot be parsed or has no text in it.
Respond == Supported /\ \E value \in {"text", "error"} : AnswerWith(value)

Unsupported == ~Supported /\ AnswerWith("error")

\* Mutant: the query runs under the context of the signal, without a limit.
NoLimit == AnswerWith("error") /\ signalled

\* The context of 120 seconds, or the client's own 30: it does not depend on the
\* one that a signal cancels.
TimeOut == AnswerWith("error")

\* Mutant: only a successful query closes the channel.
CloseIfAnswered == /\ phase = "querying" /\ answer # "none"
                   /\ done' = (answer = "text")
                   /\ phase' = "clearing"
                   /\ UNCHANGED <<options, signalled, capture, answer, drawing, result>>

CloseDone == /\ phase = "querying" /\ answer # "none"
             /\ done' = TRUE
             /\ phase' = "clearing"
             /\ UNCHANGED <<options, signalled, capture, answer, drawing, result>>

ClearLine == /\ phase = "clearing"
             /\ phase' = "reporting"
             /\ UNCHANGED <<options, signalled, capture, answer, done, drawing, result>>

\* The report, or the error with its hints; the process ends with the command.
Report == /\ phase = "reporting"
          /\ Return(IF answer = "text" THEN "report" ELSE "error")
          /\ spinner' = "none"
          /\ UNCHANGED <<options, signalled, capture, answer, done, lateFrames>>

Spin(from, to) == spinner = from /\ spinner' = to

CheckDone == /\ Spin("checking", IF done THEN "none" ELSE "drawing")
             /\ UNCHANGED lateFrames

Draw == /\ Spin("drawing", "sleeping")
        /\ lateFrames' = IF phase = "reporting" /\ lateFrames < 2 THEN lateFrames + 1
                         ELSE lateFrames

Wake == Spin("sleeping", "checking") /\ UNCHANGED lateFrames

Spinner == /\ CheckDone \/ Draw \/ Wake
           /\ UNCHANGED <<phase, options, signalled, capture, answer, done, result>>

-----------------------------------------------------------------------------
Command == \/ Reject \/ Accept \/ Load \/ List \/ CollectFirst \/ WaitWindow
           \/ CollectSecond \/ Sort \/ Filter \/ Trim \/ PrintPayload \/ StartSpinner
           \/ Unsupported \/ TimeOut \/ CloseDone \/ ClearLine \/ Report

EnrichDone == phase = "returned" /\ UNCHANGED enrichVars

EnrichNext == EnrichSignal \/ Command \/ Respond \/ Spinner \/ EnrichDone

\* The command's goroutine runs and its timers fire; the API need not answer.
EnrichFairness == WF_enrichVars(Command)

EnrichTypeOK ==
    /\ options \in Options
    /\ {first, second} \subseteq SUBSET Pids
    /\ ToSet(payload) \subseteq Pids
    /\ answer \in {"none", "text", "error"}
    /\ {signalled, done} \subseteq BOOLEAN
    /\ spinner \in {"none", "checking", "drawing", "sleeping"}
    /\ lateFrames \in 0..2
    /\ result \in {"none", "error", "panic", "nothing found", "payload", "report"}
    /\ result # "none" <=> phase = "returned"

\* A live analysis without a PID is of the heaviest processes among those that
\* were measured twice: as many of them as asked for, and none that was left
\* out used more CPU than one that was kept (enrich.go:174-196, 436-460).
HeaviestAreAnalysed ==
    phase = "trimmed" /\ ~options.file /\ options.pid = 0 =>
        LET measured == first \cap second
            kept == ToSet(payload)
        IN  /\ kept \subseteq measured
            /\ Cardinality(kept) = Min({options.top, Cardinality(measured)})
            /\ \A p \in kept, q \in measured \ kept : CpuOf[p] >= CpuOf[q]

\* The spinner draws at most one frame over the report: the one that it had
\* decided to draw when the channel was closed (enrich.go:291-309).
AtMostOneLateFrame == lateFrames <= 1

\* The command returns, whether or not the API ever answers and whatever happens
\* to the processes meanwhile (enrich.go:284, 307, 649, 697).
EnrichReturns == phase = "called" ~> phase = "returned"
=============================================================================
