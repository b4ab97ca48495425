--------------------------- MODULE RunSubprocess ---------------------------
(***************************************************************************)
(* RunSubprocessCmd (pkg/cmd/run.go:57-216): start a program, sample it,   *)
(* wait for the profiling window, sample it again, classify it, print, and *)
(* kill and reap it.  The program exits when it likes, and signals arrive  *)
(* when they like.  A program that has exited stays in /proc as a zombie   *)
(* until the agent waits for it; only then may its PID be reused.          *)
(***************************************************************************)
CONSTANT Faults     \* what may go wrong: "start", "sample"

VARIABLES pc,        \* control point of RunSubprocessCmd
          accepted,  \* the options pass the checks of lines 58-110
          child,     \* the program: "none", "running", "zombie" or "reaped"
          killed,    \* SIGKILL has been sent to it
          sigChan,   \* a signal waits in the channel, whose capacity is 1
          watcher,   \* the goroutine that receives one signal
          subCtx,    \* "open" or "done"
          s1, s2,    \* what the samples saw: "nothing", "running" or "zombie"
          printed,   \* the prediction has been printed
          result     \* what is returned: "none" until then, "ok" or "error"

vars == <<pc, accepted, child, killed, sigChan, watcher, subCtx, s1, s2, printed, result>>

signals == <<sigChan, watcher, subCtx>>
samples == <<s1, s2>>

Init == /\ pc = "checking"
        /\ accepted \in BOOLEAN
        /\ child = "none"
        /\ killed = FALSE
        /\ sigChan = FALSE
        /\ watcher = "unstarted"
        /\ subCtx = "open"
        /\ s1 = "nothing" /\ s2 = "nothing"
        /\ printed = FALSE
        /\ result = "none"

-----------------------------------------------------------------------------
(* The program and the signals.                                            *)

\* The program ends by itself, or because it was killed.
ChildExits == /\ child = "running"
              /\ child' = "zombie"
              /\ UNCHANGED <<pc, accepted, killed, signals, samples, printed, result>>

\* Once the handler is installed a signal is queued, or dropped if one is.
Signal == /\ watcher # "unstarted"
          /\ pc # "returned"
          /\ sigChan' = TRUE
          /\ UNCHANGED <<pc, accepted, child, killed, watcher, subCtx, samples,
                         printed, result>>

\* The goroutine of run.go:126-129 receives one signal and is gone.
Watch == /\ watcher = "waiting"
         /\ pc # "returned"
         /\ sigChan
         /\ sigChan' = FALSE
         /\ watcher' = "gone"
         /\ subCtx' = "done"
         /\ UNCHANGED <<pc, accepted, child, killed, samples, printed, result>>

-----------------------------------------------------------------------------
(* RunSubprocessCmd.                                                       *)

Refuse == /\ pc = "checking"
          /\ ~accepted
          /\ pc' = "returned"
          /\ result' = "error"
          /\ UNCHANGED <<accepted, child, killed, signals, samples, printed>>

Accept == /\ pc = "checking"
          /\ accepted
          /\ pc' = "starting"
          /\ watcher' = "waiting"
          /\ UNCHANGED <<accepted, child, killed, sigChan, subCtx, samples, printed, result>>

Start == /\ pc = "starting"
         /\ child' = "running"
         /\ pc' = "first"
         /\ UNCHANGED <<accepted, killed, signals, samples, printed, result>>

StartFails == /\ pc = "starting"
              /\ "start" \in Faults
              /\ pc' = "returned"
              /\ result' = "error"
              /\ UNCHANGED <<accepted, child, killed, signals, samples, printed>>

\* Mutant: the first sample does not wait for the program to be started.
FirstSampleEarly == /\ pc \in {"starting", "first"}
                    /\ s1' = child
                    /\ pc' = "window"
                    /\ UNCHANGED <<accepted, child, killed, signals, s2, printed, result>>

\* GetRawStats: an entry of /proc is all it asks for.
FirstSample == /\ pc = "first"
               /\ child \in {"running", "zombie"}
               /\ s1' = child
               /\ pc' = "window"
               /\ UNCHANGED <<accepted, child, killed, signals, s2, printed, result>>

\* Mutant: the final sample reaps a program that has exited.
SecondSampleReaping == /\ pc = "second"
                       /\ child \in {"running", "zombie"}
                       /\ s2' = child
                       /\ child' = IF child = "zombie" THEN "reaped" ELSE child
                       /\ pc' = "reporting"
                       /\ UNCHANGED <<accepted, killed, signals, s1, printed, result>>

SecondSample == /\ pc = "second"
                /\ child \in {"running", "zombie"}
                /\ s2' = child
                /\ pc' = "reporting"
                /\ UNCHANGED <<accepted, child, killed, signals, s1, printed, result>>

\* Mutant: an error return forgets to clean up.
SampleFailsLeaving == /\ pc \in {"first", "second"}
                      /\ "sample" \in Faults
                      /\ result' = "error"
                      /\ pc' = "returned"
                      /\ UNCHANGED <<accepted, child, killed, signals, samples, printed>>

\* Mutant: an error return waits for the program without killing it.
SampleFailsWaiting == /\ pc \in {"first", "second"}
                      /\ "sample" \in Faults
                      /\ result' = "error"
                      /\ pc' = "waiting"
                      /\ UNCHANGED <<accepted, child, killed, signals, samples, printed>>

\* The /proc the agent looks at does not show the program.
SampleFails == /\ pc \in {"first", "second"}
               /\ "sample" \in Faults
               /\ result' = "error"
               /\ pc' = "killing"
               /\ UNCHANGED <<accepted, child, killed, signals, samples, printed>>

WindowElapses == /\ pc = "window"
                 /\ pc' = "second"
                 /\ UNCHANGED <<accepted, child, killed, signals, samples, printed, result>>

\* Mutant: an interrupted profile is reported with what is there.
WindowInterruptedReporting == /\ pc = "window"
                              /\ subCtx = "done"
                              /\ pc' = "reporting"
                              /\ UNCHANGED <<accepted, child, killed, signals, samples,
                                             printed, result>>

WindowInterrupted == /\ pc = "window"
                     /\ subCtx = "done"
                     /\ result' = "error"
                     /\ pc' = "killing"
                     /\ UNCHANGED <<accepted, child, killed, signals, samples, printed>>

\* Rates, prediction, output (a Prediction holds nothing that json.MarshalIndent
\* refuses); ProcessState is nil, for nobody has waited yet.
Report == /\ pc = "reporting"
          /\ printed' = TRUE
          /\ result' = "ok"
          /\ pc' = "killing"
          /\ UNCHANGED <<accepted, child, killed, signals, samples>>

Kill == /\ pc = "killing"
        /\ killed' = TRUE
        /\ pc' = "waiting"
        /\ UNCHANGED <<accepted, child, signals, samples, printed, result>>

Wait == /\ pc = "waiting"
        /\ child = "zombie"
        /\ child' = "reaped"
        /\ pc' = "returned"
        /\ UNCHANGED <<accepted, killed, signals, samples, printed, result>>

Agent == \/ Refuse \/ Accept
         \/ Start \/ StartFails
         \/ FirstSample \/ SecondSample \/ SampleFails
         \/ WindowElapses \/ WindowInterrupted
         \/ Report
         \/ Kill \/ Wait

Finished == pc = "returned" /\ UNCHANGED vars

Next == ChildExits \/ Signal \/ Watch \/ Agent \/ Finished

Spec == Init /\ [][Next]_vars

\* The agent runs, its timer fires, and a program that was sent SIGKILL dies; one
\* that was not may run for ever.
FairSpec == Spec /\ WF_vars(Agent) /\ WF_vars(killed /\ ChildExits)

-----------------------------------------------------------------------------
TypeOK == /\ pc \in {"checking", "starting", "first", "window", "second", "reporting",
                     "killing", "waiting", "returned"}
          /\ accepted \in BOOLEAN
          /\ child \in {"none", "running", "zombie", "reaped"}
          /\ killed \in BOOLEAN
          /\ sigChan \in BOOLEAN
          /\ watcher \in {"unstarted", "waiting", "gone"}
          /\ subCtx \in {"open", "done"}
          /\ {s1, s2} \subseteq {"nothing", "running", "zombie"}
          /\ printed \in BOOLEAN
          /\ result \in {"none", "ok", "error"}

\* The command leaves no process behind, running or unreaped, on any path and
\* whenever the program exits or a signal comes (run.go:159-160, 172-173,
\* 185-186 and 208-214).
NothingLeftBehind == pc = "returned" => child \in {"none", "reaped"}

\* SIGKILL goes to the program that was started: its PID cannot have been given
\* to another process, because nobody has waited for it yet (run.go:208-213).
KillsItsOwnChild == pc = "killing" => child \in {"running", "zombie"}

\* A profile is printed exactly by the calls that return no error, and is made of
\* two samples of which the first did not see the program dead and the second
\* alive.
ProfileIsComplete ==
    pc = "returned" =>
        /\ printed <=> result = "ok"
        /\ printed => <<s1, s2>> \in {<<"running", "running">>, <<"running", "zombie">>,
                                      <<"zombie", "zombie">>}

\* The command always returns, also when the program would run for ever.
CommandReturns == <>(pc = "returned")

\* Documented at run.go:29-31 and in the message of run.go:183: when the program
\* exits before the second sample, the profile cannot be completed.
EarlyExitIsAnError == printed => s2 = "running"
=============================================================================
