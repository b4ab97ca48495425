------------------------ MODULE RunSubprocessProofs ------------------------
(* The safety of RunSubprocess, whatever goes wrong.                       *)
EXTENDS RunSubprocess, TLAPS

\* Where the agent may be while the program has not been waited for.
Owning == {"first", "window", "second", "reporting", "killing", "waiting"}

\* The program exists exactly from Start to Wait.
ChildInv == /\ pc \in {"checking", "starting"} => child = "none"
            /\ pc \in Owning => child \in {"running", "zombie"}
            /\ pc = "returned" => child \in {"none", "reaped"}

\* Samples are taken in order, and what exited stays exited.
SampleInv == /\ pc \in {"checking", "starting", "first"} => s1 = "nothing"
             /\ pc \in {"window", "second", "reporting"} => s1 \in {"running", "zombie"}
             /\ s1 = "zombie" => child # "running"
             /\ pc = "reporting" => s2 \in {"running", "zombie"}
             /\ pc = "reporting" /\ s1 = "zombie" => s2 = "zombie"

\* Success is only decided by Report.
ResultInv == /\ pc \in {"checking", "starting", "first", "window", "second", "reporting"}
                    => ~printed /\ result = "none"
             /\ pc \in {"killing", "waiting", "returned"} => result # "none"
             /\ printed <=> result = "ok"
             /\ printed => /\ s1 \in {"running", "zombie"}
                           /\ s2 \in {"running", "zombie"}
                           /\ s1 = "zombie" => s2 = "zombie"

IInv == TypeOK /\ ChildInv /\ SampleInv /\ ResultInv

\* Every initial state satisfies the inductive invariant.
LEMMA InitIInv == Init => IInv
BY DEF Init, IInv, TypeOK, ChildInv, SampleInv, ResultInv, Owning

\* Every step of the program, the signals and the agent keeps it.
LEMMA StepIInv == IInv /\ [Next]_vars => IInv'
<1> SUFFICES ASSUME IInv, [Next]_vars
             PROVE  IInv'
    OBVIOUS
<1> USE DEF IInv, TypeOK, ChildInv, SampleInv, ResultInv, Owning, signals, samples
<1>1. CASE ChildExits
    BY <1>1 DEF ChildExits
<1>2. CASE Signal
    BY <1>2 DEF Signal
<1>3. CASE Watch
    BY <1>3 DEF Watch
<1>4. CASE Refuse \/ Accept
    BY <1>4 DEF Refuse, Accept
<1>5. CASE Start \/ StartFails
    BY <1>5 DEF Start, StartFails
<1>6. CASE FirstSample
    BY <1>6 DEF FirstSample
<1>7. CASE SecondSample
    BY <1>7 DEF SecondSample
<1>8. CASE SampleFails
    BY <1>8 DEF SampleFails
<1>9. CASE WindowElapses \/ WindowInterrupted
    BY <1>9 DEF WindowElapses, WindowInterrupted
<1>10. CASE Report
    BY <1>10 DEF Report
<1>11. CASE Kill
    BY <1>11 DEF Kill
<1>12. CASE Wait
    BY <1>12 DEF Wait
<1>13. CASE UNCHANGED vars
    BY <1>13 DEF vars
<1> QED
    BY <1>1, <1>2, <1>3, <1>4, <1>5, <1>6, <1>7, <1>8, <1>9, <1>10, <1>11, <1>12, <1>13
    DEF Next, Agent, Finished

\* The inductive invariant holds of every behaviour.
THEOREM Inductive == Spec => []IInv
BY InitIInv, StepIInv, PTL DEF Spec

\* Every variable keeps to its type.
THEOREM TypeCorrect == Spec => []TypeOK
<1>1. IInv => TypeOK
    BY DEF IInv
<1> QED
    BY <1>1, Inductive, PTL

\* No path of the command leaves a process behind.
THEOREM ChildIsReaped == Spec => []NothingLeftBehind
<1>1. IInv => NothingLeftBehind
    BY DEF IInv, ChildInv, NothingLeftBehind
<1> QED
    BY <1>1, Inductive, PTL

\* SIGKILL never goes to a PID the agent no longer owns.
THEOREM KillIsSafe == Spec => []KillsItsOwnChild
<1>1. IInv => KillsItsOwnChild
    BY DEF IInv, ChildInv, Owning, KillsItsOwnChild
<1> QED
    BY <1>1, Inductive, PTL

\* A printed profile has both samples, in the order of the program's life, and
\* is what a call without an error returns.
THEOREM ProfileHasBothSamples == Spec => []ProfileIsComplete
<1>1. IInv => ProfileIsComplete
    BY DEF IInv, ResultInv, ProfileIsComplete
<1> QED
    BY <1>1, Inductive, PTL
=============================================================================
