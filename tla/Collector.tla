----------------------------- MODULE Collector -----------------------------
(***************************************************************************)
(* One call of CollectConcurrentRawStats (pkg/collector/collector.go:      *)
(* 697-741): the calling goroutine spawns one goroutine per listed PID,    *)
(* each takes a slot of a buffered channel used as a semaphore (or gives   *)
(* up when the context is done), samples its process with GetRawStats,     *)
(* stores the sample in a mutex-protected map and signals a WaitGroup the  *)
(* caller waits on.  The processes being sampled exit whenever they like.  *)
(***************************************************************************)
EXTENDS Integers, FiniteSets

CONSTANTS Procs,   \* the PIDs handed to the call
          Limit,   \* capacity of the semaphore channel (20 in the code)
          Absent   \* "no entry under this PID" in statsMap, "nobody" for mu

ASSUME CollectorAssumption ==
    /\ IsFiniteSet(Procs)
    /\ Limit \in Nat \ {0}
    /\ Absent \notin Procs \cup {"full", "partial"}

VARIABLES done,      \* ctx.Done() is closed: signal, or the cycle's deadline
          alive,     \* the PIDs in the operating system's process table
          caller,    \* control point of the calling goroutine
          pc,        \* control point of the goroutine of each PID
          wg,        \* the WaitGroup's counter
          tokens,    \* number of elements in the channel sem
          mu,        \* holder of the mutex
          sample,    \* the RawStats each goroutine has in hand
          statsMap,  \* the result under construction
          timed,     \* PIDs whose durationRecorder call was made
          errored    \* PIDs whose errRecorder("get_raw_stats") call was made

env     == <<done, alive>>
records == <<timed, errored>>
vars    == <<done, alive, caller, pc, wg, tokens, mu, sample, statsMap,
             timed, errored>>

\* A sample is partial when some read after NewProcess failed: GetRawStats
\* leaves the field at zero and still returns a nil error.
Quality == {"full", "partial"}

Points == {"unspawned", "selecting", "opening", "reading", "sampled", "locked",
           "stored", "unlocked", "failed", "releasing", "leaving", "exited"}

\* Control points at which a goroutine owns a slot of the semaphore ...
Holding == {"opening", "reading", "sampled", "locked", "stored", "unlocked",
            "failed", "releasing"}
\* ... is inside GetRawStats, with files of /proc open ...
Sampling == {"opening", "reading"}
\* ... owns the mutex ...
Critical == {"locked", "stored"}
\* ... or has been added to the WaitGroup and has not left it.
Working == Points \ {"unspawned", "exited"}

At(S) == {p \in Procs : pc[p] \in S}

TypeOK == /\ done \in BOOLEAN
          /\ alive \in SUBSET Procs
          /\ caller \in {"spawning", "waiting", "returned"}
          /\ pc \in [Procs -> Points]
          /\ wg \in Nat
          /\ tokens \in 0..Limit
          /\ mu \in Procs \cup {Absent}
          /\ sample \in [Procs -> Quality \cup {Absent}]
          /\ statsMap \in [Procs -> Quality \cup {Absent}]
          /\ timed \in SUBSET Procs
          /\ errored \in SUBSET Procs

Init == /\ done = FALSE
        /\ alive = Procs
        /\ caller = "spawning"
        /\ pc = [p \in Procs |-> "unspawned"]
        /\ wg = 0
        /\ tokens = 0
        /\ mu = Absent
        /\ sample = [p \in Procs |-> Absent]
        /\ statsMap = [p \in Procs |-> Absent]
        /\ timed = {}
        /\ errored = {}

Goto(p, from, to) == /\ pc[p] = from
                     /\ pc' = [pc EXCEPT ![p] = to]

-----------------------------------------------------------------------------
(* The environment.                                                        *)

\* SIGINT/SIGTERM cancels the scan's context, or the cycle's timeout expires.
Cancel == /\ ~done
          /\ done' = TRUE
          /\ UNCHANGED <<alive, caller, pc, wg, tokens, mu, sample, statsMap, records>>

\* A listed process exits.
Exit(p) == /\ p \in alive
           /\ alive' = alive \ {p}
           /\ UNCHANGED <<done, caller, pc, wg, tokens, mu, sample, statsMap, records>>

-----------------------------------------------------------------------------
(* The calling goroutine.                                                  *)

\* wg.Add(1); go func(p) {...}(p)
Spawn(p) == /\ caller = "spawning"
            /\ Goto(p, "unspawned", "selecting")
            /\ wg' = wg + 1
            /\ UNCHANGED <<env, caller, tokens, mu, sample, statsMap, records>>

\* The loop over procs ends and wg.Wait() begins.
Wait == /\ caller = "spawning"
        /\ At({"unspawned"}) = {}
        /\ caller' = "waiting"
        /\ UNCHANGED <<env, pc, wg, tokens, mu, sample, statsMap, records>>

\* wg.Wait() returns and so does the call.
Return == /\ caller = "waiting"
          /\ wg = 0
          /\ caller' = "returned"
          /\ UNCHANGED <<env, pc, wg, tokens, mu, sample, statsMap, records>>

-----------------------------------------------------------------------------
(* The goroutine of PID p.                                                 *)

\* Mutant: the slot is counted but the channel's capacity is not respected.
AcquireUnbounded(p) == /\ Goto(p, "selecting", "opening")
                       /\ tokens' = tokens + 1
                       /\ UNCHANGED <<env, caller, wg, mu, sample, statsMap, records>>

\* case sem <- struct{}{}
Acquire(p) == /\ tokens < Limit
              /\ Goto(p, "selecting", "opening")
              /\ tokens' = tokens + 1
              /\ UNCHANGED <<env, caller, wg, mu, sample, statsMap, records>>

\* Mutant: a full semaphore drops the PID, as a select with a default would.
SkipWhenFull(p) == /\ done \/ tokens = Limit
                   /\ Goto(p, "selecting", "leaving")
                   /\ UNCHANGED <<env, caller, wg, tokens, mu, sample, statsMap, records>>

\* case <-ctx.Done(): return, with nothing recorded.  When both cases of the
\* select are ready Go picks either, so Acquire stays possible after Cancel.
Skip(p) == /\ done
           /\ Goto(p, "selecting", "leaving")
           /\ UNCHANGED <<env, caller, wg, tokens, mu, sample, statsMap, records>>

\* GetRawStats: NewProcessWithContext finds the process ...
Open(p) == /\ p \in alive
           /\ Goto(p, "opening", "reading")
           /\ UNCHANGED <<env, caller, wg, tokens, mu, sample, statsMap, records>>

\* ... or does not, the only error GetRawStats ever returns.
OpenFails(p) == /\ p \notin alive \/ done
                /\ Goto(p, "opening", "failed")
                /\ UNCHANGED <<env, caller, wg, tokens, mu, sample, statsMap, records>>

\* The reads of GetRawStats.  Each may miss (process gone, no permission, the
\* 200 ms deadline), which zeroes its fields and is not reported.
Read(p, q) == /\ q = "full" => p \in alive
              /\ Goto(p, "reading", "sampled")
              /\ sample' = [sample EXCEPT ![p] = q]
              /\ UNCHANGED <<env, caller, wg, tokens, mu, statsMap, records>>

\* Mutant: the map is written without taking the mutex.
LockNothing(p) == /\ Goto(p, "sampled", "locked")
                  /\ mu' = p
                  /\ UNCHANGED <<env, caller, wg, tokens, sample, statsMap, records>>

\* mu.Lock()
Lock(p) == /\ mu = Absent
           /\ Goto(p, "sampled", "locked")
           /\ mu' = p
           /\ UNCHANGED <<env, caller, wg, tokens, sample, statsMap, records>>

\* statsMap[p.PID] = stats
Store(p) == /\ Goto(p, "locked", "stored")
            /\ statsMap' = [statsMap EXCEPT ![p] = sample[p]]
            /\ UNCHANGED <<env, caller, wg, tokens, mu, sample, records>>

\* mu.Unlock()
Unlock(p) == /\ Goto(p, "stored", "unlocked")
             /\ mu' = Absent
             /\ UNCHANGED <<env, caller, wg, tokens, sample, statsMap, records>>

\* durationRecorder(duration)
RecordDuration(p) == /\ Goto(p, "unlocked", "releasing")
                     /\ timed' = timed \cup {p}
                     /\ UNCHANGED <<env, caller, wg, tokens, mu, sample, statsMap, errored>>

\* Mutant: the failure leaves no trace.
RecordNothing(p) == /\ Goto(p, "failed", "releasing")
                    /\ UNCHANGED <<env, caller, wg, tokens, mu, sample, statsMap, records>>

\* errRecorder("get_raw_stats")
RecordError(p) == /\ Goto(p, "failed", "releasing")
                  /\ errored' = errored \cup {p}
                  /\ UNCHANGED <<env, caller, wg, tokens, mu, sample, statsMap, timed>>

\* Mutant: the slot is never given back.
ReleaseNothing(p) == /\ Goto(p, "releasing", "leaving")
                     /\ UNCHANGED <<env, caller, wg, tokens, mu, sample, statsMap, records>>

\* defer func() { <-sem }()
Release(p) == /\ tokens > 0
              /\ Goto(p, "releasing", "leaving")
              /\ tokens' = tokens - 1
              /\ UNCHANGED <<env, caller, wg, mu, sample, statsMap, records>>

\* defer wg.Done()
Leave(p) == /\ Goto(p, "leaving", "exited")
            /\ wg' = wg - 1
            /\ UNCHANGED <<env, caller, tokens, mu, sample, statsMap, records>>

Worker(p) == \/ Acquire(p) \/ Skip(p)
             \/ Open(p) \/ OpenFails(p) \/ \E q \in Quality : Read(p, q)
             \/ Lock(p) \/ Store(p) \/ Unlock(p)
             \/ RecordDuration(p) \/ RecordError(p)
             \/ Release(p) \/ Leave(p)

Caller == (\E p \in Procs : Spawn(p)) \/ Wait \/ Return

\* The call is over: nothing of it is left to run.
Finished == caller = "returned" /\ UNCHANGED vars

Next == \/ Cancel
        \/ \E p \in Procs : Exit(p)
        \/ Caller
        \/ \E p \in Procs : Worker(p)
        \/ Finished

Spec == Init /\ [][Next]_vars

\* Go runs every runnable goroutine, reads of /proc return, and an unlocked
\* mutex or a free slot is granted to a goroutine that keeps asking for it.
\* Nothing makes a process exit or the context end.
FairSpec == /\ Spec
            /\ WF_vars(Caller)
            /\ \A p \in Procs : WF_vars(Worker(p))

-----------------------------------------------------------------------------
(* Safety.                                                                 *)

\* At most Limit goroutines are inside GetRawStats with /proc files open: the
\* reason the semaphore exists (collector.go:702).
BoundedReaders == Cardinality(At(Sampling)) <= Limit

\* The Go map is never written by two goroutines at once, and never while the
\* caller already owns it (a concurrent map write aborts the program).
SingleWriter == /\ \A p, q \in Procs :
                     pc[p] \in Critical /\ pc[q] \in Critical => p = q
                /\ caller = "returned" => At(Critical) = {}

\* When the call returns, each PID has exactly one fate: its own sample is in
\* the map and timed, or its failure was counted, or it was passed over, and
\* nothing is passed over unless the context ended.
EveryPidAccounted ==
    caller = "returned" =>
        \A p \in Procs :
            \/ /\ statsMap[p] # Absent
               /\ statsMap[p] = sample[p]
               /\ p \in timed \ errored
            \/ /\ statsMap[p] = Absent
               /\ p \in errored \ timed
            \/ /\ statsMap[p] = Absent
               /\ p \notin errored \cup timed
               /\ done

\* Goroutine p waits for another one: for a slot of a full channel while the
\* context lives, for the mutex, or for an element to receive back.
Blocked(p) == \/ pc[p] = "selecting" /\ tokens = Limit /\ ~done
              \/ pc[p] = "sampled" /\ mu # Absent
              \/ pc[p] = "releasing" /\ tokens = 0

\* The goroutines never all wait for one another: while wg.Wait() has somebody
\* to wait for (collector.go:739), one of those can take its next step; and
\* giving a slot back (line 713) never blocks.
NeverStuck == /\ wg > 0 => \E p \in At(Working) : ~Blocked(p)
              /\ \A p \in Procs : pc[p] = "releasing" => tokens > 0

\* What the caller was handed no goroutine touches any more.
NoLateWrite == [][caller = "returned" => UNCHANGED <<statsMap, timed, errored>>]_vars

(* The contract: a PID is settled at the step that fixes its fate.         *)
Outcome(p) == IF statsMap[p] # Absent THEN "recorded"
              ELSE IF p \in errored THEN "failed"
              ELSE IF pc[p] \in {"leaving", "exited"} THEN "skipped"
              ELSE "pending"

Contract == INSTANCE CollectContract
                WITH outcome <- [p \in Procs |-> Outcome(p)],
                     cancelled <- done,
                     returned <- (caller = "returned")

\* The goroutines implement the contract.
ImplementsContract == Contract!Spec

-----------------------------------------------------------------------------
(* Liveness.                                                               *)

\* The call returns, whatever exits and whether or not the context ends: no
\* slot, lock or WaitGroup count is leaked on any path.
CallReturns == <>(caller = "returned")
=============================================================================
