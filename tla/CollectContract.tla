-------------------------- MODULE CollectContract --------------------------
(***************************************************************************)
(* What CollectConcurrentRawStats (pkg/collector/collector.go:694-741)     *)
(* promises its callers, with the goroutines, the semaphore and the locks  *)
(* abstracted away: every listed PID gets one final outcome, a PID is      *)
(* passed over only after the context is done, and the call returns only   *)
(* once all outcomes are final, after which none of them changes.          *)
(***************************************************************************)
CONSTANT Procs        \* the PIDs the caller listed

VARIABLES outcome,    \* what became of each PID
          cancelled,  \* ctx.Done() is closed
          returned    \* the call has handed its map to the caller

vars == <<outcome, cancelled, returned>>

Outcomes == {"pending", "recorded", "failed", "skipped"}

TypeOK == /\ outcome \in [Procs -> Outcomes]
          /\ cancelled \in BOOLEAN
          /\ returned \in BOOLEAN

Init == /\ outcome = [p \in Procs |-> "pending"]
        /\ cancelled = FALSE
        /\ returned = FALSE

Cancel == /\ ~cancelled
          /\ cancelled' = TRUE
          /\ UNCHANGED <<outcome, returned>>

Settle(p, o) == /\ ~returned
                /\ outcome[p] = "pending"
                /\ o = "skipped" => cancelled
                /\ outcome' = [outcome EXCEPT ![p] = o]
                /\ UNCHANGED <<cancelled, returned>>

Return == /\ \A p \in Procs : outcome[p] # "pending"
          /\ returned' = TRUE
          /\ UNCHANGED <<outcome, cancelled>>

Next == \/ Cancel
        \/ \E p \in Procs, o \in Outcomes \ {"pending"} : Settle(p, o)
        \/ Return

Spec == Init /\ [][Next]_vars
=============================================================================
