---------------------------- MODULE MCCollector ----------------------------
(* Model values for Collector: more PIDs than slots, so that goroutines    *)
(* queue for the semaphore.                                                *)
EXTENDS Collector
=============================================================================
