----------------------------- MODULE MCExporter -----------------------------
(***************************************************************************)
(* The pod cache and the exporter on small instances.  They share no       *)
(* variable, so a behaviour runs one of them while the other rests: every  *)
(* interleaving of the two satisfies their properties if each alone does.  *)
(***************************************************************************)
EXTENDS PodCache, Exporter, TLC

CONSTANTS a, b, abbr, P, g1, g2, A, B

VARIABLE part

\* Two containers and a short ID that all start alike.
MCPrefix == a :> P @@ b :> P @@ abbr :> P
MCIdOf == g1 :> a @@ g2 :> abbr

Of(pid, cat, pod) == [pid |-> pid, cat |-> cat, pod |-> pod]

\* A cycle with both outcomes of a lookup, and one without any container.
MCResults == {{Of(1, A, "success"), Of(2, A, "failed")}, {Of(1, B, "none")}}

vars == <<part, cacheVars, exporterVars>>

Init == \/ part = "cache" /\ CacheInit /\ ExporterAt("exited")
        \/ part = "exporter" /\ CacheInit /\ logs = {} /\ ExporterInit

Next == /\ UNCHANGED part
        /\ \/ part = "cache" /\ CacheNext /\ UNCHANGED exporterVars
           \/ part = "exporter" /\ (ExporterNext \/ ExporterDone) /\ UNCHANGED cacheVars

Spec == Init /\ [][Next]_vars /\ CacheFairness /\ ExporterFairness

TypeOK == CacheTypeOK /\ ExporterTypeOK
=============================================================================
