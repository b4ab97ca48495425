------------------------------ MODULE PodCache ------------------------------
(***************************************************************************)
(* The pod metadata cache (getK8sPodMeta, pkg/collector/collector.go:657-  *)
(* 680).  The goroutines of a collection look containers up under one      *)
(* mutex; a lookup that finds the map older than 30 seconds lists          *)
(* /var/log/containers again while it holds the mutex.  The kubelet adds   *)
(* and removes entries of that directory at any moment.  An entry is       *)
(* represented by the container ID in its name; entries whose names do not *)
(* parse are skipped by the code and left out here.                        *)
(***************************************************************************)
EXTENDS Integers, FiniteSets

CONSTANTS Ids,         \* container IDs
          Short,       \* those of at most 12 characters
          Prefix,      \* [Ids -> first 12 characters]
          Goroutines,  \* the readers of one or more collections
          IdOf,        \* [Goroutines -> Ids]: the container each asks for
          Nothing,     \* no answer, no owner
          TTL,         \* 30 seconds, in ticks of the clock
          MaxScan      \* bound: ticks one scan of the directory may take

ASSUME PodCacheAssumption ==
    /\ IsFiniteSet(Ids) /\ Short \subseteq Ids
    /\ IdOf \in [Goroutines -> Ids]
    /\ Nothing \notin Ids \cup Goroutines
    /\ TTL \in Nat /\ MaxScan \in Nat

VARIABLES logs,        \* the entries of the directory
          podMetaMap,  \* the keys of the map: each is mapped to its own pod
          age,         \* ticks since podMetaMapTime, saturating
          owner,       \* the goroutine that holds podMetaMutex while it scans
          call,        \* where each goroutine is in its lookup
          answer,      \* the key each got its pod from, or Nothing
          scanned,     \* history: ticks since the listing in the map was begun
          took,        \* history: ticks that listing took
          steady,      \* history: entries never removed since it was begun
          touched      \* history: entries there at some moment since then

directory == <<logs, steady, touched>>
times == <<age, scanned, took>>
cacheVars == <<directory, podMetaMap, times, owner, call, answer>>

Stale == TTL + 1    \* where age saturates: the zero time is older than that

CacheInit ==
    /\ logs \in SUBSET Ids
    /\ podMetaMap = {}
    /\ age = Stale
    /\ owner = Nothing
    /\ call = [g \in Goroutines |-> "idle"]
    /\ answer = [g \in Goroutines |-> Nothing]
    /\ scanned = 0 /\ took = 0
    /\ steady = {} /\ touched = {}

-----------------------------------------------------------------------------
(* The node.                                                               *)

KubeletAdds(id) ==
    /\ id \notin logs
    /\ logs' = logs \cup {id}
    /\ touched' = touched \cup {id}
    /\ UNCHANGED <<steady, podMetaMap, times, owner, call, answer>>

KubeletRemoves(id) ==
    /\ id \in logs
    /\ logs' = logs \ {id}
    /\ steady' = steady \ {id}
    /\ UNCHANGED <<touched, podMetaMap, times, owner, call, answer>>

Tick ==
    /\ IF owner = Nothing THEN UNCHANGED took
       ELSE took < MaxScan /\ took' = took + 1
    /\ age' = IF age < Stale THEN age + 1 ELSE age
    /\ scanned' = IF scanned <= Stale + MaxScan THEN scanned + 1 ELSE scanned
    /\ UNCHANGED <<directory, podMetaMap, owner, call, answer>>

-----------------------------------------------------------------------------
(* A lookup.                                                               *)

GoTo(g, place) == call' = [call EXCEPT ![g] = place]

\* GetRawStats has parsed a container ID and calls getK8sPodMeta.
Ask(g) ==
    /\ call[g] = "idle"
    /\ GoTo(g, "waiting")
    /\ UNCHANGED <<directory, podMetaMap, times, owner, answer>>

\* Mutant: any ID that starts alike is as good as the exact one.
PrefixOnly(id) ==
    {k \in podMetaMap : Prefix[k] = Prefix[id]} \cup
        (IF \A k \in podMetaMap : Prefix[k] # Prefix[id] THEN {Nothing} ELSE {})

\* The keys a lookup may answer from: the exact one, else, for a long ID, any
\* that starts with its first 12 characters, in the order of a Go map.
Matches(id) ==
    LET alike == {k \in podMetaMap : Prefix[k] = Prefix[id]}
    IN  IF id \in podMetaMap THEN {id}
        ELSE IF id \in Short \/ alike = {} THEN {Nothing}
        ELSE alike

Return(g, key) ==
    /\ answer' = [answer EXCEPT ![g] = key]
    /\ GoTo(g, "answered")

\* Mutant: every lookup makes the map young again.
LookupRefreshing(g) ==
    /\ call[g] = "waiting"
    /\ owner = Nothing
    /\ age <= TTL
    /\ \E key \in Matches(IdOf[g]) : Return(g, key)
    /\ age' = 0
    /\ UNCHANGED <<directory, podMetaMap, scanned, took, owner>>

\* The map is young enough: nothing else can happen under the mutex.
Lookup(g) ==
    /\ call[g] = "waiting"
    /\ owner = Nothing
    /\ age <= TTL
    /\ \E key \in Matches(IdOf[g]) : Return(g, key)
    /\ UNCHANGED <<directory, podMetaMap, times, owner>>

\* scanK8sLogContainers begins: from here on its listing may miss what changes.
OpenDirectory(g) ==
    /\ call[g] = "waiting"
    /\ owner = Nothing
    /\ age > TTL
    /\ owner' = g
    /\ GoTo(g, "reading")
    /\ scanned' = 0 /\ took' = 0
    /\ steady' = logs /\ touched' = logs
    /\ UNCHANGED <<logs, podMetaMap, age, answer>>

\* Readdirnames returns what was there all the time and perhaps what was there
\* part of it.
ReadDirectory(g) ==
    /\ call[g] = "reading"
    /\ \E names \in SUBSET touched : steady \subseteq names /\ podMetaMap' = names
    /\ GoTo(g, "stamping")
    /\ UNCHANGED <<directory, times, owner, answer>>

\* The directory cannot be opened or read: an empty map, no error.  A listing
\* that failed has seen nothing steadily.
ReadFails(g) ==
    /\ call[g] = "reading"
    /\ podMetaMap' = {}
    /\ steady' = {}
    /\ GoTo(g, "stamping")
    /\ UNCHANGED <<logs, touched, times, owner, answer>>

\* Mutant: the return of a scan that found nothing skips the Unlock.
StampKeepingLock(g) ==
    /\ call[g] = "stamping"
    /\ age' = 0
    /\ owner' = IF podMetaMap = {} THEN owner ELSE Nothing
    /\ \E key \in Matches(IdOf[g]) : Return(g, key)
    /\ UNCHANGED <<directory, podMetaMap, scanned, took>>

\* podMetaMapTime = time.Now(), then the lookup itself and the Unlock.
StampAndLookup(g) ==
    /\ call[g] = "stamping"
    /\ age' = 0
    /\ owner' = Nothing
    /\ \E key \in Matches(IdOf[g]) : Return(g, key)
    /\ UNCHANGED <<directory, podMetaMap, scanned, took>>

\* The goroutine of a later collection asks for the same container again.
AskAgain(g) ==
    /\ call[g] = "answered"
    /\ GoTo(g, "idle")
    /\ answer' = [answer EXCEPT ![g] = Nothing]
    /\ UNCHANGED <<directory, podMetaMap, times, owner>>

Acquire(g) == Lookup(g) \/ OpenDirectory(g)
Proceed(g) == ReadDirectory(g) \/ ReadFails(g) \/ StampAndLookup(g)

CacheNext ==
    \/ \E id \in Ids : KubeletAdds(id) \/ KubeletRemoves(id)
    \/ Tick
    \/ \E g \in Goroutines : Ask(g) \/ Acquire(g) \/ Proceed(g) \/ AskAgain(g)

\* A goroutine that waits for a sync.Mutex gets it in the end, however often
\* others take it (the mutex hands itself over to one that has starved), and
\* one that holds it runs; reads of the directory return.
CacheFairness == /\ \A g \in Goroutines : SF_cacheVars(Acquire(g))
                 /\ WF_cacheVars(\E g \in Goroutines : Proceed(g))

-----------------------------------------------------------------------------
CacheTypeOK ==
    /\ {logs, podMetaMap, steady, touched} \subseteq SUBSET Ids
    /\ age \in 0..Stale
    /\ took \in 0..MaxScan
    /\ scanned \in 0..(Stale + MaxScan + 1)
    /\ owner \in Goroutines \cup {Nothing}
    /\ call \in [Goroutines -> {"idle", "waiting", "reading", "stamping", "answered"}]
    /\ answer \in [Goroutines -> Ids \cup {Nothing}]

Answers(g) == call[g] # "answered" /\ call'[g] = "answered"

\* A container whose log has been there since the listing in the cache was
\* begun gets its own pod; one that came later gets none, or the pod of one
\* that starts with the same 12 characters; a short ID gets no other's
\* (collector.go:667-679).
OwnPodWhenSteady ==
    [][ \A g \in Goroutines :
            Answers(g) => \/ answer'[g] = IdOf[g]
                          \/ /\ IdOf[g] \notin steady
                             /\ answer'[g] \in Ids =>
                                    /\ IdOf[g] \notin Short
                                    /\ Prefix[answer'[g]] = Prefix[IdOf[g]] ]_cacheVars

\* No answer is taken from a listing that was begun more than 30 seconds, and
\* the time it took, ago: the pod of a removed container is given no longer
\* than that (collector.go:662-665).
BoundedStaleness ==
    [][ \A g \in Goroutines : Answers(g) => scanned <= TTL + took ]_cacheVars

\* Every lookup returns, whatever a scan runs into while others queue behind it
\* (collector.go:659-660, 610-618).
LookupsReturn == \A g \in Goroutines : call[g] = "waiting" ~> call[g] = "answered"
=============================================================================
