----------------------------- MODULE Optimizer -----------------------------
(***************************************************************************)
(* The recommendations for a classified process, twice: the plain ones     *)
(* (pkg/optimizer/optimizer.go), some of which are checked against the     *)
(* node, and the structured ones (pkg/optimizer/report.go).  A             *)
(* recommendation is named by its subject, the same in both lists; its     *)
(* texts, risk and confidence are left out.                                *)
(***************************************************************************)
EXTENDS Integers, FiniteSets

CONSTANT NoValue    \* a setting that cannot be read, or not as a number

Advice(subject, status) == [subject |-> subject, status |-> status]

Subjects(list) == {a.subject : a \in list}

Row(table, category) == IF category \in DOMAIN table THEN table[category] ELSE {}

-----------------------------------------------------------------------------
(* The plain list.  settings: the value of every checked setting.          *)

Check(op, value) == [op |-> op, value |-> value]

Checks ==
    [ tcp_tw_reuse           |-> Check(">=", 1),
      somaxconn              |-> Check(">=", 32768),
      overcommit_memory      |-> Check("==", 1),
      swappiness             |-> Check("==", 0),
      dirty_background_ratio |-> Check("<=", 5),
      dirty_ratio            |-> Check("<=", 10),
      max_map_count          |-> Check(">=", 262144),
      transparent_hugepage   |-> Check("==", 0),
      open_files             |-> Check(">=", 65535) ]

\* checkSysctlInt.  checkUlimitOpenFiles compares the soft limit of the
\* process in the same way, and checkTHPDisabled looks for [never], 0 here.
\* What cannot be read or is not a number does not count as applied.
Applied(settings, subject) ==
    LET check == Checks[subject]
        value == settings[subject]
    IN  /\ value # NoValue
        /\ CASE check.op = ">=" -> value >= check.value
             [] check.op = "<=" -> value <= check.value
             [] check.op = "==" -> value = check.value

\* formatRec, and the fixed mark of what is not checked.
PlainStatus(settings, subject) ==
    IF subject \notin DOMAIN Checks THEN "RECOMMENDED"
    ELSE IF Applied(settings, subject) THEN "ALREADY APPLIED" ELSE "PENDING"

\* More than nine tenths of the descriptors, also of none at all.
PlainGeneric(s) ==
    (IF s.fds > 2000 THEN {"open_files"} ELSE {})
    \cup (IF s.switches > 10000 THEN {"context_switches"} ELSE {})
    \cup (IF 10 * s.sockets > 9 * s.fds THEN {"socket_fd_ratio"} ELSE {})

PlainTable ==
    [ LoadBalancer      |-> {"tcp_tw_reuse", "worker_pinning", "somaxconn"},
      WebServer         |-> {"keepalive", "web_open_files"},
      CacheStore        |-> {"overcommit_memory", "swappiness", "rmem_max"},
      RelationalDB      |-> {"hugepages", "mount_options", "dirty_background_ratio",
                             "dirty_ratio"},
      NoSQLDB           |-> {"transparent_hugepage", "max_map_count"},
      ColumnarDB        |-> {"frequency_governor", "readahead"},
      VectorDB          |-> {"simd", "numa_local_alloc"},
      SearchEngine      |-> {"memory_lock", "max_map_count"},
      MessageBroker     |-> {"tcp_rmem", "gc_algorithm"},
      EventStreaming    |-> {"wal_separation", "io_scheduler"},
      AITraining        |-> {"training_affinity", "gpu_transfers"},
      AIInference       |-> {"thread_pools", "model_cache"},
      OrchestratorAgent |-> {"cgroup_driver"},
      MonitoringAgent   |-> {"batched_writes", "scrape_interval"},
      InteractiveShell  |-> {"session_priority"},
      UtilityBatch      |-> {"batch_priority", "tmpfs"} ]

\* Optimize: nothing at all on another platform.
Optimize(linux, s, category, settings) ==
    IF ~linux THEN {}
    ELSE {Advice(subject, PlainStatus(settings, subject)) :
             subject \in PlainGeneric(s) \cup Row(PlainTable, category)}

-----------------------------------------------------------------------------
(* The structured list, which looks at nothing but the prediction.         *)

\* Mutant: the ratio is reached only when every descriptor is a socket.
StructuredGenericAll(s) ==
    (IF s.fds > 2000 THEN {"open_files"} ELSE {})
    \cup (IF s.switches > 10000 THEN {"context_switches"} ELSE {})
    \cup (IF s.sockets >= s.fds /\ s.fds > 0 THEN {"socket_fd_ratio"} ELSE {})

StructuredGeneric(s) ==
    (IF s.fds > 2000 THEN {"open_files"} ELSE {})
    \cup (IF s.switches > 10000 THEN {"context_switches"} ELSE {})
    \cup (IF 10 * s.sockets > 9 * s.fds /\ s.fds > 0 THEN {"socket_fd_ratio"} ELSE {})

NetworkAdvice ==
    [ LoadBalancer |-> {"tcp_tw_reuse", "somaxconn", "worker_pinning"},
      WebServer    |-> {"keepalive", "web_open_files"},
      CacheStore   |-> {"overcommit_memory", "swappiness", "rmem_max"} ]

DatabaseAdvice ==
    [ RelationalDB |-> {"hugepages", "dirty_background_ratio", "dirty_ratio",
                        "mount_options"},
      NoSQLDB      |-> {"transparent_hugepage", "max_map_count"},
      ColumnarDB   |-> {"frequency_governor", "readahead"},
      VectorDB     |-> {"simd", "numa_local_alloc"},
      SearchEngine |-> {"max_map_count", "memory_lock"} ]

StreamAndModelAdvice ==
    [ MessageBroker  |-> {"tcp_rmem", "gc_algorithm"},
      EventStreaming |-> {"wal_separation", "io_scheduler"},
      AITraining     |-> {"training_affinity", "gpu_transfers"},
      AIInference    |-> {"thread_pools", "model_cache"} ]

NodeAdvice ==
    [ OrchestratorAgent |-> {"cgroup_driver"},
      MonitoringAgent   |-> {"batched_writes", "scrape_interval"},
      InteractiveShell  |-> {"session_priority"},
      UtilityBatch      |-> {"batch_priority", "tmpfs"} ]

\* Those that are offered as pending on every platform.
Portable == {"context_switches", "socket_fd_ratio", "worker_pinning", "web_open_files",
             "mount_options", "readahead", "simd", "memory_lock", "gc_algorithm",
             "wal_separation", "gpu_transfers", "thread_pools", "model_cache",
             "cgroup_driver", "batched_writes", "scrape_interval", "session_priority",
             "batch_priority", "tmpfs"}

StructuredStatus(linux, subject) ==
    IF linux \/ subject \in Portable THEN "PENDING" ELSE "NOT_APPLICABLE"

OptimizeStructured(linux, s, category) ==
    {Advice(subject, StructuredStatus(linux, subject)) :
        subject \in StructuredGeneric(s) \cup Row(NetworkAdvice, category)
                    \cup Row(DatabaseAdvice, category)
                    \cup Row(StreamAndModelAdvice, category) \cup Row(NodeAdvice, category)}
=============================================================================
