----------------------------- MODULE Classifier -----------------------------
(***************************************************************************)
(* Predict (pkg/classifier/classifier.go:33-412).  Scores are hundredths;  *)
(* the cosine similarities, which the rules correct, are an input.  The    *)
(* telemetry has the CPU usage in percent, memory in megabytes, disk       *)
(* traffic in kilobytes per second, and name and command line as the       *)
(* keywords they contain.                                                  *)
(***************************************************************************)
EXTENDS Integers, FiniteSetsExt

\* The keys of Centroids, by tier.
Categories ==
    {"LoadBalancer", "APIGateway", "ServiceMesh", "CDNEdgeNode"}
    \cup {"WebServer", "Microservice", "ServerlessWorker", "JobWorker", "SchedulerDaemon"}
    \cup {"CacheStore", "RelationalDB", "NoSQLDB", "ColumnarDB", "VectorDB", "TimeSeriesDB",
          "GraphDB", "ObjectStore"}
    \cup {"MessageBroker", "EventStreaming", "StreamProcessor"}
    \cup {"SearchEngine", "OLAPEngine"}
    \cup {"AITraining", "AIInference", "MLPipeline", "FeatureStore"}
    \cup {"OrchestratorAgent", "OrchestratorPod", "ServiceDiscovery", "ConfigManager"}
    \cup {"MonitoringAgent", "LogAggregator", "TracingAgent"}
    \cup {"InteractiveShell", "UtilityBatch", "LegacySOAService", "CIRunner"}

Features == {"cpu", "memory", "threads", "sockets", "fds", "reads", "writes", "switches"}

\* cosineSimilarity: that of a process without any activity is 0 everywhere.
Similarity(stats, category) ==
    IF \A f \in Features : stats[f] = 0 \/ category \notin DOMAIN stats.similar THEN 0
    ELSE stats.similar[category]

-----------------------------------------------------------------------------
(* Phase 2: what the telemetry rules add to the score of a category.       *)

Rule(category, holds, change) ==
    IF holds /\ category \in DOMAIN change THEN change[category] ELSE 0

SocketAndCpuBoost(s, c) ==
      Rule(c, s.sockets > 500,
           [LoadBalancer |-> 10, CacheStore |-> 5, WebServer |-> 5, APIGateway |-> 8,
            ServiceMesh |-> 10, InteractiveShell |-> -40, UtilityBatch |-> -40])
    + Rule(c, s.sockets = 0,
           [LoadBalancer |-> -40, WebServer |-> -40, CacheStore |-> -30, ServiceMesh |-> -30,
            InteractiveShell |-> 5, UtilityBatch |-> 5, CIRunner |-> 5])
    + Rule(c, s.cpu > 150,
           [AITraining |-> 15, AIInference |-> 5, ColumnarDB |-> 5, OLAPEngine |-> 8,
            StreamProcessor |-> 5, InteractiveShell |-> -40])
    + Rule(c, s.cpu > 50 /\ s.cpu <= 150,
           [CIRunner |-> 5, UtilityBatch |-> 5, StreamProcessor |-> 3])
    + Rule(c, s.cpu < 2,
           [InteractiveShell |-> 5, SchedulerDaemon |-> 5, OrchestratorPod |-> 5])

MemoryAndDiskBoost(s, c) ==
      Rule(c, s.memory > 8192,
           [AITraining |-> 5, ColumnarDB |-> 5, NoSQLDB |-> 5, RelationalDB |-> 5,
            OLAPEngine |-> 5, VectorDB |-> 5, InteractiveShell |-> -30])
    + Rule(c, s.memory > 2048 /\ s.memory <= 8192,
           [RelationalDB |-> 3, SearchEngine |-> 3, GraphDB |-> 3, LegacySOAService |-> 3,
            StreamProcessor |-> 3])
    + Rule(c, s.memory < 32,
           [InteractiveShell |-> 5, TracingAgent |-> 3, SchedulerDaemon |-> 3,
            OrchestratorPod |-> 5])
    + Rule(c, s.reads > 10000,
           [ColumnarDB |-> 10, OLAPEngine |-> 8, EventStreaming |-> 5, ObjectStore |-> 8,
            CDNEdgeNode |-> 8, UtilityBatch |-> 5])
    + Rule(c, s.writes > 10000,
           [EventStreaming |-> 10, LogAggregator |-> 12, TimeSeriesDB |-> 8,
            ObjectStore |-> 5, MonitoringAgent |-> 5])

ThreadAndHandleBoost(s, c) ==
      Rule(c, s.threads > 200, [NoSQLDB |-> 5, LegacySOAService |-> 8, SearchEngine |-> 5])
    + Rule(c, s.threads = 1, [InteractiveShell |-> 5, UtilityBatch |-> 5])
    + Rule(c, s.switches > 5000,
           [CacheStore |-> 5, LoadBalancer |-> 5, ServiceMesh |-> 5, AITraining |-> 3])
    + Rule(c, s.fds > 1000, [LogAggregator |-> 5, ObjectStore |-> 5, EventStreaming |-> 3])

-----------------------------------------------------------------------------
(* Phase 3: keywords.  Most categories have one rule, which looks for some *)
(* words in the name or for some in the command line.                      *)

NameWords ==
    [ LoadBalancer      |-> {"nginx", "haproxy", "envoy", "traefik"},
      APIGateway        |-> {"kong", "ambassador", "apisix", "krakend"},
      ServiceMesh       |-> {"pilot", "istiod", "linkerd", "consul"},
      CDNEdgeNode       |-> {"varnish", "squid"},
      WebServer         |-> {"nginx", "apache", "httpd", "caddy", "node", "gunicorn",
                             "uvicorn", "uwsgi"},
      SchedulerDaemon   |-> {"cron", "crond"},
      RelationalDB      |-> {"postgres", "mysql", "mysqld", "mariadb", "sqlite", "cockroach"},
      NoSQLDB           |-> {"mongo", "mongod", "cassandra", "scylla", "couchdb", "dynamodb"},
      ColumnarDB        |-> {"clickhouse", "duckdb", "druid"},
      VectorDB          |-> {"milvus", "qdrant", "weaviate"},
      CacheStore        |-> {"redis", "redis-server", "memcached", "dragonfly"},
      TimeSeriesDB      |-> {"influxd", "influx", "victoria", "m3db", "timescaledb"},
      GraphDB           |-> {"neo4j", "janusgraph", "dgraph", "tigergraph"},
      ObjectStore       |-> {"minio", "seaweedfs", "ceph"},
      MessageBroker     |-> {"rabbitmq", "nats", "activemq", "broker"},
      EventStreaming    |-> {"kafka", "pulsar"},
      StreamProcessor   |-> {"flink", "spark"},
      SearchEngine      |-> {"elasticsearch", "elastic", "opensearch", "solr"},
      OLAPEngine        |-> {"trino", "presto", "hive"},
      AIInference       |-> {"triton", "torchserve"},
      OrchestratorAgent |-> {"kubelet", "containerd", "dockerd", "runc", "crio"},
      ServiceDiscovery  |-> {"etcd", "zookeeper", "consul"},
      ConfigManager     |-> {"vault", "ansible", "chef", "puppet"},
      MonitoringAgent   |-> {"prometheus", "otelcol", "datadog-agent", "node_exporter"},
      LogAggregator     |-> {"fluentd", "fluent-bit", "logstash", "vector"},
      TracingAgent      |-> {"jaeger", "zipkin"},
      InteractiveShell  |-> {"bash", "zsh", "sh", "sshd", "login", "fish"} ]

CmdlineWords ==
    [ JobWorker        |-> {"celery", "sidekiq", "bullmq", "resque", "dramatiq"},
      SchedulerDaemon  |-> {"airflow", "temporal", "prefect", "dagster"},
      ServerlessWorker |-> {"lambda", "openfaas", "knative", "faas", "handler."},
      VectorDB         |-> {"vectordb", "pinecone"},
      ObjectStore      |-> {"object-store", "s3"},
      StreamProcessor  |-> {"kafka-streams", "stream-processor"},
      OLAPEngine       |-> {"olap", "coordinator", "druid-broker"},
      AIInference      |-> {"tritonserver", "bentoml"},
      MLPipeline       |-> {"mlflow", "kubeflow", "dvc", "zenml", "prefect"},
      FeatureStore     |-> {"feast", "tecton", "hopsworks"},
      TracingAgent     |-> {"otel", "otlp", "trace"},
      LegacySOAService |-> {"jboss", "weblogic", "websphere", "glassfish", "wildfly",
                            "tomcat"} ]

HasWord(words, table, category) ==
    category \in DOMAIN table /\ words \cap table[category] # {}

\* The words of a category count once, whether the name or the command line has
\* them.
KeywordBoost(s, category) ==
    IF HasWord(s.name, NameWords, category) \/ HasWord(s.cmdline, CmdlineWords, category)
    THEN CASE category = "WebServer" -> 15
           [] category = "AIInference" -> 20
           [] category = "LegacySOAService" -> 30
           [] OTHER -> 25
    ELSE 0

\* The rules that want more than one word.
CombinedBoost(s, c) ==
    LET name(words) == s.name \cap words # {}
        cmdline(words) == s.cmdline \cap words # {}
        proxied == cmdline({"reverse_proxy", "proxy"})
    IN    Rule(c, name({"caddy"}) /\ ~proxied, [WebServer |-> 20])
        + Rule(c, name({"caddy"}) /\ proxied, [LoadBalancer |-> 15, APIGateway |-> 10])
        + Rule(c, cmdline({"python"}) /\ cmdline({"train", "torch", "cuda", "fit", "jax"}),
               [AITraining |-> 30])
        + Rule(c, cmdline({"python"}) /\ cmdline({"serve", "predict", "model-server", "triton",
                                               "vllm", "ollama"}),
               [AIInference |-> 30])
        + Rule(c, name({"pause", "init"}) /\ s.memory < 16, [OrchestratorPod |-> 30])
        + Rule(c, name({"systemd"}) /\ s.threads > 1,
               [SchedulerDaemon |-> 15, InteractiveShell |-> -10])
        + Rule(c, name({"runner", "agent"}) /\
                   cmdline({"github-actions", "gitlab-runner", "jenkins", "buildkite",
                            "circleci"}),
               [CIRunner |-> 30])

-----------------------------------------------------------------------------
ScoresOf(s) ==
    [c \in Categories |-> Similarity(s, c) + KeywordBoost(s, c) + SocketAndCpuBoost(s, c)
                          + MemoryAndDiskBoost(s, c) + ThreadAndHandleBoost(s, c)
                          + CombinedBoost(s, c)]

\* Mutant: only scores below zero are corrected.
ClampBelow(score) == IF score < 0 THEN 0 ELSE score

Clamp(score) == IF score < 0 THEN 0 ELSE IF score > 100 THEN 100 ELSE score

\* Mutant: the best of the scores that are reported.
BestClamped(scores) ==
    LET top == Max({Clamp(scores[d]) : d \in Categories})
    IN  {c \in Categories : Clamp(scores[c]) = top}

\* The categories that can come first: the map is walked in any order, and the
\* first of the best scores stays.
Best(scores) ==
    LET top == Max({scores[d] : d \in Categories})
    IN  {c \in Categories : scores[c] = top}

\* One of the best before clamping is the primary category; what is reported of
\* the scores is clamped, the confidence with it.
Prediction(scores, c) == [primary |-> c, confidence |-> Clamp(scores[c]),
                          scores  |-> [d \in Categories |-> Clamp(scores[d])]]

Predict(s) == UNION {{Prediction(scores, c) : c \in Best(scores)} : scores \in {ScoresOf(s)}}
=============================================================================
