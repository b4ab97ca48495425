------------------------------ MODULE Hardware ------------------------------
(***************************************************************************)
(* The hardware profile of a node (pkg/hardware/hardware.go), on Linux.    *)
(* A directory or file of /proc and /sys is a set or a record of what the  *)
(* code looks at in it; Unreadable stands for one that cannot be opened.   *)
(***************************************************************************)
EXTENDS Integers, FiniteSets

CONSTANT Unreadable

\* A model name that is missing makes it partial.
CpuStatus(info) == IF info = Unreadable THEN "no_data"
                   ELSE IF info.model = "" THEN "partial" ELSE "full"

\* Physical cores: logical CPUs by distinct physical IDs, rounded down.
Cores(info, logical) == IF info.packages = {} THEN logical
                        ELSE logical \div Cardinality(info.packages)

\* detectGPU: one device of a vendor is enough; a vendor file that cannot be
\* read is skipped.
detectGPU(vendors) == IF vendors = Unreadable THEN {}
                      ELSE vendors \cap {"nvidia", "amd"}

\* The PCI bus is looked at only when cpuinfo could be read.
collectCPU(info, logical, vendors) ==
    IF info = Unreadable
    THEN [status |-> CpuStatus(info), cores |-> 0, flags |-> {}, gpus |-> {}]
    ELSE [status |-> CpuStatus(info), cores |-> Cores(info, logical),
          flags |-> info.flags, gpus |-> detectGPU(vendors)]

\* nodes: the number of node directories.
collectNUMA(nodes) == IF nodes \in {Unreadable, 0} THEN [status |-> "no_data", nodes |-> 0]
                      ELSE [status |-> "full", nodes |-> nodes]

classifyDevice(dev) == IF dev.kind = "nvme" THEN "nvme"
                       ELSE IF dev.kind = "vd" THEN "virtual"
                       ELSE IF dev.rotational THEN "hdd" ELSE "ssd"

\* RAM disks, loop devices and optical drives are skipped.  The primary type
\* is that of the first device in the order of the names, which ReadDir sorts.
Disks(block) == {dev \in block : dev.kind \notin {"ram", "loop", "sr"}}

collectStorage(block) ==
    IF block = Unreadable THEN [status |-> "no_data", primary |-> "no_data"]
    ELSE IF Disks(block) = {} THEN [status |-> "no_data", primary |-> "no_data"]
    ELSE [status  |-> "full",
          primary |-> classifyDevice(CHOOSE dev \in Disks(block) :
                                         \A d \in Disks(block) : dev.name <= d.name)]

\* The subjects of RecommendationHints: none is what the one hint that says
\* that there is nothing to say stands for.
generateHints(cpu, numa, storage) ==
    (IF numa.nodes > 1 THEN {"NUMA"} ELSE {})
    \cup cpu.gpus
    \cup (IF "avx512" \in cpu.flags THEN {"avx512"}
          ELSE IF "avx2" \in cpu.flags THEN {"avx2"}
          ELSE cpu.flags \cap {"neon"})
    \cup ({storage.primary} \cap {"hdd", "nvme"})

ProfileStatus(cpu, numa, storage) ==
    LET statuses == {cpu.status, numa.status, storage.status}
    IN  IF statuses = {"full"} THEN "full"
        ELSE IF statuses = {"no_data"} THEN "no_data"
        ELSE "partial"

HardwareProfile(cpu, numa, storage) ==
    [status |-> ProfileStatus(cpu, numa, storage), cpu |-> cpu, numa |-> numa,
     storage |-> storage, hints |-> generateHints(cpu, numa, storage)]

\* No hint at all, not even the one that says so.
DisabledProfile ==
    [status  |-> "disabled",
     cpu     |-> [status |-> "disabled", cores |-> 0, flags |-> {}, gpus |-> {}],
     numa    |-> [status |-> "disabled", nodes |-> 0],
     storage |-> [status |-> "disabled", primary |-> "no_data"],
     hints   |-> {}]
=============================================================================
