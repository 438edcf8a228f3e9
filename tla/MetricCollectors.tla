-------------------------- MODULE MetricCollectors --------------------------
(***************************************************************************)
(* The four metric collectors of lithopserve/worker/metrics_collectors.py *)
(* and the process tree they sample.                                       *)
(*                                                                         *)
(* Each collector owns an append-only list of records (MetricCollector     *)
(* links them as cpu_metrics, memory_metrics, disk_metrics and             *)
(* network_metrics); here they are one function `metrics` from the list's  *)
(* attribute name to the list, which is how Profiler reads them (getattr). *)
(* A record keeps what the control of the program depends on: the pid and  *)
(* parent pid of a per-process record and the collection_id of the round.  *)
(* The measured values (MB, seconds, rates) are left out here.             *)
(*                                                                         *)
(* The monitored process tree is the environment: processes are spawned by *)
(* a live parent and exit at any moment; the OS hands the children of an   *)
(* exited process to init (InitPid), so they leave the tree below Root.    *)
(***************************************************************************)
EXTENDS Naturals, Sequences, FiniteSets, Relation

CONSTANTS
    Procs,       \* pids of the processes that can belong to the monitored tree
    Root,        \* monitored_process_pid: the root of the tree
    RootParent,  \* the OS parent of Root (the worker runtime), outside the tree
    InitPid,     \* the process that adopts orphans (pid 1)
    Parent0      \* the parent each process is spawned by

ASSUME ConstAssumption ==
    /\ IsFiniteSet(Procs)
    /\ Root \in Procs
    /\ RootParent \notin Procs
    /\ InitPid \notin Procs
    /\ Parent0 \in [Procs -> Procs \cup {RootParent}]
    /\ Parent0[Root] = RootParent

PidVal == Procs \cup {RootParent, InitPid}

ProcStatus == {"unborn", "alive", "gone"}

\* The attribute names of MetricCollector, as listed in
\* Profiler.METRIC_COLLECTIONS_FIELDS.
ProcessKinds == {"cpu_metrics", "memory_metrics", "disk_metrics"}
Kinds == ProcessKinds \cup {"network_metrics"}

ProcessRecord == [pid : Procs, parent_pid : PidVal, collection_id : Nat]
NetworkRecord == [collection_id : Nat]

VARIABLES
    status,    \* status[p]: whether process p has been spawned, runs or exited
    ppid,      \* ppid[p]: the OS parent of p now
    metrics    \* metrics[k]: the list of records collector k has appended

treeVars == <<status, ppid>>

CollectorsTypeOK ==
    /\ status \in [Procs -> ProcStatus]
    /\ ppid \in [Procs -> PidVal]
    /\ metrics \in [Kinds -> Seq(ProcessRecord \cup NetworkRecord)]
    /\ \A k \in ProcessKinds : metrics[k] \in Seq(ProcessRecord)
    /\ metrics["network_metrics"] \in Seq(NetworkRecord)

-----------------------------------------------------------------------------
(* The process tree.                                                       *)

\* A consistent starting tree: a running process has a running parent.
TreeInit ==
    /\ ppid = Parent0
    /\ status \in {s \in [Procs -> ProcStatus \ {"gone"}] :
                     /\ s[Root] = "alive"
                     /\ \A p \in Procs \ {Root} :
                          s[p] = "alive" => s[Parent0[p]] = "alive"}

\* A running process forks p.
Spawn(p) ==
    /\ status[p] = "unborn"
    /\ ppid[p] \in Procs
    /\ status[ppid[p]] = "alive"
    /\ status' = [status EXCEPT ![p] = "alive"]
    /\ UNCHANGED <<ppid, metrics>>

\* p exits; its children are re-parented to init.
Exit(p) ==
    /\ status[p] = "alive"
    /\ status' = [status EXCEPT ![p] = "gone"]
    /\ ppid' = [q \in Procs |-> IF ppid[q] = p THEN InitPid ELSE ppid[q]]
    /\ UNCHANGED metrics

TreeNext == \E p \in Procs : Spawn(p) \/ Exit(p)

\* The child relation of the running processes.
ChildOf == [e \in Procs \X Procs |->
               ppid[e[2]] = e[1] /\ status[e[2]] = "alive"]

\* psutil.Process(Root).children(recursive=True): every running process
\* below Root.
Descendants == {q \in Procs : TransitiveClosure(ChildOf, Procs)[Root, q]}

-----------------------------------------------------------------------------
(* The collectors.                                                         *)

CollectorsInit == metrics = [k \in Kinds |-> << >>]

\* collect_metric(pid, parent_pid, cid) of a per-process collector k: the
\* record is appended when psutil can read the process; when the process
\* has exited, handle_psutil_error swallows NoSuchProcess and nothing is
\* appended.
CollectProcessMetric(k, pid, parent, cid) ==
    metrics' =
        IF status[pid] = "alive"
        THEN [metrics EXCEPT ![k] =
                 Append(@, [pid |-> pid, parent_pid |-> parent,
                            collection_id |-> cid])]
        ELSE metrics

\* NetworkMetricCollector.collect_metric(cid): system-wide counters, which
\* are always readable.
CollectNetworkMetric(cid) ==
    metrics' = [metrics EXCEPT !["network_metrics"] =
                   Append(@, [collection_id |-> cid])]

=============================================================================
