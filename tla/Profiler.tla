------------------------------ MODULE Profiler ------------------------------
(***************************************************************************)
(* The monitoring process: Profiler.start_profiling of                    *)
(* lithopserve/worker/profiler.py, driving MetricCollector.               *)
(* collect_all_metrics of metrics_collectors.py one round at a time.       *)
(*                                                                         *)
(* mpc is the monitor's program counter.  A round is split at every call  *)
(* that reads the process tree, because a process can exit between any two *)
(* of them: the tree snapshot, then for each process of it ppid(), the    *)
(* memory, CPU and disk collectors, then the network collector, then one  *)
(* send per metric kind, then the poll of the pipe, then the sleep.        *)
(* The pipe from the owner carries only "stop" tokens; `pipe` counts the  *)
(* tokens not yet received.  `exported` is the sequence of records handed  *)
(* to send_metric_to_prometheus, in order.                                 *)
(***************************************************************************)
EXTENDS MetricCollectors

CONSTANT MaxRounds   \* bound on the rounds the model lets the loop run

ASSUME MaxRoundsAssumption == MaxRounds \in Nat \ {0}

\* The order of Profiler.METRIC_COLLECTIONS_FIELDS, used by _send_metrics.
SendOrder == <<"cpu_metrics", "memory_metrics", "disk_metrics",
               "network_metrics">>

MonitorPC == {"init", "round", "next", "ppid", "memory", "cpu", "disk",
              "net", "send", "check", "sleep", "exited"}

VARIABLES
    mpc,        \* where the monitor process is
    index,      \* the round counter `index` of start_profiling
    todo,       \* processes of this round's snapshot not yet visited
    cur,        \* the process being visited
    curParent,  \* proc.ppid() as read for cur
    sk,         \* position in SendOrder of the kind being sent
    pipe,       \* "stop" tokens sent by the owner and not yet received
    exported    \* records handed to the exporter, in order

monitorVars == <<mpc, index, todo, cur, curParent, sk, exported>>

ProfilerTypeOK ==
    /\ CollectorsTypeOK
    /\ mpc \in MonitorPC
    /\ index \in Nat
    /\ todo \in SUBSET Procs
    /\ cur \in Procs
    /\ curParent \in PidVal
    /\ sk \in 1..4
    /\ pipe \in Nat
    /\ exported \in Seq(Kinds \X (ProcessRecord \cup NetworkRecord))

MonitorInit ==
    /\ mpc = "init"
    /\ index = 0
    /\ todo = {}
    /\ cur = Root
    /\ curParent = RootParent
    /\ sk = 1
    /\ exported = << >>

\* Leaving the collection part of a round for _send_metrics.
ToSend == mpc' = "send" /\ sk' = 1

-----------------------------------------------------------------------------
(* start_profiling, before the loop: _initialize_process builds            *)
(* psutil.Process(Root), which raises NoSuchProcess outside the try when   *)
(* Root has exited; the monitoring process then dies with that exception.  *)
Initialize ==
    /\ mpc = "init"
    /\ mpc' = IF status[Root] = "alive" THEN "round" ELSE "exited"
    /\ UNCHANGED <<index, todo, cur, curParent, sk, exported, pipe,
                   treeVars, metrics>>

\* collect_all_metrics, _get_process_list: the snapshot of the tree.  When
\* Root has exited, NoSuchProcess leaves collect_all_metrics, _collect_metrics
\* swallows it, and the round goes on with _send_metrics.
Snapshot ==
    /\ mpc = "round"
    /\ IF status[Root] = "alive"
       THEN /\ todo' = {Root} \cup Descendants
            /\ mpc' = "next"
            /\ UNCHANGED sk
       ELSE /\ ToSend
            /\ UNCHANGED todo
    /\ UNCHANGED <<index, cur, curParent, exported, pipe, treeVars, metrics>>

\* The for loop over the snapshot: [current_process] + children, so Root
\* first; the order of the children is psutil's and is left open.
NextProcess ==
    /\ mpc = "next"
    /\ IF todo = {}
       THEN /\ mpc' = "net"
            /\ UNCHANGED <<todo, cur>>
       ELSE \E p \in todo :
              /\ Root \in todo => p = Root
              /\ cur' = p
              /\ todo' = todo \ {p}
              /\ mpc' = "ppid"
    /\ UNCHANGED <<index, curParent, sk, exported, pipe, treeVars, metrics>>

\* parent_pid = proc.ppid(): outside the collectors' error handler, so a
\* process that has exited since the snapshot aborts the whole round
\* (remaining processes and the network record included).
ReadPpid ==
    /\ mpc = "ppid"
    /\ IF status[cur] = "alive"
       THEN /\ curParent' = ppid[cur]
            /\ mpc' = "memory"
            /\ UNCHANGED <<todo, sk>>
       ELSE /\ ToSend
            /\ todo' = {}
            /\ UNCHANGED curParent
    /\ UNCHANGED <<index, cur, exported, pipe, treeVars>>
    /\ UNCHANGED metrics

\* _collect_metrics_for_process: memory, then CPU, then disk.
CollectMemory ==
    /\ mpc = "memory"
    /\ CollectProcessMetric("memory_metrics", cur, curParent, index)
    /\ mpc' = "cpu"
    /\ UNCHANGED <<index, todo, cur, curParent, sk, exported, pipe, treeVars>>

CollectCpu ==
    /\ mpc = "cpu"
    /\ CollectProcessMetric("cpu_metrics", cur, curParent, index)
    /\ mpc' = "disk"
    /\ UNCHANGED <<index, todo, cur, curParent, sk, exported, pipe, treeVars>>

CollectDisk ==
    /\ mpc = "disk"
    /\ CollectProcessMetric("disk_metrics", cur, curParent, index)
    /\ mpc' = "next"
    /\ UNCHANGED <<index, todo, cur, curParent, sk, exported, pipe, treeVars>>

\* Once per round, after the processes: the network collector.
CollectNetwork ==
    /\ mpc = "net"
    /\ CollectNetworkMetric(index)
    /\ ToSend
    /\ UNCHANGED <<index, todo, cur, curParent, exported, pipe, treeVars>>

\* _send_metrics for kind k: if index < len(metric_list), the record
\* metric_list[index] is sent.
\* (Variant with a plausible bug: metric_list[-1] is sent instead.)
ExportLatestRecord(k) ==
    exported' = IF metrics[k] # << >>
                THEN Append(exported, <<k, metrics[k][Len(metrics[k])]>>)
                ELSE exported

ExportRecord(k) ==
    exported' = IF index < Len(metrics[k])
                THEN Append(exported, <<k, metrics[k][index + 1]>>)
                ELSE exported

\* The for loop over METRIC_COLLECTIONS_FIELDS; after the last kind,
\* start_profiling increments index.
\* (Variant with a plausible bug: the loop runs one kind too far.)
AdvanceSendPastEnd ==
    IF sk <= 4
    THEN /\ sk' = sk + 1
         /\ UNCHANGED <<mpc, index>>
    ELSE /\ mpc' = "check"
         /\ index' = index + 1
         /\ UNCHANGED sk

AdvanceSend ==
    IF sk < 4
    THEN /\ sk' = sk + 1
         /\ UNCHANGED <<mpc, index>>
    ELSE /\ mpc' = "check"
         /\ index' = index + 1
         /\ UNCHANGED sk

SendMetrics ==
    /\ mpc = "send"
    /\ ExportRecord(SendOrder[sk])
    /\ AdvanceSend
    /\ UNCHANGED <<todo, cur, curParent, pipe, treeVars, metrics>>

\* _check_stop_signal: conn.poll(); a received "stop" breaks the loop and
\* the finally closes the connection.
CheckStop ==
    /\ mpc = "check"
    /\ IF pipe > 0
       THEN /\ pipe' = pipe - 1
            /\ mpc' = "exited"
       ELSE /\ mpc' = "sleep"
            /\ UNCHANGED pipe
    /\ UNCHANGED <<index, todo, cur, curParent, sk, exported, treeVars, metrics>>

\* _sleep_until_next_interval returns and the next round starts.
Wake ==
    /\ mpc = "sleep"
    /\ index < MaxRounds
    /\ mpc' = "round"
    /\ UNCHANGED <<index, todo, cur, curParent, sk, exported, pipe,
                   treeVars, metrics>>

\* Every step the monitoring process takes by itself, except the sends.
MonitorStep ==
    \/ Initialize \/ Snapshot \/ NextProcess \/ ReadPpid
    \/ CollectMemory \/ CollectCpu \/ CollectDisk \/ CollectNetwork
    \/ CheckStop \/ Wake

MonitorNext == MonitorStep \/ SendMetrics

=============================================================================
