------------------------- MODULE ExportedOnceProofs -------------------------
(***************************************************************************)
(* Proof that the monitoring process never hands a record to the exporter *)
(* twice (ExportedOnce), for every process tree and every bound on rounds. *)
(*                                                                         *)
(* ExportedOnce is not inductive: whether the record _send_metrics picks  *)
(* (metric_list[index]) was sent before depends on what the lists hold.   *)
(* ExportInv adds why it never was: every list holds each record once,     *)
(* because a round appends at most one record per process and kind and    *)
(* tags it with its own collection_id; and every record sent so far is at *)
(* a position of its list no later than index, or is of a kind already    *)
(* sent in the current round.                                              *)
(***************************************************************************)
EXTENDS ProfilingContextProofs

\* The monitor's state and the collectors' lists: what ExportInv reads.
exportVars == <<mpc, index, todo, cur, sk, exported, metrics>>

\* The kinds of METRIC_COLLECTIONS_FIELDS are four distinct names.
LEMMA SendOrderDistinct ==
  \A m, n \in 1..4 : SendOrder[m] = SendOrder[n] => m = n
  BY DEF SendOrder

\* Appending an element that the sequence does not hold keeps it injective.
LEMMA AppendKeepsInjective ==
  ASSUME NEW S, NEW s \in Seq(S), NEW x, IsInjective(s),
         \A j \in 1..Len(s) : s[j] # x
  PROVE  IsInjective(Append(s, x))
  BY DEF IsInjective

\* Outside _send_metrics, every exported record sits at a position of its
\* list that a counted round has reached.
LEMMA ExportedSettled ==
  ASSUME ExportInv, mpc \notin {"send", "exited"}
  PROVE  \A i \in DOMAIN exported :
             \E j \in DOMAIN metrics[exported[i][1]] :
                 exported[i][2] = metrics[exported[i][1]][j] /\ j <= index
  BY DEF ExportInv, ExportedFromLists

\* A step that leaves the monitor's state and the lists alone (the owner,
\* the job runner, the process tree) keeps ExportInv.
LEMMA ExportFrame ==
  ASSUME ExportInv, UNCHANGED exportVars
  PROVE  ExportInv'
  <1>1. mpc' = mpc /\ index' = index /\ todo' = todo /\ cur' = cur
        /\ sk' = sk /\ exported' = exported /\ metrics' = metrics
    BY DEF exportVars
  <1>2. \A k, p : CollectedNow(k, p)' = CollectedNow(k, p)
    BY <1>1 DEF CollectedNow
  <1>3. SentKinds' = SentKinds
    BY <1>1 DEF SentKinds
  <1>4. (ExportedOnce /\ ListsInjective /\ IdsBounded /\ InitEmpty)'
    BY <1>1 DEF ExportInv, ExportedOnce, ListsInjective, IdsBounded, InitEmpty
  <1>5. (RoundsClosed /\ NetworkPending)'
    BY <1>1 DEF ExportInv, RoundsClosed, NetworkPending
  <1>6. VisitFresh'
    BY <1>1, <1>2 DEF ExportInv, VisitFresh
  <1>7. ExportedFromLists'
    BY <1>1, <1>3 DEF ExportInv, ExportedFromLists
  <1>. QED
    BY <1>4, <1>5, <1>6, <1>7 DEF ExportInv

\* SIGTERM ends the monitor wherever it is; nothing it collected or sent
\* changes.
LEMMA KilledExport ==
  ASSUME ExportInv, Killed
  PROVE  ExportInv'
  <1>1. mpc' = "exited" /\ index' = index /\ todo' = todo /\ cur' = cur
        /\ sk' = sk /\ exported' = exported /\ metrics' = metrics
    BY DEF Killed
  <1>2. \A k, p : CollectedNow(k, p)' = CollectedNow(k, p)
    BY <1>1 DEF CollectedNow
  <1>3. SentKinds' = SentKinds
    BY <1>1 DEF SentKinds
  <1>4. (ExportedOnce /\ ListsInjective /\ IdsBounded /\ InitEmpty)'
    BY <1>1 DEF ExportInv, ExportedOnce, ListsInjective, IdsBounded, InitEmpty
  <1>5. (RoundsClosed /\ NetworkPending)'
    BY <1>1 DEF RoundsClosed, NetworkPending
  <1>6. VisitFresh'
    BY <1>1, <1>2 DEF ExportInv, VisitFresh
  <1>7. ExportedFromLists'
    BY <1>1, <1>3 DEF ExportInv, ExportedFromLists
  <1>. QED
    BY <1>4, <1>5, <1>6, <1>7 DEF ExportInv


\* A step of the monitor outside _send_metrics that neither collects nor
\* sends keeps the lists, the exported records and what they say.
LEMMA QuietMonitor ==
  ASSUME ExportInv, mpc \notin {"send", "exited"},
         metrics' = metrics, exported' = exported, index' = index
  PROVE  /\ (ExportedOnce /\ ListsInjective /\ IdsBounded)'
         /\ ExportedFromLists'
         /\ \A k, p : CollectedNow(k, p)' = CollectedNow(k, p)
  <1>1. (ExportedOnce /\ ListsInjective /\ IdsBounded)'
    BY DEF ExportInv, ExportedOnce, ListsInjective, IdsBounded
  <1>2. ExportedFromLists'
    BY ExportedSettled DEF ExportedFromLists
  <1>3. \A k, p : CollectedNow(k, p)' = CollectedNow(k, p)
    BY DEF CollectedNow
  <1>. QED
    BY <1>1, <1>2, <1>3

\* _initialize_process: nothing has been collected yet.
LEMMA InitializeExport ==
  ASSUME ExportInv, Initialize
  PROVE  ExportInv'
  <1>1. mpc = "init" /\ mpc' \in {"round", "exited"}
        /\ UNCHANGED <<index, todo, cur, sk, exported, metrics>>
    BY DEF Initialize
  <1>2. exported = << >> /\ \A k \in Kinds : metrics[k] = << >>
    BY <1>1 DEF ExportInv, InitEmpty
  <1>3. /\ (ExportedOnce /\ ListsInjective /\ IdsBounded)'
        /\ ExportedFromLists'
        /\ \A k, p : CollectedNow(k, p)' = CollectedNow(k, p)
    BY <1>1, QuietMonitor
  <1>4. \A k \in Kinds : \A p : ~CollectedNow(k, p)
    BY <1>2 DEF CollectedNow
  <1>5. (InitEmpty /\ RoundsClosed /\ NetworkPending)'
    BY <1>1, <1>2 DEF InitEmpty, RoundsClosed, NetworkPending
  <1>6. VisitFresh'
    BY <1>1, <1>3, <1>4 DEF VisitFresh, ProcessKinds, Kinds
  <1>. QED
    BY <1>3, <1>5, <1>6 DEF ExportInv

\* The snapshot of the tree at the start of a round: no record of the
\* round exists yet, so every process of the snapshot is fresh.
LEMMA SnapshotExport ==
  ASSUME ContextTypeOK, ExportInv, Snapshot
  PROVE  ExportInv'
  <1>1. mpc = "round" /\ UNCHANGED <<index, cur, exported, metrics>>
    BY DEF Snapshot
  <1>2. /\ (ExportedOnce /\ ListsInjective /\ IdsBounded)'
        /\ ExportedFromLists'
        /\ \A k, p : CollectedNow(k, p)' = CollectedNow(k, p)
    BY <1>1, QuietMonitor
  <1>3. \A k \in Kinds : \A j \in DOMAIN metrics[k] :
            metrics[k][j].collection_id < index
    BY <1>1 DEF ExportInv, RoundsClosed
  <1>4. \A k \in ProcessKinds : \A p : ~CollectedNow(k, p)
    <2> SUFFICES ASSUME NEW k \in ProcessKinds, NEW p, CollectedNow(k, p)
                 PROVE  FALSE
      OBVIOUS
    <2>1. PICK j \in DOMAIN metrics[k] : metrics[k][j].collection_id = index
      BY DEF CollectedNow
    <2>2. k \in Kinds /\ index \in Nat
      BY DEF Kinds, ContextTypeOK, ProfilerTypeOK
    <2>. QED
      BY <1>3, <2>1, <2>2
  <1>5. \/ todo' = {Root} \cup Descendants /\ mpc' = "next"
        \/ mpc' = "send" /\ todo' = todo
    BY DEF Snapshot, ToSend
  <1>6. (InitEmpty /\ RoundsClosed /\ NetworkPending)'
    BY <1>1, <1>3, <1>5 DEF InitEmpty, RoundsClosed, NetworkPending, Kinds
  <1>7. VisitFresh'
    BY <1>2, <1>4, <1>5 DEF VisitFresh
  <1>. QED
    BY <1>2, <1>6, <1>7 DEF ExportInv

\* The next process of the snapshot is taken out of todo before any of
\* its records is collected.
LEMMA NextProcessExport ==
  ASSUME ExportInv, NextProcess
  PROVE  ExportInv'
  <1>1. mpc = "next" /\ UNCHANGED <<index, sk, exported, metrics>>
    BY DEF NextProcess
  <1>2. /\ (ExportedOnce /\ ListsInjective /\ IdsBounded)'
        /\ ExportedFromLists'
        /\ \A k, p : CollectedNow(k, p)' = CollectedNow(k, p)
    BY <1>1, QuietMonitor
  <1>3. (InitEmpty /\ RoundsClosed /\ NetworkPending)'
    BY <1>1 DEF NextProcess, ExportInv, InitEmpty, RoundsClosed,
                NetworkPending
  <1>4. CASE todo = {}
    <2>1. mpc' = "net" /\ todo' = todo
      BY <1>4 DEF NextProcess
    <2>. QED
      BY <1>2, <1>3, <2>1 DEF ExportInv, VisitFresh
  <1>5. CASE todo # {}
    <2>1. PICK p \in todo : cur' = p /\ todo' = todo \ {p} /\ mpc' = "ppid"
      BY <1>5 DEF NextProcess
    <2>2. \A k \in ProcessKinds : ~CollectedNow(k, p)
      BY <2>1 DEF ExportInv, VisitFresh
    <2>. QED
      BY <1>2, <1>3, <2>1, <2>2 DEF ExportInv, VisitFresh
  <1>. QED
    BY <1>4, <1>5

\* proc.ppid(): the visit goes on with the memory collector, or the round
\* is cut short and todo dropped.
LEMMA ReadPpidExport ==
  ASSUME ExportInv, ReadPpid
  PROVE  ExportInv'
  <1>1. mpc = "ppid" /\ UNCHANGED <<index, cur, exported, metrics>>
    BY DEF ReadPpid
  <1>2. /\ (ExportedOnce /\ ListsInjective /\ IdsBounded)'
        /\ ExportedFromLists'
        /\ \A k, p : CollectedNow(k, p)' = CollectedNow(k, p)
    BY <1>1, QuietMonitor
  <1>3. \/ mpc' = "memory" /\ todo' = todo
        \/ mpc' = "send" /\ todo' = {}
    BY DEF ReadPpid, ToSend
  <1>4. (InitEmpty /\ RoundsClosed /\ NetworkPending)'
    BY <1>1, <1>3 DEF ExportInv, InitEmpty, RoundsClosed, NetworkPending
  <1>5. VisitFresh'
    BY <1>1, <1>2, <1>3 DEF ExportInv, VisitFresh
  <1>. QED
    BY <1>2, <1>4, <1>5 DEF ExportInv

\* The poll of the pipe, and the sleep: between two rounds.
LEMMA CheckWakeExport ==
  ASSUME ExportInv, CheckStop \/ Wake
  PROVE  ExportInv'
  <1>1. /\ mpc \in {"check", "sleep"} /\ mpc' \in {"exited", "sleep", "round"}
        /\ UNCHANGED <<index, todo, cur, sk, exported, metrics>>
    BY DEF CheckStop, Wake
  <1>2. /\ (ExportedOnce /\ ListsInjective /\ IdsBounded)'
        /\ ExportedFromLists'
        /\ \A k, p : CollectedNow(k, p)' = CollectedNow(k, p)
    BY <1>1, QuietMonitor
  <1>3. (InitEmpty /\ RoundsClosed /\ NetworkPending)'
    BY <1>1 DEF ExportInv, InitEmpty, RoundsClosed, NetworkPending
  <1>4. VisitFresh'
    BY <1>1, <1>2 DEF ExportInv, VisitFresh
  <1>. QED
    BY <1>2, <1>3, <1>4 DEF ExportInv


\* collect_metric of a per-process collector k for the visited process,
\* which has no record of kind k from this round: the new record (if the
\* process can still be read) differs from every record of the list, and
\* the records already there stay where they are.
LEMMA CollectStep ==
  ASSUME ContextTypeOK, ExportInv, NEW k \in ProcessKinds,
         mpc \in {"memory", "cpu", "disk"}, ~CollectedNow(k, cur),
         CollectProcessMetric(k, cur, curParent, index),
         index' = index, todo' = todo, cur' = cur, sk' = sk,
         exported' = exported, mpc' \in {"cpu", "disk", "next"}
  PROVE  /\ (ExportedOnce /\ ListsInjective /\ IdsBounded)'
         /\ (InitEmpty /\ RoundsClosed /\ NetworkPending)'
         /\ ExportedFromLists'
         /\ \A kk \in ProcessKinds : \A p :
                CollectedNow(kk, p)' => CollectedNow(kk, p) \/ (kk = k /\ p = cur)
  <1>. DEFINE r == [pid |-> cur, parent_pid |-> curParent,
                    collection_id |-> index]
  <1>1. k \in Kinds /\ k # "network_metrics" /\ index \in Nat
        /\ metrics \in [Kinds -> Seq(ProcessRecord \cup NetworkRecord)]
    BY DEF Kinds, ProcessKinds, ContextTypeOK, ProfilerTypeOK,
           CollectorsTypeOK
  <1>2. (InitEmpty /\ RoundsClosed)'
    BY DEF InitEmpty, RoundsClosed
  <1>3. ExportedOnce'
    BY DEF ExportInv, ExportedOnce
  <1>4. CASE status[cur] # "alive"
    <2>1. metrics' = metrics
      BY <1>4 DEF CollectProcessMetric
    <2>2. /\ (ExportedOnce /\ ListsInjective /\ IdsBounded)'
          /\ ExportedFromLists'
          /\ \A kk, p : CollectedNow(kk, p)' = CollectedNow(kk, p)
      BY <2>1, QuietMonitor
    <2>3. NetworkPending'
      BY <2>1 DEF ExportInv, NetworkPending
    <2>. QED
      BY <1>2, <2>2, <2>3
  <1>5. CASE status[cur] = "alive"
    <2>1. metrics' = [metrics EXCEPT ![k] = Append(metrics[k], r)]
      BY <1>5 DEF CollectProcessMetric
    <2>2. /\ metrics'[k] = Append(metrics[k], r)
          /\ \A kk \in Kinds \ {k} : metrics'[kk] = metrics[kk]
      BY <1>1, <2>1
    <2>3. /\ Len(metrics'[k]) = Len(metrics[k]) + 1
          /\ \A j \in 1..Len(metrics[k]) : metrics'[k][j] = metrics[k][j]
          /\ metrics'[k][Len(metrics[k]) + 1] = r
      BY <1>1, <2>2
    <2>4. \A j \in 1..Len(metrics[k]) : metrics[k][j] # r
      BY DEF CollectedNow
    <2>5. ListsInjective'
      <3>1. IsInjective(metrics'[k])
        BY <1>1, <2>2, <2>4, AppendKeepsInjective DEF ExportInv, ListsInjective
      <3>. QED
        BY <2>2, <3>1 DEF ExportInv, ListsInjective
    <2>6. \A kk \in Kinds : /\ DOMAIN metrics[kk] \subseteq DOMAIN metrics'[kk]
                            /\ \A j \in DOMAIN metrics[kk] :
                                   metrics'[kk][j] = metrics[kk][j]
      <3> SUFFICES ASSUME NEW kk \in Kinds
                   PROVE  /\ DOMAIN metrics[kk] \subseteq DOMAIN metrics'[kk]
                          /\ \A j \in DOMAIN metrics[kk] :
                                 metrics'[kk][j] = metrics[kk][j]
        OBVIOUS
      <3>1. metrics[kk] \in Seq(ProcessRecord \cup NetworkRecord)
        BY <1>1
      <3>2. CASE kk = k
        <4>1. DOMAIN metrics[kk] = 1..Len(metrics[k])
              /\ DOMAIN metrics'[kk] = 1..(Len(metrics[k]) + 1)
          BY <1>1, <2>3, <3>1, <3>2
        <4>. QED
          BY <2>3, <3>2, <4>1
      <3>3. CASE kk # k
        BY <2>2, <3>3
      <3>. QED
        BY <3>2, <3>3
    <2>7. IdsBounded'
      <3> SUFFICES ASSUME NEW kk \in Kinds, NEW j \in DOMAIN metrics'[kk]
                   PROVE  metrics'[kk][j].collection_id <= index
        BY DEF IdsBounded
      <3>1. CASE kk = k /\ j = Len(metrics[k]) + 1
        BY <1>1, <2>3, <3>1
      <3>2. CASE ~(kk = k /\ j = Len(metrics[k]) + 1)
        <4>1. j \in DOMAIN metrics[kk]
          BY <1>1, <2>2, <2>3, <3>2
        <4>. QED
          BY <2>6, <4>1 DEF ExportInv, IdsBounded
      <3>. QED
        BY <3>1, <3>2
    <2>8. NetworkPending'
      <3>1. "network_metrics" \in Kinds \ {k}
        BY <1>1 DEF Kinds
      <3>2. metrics'["network_metrics"] = metrics["network_metrics"]
        BY <2>2, <3>1
      <3>. QED
        BY <3>2 DEF ExportInv, NetworkPending
    <2>9. ExportedFromLists'
      <3> SUFFICES ASSUME NEW i \in DOMAIN exported
                   PROVE  \E j \in DOMAIN metrics'[exported[i][1]] :
                              /\ exported[i][2] = metrics'[exported[i][1]][j]
                              /\ j <= index
        BY DEF ExportedFromLists
      <3>1. exported[i][1] \in Kinds
        BY DEF ContextTypeOK, ProfilerTypeOK
      <3>2. PICK j \in DOMAIN metrics[exported[i][1]] :
                exported[i][2] = metrics[exported[i][1]][j] /\ j <= index
        BY ExportedSettled
      <3>. QED
        BY <2>6, <3>1, <3>2
    <2>10. \A kk \in ProcessKinds : \A p :
               CollectedNow(kk, p)' => CollectedNow(kk, p) \/ (kk = k /\ p = cur)
      <3> SUFFICES ASSUME NEW kk \in ProcessKinds, NEW p, CollectedNow(kk, p)',
                          ~(kk = k /\ p = cur)
                   PROVE  CollectedNow(kk, p)
        OBVIOUS
      <3>1. PICK j \in DOMAIN metrics'[kk] : /\ metrics'[kk][j].pid = p
                                             /\ metrics'[kk][j].collection_id = index
        BY DEF CollectedNow
      <3>2. kk \in Kinds
        BY DEF Kinds
      <3>3. j \in DOMAIN metrics[kk]
        BY <1>1, <2>2, <2>3, <3>1, <3>2
      <3>. QED
        BY <2>6, <3>1, <3>2, <3>3 DEF CollectedNow
    <2>. QED
      BY <1>2, <1>3, <2>5, <2>7, <2>8, <2>9, <2>10
  <1>. QED
    BY <1>4, <1>5


\* The memory collector: the CPU and disk records of the process follow.
LEMMA CollectMemoryExport ==
  ASSUME ContextTypeOK, ExportInv, CollectMemory
  PROVE  ExportInv'
  <1>1. /\ mpc = "memory" /\ mpc' = "cpu"
        /\ CollectProcessMetric("memory_metrics", cur, curParent, index)
        /\ index' = index /\ todo' = todo /\ cur' = cur /\ sk' = sk
        /\ exported' = exported
    BY DEF CollectMemory
  <1>2. "memory_metrics" \in ProcessKinds
    BY DEF ProcessKinds
  <1>3. ~CollectedNow("memory_metrics", cur) /\ cur \notin todo
    BY <1>1, <1>2 DEF ExportInv, VisitFresh
  <1>4. /\ (ExportedOnce /\ ListsInjective /\ IdsBounded)'
        /\ (InitEmpty /\ RoundsClosed /\ NetworkPending)'
        /\ ExportedFromLists'
        /\ \A kk \in ProcessKinds : \A p :
               CollectedNow(kk, p)' => CollectedNow(kk, p) \/ (kk = "memory_metrics" /\ p = cur)
    BY <1>1, <1>2, <1>3, CollectStep
  <1>5. \A kk \in ProcessKinds : \A p \in todo' : ~CollectedNow(kk, p)'
    BY <1>1, <1>3, <1>4 DEF ExportInv, VisitFresh
  <1>6. /\ cur' \notin todo'
        /\ ~CollectedNow("cpu_metrics", cur)'
        /\ ~CollectedNow("disk_metrics", cur)'
    <2>1. ~CollectedNow("cpu_metrics", cur) /\ ~CollectedNow("disk_metrics", cur)
      BY <1>1 DEF ExportInv, VisitFresh, ProcessKinds
    <2>. QED
      BY <1>1, <1>3, <1>4, <2>1 DEF ProcessKinds
  <1>. QED
    BY <1>1, <1>4, <1>5, <1>6 DEF ExportInv, VisitFresh

\* The CPU collector: the disk record of the process follows.
LEMMA CollectCpuExport ==
  ASSUME ContextTypeOK, ExportInv, CollectCpu
  PROVE  ExportInv'
  <1>1. /\ mpc = "cpu" /\ mpc' = "disk"
        /\ CollectProcessMetric("cpu_metrics", cur, curParent, index)
        /\ index' = index /\ todo' = todo /\ cur' = cur /\ sk' = sk
        /\ exported' = exported
    BY DEF CollectCpu
  <1>2. "cpu_metrics" \in ProcessKinds
    BY DEF ProcessKinds
  <1>3. ~CollectedNow("cpu_metrics", cur) /\ cur \notin todo
    BY <1>1 DEF ExportInv, VisitFresh
  <1>4. /\ (ExportedOnce /\ ListsInjective /\ IdsBounded)'
        /\ (InitEmpty /\ RoundsClosed /\ NetworkPending)'
        /\ ExportedFromLists'
        /\ \A kk \in ProcessKinds : \A p :
               CollectedNow(kk, p)' => CollectedNow(kk, p) \/ (kk = "cpu_metrics" /\ p = cur)
    BY <1>1, <1>2, <1>3, CollectStep
  <1>5. \A kk \in ProcessKinds : \A p \in todo' : ~CollectedNow(kk, p)'
    BY <1>1, <1>3, <1>4 DEF ExportInv, VisitFresh
  <1>6. cur' \notin todo' /\ ~CollectedNow("disk_metrics", cur)'
    <2>1. ~CollectedNow("disk_metrics", cur)
      BY <1>1 DEF ExportInv, VisitFresh
    <2>. QED
      BY <1>1, <1>3, <1>4, <2>1 DEF ProcessKinds
  <1>. QED
    BY <1>1, <1>4, <1>5, <1>6 DEF ExportInv, VisitFresh

\* The disk collector ends the visit of the process.
LEMMA CollectDiskExport ==
  ASSUME ContextTypeOK, ExportInv, CollectDisk
  PROVE  ExportInv'
  <1>1. /\ mpc = "disk" /\ mpc' = "next"
        /\ CollectProcessMetric("disk_metrics", cur, curParent, index)
        /\ index' = index /\ todo' = todo /\ cur' = cur /\ sk' = sk
        /\ exported' = exported
    BY DEF CollectDisk
  <1>2. "disk_metrics" \in ProcessKinds
    BY DEF ProcessKinds
  <1>3. ~CollectedNow("disk_metrics", cur) /\ cur \notin todo
    BY <1>1 DEF ExportInv, VisitFresh
  <1>4. /\ (ExportedOnce /\ ListsInjective /\ IdsBounded)'
        /\ (InitEmpty /\ RoundsClosed /\ NetworkPending)'
        /\ ExportedFromLists'
        /\ \A kk \in ProcessKinds : \A p :
               CollectedNow(kk, p)' => CollectedNow(kk, p) \/ (kk = "disk_metrics" /\ p = cur)
    BY <1>1, <1>2, <1>3, CollectStep
  <1>5. \A kk \in ProcessKinds : \A p \in todo' : ~CollectedNow(kk, p)'
    BY <1>1, <1>3, <1>4 DEF ExportInv, VisitFresh
  <1>6. mpc' = "next"
    BY <1>1
  <1>. QED
    BY <1>1, <1>4, <1>5, <1>6 DEF ExportInv, VisitFresh

\* The network collector, once per round after the processes: the round
\* has no network record yet.
LEMMA CollectNetworkExport ==
  ASSUME ContextTypeOK, ExportInv, CollectNetwork
  PROVE  ExportInv'
  <1>. DEFINE N == "network_metrics"
              r == [collection_id |-> index]
  <1>1. /\ mpc = "net" /\ mpc' = "send" /\ sk' = 1
        /\ metrics' = [metrics EXCEPT ![N] = Append(metrics[N], r)]
        /\ index' = index /\ todo' = todo /\ cur' = cur
        /\ exported' = exported
    BY DEF CollectNetwork, CollectNetworkMetric, ToSend
  <1>2. /\ N \in Kinds /\ N \notin ProcessKinds /\ index \in Nat
        /\ metrics \in [Kinds -> Seq(ProcessRecord \cup NetworkRecord)]
    BY DEF Kinds, ProcessKinds, ContextTypeOK, ProfilerTypeOK,
           CollectorsTypeOK
  <1>3. /\ metrics'[N] = Append(metrics[N], r)
        /\ \A kk \in Kinds \ {N} : metrics'[kk] = metrics[kk]
    BY <1>1, <1>2
  <1>4. /\ Len(metrics'[N]) = Len(metrics[N]) + 1
        /\ \A j \in 1..Len(metrics[N]) : metrics'[N][j] = metrics[N][j]
        /\ metrics'[N][Len(metrics[N]) + 1] = r
    BY <1>2, <1>3
  <1>5. \A j \in 1..Len(metrics[N]) : metrics[N][j].collection_id < index
    BY <1>1, <1>2 DEF ExportInv, NetworkPending
  <1>6. \A kk \in Kinds : /\ DOMAIN metrics[kk] \subseteq DOMAIN metrics'[kk]
                          /\ \A j \in DOMAIN metrics[kk] :
                                 metrics'[kk][j] = metrics[kk][j]
    <2> SUFFICES ASSUME NEW kk \in Kinds
                 PROVE  /\ DOMAIN metrics[kk] \subseteq DOMAIN metrics'[kk]
                        /\ \A j \in DOMAIN metrics[kk] :
                               metrics'[kk][j] = metrics[kk][j]
      OBVIOUS
    <2>1. metrics[kk] \in Seq(ProcessRecord \cup NetworkRecord)
      BY <1>2
    <2>2. CASE kk = N
      <3>1. DOMAIN metrics[kk] = 1..Len(metrics[N])
            /\ DOMAIN metrics'[kk] = 1..(Len(metrics[N]) + 1)
        BY <1>2, <1>4, <2>1, <2>2
      <3>. QED
        BY <1>4, <2>2, <3>1
    <2>3. CASE kk # N
      BY <1>3, <2>3
    <2>. QED
      BY <2>2, <2>3
  <1>7. ListsInjective'
    <2>1. \A j \in 1..Len(metrics[N]) : metrics[N][j] # r
      BY <1>2, <1>5
    <2>2. IsInjective(metrics'[N])
      BY <1>2, <1>3, <2>1, AppendKeepsInjective DEF ExportInv, ListsInjective
    <2>. QED
      BY <1>3, <2>2 DEF ExportInv, ListsInjective
  <1>8. IdsBounded'
    <2> SUFFICES ASSUME NEW kk \in Kinds, NEW j \in DOMAIN metrics'[kk]
                 PROVE  metrics'[kk][j].collection_id <= index
      BY <1>1 DEF IdsBounded
    <2>1. CASE kk = N /\ j = Len(metrics[N]) + 1
      BY <1>2, <1>4, <2>1
    <2>2. CASE ~(kk = N /\ j = Len(metrics[N]) + 1)
      <3>1. j \in DOMAIN metrics[kk]
        BY <1>2, <1>3, <1>4, <2>2
      <3>. QED
        BY <1>6, <3>1 DEF ExportInv, IdsBounded
    <2>. QED
      BY <2>1, <2>2
  <1>9. ExportedFromLists'
    <2> SUFFICES ASSUME NEW i \in DOMAIN exported
                 PROVE  \E j \in DOMAIN metrics'[exported[i][1]] :
                            /\ exported[i][2] = metrics'[exported[i][1]][j]
                            /\ j <= index
      BY <1>1 DEF ExportedFromLists
    <2>1. exported[i][1] \in Kinds
      BY DEF ContextTypeOK, ProfilerTypeOK
    <2>2. PICK j \in DOMAIN metrics[exported[i][1]] :
              exported[i][2] = metrics[exported[i][1]][j] /\ j <= index
      BY <1>1, ExportedSettled
    <2>. QED
      BY <1>6, <2>1, <2>2
  <1>10. VisitFresh'
    <2>1. \A kk \in ProcessKinds : metrics'[kk] = metrics[kk]
      BY <1>2, <1>3 DEF Kinds
    <2>2. \A kk \in ProcessKinds : \A p : CollectedNow(kk, p)' = CollectedNow(kk, p)
      BY <1>1, <2>1 DEF CollectedNow
    <2>. QED
      BY <1>1, <2>2 DEF ExportInv, VisitFresh
  <1>11. (ExportedOnce /\ InitEmpty /\ RoundsClosed /\ NetworkPending)'
    BY <1>1 DEF ExportInv, ExportedOnce, InitEmpty, RoundsClosed,
                NetworkPending
  <1>. QED
    BY <1>7, <1>8, <1>9, <1>10, <1>11 DEF ExportInv


\* _send_metrics for the kind at sk: metric_list[index] has not been sent
\* before, since every earlier record of that kind sits at a position no
\* later than index, and the list holds each record once.
LEMMA SendExport ==
  ASSUME ContextTypeOK, ExportInv, SendMetrics
  PROVE  ExportInv'
  <1>. DEFINE k == SendOrder[sk]
              e == <<k, metrics[k][index + 1]>>
              PR == ProcessRecord \cup NetworkRecord
  <1>1. /\ mpc = "send" /\ ExportRecord(k) /\ AdvanceSend
        /\ todo' = todo /\ cur' = cur /\ metrics' = metrics
    BY DEF SendMetrics
  <1>2. /\ sk \in 1..4 /\ index \in Nat /\ k \in Kinds
        /\ exported \in Seq(Kinds \X PR)
        /\ metrics[k] \in Seq(PR)
    BY SendOrderKinds DEF ContextTypeOK, ProfilerTypeOK, CollectorsTypeOK
  <1>3. k \notin SentKinds
    BY <1>2, SendOrderDistinct DEF SentKinds
  <1>4. \/ /\ sk < 4 /\ sk' = sk + 1 /\ mpc' = "send" /\ index' = index
        \/ /\ sk = 4 /\ mpc' = "check" /\ index' = index + 1
    BY <1>1, <1>2 DEF AdvanceSend
  <1>5. sk < 4 => SentKinds \cup {k} \subseteq SentKinds'
    BY <1>2, <1>4 DEF SentKinds
  <1>6. \/ index < Len(metrics[k]) /\ exported' = Append(exported, e)
        \/ ~(index < Len(metrics[k])) /\ exported' = exported
    BY <1>1 DEF ExportRecord
  \* every record of kind k sent so far sits at a position up to index
  <1>7. \A i \in DOMAIN exported :
            exported[i][1] = k =>
                \E j \in DOMAIN metrics[k] : exported[i][2] = metrics[k][j]
                                            /\ j <= index
    BY <1>3 DEF ExportInv, ExportedFromLists
  <1>8. ExportedOnce'
    <2>1. CASE index < Len(metrics[k])
      <3>1. \A i \in 1..Len(exported) : exported[i] # e
        <4> SUFFICES ASSUME NEW i \in 1..Len(exported), exported[i] = e
                     PROVE  FALSE
          OBVIOUS
        <4>1. exported[i][1] = k /\ exported[i][2] = metrics[k][index + 1]
          OBVIOUS
        <4>2. PICK j \in DOMAIN metrics[k] : exported[i][2] = metrics[k][j]
                                            /\ j <= index
          BY <1>2, <1>7, <4>1
        <4>3. IsInjective(metrics[k])
          BY <1>2 DEF ExportInv, ListsInjective
        <4>4. index + 1 \in DOMAIN metrics[k]
          BY <1>2, <2>1
        <4>5. j = index + 1
          BY <4>1, <4>2, <4>3, <4>4 DEF IsInjective
        <4>6. j \in Nat
          BY <1>2, <4>2
        <4>. QED
          BY <1>2, <4>2, <4>5, <4>6
      <3>2. IsInjective(Append(exported, e))
        BY <1>2, <3>1, AppendKeepsInjective DEF ExportInv, ExportedOnce
      <3>. QED
        BY <1>6, <2>1, <3>2 DEF ExportedOnce
    <2>2. CASE ~(index < Len(metrics[k]))
      BY <1>6, <2>2 DEF ExportInv, ExportedOnce
    <2>. QED
      BY <2>1, <2>2
  \* the collection ids of all records are numbers
  <1>13. \A kk \in Kinds : \A j \in DOMAIN metrics[kk] :
             metrics[kk][j].collection_id \in Nat
    <2> SUFFICES ASSUME NEW kk \in Kinds, NEW j \in DOMAIN metrics[kk]
                 PROVE  metrics[kk][j].collection_id \in Nat
      OBVIOUS
    <2>1. metrics[kk] \in Seq(PR)
      BY DEF ContextTypeOK, ProfilerTypeOK, CollectorsTypeOK
    <2>2. metrics[kk][j] \in PR
      BY <2>1
    <2>. QED
      BY <2>2 DEF ProcessRecord, NetworkRecord
  <1>14. index' \in Nat /\ index <= index'
    BY <1>2, <1>4
  <1>9. (ListsInjective /\ IdsBounded)'
    <2>1. ListsInjective'
      BY <1>1 DEF ExportInv, ListsInjective
    <2>2. IdsBounded'
      BY <1>1, <1>2, <1>13, <1>14 DEF ExportInv, IdsBounded
    <2>. QED
      BY <2>1, <2>2
  <1>10. (InitEmpty /\ RoundsClosed /\ NetworkPending)'
    <2>1. mpc' = "check" =>
              \A kk \in Kinds : \A j \in DOMAIN metrics[kk] :
                  metrics[kk][j].collection_id < index'
      <3> SUFFICES ASSUME mpc' = "check", NEW kk \in Kinds,
                          NEW j \in DOMAIN metrics[kk]
                   PROVE  metrics[kk][j].collection_id < index'
        OBVIOUS
      <3>1. metrics[kk][j].collection_id <= index
        BY DEF ExportInv, IdsBounded
      <3>2. metrics[kk][j] \in PR
        BY DEF ContextTypeOK, ProfilerTypeOK, CollectorsTypeOK
      <3>3. metrics[kk][j].collection_id \in Nat
        BY <3>2 DEF ProcessRecord, NetworkRecord
      <3>. QED
        BY <1>2, <1>4, <3>1, <3>3
    <2>. QED
      BY <1>1, <1>4, <2>1 DEF InitEmpty, RoundsClosed, NetworkPending
  <1>11. VisitFresh'
    <2>1. \A kk \in ProcessKinds : \A p :
              CollectedNow(kk, p)' => CollectedNow(kk, p)
      <3> SUFFICES ASSUME NEW kk \in ProcessKinds, NEW p, CollectedNow(kk, p)'
                   PROVE  CollectedNow(kk, p)
        OBVIOUS
      <3>1. PICK j \in DOMAIN metrics[kk] :
                /\ metrics[kk][j].pid = p
                /\ metrics[kk][j].collection_id = index'
        BY <1>1 DEF CollectedNow
      <3>2. kk \in Kinds
        BY DEF Kinds
      <3>3. metrics[kk][j].collection_id <= index
        BY <3>2 DEF ExportInv, IdsBounded
      <3>4. index' = index
        BY <1>2, <1>4, <3>1, <3>3
      <3>. QED
        BY <3>1, <3>4 DEF CollectedNow
    <2>. QED
      BY <1>1, <1>4, <2>1 DEF ExportInv, VisitFresh
  <1>12. ExportedFromLists'
    <2> SUFFICES ASSUME NEW i \in DOMAIN exported'
                 PROVE  \E j \in DOMAIN metrics[exported'[i][1]] :
                            /\ exported'[i][2] = metrics[exported'[i][1]][j]
                            /\ \/ j <= index'
                               \/ /\ j = index' + 1
                                  /\ exported'[i][1] \in SentKinds'
                                  /\ mpc' \in {"send", "exited"}
      BY <1>1 DEF ExportedFromLists
    <2>1. CASE i \in DOMAIN exported
      <3>1. exported'[i] = exported[i]
        <4>1. CASE exported' = Append(exported, e)
          BY <1>2, <2>1, <4>1
        <4>2. CASE exported' = exported
          BY <4>2
        <4>. QED
          BY <1>6, <4>1, <4>2
      <3>2. exported[i] \in Kinds \X PR
        BY <1>2, <2>1
      <3>3. PICK j \in DOMAIN metrics[exported[i][1]] :
                /\ exported[i][2] = metrics[exported[i][1]][j]
                /\ \/ j <= index
                   \/ /\ j = index + 1
                      /\ exported[i][1] \in SentKinds
        BY <2>1 DEF ExportInv, ExportedFromLists
      <3>4. metrics[exported[i][1]] \in Seq(PR)
        BY <3>2 DEF ContextTypeOK, ProfilerTypeOK, CollectorsTypeOK
      <3>5. j \in Nat
        BY <3>3, <3>4
      <3>6. CASE j <= index
        <4>1. j <= index'
          BY <1>2, <1>14, <3>5, <3>6
        <4>. QED
          BY <1>1, <3>1, <3>3, <4>1
      <3>7. CASE j = index + 1 /\ exported[i][1] \in SentKinds
        <4>1. CASE sk < 4 /\ sk' = sk + 1 /\ mpc' = "send" /\ index' = index
          BY <1>1, <1>5, <3>1, <3>3, <3>7, <4>1
        <4>2. CASE sk = 4 /\ mpc' = "check" /\ index' = index + 1
          BY <1>1, <3>1, <3>3, <3>7, <4>2
        <4>. QED
          BY <1>4, <4>1, <4>2
      <3>. QED
        BY <3>3, <3>6, <3>7
    <2>2. CASE i \notin DOMAIN exported
      <3>1. index < Len(metrics[k]) /\ exported' = Append(exported, e)
        BY <1>2, <1>6, <2>2
      <3>2. i = Len(exported) + 1 /\ exported'[i] = e
        BY <1>2, <2>2, <3>1
      <3>3. index + 1 \in DOMAIN metrics[k]
        BY <1>2, <3>1
      <3>4. CASE sk < 4 /\ sk' = sk + 1 /\ mpc' = "send" /\ index' = index
        <4>1. k \in SentKinds'
          BY <1>5, <3>4
        <4>. QED
          BY <1>1, <3>2, <3>3, <3>4, <4>1
      <3>5. CASE sk = 4 /\ mpc' = "check" /\ index' = index + 1
        BY <1>1, <3>2, <3>3, <3>5
      <3>. QED
        BY <1>4, <3>4, <3>5
    <2>. QED
      BY <2>1, <2>2
  <1>. QED
    BY <1>8, <1>9, <1>10, <1>11, <1>12 DEF ExportInv


-----------------------------------------------------------------------------
(* ExportInv is inductive.                                                 *)

\* Before _initialize_process nothing is collected or sent.
LEMMA InitExport == Init => ExportInv
  <1> SUFFICES ASSUME Init PROVE ExportInv
    OBVIOUS
  <1>1. mpc = "init" /\ index = 0 /\ todo = {} /\ exported = << >>
        /\ \A k \in Kinds : metrics[k] = << >>
    BY DEF Init, MonitorInit, CollectorsInit
  <1>2. \A k \in Kinds : \A p : ~CollectedNow(k, p)
    BY <1>1 DEF CollectedNow
  <1>3. ExportedOnce /\ ListsInjective /\ IdsBounded /\ ExportedFromLists
    BY <1>1 DEF ExportedOnce, ListsInjective, IdsBounded, ExportedFromLists,
                IsInjective
  <1>4. InitEmpty /\ RoundsClosed /\ NetworkPending /\ VisitFresh
    BY <1>1, <1>2 DEF InitEmpty, RoundsClosed, NetworkPending, VisitFresh,
                      ProcessKinds, Kinds
  <1>. QED
    BY <1>3, <1>4 DEF ExportInv

\* Every step of the context keeps ExportInv.
LEMMA StepExport == ContextTypeOK /\ ExportInv /\ [Next]_vars => ExportInv'
  <1> SUFFICES ASSUME ContextTypeOK, ExportInv, [Next]_vars PROVE ExportInv'
    OBVIOUS
  <1>1. CASE EndScope \/ OwnerStep \/ JobRunnerFinished
    <2>1. UNCHANGED exportVars
      BY <1>1 DEF EndScope, OwnerStep, SendStopSignal, HandleJobrunnerSignal,
                  JoinReturns, JoinTimesOut, CheckAlive, Reap,
                  CloseConnections, JobRunnerFinished, monitorVars, exportVars
    <2>. QED
      BY <2>1, ExportFrame
  <1>2. CASE TreeNext /\ UNCHANGED <<ownerVars, pipe, monitorVars>>
    <2>1. UNCHANGED exportVars
      BY <1>2 DEF TreeNext, Spawn, Exit, monitorVars, exportVars
    <2>. QED
      BY <2>1, ExportFrame
  <1>3. CASE Finished \/ UNCHANGED vars
    <2>1. UNCHANGED exportVars
      BY <1>3 DEF Finished, vars, monitorVars, exportVars
    <2>. QED
      BY <2>1, ExportFrame
  <1>4. CASE Killed
    BY <1>4, KilledExport
  <1>5. CASE MonitorNext /\ UNCHANGED ownerVars
    BY <1>5, InitializeExport, SnapshotExport, NextProcessExport,
       ReadPpidExport, CheckWakeExport, CollectMemoryExport,
       CollectCpuExport, CollectDiskExport, CollectNetworkExport, SendExport
       DEF MonitorNext, MonitorStep
  <1>. QED
    BY <1>1, <1>2, <1>3, <1>4, <1>5 DEF Next

\* Whatever the process tree and the bound on rounds, ExportInv holds in
\* every reachable state: each collector list holds each record once, no
\* record belongs to a later round than index, and every record handed to
\* send_metric_to_prometheus is the j-th of its list for a j that
\* _send_metrics has already reached (index only grows, and a round
\* appends at most one record per process and kind).
THEOREM ExportInvHolds == Spec => []ExportInv
  BY InitTyped, NextTyped, InitExport, StepExport, PTL DEF Spec

\* Whatever the process tree and the bound on rounds, the monitoring
\* process never hands the same record to send_metric_to_prometheus
\* twice: _send_metrics sends metric_list[index] of each kind once per
\* round, index only grows, and a round appends at most one record per
\* process and kind, tagged with the round's collection_id.
THEOREM ExportedOnceHolds == Spec => []ExportedOnce
  BY ExportInvHolds, PTL DEF ExportInv

=============================================================================
