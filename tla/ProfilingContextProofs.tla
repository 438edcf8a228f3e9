----------------------- MODULE ProfilingContextProofs -----------------------
(***************************************************************************)
(* Proofs about ProfilingContext, for every process tree and every bound: *)
(* the type invariant, and that the owner never finishes the finally      *)
(* block while the monitoring process still runs.                          *)
(***************************************************************************)
EXTENDS ProfilingContext, TLAPS

\* The process-tree facts used by several steps.
LEMMA DescendantsInProcs == Descendants \subseteq Procs
  BY DEF Descendants

\* Every entry of METRIC_COLLECTIONS_FIELDS names a collector list.
LEMMA SendOrderKinds == \A i \in 1..4 : SendOrder[i] \in Kinds
  BY DEF SendOrder, Kinds, ProcessKinds

\* Appending a record to a collector's list keeps the list well typed.
LEMMA CollectTyped ==
  ASSUME CollectorsTypeOK,
         NEW k \in ProcessKinds, NEW pid \in Procs, NEW par \in PidVal,
         NEW cid \in Nat,
         CollectProcessMetric(k, pid, par, cid)
  PROVE  /\ metrics' \in [Kinds -> Seq(ProcessRecord \cup NetworkRecord)]
         /\ \A kk \in ProcessKinds : metrics'[kk] \in Seq(ProcessRecord)
         /\ metrics'["network_metrics"] \in Seq(NetworkRecord)
  <1>1. [pid |-> pid, parent_pid |-> par, collection_id |-> cid] \in ProcessRecord
    BY DEF ProcessRecord
  <1>2. k \in Kinds /\ k # "network_metrics"
    BY DEF Kinds, ProcessKinds
  <1>. QED
    BY <1>1, <1>2 DEF CollectProcessMetric, CollectorsTypeOK, Kinds

-----------------------------------------------------------------------------
(* Type correctness.                                                       *)

\* Init puts every variable in its type.
LEMMA InitTyped == Init => ContextTypeOK
  <1> SUFFICES ASSUME Init PROVE ContextTypeOK
    OBVIOUS
  <1>1. status \in [Procs -> ProcStatus] /\ ppid \in [Procs -> PidVal]
    BY ConstAssumption DEF Init, TreeInit, PidVal, ProcStatus
  <1>2. /\ metrics \in [Kinds -> Seq(ProcessRecord \cup NetworkRecord)]
        /\ \A k \in ProcessKinds : metrics[k] \in Seq(ProcessRecord)
        /\ metrics["network_metrics"] \in Seq(NetworkRecord)
    BY DEF Init, CollectorsInit, Kinds
  <1>3. curParent \in PidVal /\ cur \in Procs
    BY ConstAssumption DEF Init, MonitorInit, PidVal
  <1>4. exported \in Seq(Kinds \X (ProcessRecord \cup NetworkRecord))
    BY DEF Init, MonitorInit
  <1>5. mpc \in MonitorPC /\ index \in Nat /\ todo \in SUBSET Procs
        /\ sk \in 1..4 /\ pipe \in Nat
    BY DEF Init, MonitorInit, MonitorPC
  <1>6. opc \in OwnerPC /\ sigterm \in BOOLEAN /\ jrSent \in BOOLEAN
        /\ jrIn \in Nat /\ jrOut \in Nat
    BY DEF Init, OwnerPC
  <1>. QED
    BY <1>1, <1>2, <1>3, <1>4, <1>5, <1>6
       DEF ContextTypeOK, ProfilerTypeOK, CollectorsTypeOK

\* Each step keeps every variable in its type.
LEMMA NextTyped == ContextTypeOK /\ [Next]_vars => ContextTypeOK'
  <1> SUFFICES ASSUME ContextTypeOK, [Next]_vars PROVE ContextTypeOK'
    OBVIOUS
  <1>. USE DEF ContextTypeOK, ProfilerTypeOK, CollectorsTypeOK, MonitorPC,
               monitorVars, treeVars,
               OwnerPC
  <1>1. CASE EndScope
    BY <1>1 DEF EndScope
  <1>2. CASE SendStopSignal
    BY <1>2 DEF SendStopSignal
  <1>3. CASE HandleJobrunnerSignal
    BY <1>3 DEF HandleJobrunnerSignal
  <1>4. CASE JoinReturns \/ JoinTimesOut \/ Reap \/ CloseConnections
    BY <1>4 DEF JoinReturns, JoinTimesOut, Reap, CloseConnections
  <1>5. CASE CheckAlive
    BY <1>5 DEF CheckAlive
  <1>6. CASE Killed
    BY <1>6 DEF Killed, ownerVars
  <1>7. CASE JobRunnerFinished
    BY <1>7 DEF JobRunnerFinished
  <1>8. CASE TreeNext /\ UNCHANGED <<ownerVars, pipe, monitorVars>>
    <2>1. PICK p \in Procs : Spawn(p) \/ Exit(p)
      BY <1>8 DEF TreeNext
    <2>2. CASE Spawn(p)
      BY <1>8, <2>2 DEF Spawn, ProcStatus, ownerVars, monitorVars
    <2>3. CASE Exit(p)
      BY <1>8, <2>3 DEF Exit, ProcStatus, PidVal, ownerVars, monitorVars
    <2>. QED
      BY <2>1, <2>2, <2>3
  <1>9. CASE Finished \/ UNCHANGED vars
    BY <1>9 DEF Finished, vars, ownerVars, monitorVars, treeVars
  <1>10. CASE MonitorNext /\ UNCHANGED ownerVars
    <2>. USE DEF ownerVars
    <2>1. CASE Initialize
      BY <1>10, <2>1 DEF Initialize, treeVars
    <2>2. CASE Snapshot
      BY <1>10, <2>2, DescendantsInProcs, ConstAssumption DEF Snapshot, ToSend, treeVars
    <2>3. CASE NextProcess
      BY <1>10, <2>3 DEF NextProcess, treeVars
    <2>4. CASE ReadPpid
      BY <1>10, <2>4 DEF ReadPpid, ToSend, treeVars
    <2>5. CASE CollectMemory \/ CollectCpu \/ CollectDisk
      <3>1. \E k \in ProcessKinds : CollectProcessMetric(k, cur, curParent, index)
        BY <2>5 DEF CollectMemory, CollectCpu, CollectDisk, ProcessKinds
      <3>2. /\ metrics' \in [Kinds -> Seq(ProcessRecord \cup NetworkRecord)]
            /\ \A kk \in ProcessKinds : metrics'[kk] \in Seq(ProcessRecord)
            /\ metrics'["network_metrics"] \in Seq(NetworkRecord)
        BY <3>1, CollectTyped
      <3>. QED
        BY <1>10, <2>5, <3>2 DEF CollectMemory, CollectCpu, CollectDisk, treeVars
    <2>6. CASE CollectNetwork
      <3>1. [collection_id |-> index] \in NetworkRecord
        BY DEF NetworkRecord
      <3>2. "network_metrics" \in Kinds /\ "network_metrics" \notin ProcessKinds
        BY DEF Kinds, ProcessKinds
      <3>. QED
        BY <1>10, <2>6, <3>1, <3>2
           DEF CollectNetwork, CollectNetworkMetric, ToSend, treeVars
    <2>7. CASE SendMetrics
      <3>. DEFINE k == SendOrder[sk]
      <3>1. k \in Kinds
        BY SendOrderKinds
      <3>2. index < Len(metrics[k])
              => metrics[k][index + 1] \in ProcessRecord \cup NetworkRecord
        BY <3>1
      <3>3. exported' \in Seq(Kinds \X (ProcessRecord \cup NetworkRecord))
        BY <2>7, <3>1, <3>2 DEF SendMetrics, ExportRecord
      <3>4. sk' \in 1..4 /\ index' \in Nat /\ mpc' \in MonitorPC
        BY <2>7 DEF SendMetrics, AdvanceSend
      <3>. QED
        BY <1>10, <2>7, <3>3, <3>4 DEF SendMetrics, treeVars
    <2>8. CASE CheckStop
      BY <1>10, <2>8 DEF CheckStop, treeVars
    <2>9. CASE Wake
      BY <1>10, <2>9 DEF Wake, treeVars
    <2>. QED
      BY <1>10, <2>1, <2>2, <2>3, <2>4, <2>5, <2>6, <2>7, <2>8, <2>9
         DEF MonitorNext, MonitorStep
  <1>. QED
    BY <1>1, <1>2, <1>3, <1>4, <1>5, <1>6, <1>7, <1>8, <1>9, <1>10
       DEF Next, OwnerStep

\* The type invariant holds in every reachable state.
THEOREM TypeCorrect == Spec => []ContextTypeOK
  BY InitTyped, NextTyped, PTL DEF Spec

-----------------------------------------------------------------------------
(* The monitor does not outlive the context.                               *)

\* Every step of the monitor starts from a live monitor.
LEMMA MonitorStepsFromLive == MonitorNext => mpc # "exited"
  BY DEF MonitorNext, MonitorStep, Initialize, Snapshot, NextProcess,
         ReadPpid, CollectMemory, CollectCpu, CollectDisk, CollectNetwork,
         SendMetrics, CheckStop, Wake

\* MonitorGoneAfterRelease is inductive by itself: the owner reaches
\* "close" only from a check that saw the monitor gone, and a gone monitor
\* takes no more steps.
LEMMA MonitorGoneStep ==
  MonitorGoneAfterRelease /\ [Next]_vars => MonitorGoneAfterRelease'
  <1> SUFFICES ASSUME MonitorGoneAfterRelease, [Next]_vars
               PROVE  MonitorGoneAfterRelease'
    OBVIOUS
  <1>. USE DEF MonitorGoneAfterRelease
  <1>1. CASE EndScope \/ SendStopSignal \/ HandleJobrunnerSignal
             \/ JoinReturns \/ JoinTimesOut
    BY <1>1 DEF EndScope, SendStopSignal, HandleJobrunnerSignal,
                JoinReturns, JoinTimesOut, monitorVars
  <1>2. CASE CheckAlive
    BY <1>2 DEF CheckAlive, monitorVars
  <1>3. CASE Reap \/ CloseConnections
    BY <1>3 DEF Reap, CloseConnections, monitorVars
  <1>4. CASE MonitorNext /\ UNCHANGED ownerVars
    <2>1. mpc # "exited"
      BY <1>4, MonitorStepsFromLive
    <2>2. opc \notin {"close", "done"} /\ opc' = opc
      BY <1>4, <2>1 DEF ownerVars
    <2>. QED
      BY <2>2
  <1>5. CASE Killed
    BY <1>5 DEF Killed
  <1>6. CASE JobRunnerFinished
    BY <1>6 DEF JobRunnerFinished, monitorVars
  <1>7. CASE TreeNext /\ UNCHANGED <<ownerVars, pipe, monitorVars>>
    BY <1>7 DEF ownerVars, monitorVars
  <1>8. CASE Finished \/ UNCHANGED vars
    BY <1>8 DEF Finished, vars, monitorVars, ownerVars
  <1>. QED
    BY <1>1, <1>2, <1>3, <1>4, <1>5, <1>6, <1>7, <1>8 DEF Next, OwnerStep

\* Whatever the process tree and the bound on rounds, when the owner leaves
\* _finalize_process the monitoring process has exited.
THEOREM MonitorGone == Spec => []MonitorGoneAfterRelease
  <1>1. Init => MonitorGoneAfterRelease
    BY DEF Init, MonitorGoneAfterRelease
  <1>. QED
    BY <1>1, MonitorGoneStep, PTL DEF Spec

-----------------------------------------------------------------------------
(* The with block, seen from the monitor (used by the refinement proof).   *)

\* While the with block runs, no stop token has been sent and terminate()
\* has not been called, so a monitor that has exited did so in
\* _initialize_process, before any round.
ScopeInv ==
    /\ opc = "body" /\ mpc = "exited" => index = 0
    /\ opc = "body" => pipe = 0 /\ ~sigterm
    /\ mpc = "init" => index = 0

\* Every step of the context keeps ScopeInv.
LEMMA ScopeInvStep ==
  ContextTypeOK /\ ScopeInv /\ [Next]_vars => ScopeInv'
  <1> SUFFICES ASSUME ContextTypeOK, ScopeInv, [Next]_vars PROVE ScopeInv'
    OBVIOUS
  <1>. USE DEF ScopeInv
  <1>1. CASE OwnerStep
    \* every owner step but EndScope starts outside "body" and stays there
    <2>1. opc # "body" /\ opc' # "body"
      BY <1>1 DEF OwnerStep, SendStopSignal, HandleJobrunnerSignal,
                  JoinReturns, JoinTimesOut, CheckAlive, Reap,
                  CloseConnections
    <2>2. UNCHANGED <<mpc, index>>
      BY <1>1 DEF OwnerStep, SendStopSignal, HandleJobrunnerSignal,
                  JoinReturns, JoinTimesOut, CheckAlive, Reap,
                  CloseConnections, monitorVars
    <2>. QED
      BY <2>1, <2>2
  <1>2. CASE EndScope
    BY <1>2 DEF EndScope, monitorVars
  <1>3. CASE MonitorNext /\ UNCHANGED ownerVars
    <2>1. opc' = opc /\ sigterm' = sigterm
      BY <1>3 DEF ownerVars
    <2>2. CASE Initialize
      BY <2>1, <2>2 DEF Initialize
    <2>3. CASE CheckStop
      BY <2>1, <2>3 DEF CheckStop
    <2>4. CASE SendMetrics
      BY <2>1, <2>4 DEF SendMetrics, AdvanceSend
    <2>5. CASE Snapshot \/ NextProcess \/ ReadPpid \/ CollectMemory
               \/ CollectCpu \/ CollectDisk \/ CollectNetwork \/ Wake
      BY <2>1, <2>5 DEF Snapshot, NextProcess, ReadPpid, CollectMemory,
                        CollectCpu, CollectDisk, CollectNetwork, Wake, ToSend
    <2>. QED
      BY <1>3, <2>2, <2>3, <2>4, <2>5 DEF MonitorNext, MonitorStep
  <1>4. CASE Killed
    BY <1>4 DEF Killed, ownerVars
  <1>5. CASE JobRunnerFinished
    BY <1>5 DEF JobRunnerFinished, monitorVars
  <1>6. CASE TreeNext /\ UNCHANGED <<ownerVars, pipe, monitorVars>>
    BY <1>6 DEF ownerVars, monitorVars
  <1>7. CASE Finished \/ UNCHANGED vars
    BY <1>7 DEF Finished, vars, monitorVars, ownerVars
  <1>. QED
    BY <1>1, <1>2, <1>3, <1>4, <1>5, <1>6, <1>7 DEF Next

=============================================================================
