-------------------- MODULE SupervisionRefinementProofs ---------------------
(***************************************************************************)
(* profiling_context implements the safety part of the abstract           *)
(* Supervision specification under the mapping of ProfilingContext        *)
(* (ScopeState, MonitorState, index): every initial state maps to an      *)
(* initial state and every step to a step of Supervision or a stutter.    *)
(***************************************************************************)
EXTENDS ProfilingContextProofs

\* The states of the monitor between Initialize and the index += 1 that
\* ends a round.
InRound == {"init", "round", "next", "ppid", "memory", "cpu", "disk", "net",
            "send"}

\* A round in progress has not been counted yet, so index stays within the
\* bound the abstract Round needs.
RoundBound ==
    /\ index <= MaxRounds
    /\ mpc \in InRound => index < MaxRounds

\* Every step keeps the round counter within MaxRounds.
LEMMA RoundBoundStep ==
  ContextTypeOK /\ RoundBound /\ [Next]_vars => RoundBound'
  <1> SUFFICES ASSUME ContextTypeOK, RoundBound, [Next]_vars
               PROVE  RoundBound'
    OBVIOUS
  <1>. USE DEF RoundBound, InRound, ContextTypeOK, ProfilerTypeOK
  <1>1. CASE MonitorNext /\ UNCHANGED ownerVars
    <2>1. CASE SendMetrics
      <3>1. mpc = "send" /\ index \in Nat /\ MaxRounds \in Nat
        BY <2>1, MaxRoundsAssumption DEF SendMetrics
      <3>2. CASE sk < 4
        BY <2>1, <3>1, <3>2 DEF SendMetrics, AdvanceSend
      <3>3. CASE ~(sk < 4)
        BY <2>1, <3>1, <3>3 DEF SendMetrics, AdvanceSend
      <3>. QED
        BY <3>2, <3>3
    <2>2. CASE Initialize \/ Snapshot \/ NextProcess \/ ReadPpid
               \/ CollectMemory \/ CollectCpu \/ CollectDisk
               \/ CollectNetwork \/ CheckStop \/ Wake
      BY <2>2 DEF Initialize, Snapshot, NextProcess, ReadPpid, CollectMemory,
                  CollectCpu, CollectDisk, CollectNetwork, CheckStop, Wake,
                  ToSend
    <2>. QED
      BY <1>1, <2>1, <2>2 DEF MonitorNext, MonitorStep
  <1>2. CASE Killed
    BY <1>2 DEF Killed
  <1>3. CASE ~(MonitorNext /\ UNCHANGED ownerVars) /\ ~Killed
    <2>. UNCHANGED <<mpc, index>>
      BY <1>3 DEF Next, EndScope, OwnerStep, SendStopSignal,
                  HandleJobrunnerSignal, JoinReturns, JoinTimesOut,
                  CheckAlive, Reap, CloseConnections, JobRunnerFinished,
                  Finished, vars, monitorVars
    <2>. QED
      OBVIOUS
  <1>. QED
    BY <1>1, <1>2, <1>3

\* The invariant the refinement rests on.
RInv == ContextTypeOK /\ ScopeInv /\ MonitorGoneAfterRelease /\ RoundBound

\* The invariant behind the refinement holds in every reachable state.
LEMMA RInvHolds == Spec => []RInv
  <1>1. Init => RoundBound
    BY MaxRoundsAssumption DEF Init, MonitorInit, RoundBound
  <1>2. Init => ScopeInv
    BY DEF Init, MonitorInit, ScopeInv
  <1>3. Init => MonitorGoneAfterRelease
    BY DEF Init, MonitorGoneAfterRelease
  <1>. QED
    BY <1>1, <1>2, <1>3, InitTyped, NextTyped, ScopeInvStep, MonitorGoneStep,
       RoundBoundStep, PTL DEF Spec, RInv

\* The initial state of the context is the abstract initial state.
LEMMA InitMaps == Init => Sup!SInit
  BY DEF Init, MonitorInit, Sup!SInit, ScopeState, MonitorState

\* Every step of the context is a step of Supervision or leaves the
\* abstract state alone.
LEMMA StepMaps == RInv /\ [Next]_vars => [Sup!SNext]_Sup!avars
  <1> SUFFICES ASSUME RInv, [Next]_vars PROVE [Sup!SNext]_Sup!avars
    OBVIOUS
  <1>. USE DEF RInv, Sup!SNext, Sup!avars, ScopeState, MonitorState
  <1>1. CASE EndScope
    BY <1>1 DEF EndScope, Sup!Close, monitorVars
  <1>2. CASE SendStopSignal \/ HandleJobrunnerSignal \/ JoinReturns
             \/ JoinTimesOut \/ CloseConnections
    BY <1>2 DEF SendStopSignal, HandleJobrunnerSignal, JoinReturns,
                JoinTimesOut, CloseConnections, monitorVars
  <1>3. CASE CheckAlive
    BY <1>3 DEF CheckAlive, Sup!Release, monitorVars
  <1>4. CASE Reap
    BY <1>4 DEF Reap, Sup!Release, monitorVars
  <1>5. CASE Killed
    \* terminate() is called only after the with block, so Stop is allowed
    <2>1. opc # "body"
      BY <1>5 DEF Killed, ScopeInv
    <2>. QED
      BY <1>5, <2>1 DEF Killed, Sup!Stop, ownerVars
  <1>6. CASE \/ JobRunnerFinished \/ Finished \/ UNCHANGED vars
             \/ TreeNext /\ UNCHANGED <<ownerVars, pipe, monitorVars>>
    BY <1>6 DEF JobRunnerFinished, Finished, vars, ownerVars, monitorVars
  <1>7. CASE MonitorNext /\ UNCHANGED ownerVars
    <2>1. opc' = opc
      BY <1>7 DEF ownerVars
    <2>2. CASE Initialize
      BY <2>1, <2>2 DEF Initialize, Sup!Start, Sup!Stop, ScopeInv
    <2>3. CASE CheckStop
      \* a stop token exists only once the with block has ended
      <3>1. CASE pipe > 0
        <4>1. opc # "body"
          BY <3>1 DEF ScopeInv, ContextTypeOK, ProfilerTypeOK
        <4>. QED
          BY <2>1, <2>3, <3>1, <4>1 DEF CheckStop, Sup!Stop
      <3>2. CASE ~(pipe > 0)
        BY <2>1, <2>3, <3>2 DEF CheckStop
      <3>. QED
        BY <3>1, <3>2
    <2>4. CASE SendMetrics
      <3>1. CASE sk < 4
        BY <2>1, <2>4, <3>1 DEF SendMetrics, AdvanceSend
      <3>2. CASE ~(sk < 4)
        BY <2>1, <2>4, <3>2
           DEF SendMetrics, AdvanceSend, Sup!Round, RoundBound, InRound
      <3>. QED
        BY <3>1, <3>2
    <2>5. CASE Snapshot \/ NextProcess \/ ReadPpid \/ CollectMemory
               \/ CollectCpu \/ CollectDisk \/ CollectNetwork \/ Wake
      BY <2>1, <2>5 DEF Snapshot, NextProcess, ReadPpid, CollectMemory,
                        CollectCpu, CollectDisk, CollectNetwork, Wake, ToSend
    <2>. QED
      BY <1>7, <2>2, <2>3, <2>4, <2>5 DEF MonitorNext, MonitorStep
  <1>. QED
    BY <1>1, <1>2, <1>3, <1>4, <1>5, <1>6, <1>7 DEF Next, OwnerStep

\* For every process tree and bound on rounds, profiling_context with its
\* monitor implements the safety part of Supervision: the monitor counts
\* only completed rounds, does not stop during the with block after a
\* round, and the release returns only once it is gone.
THEOREM Refinement == Spec => Sup!SafeSpec
  BY RInvHolds, InitMaps, StepMaps, PTL DEF Spec, Sup!SafeSpec

=============================================================================
