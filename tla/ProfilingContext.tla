-------------------------- MODULE ProfilingContext --------------------------
(***************************************************************************)
(* profiling_context of lithopserve/worker/profiler_context.py composed   *)
(* with the monitoring process it spawns (module Profiler), the monitored *)
(* process tree, and the job runner at the other end of jobrunner_conn.    *)
(*                                                                         *)
(* opc is the owner's program counter: "body" while the caller's with     *)
(* block runs, then the finally block: "stop" (_send_stop_signal),         *)
(* "jobrunner" (_handle_jobrunner_signal), "join", "alive_check" and      *)
(* "reap" (_finalize_process), "close" (_close_connections), "done".      *)
(* join(timeout=5) is untimed here: it may time out whenever the monitor  *)
(* is still running.  terminate() sends SIGTERM (sigterm); the OS then    *)
(* kills the monitor at a moment of its choosing (Killed).                 *)
(* The job runner may send "Finished" once (jrIn counts the messages not   *)
(* yet received); jrOut counts the "stop" tokens sent back to it.          *)
(***************************************************************************)
EXTENDS Profiler, Functions

OwnerPC == {"body", "stop", "jobrunner", "join", "alive_check", "reap",
            "close", "done"}

VARIABLES
    opc,       \* where the owner is in profiling_context
    sigterm,   \* terminate() has been called on the monitoring process
    jrSent,    \* the job runner has sent "Finished"
    jrIn,      \* "Finished" messages on jobrunner_conn not yet received
    jrOut      \* "stop" tokens sent to the job runner

ownerVars == <<opc, sigterm, jrSent, jrIn, jrOut>>
vars == <<opc, sigterm, jrSent, jrIn, jrOut, pipe, monitorVars,
          treeVars, metrics>>

ContextTypeOK ==
    /\ ProfilerTypeOK
    /\ opc \in OwnerPC
    /\ sigterm \in BOOLEAN
    /\ jrSent \in BOOLEAN
    /\ jrIn \in Nat
    /\ jrOut \in Nat

\* Pipe(), Profiler(), _start_monitoring_process: the monitoring process is
\* started and the caller's block begins.
Init ==
    /\ TreeInit
    /\ CollectorsInit
    /\ MonitorInit
    /\ pipe = 0
    /\ opc = "body"
    /\ sigterm = FALSE
    /\ jrSent = FALSE
    /\ jrIn = 0
    /\ jrOut = 0

-----------------------------------------------------------------------------
(* The owner.                                                              *)

\* The with block ends, normally or by an exception: the finally runs.
EndScope ==
    /\ opc = "body"
    /\ opc' = "stop"
    /\ UNCHANGED <<sigterm, jrSent, jrIn, jrOut, pipe, monitorVars,
                   treeVars, metrics>>

\* _send_stop_signal(parent_conn): parent_conn is writable, "stop" is sent.
SendStopSignal ==
    /\ opc = "stop"
    /\ pipe' = pipe + 1
    /\ opc' = "jobrunner"
    /\ UNCHANGED <<sigterm, jrSent, jrIn, jrOut, monitorVars, treeVars, metrics>>

\* _handle_jobrunner_signal: poll() once; a received "Finished" is answered
\* with "stop".
HandleJobrunnerSignal ==
    /\ opc = "jobrunner"
    /\ IF jrIn > 0
       THEN /\ jrIn' = jrIn - 1
            /\ jrOut' = jrOut + 1
       ELSE UNCHANGED <<jrIn, jrOut>>
    /\ opc' = "join"
    /\ UNCHANGED <<sigterm, jrSent, pipe, monitorVars, treeVars, metrics>>

\* monitoring_process.join(timeout=5) returns because the monitor exited ...
JoinReturns ==
    /\ opc = "join"
    /\ mpc = "exited"
    /\ opc' = "alive_check"
    /\ UNCHANGED <<sigterm, jrSent, jrIn, jrOut, pipe, monitorVars,
                   treeVars, metrics>>

\* ... or because the timeout expired while it still ran.
JoinTimesOut ==
    /\ opc = "join"
    /\ mpc # "exited"
    /\ opc' = "alive_check"
    /\ UNCHANGED <<sigterm, jrSent, jrIn, jrOut, pipe, monitorVars,
                   treeVars, metrics>>

\* (Variants of CheckAlive with plausible bugs: the result of join(timeout)
\* is not checked at all; or the owner waits without calling terminate().)
CheckAliveSkipped ==
    /\ opc = "alive_check"
    /\ opc' = "close"
    /\ UNCHANGED <<sigterm, jrSent, jrIn, jrOut, pipe, monitorVars,
                   treeVars, metrics>>

CheckAliveNoTerminate ==
    /\ opc = "alive_check"
    /\ opc' = IF mpc # "exited" THEN "reap" ELSE "close"
    /\ UNCHANGED <<sigterm, jrSent, jrIn, jrOut, pipe, monitorVars,
                   treeVars, metrics>>

\* if monitoring_process.is_alive(): terminate() and join() without timeout.
CheckAlive ==
    /\ opc = "alive_check"
    /\ IF mpc # "exited"
       THEN /\ sigterm' = TRUE
            /\ opc' = "reap"
       ELSE /\ opc' = "close"
            /\ UNCHANGED sigterm
    /\ UNCHANGED <<jrSent, jrIn, jrOut, pipe, monitorVars, treeVars, metrics>>

\* The join() after terminate() returns once the monitor is gone.
Reap ==
    /\ opc = "reap"
    /\ mpc = "exited"
    /\ opc' = "close"
    /\ UNCHANGED <<sigterm, jrSent, jrIn, jrOut, pipe, monitorVars,
                   treeVars, metrics>>

\* _close_connections closes both ends of the pipe.
CloseConnections ==
    /\ opc = "close"
    /\ opc' = "done"
    /\ UNCHANGED <<sigterm, jrSent, jrIn, jrOut, pipe, monitorVars,
                   treeVars, metrics>>

OwnerStep ==
    \/ SendStopSignal \/ HandleJobrunnerSignal \/ JoinReturns
    \/ JoinTimesOut \/ CheckAlive \/ Reap \/ CloseConnections

-----------------------------------------------------------------------------
(* The OS and the job runner.                                              *)

\* SIGTERM kills the monitoring process wherever it is.
Killed ==
    /\ sigterm
    /\ mpc # "exited"
    /\ mpc' = "exited"
    /\ UNCHANGED <<index, todo, cur, curParent, sk, exported, pipe,
                   ownerVars, treeVars, metrics>>

\* The job runner sends "Finished" on its end of jobrunner_conn.
JobRunnerFinished ==
    /\ ~jrSent
    /\ jrSent' = TRUE
    /\ jrIn' = jrIn + 1
    /\ UNCHANGED <<opc, sigterm, jrOut, pipe, monitorVars, treeVars, metrics>>

\* After the owner is done nothing of the context changes any more.
Finished ==
    /\ opc = "done"
    /\ UNCHANGED vars

Next ==
    \/ EndScope \/ OwnerStep
    \/ MonitorNext /\ UNCHANGED ownerVars
    \/ Killed
    \/ JobRunnerFinished
    \/ TreeNext /\ UNCHANGED <<ownerVars, pipe, monitorVars>>
    \/ Finished

\* The owner's finally block and the monitor's own steps cannot stop
\* forever, nor can the OS fail to deliver SIGTERM.  The with block may run
\* forever, a send may hang (requests.post has no timeout), and the job
\* runner and the monitored processes do as they please.
Fairness ==
    /\ WF_vars(OwnerStep)
    /\ WF_vars(MonitorStep /\ UNCHANGED ownerVars)
    /\ WF_vars(Killed)

Spec == Init /\ [][Next]_vars /\ Fairness

-----------------------------------------------------------------------------
(* Properties.                                                             *)

\* When the owner leaves _finalize_process (and from then on), the
\* monitoring process is no longer running: the bounded join, the is_alive
\* check and terminate() together never let a live monitor outlast the
\* context.
MonitorGoneAfterRelease ==
    opc \in {"close", "done"} => mpc = "exited"

\* No record is handed to the exporter twice: the gateway never receives a
\* duplicate, since each round sends metric_list[index] with a fresh index.
ExportedOnce == IsInjective(exported)

\* Once the with block has ended, the finally block completes, even when
\* the monitor is stuck in a send that never returns.
ReleaseCompletes == opc = "stop" ~> opc = "done"

-----------------------------------------------------------------------------
(* The context implements the abstract Supervision specification.          *)

\* The caller's scope: open while the with block runs, released once
\* _finalize_process has returned.
ScopeState ==
    IF opc = "body" THEN "open"
    ELSE IF opc \in {"close", "done"} THEN "released"
    ELSE "releasing"

\* The monitor: idle before _initialize_process, stopped once exited.
MonitorState ==
    IF mpc = "init" THEN "idle"
    ELSE IF mpc = "exited" THEN "stopped"
    ELSE "running"

Sup == INSTANCE Supervision WITH scope <- ScopeState, monitor <- MonitorState,
                                 rounds <- index

-----------------------------------------------------------------------------
(* What the spec says of the profiler, checked against the code.          *)

\* spec 4.3 (c) and 8: every record produced in a round is exported in that
\* round.  Checked when the round reaches the poll of the pipe.
RoundFullyExported ==
    mpc = "check" =>
        \A k \in Kinds : \A j \in DOMAIN metrics[k] :
            metrics[k][j].collection_id = index - 1
                => <<k, metrics[k][j]>> \in Range(exported)

\* spec 3 and 4.2: the network list holds one record per round, so its
\* i-th record is the one of round i - 1 (what _send_metrics relies on when
\* it sends network_metrics[index]).
NetworkIndexedByRound ==
    \A j \in DOMAIN metrics["network_metrics"] :
        metrics["network_metrics"][j].collection_id = j - 1

\* spec 4.3: when the monitored process has vanished, the profiler stops:
\* a round that finds Root gone ends the loop.
RootGoneEndsLoop ==
    [][mpc = "round" /\ mpc' # "round" /\ status[Root] # "alive"
         => mpc' = "exited"]_vars


\* spec 5: the records of a round are exported in the order memory, CPU,
\* disk, network.  _send_metrics walks METRIC_COLLECTIONS_FIELDS instead.
ExportOrderMemoryFirst ==
    \A i, j \in DOMAIN exported :
        /\ i < j
        /\ exported[i][1] = "cpu_metrics"
        /\ exported[j][1] = "memory_metrics"
        => exported[i][2].collection_id # exported[j][2].collection_id

\* spec 3: the parent_pid of a record is an ancestor under supervision,
\* that is a process of the monitored tree for every process but Root.
\* collect_all_metrics records proc.ppid(), the OS parent.
ParentUnderSupervision ==
    \A k \in ProcessKinds : \A j \in DOMAIN metrics[k] :
        metrics[k][j].pid # Root => metrics[k][j].parent_pid \in Procs

-----------------------------------------------------------------------------
(* The inductive invariant behind ExportedOnce.                            *)

\* The kinds _send_metrics has already sent in the current round.
SentKinds == {SendOrder[m] : m \in 1..(sk - 1)}

\* Collector k has a record of process p from the current round.
CollectedNow(k, p) ==
    \E j \in DOMAIN metrics[k] : /\ metrics[k][j].pid = p
                                 /\ metrics[k][j].collection_id = index

\* Every collector list holds each record once.
ListsInjective == \A k \in Kinds : IsInjective(metrics[k])

\* No record belongs to a round after the current one ...
IdsBounded ==
    \A k \in Kinds : \A j \in DOMAIN metrics[k] :
        metrics[k][j].collection_id <= index

\* ... nothing is collected or sent before _initialize_process ...
InitEmpty ==
    mpc = "init" => exported = << >> /\ \A k \in Kinds : metrics[k] = << >>

\* ... between two rounds every record belongs to an earlier round ...
RoundsClosed ==
    mpc \in {"round", "check", "sleep"} =>
        \A k \in Kinds : \A j \in DOMAIN metrics[k] :
            metrics[k][j].collection_id < index

\* ... the network record of a round is taken after the processes ...
NetworkPending ==
    mpc \in {"next", "ppid", "memory", "cpu", "disk", "net"} =>
        \A j \in DOMAIN metrics["network_metrics"] :
            metrics["network_metrics"][j].collection_id < index

\* ... and a process of the snapshot is collected once per kind: not before
\* it is visited, and while it is visited only by the collectors that
\* follow mpc.
VisitFresh ==
    /\ \A k \in ProcessKinds : \A p \in todo : ~CollectedNow(k, p)
    /\ mpc \in {"ppid", "memory", "cpu", "disk"} => cur \notin todo
    /\ mpc \in {"ppid", "memory"} =>
           \A k \in ProcessKinds : ~CollectedNow(k, cur)
    /\ mpc = "cpu" => /\ ~CollectedNow("cpu_metrics", cur)
                      /\ ~CollectedNow("disk_metrics", cur)
    /\ mpc = "disk" => ~CollectedNow("disk_metrics", cur)

\* Each exported record is the j-th of its list, for a round already
\* counted or for a kind this round has already sent.
ExportedFromLists ==
    \A i \in DOMAIN exported :
        \E j \in DOMAIN metrics[exported[i][1]] :
            /\ exported[i][2] = metrics[exported[i][1]][j]
            /\ \/ j <= index
               \/ /\ j = index + 1
                  /\ exported[i][1] \in SentKinds
                  /\ mpc \in {"send", "exited"}

\* ExportedOnce, strengthened to an inductive invariant.
ExportInv ==
    /\ ExportedOnce
    /\ ListsInjective
    /\ IdsBounded
    /\ InitEmpty
    /\ RoundsClosed
    /\ NetworkPending
    /\ VisitFresh
    /\ ExportedFromLists

=============================================================================
