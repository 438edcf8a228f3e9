# Formal models of the lithopserve worker profiler

This directory holds TLA+ models of the resource profiler in
`src/lithopserve/worker/`. It also holds the TLC configurations that
model-check those models and the TLAPS proofs about them. The profiler has
two concurrent actors:

- the **owner** (`profiling_context`), which runs inside the worker;
- a separate **monitor process** (`Profiler.start_profiling`). The monitor
  samples a process tree and pushes every sample to a Prometheus gateway.

## 1. The system

| Part (spec §2) | Source | What it does |
|---|---|---|
| MetricRecord model | `worker/metrics.py` | Dataclass records: `MetricBase` with `__add__`/`__sub__`/`__truediv__`, `ProcessMetric` (pid, parent_pid) and four concrete kinds. |
| Collectors | `worker/metrics_collectors.py` 9-175 | One collector per kind. Each has an append-only `metrics` list. `handle_psutil_error` turns `NoSuchProcess` into `None`. Disk and network rates come from the previous record. |
| MetricCollector aggregator | `worker/metrics_collectors.py` 178-210 | `collect_all_metrics(root, index)`: takes a snapshot of the root and its descendants. For each process it reads `ppid()` and runs memory, CPU and disk. Then it runs the network collector once. |
| Profiler loop | `worker/profiler.py` | `start_profiling`: initialise, then loop over a round. A round is collect, then send `metric_list[index]` of each kind, then `index += 1`, then poll the pipe for `"stop"`, then sleep `interval + jitter`. |
| Supervision context | `worker/profiler_context.py` | `profiling_context`: creates a Pipe and starts the monitor process, then yields. The `finally` block sends `"stop"`, polls the job-runner connection once, calls `join(timeout=5)`, then `terminate()` + `join()` if the monitor is still alive, then closes the connections. |
| Exporter | `util/metrics.py` | `PrometheusExporter.send_metric`: formats one line and calls `requests.post`, which has **no timeout**. Not modelled on its own (§6); its hanging POST is part of `Profiler`. |

How the parts interact:

- The owner and the monitor share only the pipe and the OS process handle.
- The monitored process tree changes under the collectors at any moment: processes fork, exit and are re-parented to init.
- The job runner may send `"Finished"` on its channel at any time.

Behaviours that make the code hard:

- Every psutil call races with process exit.
- `ppid()` sits outside the error handler (`metrics_collectors.py:196`).
- The send indexes the lists by round (`profiler.py:103`), but the lists grow by one record per process.
- The monitor sleeps longer (default 10 s + jitter) than the owner's `join(timeout=5)`.
- A send can hang forever.

What is not modelled, and why, is in §6.

## 2. Modules

`MetricCollectors` ← `Profiler` ← `ProfilingContext` ← `MCProfilingContext`
(TLC) and `ProfilingContextProofs` ← `SupervisionRefinementProofs`,
`ExportedOnceProofs` (TLAPS).
`ProfilingContext` instantiates the abstract `Supervision`. The pure parts
stand alone: `MetricRecord` (`MCMetricRecord`, `MetricRecordProofs`) and
`Rates` (`MCRates`, `RatesProofs`).

- **MetricCollectors**: the process tree and the collectors' lists.
  - The tree is the environment. `Spawn(p)` is a live parent forking `p`. `Exit(p)` is `p` exiting, which re-parents its children to `InitPid`.
  - `Descendants` is psutil's `children(recursive=True)`. It is the transitive closure of the live child relation, taken from the community module Relation.
  - `metrics[k]` is the list `MetricCollector.<k>`. A record keeps only `pid`, `parent_pid` and `collection_id`.
  - `CollectProcessMetric` appends a record only if the process is alive. This is what `handle_psutil_error` does.
- **Profiler**: `start_profiling`, split at every call that reads the process tree.
  - `mpc` is the monitor's program counter. Its values are init, round, next, ppid, memory, cpu, disk, net, send, check, sleep and exited.
  - Each value is one action. `Snapshot` is `_get_process_list`. `ReadPpid` is the unprotected `proc.ppid()`: a dead process aborts the rest of the round. `SendMetrics` is one iteration of `_send_metrics`. `CheckStop` is `_check_stop_signal`. `Wake` is the end of the sleep.
  - A vanished root during `_initialize_process` (outside the `try`) kills the monitor. During a round, `_collect_metrics` swallows it.
- **ProfilingContext**: the owner's `finally` block, one action per call, composed with the monitor, the OS and the job runner.
  - `join(timeout=5)` is untimed. `JoinTimesOut` may happen whenever the monitor is still running.
  - `terminate()` sets `sigterm`. `Killed` is the OS delivering it.

- **Supervision** (abstract, no code of its own): what the context promises, spec §4.3 and §4.5.
  - `scope` is open, releasing or released. `monitor` is idle, running or stopped. `rounds` counts completed rounds.
  - `Stop` in an open scope is allowed only before the first round, which is the case of a failed start. `Release` needs a stopped monitor.
  - The mapping, in `ProfilingContext`:
    - `ScopeState`: `body` is open; `close` and `done` are released; every step of the `finally` block in between is releasing.
    - `MonitorState`: `init` is idle, `exited` is stopped, anything else is running.
    - `index` is the number of completed rounds.
- **MetricRecord**: the dataclasses of `worker/metrics.py` and `MetricBase`'s arithmetic, as operators that return `Ok(record)` or `Err(exception)`.
  - The result is built by calling `self.__class__` with `new_data`. `new_data` holds only `timestamp`, `collection_id` and the additive fields, so for a `ProcessMetric` subclass the constructor raises `TypeError`. `Construct` says exactly that.
  - A quotient is kept exact as a pair.
  - The state is one input per state: two records and a divisor. `Init` enumerates them all and `Next` stutters.
- **Rates**: `DiskMetricCollector._collect` and `NetworkMetricCollector._collect` against the OS they sample.
  - The OS state is a cumulative counter per live pid and one network counter, which only grow, plus a wall clock `clock`.
  - Fault model:
    - `SetClockBack` sets the wall clock back (an NTP step), so `time_diff` can be zero or negative;
    - `Exit` and then `ReusePid` hand an exited pid to a new process, whose counter restarts at 0.
  - `CollectDisk` is the whole `_collect`: read the counter, call `_find_previous_metric(pid)`, run `_calculate_rates`, append. For a pid with no process it is the `None` of `handle_psutil_error`, which changes nothing.
  - `gen`, the incarnation behind a pid, is a ghost. It is recorded beside each record only so that a property can say which process a record came from.
  - Bounds come from a state constraint, `RateBound` in `MCRates`, because the clock, the counters and the lists grow without end in the code.

### Fairness

- `WF(OwnerStep)`: the `finally` block is straight-line code with bounded waits.
- `WF(MonitorStep)`: every step of the monitor except a send. The monitor loop's own code never blocks except in the sleep, which ends.
- `WF(Killed)`: SIGTERM is delivered.

No fairness is assumed for:

- `SendMetrics`, because `requests.post` has no timeout;
- `EndScope`, because the caller's block may run forever;
- the job runner and the process tree.

## 3. Runs (MCProfilingContext: tree r → a → b, MaxRounds = 2)

Why these bounds are enough:

- Three processes give a root, a child and a grandchild. With them, the snapshot is recursive, an exit re-parents a live process to init, and a round can have several records per kind.
- Two rounds are the least needed to see `index` misalign the lists.

| Run | Expect | What it shows |
|---|---|---|
| `context` | pass (≈800k states) | `ContextTypeOK`; `MonitorGoneAfterRelease` (after `_finalize_process` the monitor is gone); `ExportedOnce` (no record is sent twice) with `ExportInv`, its inductive strengthening (§4); `ReleaseCompletes` (the `finally` block always completes, even when a send hangs). |
| `round_export` | violation | `RoundFullyExported`: with `r` and `a` alive, round 0 collects a record of each for every process kind but hands only `r`'s to the exporter, because only `metric_list[index]` is sent. The trace ends at round 0's poll. In round 1, `index = 1` then picks `a`'s round-0 record, so exports fall behind the rounds. |
| `network_alignment` | violation | `NetworkIndexedByRound`: a child exits between the snapshot and its `ppid()`, so the network record of that round is never written and `network_metrics[index]` is out of range from then on. |
| `root_gone` | violation | `RootGoneEndsLoop`: a vanished root does not end the loop, against spec §4.3. |
| `export_order` | violation | `ExportOrderMemoryFirst`: `_send_metrics` follows `METRIC_COLLECTIONS_FIELDS` (cpu, memory, disk, network). So a round's CPU record is exported before its memory record, against the order of spec §5. |
| `orphan_parent` | violation | `ParentUnderSupervision`: `a`'s parent `r` exits after the snapshot, so `a` is re-parented to init and its records carry `parent_pid = 1`. Spec §3 says `parent_pid` is the ancestor under supervision. |

Other modules:

| Run | Module | Expect | What it shows |
|---|---|---|---|
| `record_arithmetic` | MCMetricRecord | pass | For every pair of records with field values in {0, 1} and timestamps in {1, 2}: `NetworkRoundTrip` (network `+` commutes, and `(A+B)-B` gives back A's fields and collection_id). |
| `record_roundtrip` | MCMetricRecord | violation | `AddSubRecovers`: for two `MemoryMetric`s, `A + B` already raises `TypeError`, because `pid` and `parent_pid` are missing from `new_data`. |
| `rates` | MCRates | pass | With pid reuse and clock steps allowed: `RatesWithinSubject`. Every network rate, and every disk rate of a pid that has so far named one process, is non-negative over a positive time. |
| `rates_pid_reuse` | MCRates | violation | `RatesNonNegative`: a reused pid's first disk record takes the old process's reading as its baseline, which gives a negative rate. |

Bounds of `rates`: two pids, clock ≤ 2, counters ≤ 1, two incarnations per pid,
two records per collector. This is enough for:

- a first sample;
- a second sample of the same process;
- a sample after the clock was set back;
- a sample of a new process on an old pid.

The run has about 986k distinct states.

Each property of `context` has a mutant in PROJECT.json, a plausible bug in
the mapped code that TLC then catches:

- `AdvanceSend` runs one kind too far (caught by `ContextTypeOK`);
- `ExportRecord` sends `metric_list[-1]` (caught by `ExportedOnce` and by `ExportInv`);
- the result of `join` is not checked (caught by `MonitorGoneAfterRelease`);
- the owner waits without `terminate()` (caught by `ReleaseCompletes`);

Mutants of the other runs:

- `__sub__` with its operands swapped (caught by `NetworkRoundTrip`);
- `_find_previous_metric` without its pid test, and `_calculate_rates` without `time_diff > 0` (both caught by `RatesWithinSubject`).

## 4. Proofs (all checked by tlapm)

### ProfilingContextProofs

Assumptions used: `ConstAssumption` (a finite tree whose root is in `Procs`,
and whose root parent and init are outside it) and `MaxRoundsAssumption`.

- `TypeCorrect`: `Spec => []ContextTypeOK`.
  - Proved from `InitTyped` and `NextTyped`, with one case per action.
  - It rests on lemmas `DescendantsInProcs`, `SendOrderKinds` and `CollectTyped`.
- `MonitorGone`: `Spec => []MonitorGoneAfterRelease`.
  - The invariant is inductive together with the type invariant.
  - The monitor's own steps start from a live monitor (`MonitorStepsFromLive`).
  - The owner enters `close` only through `JoinReturns→CheckAlive`, which saw `mpc = "exited"`, or through `Reap`, which waits for it.
### SupervisionRefinementProofs

`Refinement`: `Spec => Sup!SafeSpec`. For every tree and every bound, each
step of the context is a step of `Supervision` or a stutter under the
mapping.

- `InitMaps`: the initial state maps to `SInit`.
- `StepMaps`: `RInv /\ [Next]_vars => [Sup!SNext]_Sup!avars`, with one case per action.
  - `EndScope` is `Close`.
  - `CheckAlive` and `Reap` are `Release`.
  - `Initialize` is `Start`, or `Stop` when the root has vanished.
  - The last `SendMetrics` of a round is `Round`.
  - A `CheckStop` that reads a token, and `Killed`, are `Stop`.
  - Every other step is a stutter.
- `RInv` = `ContextTypeOK /\ ScopeInv /\ MonitorGoneAfterRelease /\ RoundBound`.
  - `ScopeInv` (in `ProfilingContextProofs`, with its step lemma `ScopeInvStep`) says that during the with block the pipe is empty, no SIGTERM was sent, and a monitor that has exited has done no round. It gives that `Stop` never happens in an open scope after a round: no token and no SIGTERM exist during the block.
  - `MonitorGoneAfterRelease` gives `Release`'s guard.
  - `RoundBound` (index ≤ MaxRounds, and < MaxRounds while a round is in progress) gives `Round`'s guard. It needs `MaxRounds ≥ 1`, which is what `MaxRoundsAssumption` now says.

### ExportedOnceProofs

`ExportInvHolds`: `Spec => []ExportInv`, and from it `ExportedOnceHolds`:
`Spec => []ExportedOnce`, for every tree and every bound on rounds. `ExportedOnce` alone is not inductive: whether the record that
`_send_metrics` picks (`metric_list[index]`) was sent before depends on what
the lists hold. The strengthening `ExportInv` (in `ProfilingContext`, and
checked by the `context` run) says why it never was:

- `ListsInjective`: every collector list holds each record once. A round appends at most one record per process and kind (`VisitFresh`: a process of `todo` has no record of the current round, and while it is visited only the collectors after `mpc` are still to come), and tags it with `index`. Records of earlier rounds have smaller ids (`IdsBounded`, `RoundsClosed`, `NetworkPending`).
- `ExportedFromLists`: every exported record is the `j`-th of its list, with `j ≤ index`, or `j = index + 1` for a kind already sent in this round (`SentKinds`).

So the record of kind `SendOrder[sk]` at position `index + 1` differs from
every record of that kind sent before. There is one lemma per action. The
owner, the job runner and the tree leave `exportVars` alone (`ExportFrame`).
`CollectStep` covers the three per-process collectors. `SendExport` is the
step that could repeat a record. `AppendKeepsInjective` and
`SendOrderDistinct` are the operator lemmas used.

### RatesProofs

`RatesInvHolds`: `RatesSpec => []RatesInv`, and from it `RatesSafe`:
`RatesSpec => []RatesWithinSubject`, for every set of pids, with and without
pid reuse and clock adjustment. The strengthening `RatesInv`
(in `Rates`; TLC found it invariant on the `rates` bounds before it was proved) adds:

- `NetBelowCounter` and `DiskBelowCounter`: no record reads more than the current counter of its subject. A disk record of an earlier incarnation names a smaller `gen`.
- `LastRecordExists`: every pid with records has a last one. `SelectLastInSeq` is a `CHOOSE` of a maximum. Proving that a finite set of indices has a maximum needs induction over data, which the provers cannot do. The existence is instead carried as an invariant: it is inductive because each append adds the new maximum.

`FindPreviousProps` says what `FindPreviousMetric` returns (0, or an index of
a record of the pid). `SampleNonNegative` says that a sample against a
reading no greater than the current one has a non-negative rate, whatever the
clock did. There is one lemma per action (`CollectDiskInv`,
`CollectNetworkInv`, `NetTrafficInv`, `DoIoInv`, `ReusePidInv`,
`QuietStepInv`). `ReusePidInv` is where the new incarnation matters: the
counter restarting at 0 bounds no record, because every existing record
names an older `gen`.

### MetricRecordProofs

The operands never change, so the type invariant is
inductive as it stands. The work is in the operator lemmas:

- `NetworkRoundTripHolds`, for every set of values (`RecordAssumption`: integer values and timestamps). `NetworkShape` says that a network record has exactly its class's additive fields. `AddNetwork` and `SubNetwork` say what `__add__` and `__sub__` return for two of them. `RoundTripOfRecords` puts them together.
What stays with TLC only:

- the liveness property `ReleaseCompletes`, because TLAPS cannot reason about fairness or ENABLED;
- anything about `Descendants` beyond its being a subset of `Procs`, because it is a recursive function (transitive closure) and TLAPS cannot do induction over data;
- the liveness half of the refinement (`SFairness` of `Supervision`). It is not checked as a property either: what it adds to the proved safety part is that the release completes, which `ReleaseCompletes` states directly.

## 5. Components

| Component | Status | Modules |
|---|---|---|
| MetricRecord model | modelled | MetricRecord, MetricCollectors |
| Collectors | modelled (measured values abstracted) | MetricCollectors, Rates |
| MetricCollector aggregator | modelled | MetricCollectors, Profiler |
| Profiler loop | modelled | Profiler |
| Supervision context | modelled | ProfilingContext, Supervision |
| Exporter | not modelled (§6) | — |

## 6. Not modelled

- `PrometheusExporter.send_metric` on its own. It is a stateless formatter: three guards, then a URL and a payload built from its arguments, and one POST. On its own it can only be checked against restatements of those guards and assignments. The behaviour that matters to the system, a POST without a timeout that never returns, is in `Profiler`: `SendMetrics` has no fairness.
- `pywren_ibm_cloud/...` (localhost config, betabs entry point, CLI cleanup). This is configuration and I/O glue outside the profiler.
- The values psutil measures (`cpu_percent`, `rss >> 20`, byte counts / 1024²). They are arithmetic on readings that no control decision depends on. `Rates` keeps only the counters' growth, which is what the rates depend on.
- Timing. The sleep `interval + U(0,1)` against `join(timeout=5)` is modelled untimed: the join may time out at any moment. A timed variant would show that forced termination is the normal path, but it would add no control path that the untimed model lacks.

## 7. Plan for later work

1. Rate derivation composed with the loop: `Rates`' collectors driven by the rounds of `Profiler`.
