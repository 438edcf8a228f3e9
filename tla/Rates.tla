-------------------------------- MODULE Rates --------------------------------
(***************************************************************************)
(* The rate-bearing collectors of lithopserve/worker/metrics_collectors.py *)
(* (DiskMetricCollector and NetworkMetricCollector), against the OS they  *)
(* sample.                                                                 *)
(*                                                                         *)
(* The OS keeps a cumulative I/O counter per live process and one for the *)
(* network; both only grow.  A pid whose process has exited may be handed *)
(* to a new process (PidReuse), whose counter starts again from 0.  The   *)
(* wall clock read by time.time() advances, and may be set back           *)
(* (ClockAdjust).  A collector reads the counter and the clock, looks up  *)
(* its previous record and appends a record with the rate derived from    *)
(* the two.  A rate is kept exact as <<numerator, denominator>>; read and *)
(* write counters are computed alike, so one counter stands for both.    *)
(* gen, the incarnation of a pid, is not visible to the code: it is       *)
(* recorded beside each disk record only to say which process a record   *)
(* was taken from.                                                         *)
(***************************************************************************)
EXTENDS Integers, Sequences, SequencesExt

CONSTANTS
    Pids,           \* pids of the monitored processes
    PidReuse,       \* whether the OS may hand an exited pid to a new process
    ClockAdjust     \* whether the wall clock may be set back

VARIABLES
    clock,          \* time.time()
    alive,          \* alive[p]: a process with pid p exists
    gen,            \* gen[p]: how many processes have had pid p
    counter,        \* counter[p]: io_counters() of the process with pid p
    netCounter,     \* net_io_counters()
    disk,           \* DiskMetricCollector.metrics
    network         \* NetworkMetricCollector.metrics

rateVars == <<clock, alive, gen, counter, netCounter, disk, network>>

\* IMetricCollector._calculate_rates: (current - previous) / time_diff if
\* time_diff > 0, else 0.
\* (Variant with a plausible bug: the time_diff > 0 test is left out.)
CalculateRatesNoCheck(cur, prev, dt) == <<cur - prev, dt>>

CalculateRates(cur, prev, dt) ==
    IF dt > 0 THEN <<cur - prev, dt>> ELSE <<0, 1>>

\* BaseMetricCollector._find_previous_metric: the index of the last record
\* of pid in metrics, 0 for None.
\* (Variant with a plausible bug: the pid test is dropped and the latest
\* record of any process is taken.)
FindPreviousAnyPid(metrics, pid) == Len(metrics)

FindPreviousMetric(metrics, pid) ==
    SelectLastInSeq(metrics, LAMBDA m : m.pid = pid)

\* The timestamp, cumulative value and rate of a new record, given the
\* index of the previous one (0: none, and the rate is 0).
Sample(metrics, prev, ts, mb) ==
    [ts |-> ts, mb |-> mb,
     rate |-> IF prev = 0 THEN <<0, 1>>
              ELSE CalculateRates(mb, metrics[prev].mb, ts - metrics[prev].ts)]

RatesTypeOK ==
    /\ clock \in Nat
    /\ alive \in [Pids -> BOOLEAN]
    /\ gen \in [Pids -> Nat \ {0}]
    /\ counter \in [Pids -> Nat]
    /\ netCounter \in Nat
    /\ disk \in Seq([pid : Pids, gen : Nat, ts : Nat, mb : Nat,
                     rate : Int \X Int])
    /\ network \in Seq([ts : Nat, mb : Nat, rate : Int \X Int])

RatesInit ==
    /\ clock = 0
    /\ alive = [p \in Pids |-> TRUE]
    /\ gen = [p \in Pids |-> 1]
    /\ counter = [p \in Pids |-> 0]
    /\ netCounter = 0
    /\ disk = <<>>
    /\ network = <<>>

-----------------------------------------------------------------------------
(* The OS.                                                                 *)

Tick ==
    /\ clock' = clock + 1
    /\ UNCHANGED <<alive, gen, counter, netCounter, disk, network>>

SetClockBack ==
    /\ ClockAdjust
    /\ clock > 0
    /\ clock' = clock - 1
    /\ UNCHANGED <<alive, gen, counter, netCounter, disk, network>>

DoIo(p) ==
    /\ alive[p]
    /\ counter' = [counter EXCEPT ![p] = @ + 1]
    /\ UNCHANGED <<clock, alive, gen, netCounter, disk, network>>

NetTraffic ==
    /\ netCounter' = netCounter + 1
    /\ UNCHANGED <<clock, alive, gen, counter, disk, network>>

Exit(p) ==
    /\ alive[p]
    /\ alive' = [alive EXCEPT ![p] = FALSE]
    /\ UNCHANGED <<clock, gen, counter, netCounter, disk, network>>

\* A new process is given the exited pid p; its counters start at 0.
ReusePid(p) ==
    /\ PidReuse
    /\ ~alive[p]
    /\ alive' = [alive EXCEPT ![p] = TRUE]
    /\ gen' = [gen EXCEPT ![p] = @ + 1]
    /\ counter' = [counter EXCEPT ![p] = 0]
    /\ UNCHANGED <<clock, netCounter, disk, network>>

-----------------------------------------------------------------------------
(* The collectors.                                                        *)

\* DiskMetricCollector._collect(pid): psutil.Process(pid).io_counters(),
\* the previous record of pid, the rates, and the append.  For a pid with
\* no process the psutil call raises NoSuchProcess, handle_psutil_error
\* returns None and nothing changes.
CollectDisk(p) ==
    /\ alive[p]
    /\ LET s == Sample(disk, FindPreviousMetric(disk, p), clock, counter[p])
       IN  disk' = Append(disk, [pid |-> p, gen |-> gen[p], ts |-> s.ts,
                                 mb |-> s.mb, rate |-> s.rate])
    /\ UNCHANGED <<clock, alive, gen, counter, netCounter, network>>

\* NetworkMetricCollector._collect: the previous record is the last one.
CollectNetwork ==
    /\ network' = Append(network,
                         Sample(network, Len(network), clock, netCounter))
    /\ UNCHANGED <<clock, alive, gen, counter, netCounter, disk>>

RatesNext ==
    \/ Tick \/ SetClockBack \/ NetTraffic \/ CollectNetwork
    \/ \E p \in Pids : DoIo(p) \/ Exit(p) \/ ReusePid(p) \/ CollectDisk(p)

RatesSpec == RatesInit /\ [][RatesNext]_rateVars

-----------------------------------------------------------------------------
(* Properties.                                                             *)

\* A rate is a well-formed, non-negative number of MB/s.
NonNegative(rate) == rate[2] > 0 /\ rate[1] >= 0

\* spec 3 and 4: every rate is derived from two readings of a cumulative
\* counter, so as long as a pid has named one process, the rates of its
\* disk records are never negative and never divide by a non-positive
\* time, and neither are the network rates.  This rests on the pid test
\* and the reversed search of _find_previous_metric, on the time_diff > 0
\* test of _calculate_rates, and on the counters only growing.
RatesWithinSubject ==
    /\ \A i \in 1..Len(network) : NonNegative(network[i].rate)
    /\ \A i \in 1..Len(disk) :
           (\A j \in 1..(i - 1) :
                disk[j].pid = disk[i].pid => disk[j].gen = disk[i].gen)
               => NonNegative(disk[i].rate)

\* spec 3 and 4: rates are derived from the previous sample of the same
\* pid, and are MB/s of cumulative counters: no disk rate is negative.
RatesNonNegative ==
    \A i \in 1..Len(disk) : NonNegative(disk[i].rate)

-----------------------------------------------------------------------------
(* The inductive invariant behind RatesWithinSubject.                     *)

\* The indices of the disk records of pid p.
RecordsOf(p) == {i \in 1..Len(disk) : disk[i].pid = p}

\* No network record reads more than the network counter has reached.
NetBelowCounter == \A i \in 1..Len(network) : network[i].mb <= netCounter

\* A record names an incarnation of its pid that has existed, and a record
\* of the current incarnation reads no more than its counter has reached.
DiskBelowCounter ==
    \A i \in 1..Len(disk) :
        /\ disk[i].gen <= gen[disk[i].pid]
        /\ disk[i].gen = gen[disk[i].pid] => disk[i].mb <= counter[disk[i].pid]

\* Every pid with records has a last one, the one _find_previous_metric
\* returns.
LastRecordExists ==
    \A p \in Pids : RecordsOf(p) # {} =>
        \E m \in RecordsOf(p) : \A j \in RecordsOf(p) : m >= j

\* Each rate non-negative, because the counters only grow and a collector
\* compares a reading with an earlier one of the same subject.
RatesInv ==
    /\ RatesTypeOK
    /\ NetBelowCounter
    /\ DiskBelowCounter
    /\ LastRecordExists
    /\ RatesWithinSubject

=============================================================================
