----------------------------- MODULE RatesProofs -----------------------------
(***************************************************************************)
(* Proofs about the rate-bearing collectors: for every set of pids, with  *)
(* pid reuse and clock adjustment allowed or not, the rates of a subject  *)
(* that a pid has named throughout are never negative.                    *)
(***************************************************************************)
EXTENDS Rates, TLAPS

DiskRecord == [pid : Pids, gen : Nat, ts : Nat, mb : Nat, rate : Int \X Int]
NetRecord == [ts : Nat, mb : Nat, rate : Int \X Int]

\* _find_previous_metric returns None (0) exactly when pid has no record,
\* and otherwise the index of a record of pid.
LEMMA FindPreviousProps ==
  ASSUME NEW p \in Pids, LastRecordExists
  PROVE  \/ FindPreviousMetric(disk, p) = 0 /\ RecordsOf(p) = {}
         \/ FindPreviousMetric(disk, p) \in RecordsOf(p)
  <1>1. CASE RecordsOf(p) = {}
    BY <1>1 DEF FindPreviousMetric, SelectLastInSeq, RecordsOf
  <1>2. CASE RecordsOf(p) # {}
    <2>1. \E m \in RecordsOf(p) : \A j \in RecordsOf(p) : m >= j
      BY <1>2 DEF LastRecordExists
    <2>. QED
      BY <1>2, <2>1 DEF FindPreviousMetric, SelectLastInSeq, Max, RecordsOf
  <1>. QED
    BY <1>1, <1>2

\* _calculate_rates of a reading no smaller than the previous one is a
\* non-negative rate over a positive time.
LEMMA CalculateRatesNonNegative ==
  ASSUME NEW cur \in Int, NEW prev \in Int, NEW dt \in Int, prev <= cur
  PROVE  /\ NonNegative(CalculateRates(cur, prev, dt))
         /\ CalculateRates(cur, prev, dt) \in Int \X Int
  BY DEF CalculateRates, NonNegative

\* A sample taken from a reading no smaller than the previous record's (if
\* there is one) has a non-negative rate.
LEMMA SampleNonNegative ==
  ASSUME NEW metrics, NEW k \in Nat, NEW ts \in Nat, NEW mb \in Nat,
         k # 0 => /\ metrics[k].mb \in Nat /\ metrics[k].ts \in Nat
                  /\ metrics[k].mb <= mb
  PROVE  /\ NonNegative(Sample(metrics, k, ts, mb).rate)
         /\ Sample(metrics, k, ts, mb).rate \in Int \X Int
  <1>1. CASE k = 0
    BY <1>1 DEF Sample, NonNegative
  <1>2. CASE k # 0
    BY <1>2 DEF Sample, CalculateRates, NonNegative
  <1>. QED
    BY <1>1, <1>2

\* Before any sample, the lists are empty and the invariant holds.
LEMMA InitInv == RatesInit => RatesInv
  BY DEF RatesInit, RatesInv, RatesTypeOK, NetBelowCounter, DiskBelowCounter,
         LastRecordExists, RecordsOf, RatesWithinSubject

\* The collection of a disk record keeps the invariant.
LEMMA CollectDiskInv ==
  ASSUME RatesInv, NEW p \in Pids, CollectDisk(p)
  PROVE  RatesInv'
  <1>. DEFINE k == FindPreviousMetric(disk, p)
              s == Sample(disk, k, clock, counter[p])
              r == [pid |-> p, gen |-> gen[p], ts |-> s.ts, mb |-> s.mb,
                    rate |-> s.rate]
              L == Len(disk)
  <1>1. disk' = Append(disk, r)
    BY DEF CollectDisk
  <1>2. /\ disk \in Seq(DiskRecord)
        /\ clock \in Nat /\ gen \in [Pids -> Nat \ {0}]
        /\ counter \in [Pids -> Nat]
    BY DEF RatesInv, RatesTypeOK, DiskRecord
  <1>3. \A i \in 1..L : disk[i] \in DiskRecord
    BY <1>2
  <1>4. k = 0 \/ (k \in 1..L /\ disk[k].pid = p)
    BY FindPreviousProps DEF RatesInv, RecordsOf
  <1>5. k \in Nat /\ (k # 0 => disk[k] \in DiskRecord)
    BY <1>3, <1>4
  <1>6. UNCHANGED <<clock, alive, gen, counter, netCounter, network>>
    BY DEF CollectDisk
  <1>7. k # 0 => disk[k].mb \in Nat /\ disk[k].ts \in Nat
    BY <1>5 DEF DiskRecord
  <1>8. s.rate \in Int \X Int /\ s.ts = clock /\ s.mb = counter[p]
    <2>1. s.ts = clock /\ s.mb = counter[p]
      BY DEF Sample
    <2>2. CASE k = 0
      BY <2>1, <2>2 DEF Sample
    <2>3. CASE k # 0
      BY <1>2, <1>7, <2>1, <2>3 DEF Sample, CalculateRates
    <2>. QED
      BY <2>2, <2>3
  \* If every earlier record of p is of p's current incarnation, so is the
  \* previous one, whose reading is then no larger.
  <1>9. (\A j \in 1..L : disk[j].pid = p => disk[j].gen = gen[p])
          => NonNegative(s.rate)
    <2>1. SUFFICES ASSUME \A j \in 1..L : disk[j].pid = p => disk[j].gen = gen[p]
                   PROVE  NonNegative(s.rate)
      OBVIOUS
    <2>2. k # 0 => disk[k].gen = gen[p]
      BY <1>4, <2>1
    <2>3. k # 0 => disk[k].mb <= counter[p]
      BY <1>4, <2>2 DEF RatesInv, DiskBelowCounter
    <2>. QED
      BY <1>2, <1>5, <1>7, <2>3, SampleNonNegative
  <1>10. r \in DiskRecord
    BY <1>2, <1>8 DEF DiskRecord
  <1>11. /\ Len(disk') = L + 1
         /\ \A i \in 1..L : disk'[i] = disk[i]
         /\ disk'[L + 1] = r
    BY <1>1, <1>2, <1>10
  <1>12. RatesTypeOK'
    BY <1>1, <1>2, <1>6, <1>10 DEF RatesInv, RatesTypeOK, DiskRecord
  <1>13. NetBelowCounter'
    BY <1>6 DEF RatesInv, NetBelowCounter
  <1>14. DiskBelowCounter'
    <2> SUFFICES ASSUME NEW i \in 1..Len(disk')
                 PROVE  /\ disk'[i].gen <= gen'[disk'[i].pid]
                        /\ disk'[i].gen = gen'[disk'[i].pid]
                               => disk'[i].mb <= counter'[disk'[i].pid]
      BY DEF DiskBelowCounter
    <2>1. CASE i \in 1..L
      <3>1. disk'[i] = disk[i]
        BY <1>11, <2>1
      <3>. QED
        BY <1>6, <2>1, <3>1 DEF RatesInv, DiskBelowCounter
    <2>2. CASE i = L + 1
      <3>1. disk'[i] = r
        BY <1>11, <2>2
      <3>2. r.pid = p /\ r.gen = gen[p] /\ r.mb = counter[p]
        BY <1>8
      <3>. QED
        BY <1>2, <1>6, <3>1, <3>2
    <2>. QED
      BY <1>2, <1>11, <2>1, <2>2
  <1>15. LastRecordExists'
    <2> SUFFICES ASSUME NEW q \in Pids, RecordsOf(q)' # {}
                 PROVE  \E m \in RecordsOf(q)' : \A j \in RecordsOf(q)' : m >= j
      BY DEF LastRecordExists
    <2>1. CASE q = p
      <3>1. L + 1 \in RecordsOf(q)'
        BY <1>2, <1>11, <2>1 DEF RecordsOf
      <3>2. \A j \in RecordsOf(q)' : L + 1 >= j
        BY <1>2, <1>11 DEF RecordsOf
      <3>. QED
        BY <3>1, <3>2
    <2>2. CASE q # p
      <3>1. RecordsOf(q)' = RecordsOf(q)
        BY <1>2, <1>11, <2>2 DEF RecordsOf
      <3>. QED
        BY <3>1 DEF RatesInv, LastRecordExists
    <2>. QED
      BY <2>1, <2>2
  <1>16. RatesWithinSubject'
    <2>1. \A i \in 1..Len(network') : NonNegative(network'[i].rate)
      BY <1>6 DEF RatesInv, RatesWithinSubject
    <2>2. ASSUME NEW i \in 1..Len(disk'),
                 \A j \in 1..(i - 1) :
                     disk'[j].pid = disk'[i].pid => disk'[j].gen = disk'[i].gen
          PROVE  NonNegative(disk'[i].rate)
      <3>1. CASE i \in 1..L
        <4>1. disk'[i] = disk[i] /\ \A j \in 1..(i - 1) : disk'[j] = disk[j]
          BY <1>2, <1>11, <3>1
        <4>2. \A j \in 1..(i - 1) :
                  disk[j].pid = disk[i].pid => disk[j].gen = disk[i].gen
          BY <2>2, <4>1
        <4>. QED
          BY <3>1, <4>1, <4>2 DEF RatesInv, RatesWithinSubject
      <3>2. CASE i = L + 1
        <4>1. disk'[i] = r /\ \A j \in 1..L : disk'[j] = disk[j]
          BY <1>11, <3>2
        <4>2. r.pid = p /\ r.gen = gen[p] /\ r.rate = s.rate
          OBVIOUS
        <4>3. \A j \in 1..L : disk[j].pid = p => disk[j].gen = gen[p]
          BY <1>2, <2>2, <3>2, <4>1, <4>2
        <4>. QED
          BY <1>9, <4>1, <4>2, <4>3
      <3>. QED
        BY <1>2, <1>11, <3>1, <3>2
    <2>. QED
      BY <2>1, <2>2 DEF RatesWithinSubject
  <1>. QED
    BY <1>12, <1>13, <1>14, <1>15, <1>16 DEF RatesInv

\* The collection of a network record keeps the invariant: the previous
\* record is the last one, and no record reads more than the counter.
LEMMA CollectNetworkInv ==
  ASSUME RatesInv, CollectNetwork
  PROVE  RatesInv'
  <1>. DEFINE L == Len(network)
              s == Sample(network, L, clock, netCounter)
  <1>1. network' = Append(network, s)
        /\ UNCHANGED <<clock, alive, gen, counter, netCounter, disk>>
    BY DEF CollectNetwork
  <1>2. network \in Seq(NetRecord) /\ clock \in Nat /\ netCounter \in Nat
    BY DEF RatesInv, RatesTypeOK, NetRecord
  <1>3. L \in Nat /\ (L # 0 => network[L] \in NetRecord)
    <2>1. L \in Nat
      BY <1>2
    <2>2. L # 0 => L \in 1..Len(network)
      BY <2>1
    <2>3. \A i \in 1..Len(network) : network[i] \in NetRecord
      BY <1>2
    <2>. QED
      BY <2>1, <2>2, <2>3
  <1>4. L # 0 => /\ network[L].mb \in Nat /\ network[L].ts \in Nat
                 /\ network[L].mb <= netCounter
    BY <1>3 DEF RatesInv, NetBelowCounter, NetRecord
  <1>5. NonNegative(s.rate) /\ s.rate \in Int \X Int
    BY <1>2, <1>3, <1>4, SampleNonNegative
  <1>6. s \in NetRecord /\ s.mb = netCounter
    BY <1>2, <1>5 DEF Sample, NetRecord
  <1>7. /\ Len(network') = L + 1
        /\ \A i \in 1..L : network'[i] = network[i]
        /\ network'[L + 1] = s
    BY <1>1, <1>2, <1>6
  <1>8. RatesTypeOK'
    <2>1. network' \in Seq(NetRecord)
      BY <1>1, <1>2, <1>6
    <2>. QED
      BY <1>1, <2>1 DEF RatesInv, RatesTypeOK, NetRecord
  <1>9. NetBelowCounter'
    BY <1>1, <1>2, <1>6, <1>7 DEF RatesInv, NetBelowCounter
  <1>10. DiskBelowCounter' /\ LastRecordExists'
    BY <1>1 DEF RatesInv, DiskBelowCounter, LastRecordExists, RecordsOf
  <1>11. RatesWithinSubject'
    <2>1. \A i \in 1..Len(network') : NonNegative(network'[i].rate)
      <3> SUFFICES ASSUME NEW i \in 1..Len(network')
                   PROVE  NonNegative(network'[i].rate)
        OBVIOUS
      <3>1. CASE i \in 1..L
        <4>1. network'[i] = network[i]
          BY <1>7, <3>1
        <4>. QED
          BY <3>1, <4>1 DEF RatesInv, RatesWithinSubject
      <3>2. CASE i = L + 1
        BY <1>5, <1>7, <3>2
      <3>. QED
        BY <1>3, <1>7, <3>1, <3>2
    <2>. QED
      BY <1>1, <2>1 DEF RatesInv, RatesWithinSubject
  <1>. QED
    BY <1>8, <1>9, <1>10, <1>11 DEF RatesInv

\* The facts about the state that the steps of the OS rely on.
LEMMA InvTypes ==
  ASSUME RatesInv
  PROVE  /\ \A i \in 1..Len(disk) : /\ disk[i].pid \in Pids
                                    /\ disk[i].gen \in Nat
                                    /\ disk[i].mb \in Nat
         /\ \A i \in 1..Len(network) : network[i].mb \in Nat
         /\ gen \in [Pids -> Nat \ {0}] /\ counter \in [Pids -> Nat]
         /\ clock \in Nat /\ netCounter \in Nat
  <1>1. disk \in Seq(DiskRecord)
    BY DEF RatesInv, RatesTypeOK, DiskRecord
  <1>6. network \in Seq(NetRecord)
    BY DEF RatesInv, RatesTypeOK, NetRecord
  <1>2. \A i \in 1..Len(disk) : disk[i] \in DiskRecord
    BY <1>1
  <1>3. \A i \in 1..Len(network) : network[i] \in NetRecord
    BY <1>6
  <1>4. \A i \in 1..Len(disk) : /\ disk[i].pid \in Pids
                                /\ disk[i].gen \in Nat
                                /\ disk[i].mb \in Nat
    BY <1>2 DEF DiskRecord
  <1>5. \A i \in 1..Len(network) : network[i].mb \in Nat
    BY <1>3 DEF NetRecord
  <1>. QED
    BY <1>4, <1>5 DEF RatesInv, RatesTypeOK

\* A step that leaves the collectors' lists, the generations and the
\* counters alone keeps the invariant: moving the clock, or an exit.
LEMMA QuietStepInv ==
  ASSUME RatesInv, disk' = disk, network' = network, gen' = gen,
         counter' = counter, netCounter' = netCounter,
         clock' \in Nat, alive' \in [Pids -> BOOLEAN]
  PROVE  RatesInv'
  <1>1. RatesTypeOK'
    BY DEF RatesInv, RatesTypeOK
  <1>2. DiskBelowCounter'
    BY DEF RatesInv, DiskBelowCounter
  <1>3. LastRecordExists'
    BY DEF RatesInv, LastRecordExists, RecordsOf
  <1>4. RatesWithinSubject'
    BY DEF RatesInv, RatesWithinSubject
  <1>5. NetBelowCounter'
    BY DEF RatesInv, NetBelowCounter
  <1>. QED
    BY <1>1, <1>2, <1>3, <1>4, <1>5 DEF RatesInv

\* Network traffic only raises the network counter, which bounds every
\* network record from above.
LEMMA NetTrafficInv ==
  ASSUME RatesInv, NetTraffic
  PROVE  RatesInv'
  <1>1. /\ netCounter' = netCounter + 1
        /\ clock' = clock /\ alive' = alive /\ gen' = gen
        /\ counter' = counter /\ disk' = disk /\ network' = network
    BY DEF NetTraffic
  <1>2. RatesTypeOK'
    BY <1>1 DEF RatesInv, RatesTypeOK
  <1>3. DiskBelowCounter'
    BY <1>1 DEF RatesInv, DiskBelowCounter
  <1>4. LastRecordExists'
    BY <1>1 DEF RatesInv, LastRecordExists, RecordsOf
  <1>5. RatesWithinSubject'
    BY <1>1 DEF RatesInv, RatesWithinSubject
  <1>6. NetBelowCounter'
    BY <1>1, InvTypes DEF RatesInv, NetBelowCounter
  <1>. QED
    BY <1>2, <1>3, <1>4, <1>5, <1>6 DEF RatesInv

\* I/O of a live process only raises its counter.
LEMMA DoIoInv ==
  ASSUME RatesInv, NEW p \in Pids, DoIo(p)
  PROVE  RatesInv'
  <1>1. /\ counter' = [counter EXCEPT ![p] = @ + 1]
        /\ clock' = clock /\ alive' = alive /\ gen' = gen
        /\ netCounter' = netCounter /\ disk' = disk /\ network' = network
    BY DEF DoIo
  <1>2. counter \in [Pids -> Nat]
    BY DEF RatesInv, RatesTypeOK
  <1>3. counter' \in [Pids -> Nat]
        /\ \A q \in Pids : counter'[q] >= counter[q]
    BY <1>1, <1>2
  <1>4. RatesTypeOK'
    BY <1>1, <1>3 DEF RatesInv, RatesTypeOK
  <1>5. NetBelowCounter'
    BY <1>1 DEF RatesInv, NetBelowCounter
  <1>6. LastRecordExists'
    BY <1>1 DEF RatesInv, LastRecordExists, RecordsOf
  <1>7. RatesWithinSubject'
    BY <1>1 DEF RatesInv, RatesWithinSubject
  <1>8. DiskBelowCounter'
    <2> SUFFICES ASSUME NEW i \in 1..Len(disk)
                 PROVE  /\ disk[i].gen <= gen[disk[i].pid]
                        /\ disk[i].gen = gen[disk[i].pid]
                               => disk[i].mb <= counter'[disk[i].pid]
      BY <1>1 DEF DiskBelowCounter
    <2>1. /\ disk[i].gen <= gen[disk[i].pid]
          /\ disk[i].gen = gen[disk[i].pid] => disk[i].mb <= counter[disk[i].pid]
      BY DEF RatesInv, DiskBelowCounter
    <2>2. disk[i].pid \in Pids /\ disk[i].mb \in Nat
      BY InvTypes
    <2>. QED
      BY <1>2, <1>3, <2>1, <2>2
  <1>. QED
    BY <1>4, <1>5, <1>6, <1>7, <1>8 DEF RatesInv

\* A reused pid starts a new incarnation, which no record names yet, so the
\* counter restarting at 0 bounds no record.
LEMMA ReusePidInv ==
  ASSUME RatesInv, NEW p \in Pids, ReusePid(p)
  PROVE  RatesInv'
  <1>1. /\ gen' = [gen EXCEPT ![p] = @ + 1]
        /\ counter' = [counter EXCEPT ![p] = 0]
        /\ alive' = [alive EXCEPT ![p] = TRUE]
        /\ clock' = clock /\ netCounter' = netCounter
        /\ disk' = disk /\ network' = network
    BY DEF ReusePid
  <1>2. gen \in [Pids -> Nat \ {0}] /\ counter \in [Pids -> Nat]
        /\ alive \in [Pids -> BOOLEAN]
    BY DEF RatesInv, RatesTypeOK
  <1>3. /\ gen' \in [Pids -> Nat \ {0}] /\ counter' \in [Pids -> Nat]
        /\ alive' \in [Pids -> BOOLEAN]
        /\ gen'[p] = gen[p] + 1 /\ counter'[p] = 0
        /\ \A q \in Pids \ {p} : gen'[q] = gen[q] /\ counter'[q] = counter[q]
    BY <1>1, <1>2
  <1>4. RatesTypeOK'
    BY <1>1, <1>3 DEF RatesInv, RatesTypeOK
  <1>5. NetBelowCounter'
    BY <1>1 DEF RatesInv, NetBelowCounter
  <1>6. LastRecordExists'
    BY <1>1 DEF RatesInv, LastRecordExists, RecordsOf
  <1>7. RatesWithinSubject'
    BY <1>1 DEF RatesInv, RatesWithinSubject
  <1>8. DiskBelowCounter'
    <2> SUFFICES ASSUME NEW i \in 1..Len(disk)
                 PROVE  /\ disk[i].gen <= gen'[disk[i].pid]
                        /\ disk[i].gen = gen'[disk[i].pid]
                               => disk[i].mb <= counter'[disk[i].pid]
      BY <1>1 DEF DiskBelowCounter
    <2>1. /\ disk[i].gen <= gen[disk[i].pid]
          /\ disk[i].gen = gen[disk[i].pid] => disk[i].mb <= counter[disk[i].pid]
      BY DEF RatesInv, DiskBelowCounter
    <2>2. disk[i].pid \in Pids /\ disk[i].gen \in Nat /\ disk[i].mb \in Nat
      BY InvTypes
    <2>3. CASE disk[i].pid = p
      BY <1>2, <1>3, <2>1, <2>2, <2>3
    <2>4. CASE disk[i].pid # p
      BY <1>3, <2>1, <2>2, <2>4
    <2>. QED
      BY <2>3, <2>4
  <1>. QED
    BY <1>4, <1>5, <1>6, <1>7, <1>8 DEF RatesInv

\* Every step of the OS and of the collectors keeps RatesInv.
LEMMA StepInv == RatesInv /\ [RatesNext]_rateVars => RatesInv'
  <1> SUFFICES ASSUME RatesInv, [RatesNext]_rateVars PROVE RatesInv'
    OBVIOUS
  <1>1. clock \in Nat /\ alive \in [Pids -> BOOLEAN]
    BY DEF RatesInv, RatesTypeOK
  <1>2. CASE Tick
    <2>1. clock' = clock + 1 /\ alive' = alive /\ gen' = gen
          /\ counter' = counter /\ netCounter' = netCounter
          /\ disk' = disk /\ network' = network
      BY <1>2 DEF Tick
    <2>. QED
      BY <1>1, <2>1, QuietStepInv
  <1>3. CASE SetClockBack
    <2>1. clock > 0 /\ clock' = clock - 1 /\ alive' = alive /\ gen' = gen
          /\ counter' = counter /\ netCounter' = netCounter
          /\ disk' = disk /\ network' = network
      BY <1>3 DEF SetClockBack
    <2>. QED
      BY <1>1, <2>1, QuietStepInv
  <1>4. CASE NetTraffic
    BY <1>4, NetTrafficInv
  <1>5. CASE CollectNetwork
    BY <1>5, CollectNetworkInv
  <1>6. ASSUME NEW p \in Pids, Exit(p) PROVE RatesInv'
    <2>1. alive' = [alive EXCEPT ![p] = FALSE] /\ clock' = clock
          /\ gen' = gen /\ counter' = counter /\ netCounter' = netCounter
          /\ disk' = disk /\ network' = network
      BY <1>6 DEF Exit
    <2>. QED
      BY <1>1, <2>1, QuietStepInv
  <1>7. CASE UNCHANGED rateVars
    <2>1. alive' = alive /\ clock' = clock
          /\ gen' = gen /\ counter' = counter /\ netCounter' = netCounter
          /\ disk' = disk /\ network' = network
      BY <1>7 DEF rateVars
    <2>. QED
      BY <1>1, <2>1, QuietStepInv
  <1>8. ASSUME NEW p \in Pids, DoIo(p) \/ ReusePid(p) \/ CollectDisk(p)
        PROVE  RatesInv'
    BY <1>8, DoIoInv, ReusePidInv, CollectDiskInv
  <1>. QED
    BY <1>2, <1>3, <1>4, <1>5, <1>6, <1>7, <1>8 DEF RatesNext

\* For every set of pids, with or without pid reuse and clock adjustment,
\* RatesInv holds in every reachable state: no reading exceeds the current
\* counter of the process it was taken from, and every pid with disk
\* records has a last one, the record _find_previous_metric returns.
THEOREM RatesInvHolds == RatesSpec => []RatesInv
  BY InitInv, StepInv, PTL DEF RatesSpec

\* For every set of pids, with or without pid reuse and clock adjustment:
\* every network rate, and every disk rate of a pid that has named a single
\* process so far, is a non-negative number over a positive time
\* (_find_previous_metric and _calculate_rates against growing counters).
THEOREM RatesSafe == RatesSpec => []RatesWithinSubject
  BY RatesInvHolds, PTL DEF RatesInv

=============================================================================
