---------------------------- MODULE MetricRecord ----------------------------
(***************************************************************************)
(* The metric records of lithopserve/worker/metrics.py and their          *)
(* arithmetic: MetricBase.__add__, __sub__ and __truediv__.                *)
(*                                                                         *)
(* A record is its class, the MetricBase fields timestamp and              *)
(* collection_id, the ProcessMetric fields pid and parent_pid (process    *)
(* classes only) and the additive fields METRIC_TYPES_FIELDS of its class. *)
(* An operation returns Ok(record) or Err(exception class).  Its result is *)
(* built by calling self.__class__ with new_data as keyword arguments, and *)
(* new_data holds timestamp, collection_id and the additive fields only:   *)
(* the dataclass constructor of a process class then raises TypeError for  *)
(* the missing pid and parent_pid.  A quotient is kept exact, as the pair  *)
(* <<numerator, divisor>>.                                                 *)
(***************************************************************************)
EXTENDS Integers

CONSTANTS
    Val,        \* values of the additive fields
    Times,      \* timestamps
    Ids         \* collection ids, pids and parent pids

ASSUME RecordAssumption == Val \subseteq Int /\ Times \subseteq Int

ProcessClasses == {"CPUMetric", "MemoryMetric", "DiskMetric"}
Classes == ProcessClasses \cup {"NetworkMetric"}

\* METRIC_TYPES_FIELDS of each concrete class.
FieldsOf(c) ==
    CASE c = "CPUMetric" -> {"cpu_usage", "user_time", "system_time",
                             "children_user_time", "children_system_time",
                             "iowait_time"}
      [] c = "MemoryMetric" -> {"memory_usage"}
      [] c = "DiskMetric" -> {"disk_read_mb", "disk_write_mb",
                              "disk_read_rate", "disk_write_rate"}
      [] c = "NetworkMetric" -> {"net_read_mb", "net_write_mb",
                                 "net_read_rate", "net_write_rate"}

\* The records a collector can build: a process record carries its pid and
\* parent_pid, a network record none.
RecordsOf(c) ==
    IF c \in ProcessClasses
    THEN [cls : {c}, timestamp : Times, collection_id : Ids, pid : Ids,
          parent_pid : Ids, f : [FieldsOf(c) -> Val]]
    ELSE [cls : {c}, timestamp : Times, collection_id : Ids,
          f : [FieldsOf(c) -> Val]]

Records == UNION {RecordsOf(c) : c \in Classes}

Ok(r) == [ok |-> TRUE, rec |-> r]
Err(e) == [ok |-> FALSE, err |-> e]

MaxOf(x, y) == IF x >= y THEN x ELSE y

\* self.__class__ called with new_data = {timestamp, collection_id, the
\* additive fields} as keyword arguments.
Construct(c, ts, cid, fields) ==
    IF c \in ProcessClasses
    THEN Err("TypeError")
    ELSE Ok([cls |-> c, timestamp |-> ts, collection_id |-> cid, f |-> fields])

\* getattr(r, name, 0)
FieldOr0(r, x) == IF x \in DOMAIN r.f THEN r.f[x] ELSE 0

\* __add__ and __sub__: other must be an instance of type(self).
Add(a, b) ==
    IF b.cls # a.cls
    THEN Err("TypeError")
    ELSE Construct(a.cls, MaxOf(a.timestamp, b.timestamp), a.collection_id,
                   [x \in FieldsOf(a.cls) |-> a.f[x] + FieldOr0(b, x)])

\* (Variant with a plausible bug: the operands are swapped.)
SubSwapped(a, b) ==
    IF b.cls # a.cls
    THEN Err("TypeError")
    ELSE Construct(a.cls, MaxOf(a.timestamp, b.timestamp), a.collection_id,
                   [x \in FieldsOf(a.cls) |-> FieldOr0(b, x) - a.f[x]])

Sub(a, b) ==
    IF b.cls # a.cls
    THEN Err("TypeError")
    ELSE Construct(a.cls, MaxOf(a.timestamp, b.timestamp), a.collection_id,
                   [x \in FieldsOf(a.cls) |-> a.f[x] - FieldOr0(b, x)])

\* __truediv__(number): a non-number gives NotImplemented, which Python
\* turns into TypeError; zero raises ValueError.
Div(a, n) ==
    IF n \notin Int
    THEN Err("TypeError")
    ELSE IF n = 0 THEN Err("ValueError")
    ELSE Construct(a.cls, a.timestamp, a.collection_id,
                   [x \in FieldsOf(a.cls) |-> <<a.f[x], n>>])

\* __lt__: records are ordered by timestamp only.
LessThan(a, b) == a.timestamp < b.timestamp

-----------------------------------------------------------------------------
(* The operands: every pair of records and every divisor, each one state. *)

CONSTANT Divisors    \* the arguments tried for __truediv__, numbers or not

VARIABLES this, other, number

operands == <<this, other, number>>

OperandsTypeOK == this \in Records /\ other \in Records /\ number \in Divisors

OperandsInit == OperandsTypeOK

\* Nothing changes: every state is one input.
OperandsNext == UNCHANGED operands

OperandsSpec == OperandsInit /\ [][OperandsNext]_operands

\* spec 8: for network records (the one class whose constructor accepts
\* new_data) addition commutes on the additive fields, and (A + B) - B
\* recovers A's additive fields with A's collection_id.
NetworkRoundTrip ==
    this.cls = "NetworkMetric" /\ other.cls = "NetworkMetric" =>
        /\ Add(this, other).ok /\ Add(other, this).ok
        /\ Add(this, other).rec.f = Add(other, this).rec.f
        /\ Sub(Add(this, other).rec, other).ok
        /\ Sub(Add(this, other).rec, other).rec.f = this.f
        /\ Sub(Add(this, other).rec, other).rec.collection_id
               = this.collection_id

\* spec 8: for all same-kind records A, B, (A + B) - B recovers A's
\* additive fields.
AddSubRecovers ==
    this.cls = other.cls =>
        /\ Add(this, other).ok
        /\ Sub(Add(this, other).rec, other).ok
        /\ Sub(Add(this, other).rec, other).rec.f = this.f

=============================================================================
