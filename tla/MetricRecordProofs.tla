------------------------- MODULE MetricRecordProofs -------------------------
(***************************************************************************)
(* Proofs about the record arithmetic of MetricRecord, for every set of    *)
(* values, timestamps and ids.  The operands never change, so the type    *)
(* invariant is inductive as it stands; the work is in the lemmas about   *)
(* Add, Sub and Div, which say what MetricBase.__add__, __sub__ and        *)
(* __truediv__ return for any two records.                                 *)
(***************************************************************************)
EXTENDS MetricRecord, TLAPS

\* The additive fields of a NetworkMetric.
NetFields == FieldsOf("NetworkMetric")

\* A record of class NetworkMetric carries a value for each additive field
\* of its class, and nothing for the pid fields.
LEMMA NetworkShape ==
  ASSUME NEW a \in Records, a.cls = "NetworkMetric"
  PROVE  a.f \in [NetFields -> Val]
  <1>1. PICK c \in Classes : a \in RecordsOf(c)
    BY DEF Records
  <1>2. c = "NetworkMetric"
    <2>1. CASE c \in ProcessClasses
      <3>1. a \in [cls : {c}, timestamp : Times, collection_id : Ids,
                   pid : Ids, parent_pid : Ids, f : [FieldsOf(c) -> Val]]
        BY <1>1, <2>1 DEF RecordsOf
      <3>. QED
        BY <3>1
    <2>2. CASE c \notin ProcessClasses
      <3>1. a \in [cls : {c}, timestamp : Times, collection_id : Ids,
                   f : [FieldsOf(c) -> Val]]
        BY <1>1, <2>2 DEF RecordsOf
      <3>. QED
        BY <3>1
    <2>. QED
      BY <2>1, <2>2
  <1>3. "NetworkMetric" \notin ProcessClasses
    BY DEF ProcessClasses
  <1>4. a \in [cls : {"NetworkMetric"}, timestamp : Times, collection_id : Ids,
               f : [NetFields -> Val]]
    BY <1>1, <1>2, <1>3 DEF RecordsOf, NetFields
  <1>. QED
    BY <1>4

\* __add__ of two network records: the constructor accepts new_data, and
\* each additive field is the sum of the operands' fields.
LEMMA AddNetwork ==
  ASSUME NEW a, NEW b, a.cls = "NetworkMetric", b.cls = "NetworkMetric",
         a.f \in [NetFields -> Val], b.f \in [NetFields -> Val]
  PROVE  Add(a, b) =
           Ok([cls |-> "NetworkMetric",
               timestamp |-> MaxOf(a.timestamp, b.timestamp),
               collection_id |-> a.collection_id,
               f |-> [x \in NetFields |-> a.f[x] + b.f[x]]])
  <1>1. "NetworkMetric" \notin ProcessClasses
    BY DEF ProcessClasses
  <1>2. [x \in FieldsOf(a.cls) |-> a.f[x] + FieldOr0(b, x)]
          = [x \in NetFields |-> a.f[x] + b.f[x]]
    BY DEF FieldOr0, NetFields
  <1>. QED
    BY <1>1, <1>2 DEF Add, Construct

\* __sub__ of two network records: each additive field is the difference.
LEMMA SubNetwork ==
  ASSUME NEW a, NEW b, a.cls = "NetworkMetric", b.cls = "NetworkMetric",
         a.f \in [NetFields -> Val], b.f \in [NetFields -> Val]
  PROVE  Sub(a, b) =
           Ok([cls |-> "NetworkMetric",
               timestamp |-> MaxOf(a.timestamp, b.timestamp),
               collection_id |-> a.collection_id,
               f |-> [x \in NetFields |-> a.f[x] - b.f[x]]])
  <1>1. "NetworkMetric" \notin ProcessClasses
    BY DEF ProcessClasses
  <1>2. [x \in FieldsOf(a.cls) |-> a.f[x] - FieldOr0(b, x)]
          = [x \in NetFields |-> a.f[x] - b.f[x]]
    BY DEF FieldOr0, NetFields
  <1>. QED
    BY <1>1, <1>2 DEF Sub, Construct

\* The sum of two network records, taken back apart, gives the first
\* record's fields and collection id, and the sum is the same either way.
LEMMA RoundTripOfRecords ==
  ASSUME NEW a \in Records, NEW b \in Records,
         a.cls = "NetworkMetric", b.cls = "NetworkMetric"
  PROVE  /\ Add(a, b).ok /\ Add(b, a).ok
         /\ Add(a, b).rec.f = Add(b, a).rec.f
         /\ Sub(Add(a, b).rec, b).ok
         /\ Sub(Add(a, b).rec, b).rec.f = a.f
         /\ Sub(Add(a, b).rec, b).rec.collection_id = a.collection_id
  <1>1. a.f \in [NetFields -> Val] /\ b.f \in [NetFields -> Val]
    BY NetworkShape
  <1>2. Val \subseteq Int
    BY RecordAssumption
  <1>. DEFINE s == [x \in NetFields |-> a.f[x] + b.f[x]]
              ab == [cls |-> "NetworkMetric",
                     timestamp |-> MaxOf(a.timestamp, b.timestamp),
                     collection_id |-> a.collection_id, f |-> s]
  <1>3. Add(a, b) = Ok(ab)
    BY <1>1, AddNetwork
  <1>4. Add(b, a) = Ok([cls |-> "NetworkMetric",
                        timestamp |-> MaxOf(b.timestamp, a.timestamp),
                        collection_id |-> b.collection_id,
                        f |-> [x \in NetFields |-> b.f[x] + a.f[x]]])
    BY <1>1, AddNetwork
  <1>5. [x \in NetFields |-> b.f[x] + a.f[x]] = s
    <2>1. \A x \in NetFields : a.f[x] \in Int /\ b.f[x] \in Int
      BY <1>1, <1>2
    <2>2. \A x \in NetFields : b.f[x] + a.f[x] = a.f[x] + b.f[x]
      BY <2>1
    <2>. QED
      BY <2>2
  <1>7. Sub(ab, b) = Ok([cls |-> "NetworkMetric",
                         timestamp |-> MaxOf(ab.timestamp, b.timestamp),
                         collection_id |-> a.collection_id,
                         f |-> [x \in NetFields |-> s[x] - b.f[x]]])
    <2>1. ab.cls = "NetworkMetric" /\ ab.f = s /\ ab.collection_id = a.collection_id
      OBVIOUS
    <2>2. [x \in FieldsOf(ab.cls) |-> ab.f[x] - FieldOr0(b, x)]
            = [x \in NetFields |-> s[x] - b.f[x]]
      BY <1>1, <2>1 DEF FieldOr0, NetFields
    <2>3. "NetworkMetric" \notin ProcessClasses
      BY DEF ProcessClasses
    <2>. QED
      BY <2>1, <2>2, <2>3 DEF Sub, Construct
  <1>8. [x \in NetFields |-> s[x] - b.f[x]] = a.f
    <2>1. \A x \in NetFields : a.f[x] \in Int /\ b.f[x] \in Int
      BY <1>1, <1>2
    <2>2. \A x \in NetFields : s[x] - b.f[x] = a.f[x]
      BY <2>1
    <2>3. a.f = [x \in NetFields |-> a.f[x]]
      BY <1>1
    <2>. QED
      BY <2>2, <2>3
  <1>. QED
    BY <1>3, <1>4, <1>5, <1>7, <1>8 DEF Ok

\* The operands keep their type: every state is one pair of records and one
\* divisor.
LEMMA OperandsTypeInvariant == OperandsSpec => []OperandsTypeOK
  <1>1. OperandsInit => OperandsTypeOK
    BY DEF OperandsInit
  <1>2. OperandsTypeOK /\ [OperandsNext]_operands => OperandsTypeOK'
    BY DEF OperandsTypeOK, OperandsNext, operands
  <1>. QED
    BY <1>1, <1>2, PTL DEF OperandsSpec

\* spec 8, for every set of values, timestamps and ids: two NetworkMetric
\* records add commutatively, and (A + B) - B gives back A's additive
\* fields and A's collection_id, since each field is an integer sum taken
\* apart again.
THEOREM NetworkRoundTripHolds == OperandsSpec => []NetworkRoundTrip
  <1>1. OperandsTypeOK => NetworkRoundTrip
    BY RoundTripOfRecords DEF OperandsTypeOK, NetworkRoundTrip
  <1>. QED
    BY <1>1, OperandsTypeInvariant, PTL

=============================================================================
