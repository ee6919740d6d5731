--------------------------- MODULE KeyCodecProofs ---------------------------
(***************************************************************************)
(* Lemmas about the encoders of KeyCodec for every radix and every width:  *)
(* to_be_bytes, LEB128, the token-hash truncation and the text-tag marker  *)
(* produce bytes; every well-formed key serializes to its subspace tag     *)
(* followed by bytes; and the subspace tag of every class is one of the    *)
(* SUBSPACE_* tags.  KeyStoreProofs builds its invariants on these.        *)
(***************************************************************************)
EXTENDS KeyCodec, SequenceTheorems, FiniteSetTheorems, TLAPS

\* Reduction modulo the radix yields a byte.
LEMMA ModByte ==
    ASSUME NEW x \in Int
    PROVE  x % Radix \in Byte
BY CodecAssumption DEF Byte

\* to_be_bytes of an integer at a width up to u64 is a byte string.
LEMMA BEType ==
    ASSUME NEW v \in Int, NEW w \in 0..W64
    PROVE  BE(v, w) \in Seq(Byte)
<1>1. \A i \in 1..w : Radix^(w - i) \in Nat \ {0}
  BY CodecAssumption, PowerAssumption
<1>2. \A i \in 1..w : (v \div Radix^(w - i)) % Radix \in Byte
  BY <1>1, CodecAssumption DEF Byte
<1>. QED BY <1>2 DEF BE

\* A LEB128 encoding has between 1 and 2 * W64 + 1 bytes.
LEMMA LebLenBound ==
    ASSUME NEW v \in Int
    PROVE  LebLen(v) \in 1..(2 * W64 + 1)
<1>. DEFINE S == {m \in 1..(2 * W64) : BmMarker^m <= v}
<1>1. IsFiniteSet(1..(2 * W64)) /\ Cardinality(1..(2 * W64)) = 2 * W64
  BY FS_Interval, CodecAssumption
<1>2. IsFiniteSet(S) /\ Cardinality(S) <= 2 * W64
  BY <1>1, FS_Subset
<1>3. Cardinality(S) \in Nat
  BY <1>2, FS_CardinalityType
<1>4. LebLen(v) = Cardinality(S) + 1
  BY DEF LebLen
<1>. QED BY <1>2, <1>3, <1>4, CodecAssumption

\* write_leb128 of an integer writes bytes: every group plus its
\* continuation bit stays below the radix.
LEMMA LebType ==
    ASSUME NEW v \in Int
    PROVE  Leb128(v) \in Seq(Byte)
<1>. DEFINE n == LebLen(v)
<1>1. n \in 1..(2 * W64 + 1)
  BY LebLenBound
<1>2. BmMarker \in Nat \ {0} /\ 2 * BmMarker = Radix
  BY CodecAssumption DEF BmMarker
<1>3. \A i \in 1..n : BmMarker^(i - 1) \in Nat \ {0}
  <2>. SUFFICES ASSUME NEW i \in 1..n PROVE BmMarker^(i - 1) \in Nat \ {0}
    OBVIOUS
  <2>1. i - 1 \in 0..(2 * W64)
    BY <1>1, CodecAssumption
  <2>. QED BY <2>1, PowerAssumption DEF BmMarker
<1>4. \A i \in 1..n : ((v \div BmMarker^(i - 1)) % BmMarker)
                        + (IF i < n THEN BmMarker ELSE 0) \in Byte
  BY <1>2, <1>3 DEF Byte
<1>. QED BY <1>1, <1>4 DEF Leb128

\* A fixed-size byte array ([u8; n]) is a byte string of length n.
LEMMA FixedSeq ==
    ASSUME NEW n \in Nat, NEW h \in [1..n -> Byte]
    PROVE  h \in Seq(Byte) /\ Len(h) = n
<1>1. h \in Seq(Byte)
  BY SeqDef
<1>. QED BY <1>1, LenProperties

\* The truncated token hash of FtsIndex and BitmapClass::Text is bytes.
LEMMA TokenHashType ==
    ASSUME NEW h \in TokenHashBytes, NEW len \in Byte
    PROVE  TokenHash(h, len) \in Seq(Byte)
<1>1. h \in Seq(Byte) /\ Len(h) = TruncLen
  BY FixedSeq, CodecAssumption DEF TokenHashBytes
<1>. DEFINE n == MinOf(len, TruncLen)
<1>2. n \in 0..TruncLen
  BY CodecAssumption DEF MinOf, Byte
<1>3. SubSeq(h, 1, n) \in Seq(Byte)
  BY <1>1, <1>2, SubSeqProperties
<1>4. <<len>> \in Seq(Byte)
  OBVIOUS
<1>. QED BY <1>3, <1>4, <1>1, ConcatProperties, EmptySeq DEF TokenHash

\* field | BM_MARKER is still a byte.
LEMMA MarkFieldType ==
    ASSUME NEW f \in Byte
    PROVE  MarkField(f) \in Byte
BY CodecAssumption DEF MarkField, BmMarker, Byte

\* The serialized fields of a ReportEvent are bytes.
LEMMA ReportBodyType ==
    ASSUME NEW e \in ReportEvent
    PROVE  ReportBody(e) \in Seq(Byte)
<1>0. /\ e.due \in Int /\ e.policy_hash \in Int /\ e.seq_id \in Int
      /\ e.domain \in Seq(Byte) /\ W64 \in 0..W64
  BY CodecAssumption DEF ReportEvent, U64, Bytes
<1>1. /\ BE(e.due, W64) \in Seq(Byte)
      /\ BE(e.policy_hash, W64) \in Seq(Byte)
      /\ BE(e.seq_id, W64) \in Seq(Byte)
  BY <1>0, BEType
<1>. QED BY <1>1, ConcatProperties DEF ReportBody, ReportEvent, Bytes


\* The fields of a key of a given shape have their types, and the
\* serialized account, collection and document are bytes.
LEMMA KeyFields ==
    ASSUME NEW k, NEW C, NEW F, KeyOf(k, C, F)
    PROVE  /\ k.class \in C
           /\ BE(k.account, W32) \in Seq(Byte)
           /\ <<k.collection>> \in Seq(Byte)
           /\ BE(k.document, W32) \in Seq(Byte)
           /\ \A f \in DOMAIN F : k[f] \in F[f]
<1>1. k.account \in Int /\ k.collection \in Byte /\ k.document \in Int
  BY DEF KeyOf, U32
<1>2. W32 \in 0..W64
  BY CodecAssumption
<1>. QED BY <1>1, <1>2, BEType DEF KeyOf

\* The powers the encoders divide by.
LEMMA PowersPositive ==
    /\ Radix^W16 \in Nat \ {0}
    /\ Radix^W32 \in Nat \ {0}
    /\ Radix^W64 \in Nat \ {0}
<1>1. W16 \in 0..(2 * W64) /\ W32 \in 0..(2 * W64) /\ W64 \in 0..(2 * W64)
  BY CodecAssumption
<1>. QED BY <1>1, PowerAssumption

\* The integer field types are sets of integers.
LEMMA IntRanges ==
    U16 \subseteq Int /\ U32 \subseteq Int /\ U64 \subseteq Int
BY PowersPositive DEF U16, U32, U64, MaxU32, MaxU64

\* The discriminator bytes and sentinels the encoders write.
LEMMA Literals ==
    /\ 0..7 \subseteq Byte /\ MaxU8 \in Byte
    /\ BE(MaxU32, W32) \in Seq(Byte) /\ BE(MaxU64, W64) \in Seq(Byte)
<1>1. MaxU32 \in Int /\ MaxU64 \in Int
  BY PowersPositive DEF MaxU32, MaxU64
<1>2. W32 \in 0..W64 /\ W64 \in 0..W64
  BY CodecAssumption
<1>. QED BY <1>1, <1>2, BEType, CodecAssumption DEF Byte, MaxU8

\* BE at the three widths.
LEMMA BEWidths ==
    ASSUME NEW v \in Int
    PROVE  /\ BE(v, W16) \in Seq(Byte)
           /\ BE(v, W32) \in Seq(Byte)
           /\ BE(v, W64) \in Seq(Byte)
<1>1. W16 \in 0..W64 /\ W32 \in 0..W64 /\ W64 \in 0..W64
  BY CodecAssumption
<1>. QED BY <1>1, BEType

\* Every well-formed key serializes to a byte string.
LEMMA BodyType ==
    ASSUME NEW k, IsKey(k)
    PROVE  Body(k) \in Seq(Byte)
<1>1. CASE KeyOf(k, {"Property"}, [field |-> Byte])
  <2>1. /\ k.class \in {"Property"}
        /\ k.field \in Byte
        /\ BE(k.account, W32) \in Seq(Byte) /\ <<k.collection>> \in Seq(Byte)
        /\ BE(k.document, W32) \in Seq(Byte)
    BY <1>1, KeyFields
  <2>3. /\ <<k.field>> \in Seq(Byte)
    <3>1. <<k.field>> \in Seq(Byte)
      BY <2>1
    <3>. QED BY <3>1
  <2>4. CASE k.class = "Property"
    <3>1. Body(k) = ValueBody(k)
      BY <2>4 DEF Body, BitmapClasses
    <3>. QED BY <2>4, <2>1, <2>3, <3>1, Literals
      DEF ValueBody, TaskQueueClasses, BlobClasses, DirectoryClasses,
           QueueClasses, ReportInClasses, TelemetryClasses
  <2>. QED BY <2>1, <2>4
<1>2. CASE KeyOf(k, {"FtsIndex"}, [hash |-> TokenHashBytes, len |-> Byte])
  <2>1. /\ k.class \in {"FtsIndex"}
        /\ k.hash \in TokenHashBytes
        /\ k.len \in Byte
        /\ BE(k.account, W32) \in Seq(Byte) /\ <<k.collection>> \in Seq(Byte)
        /\ BE(k.document, W32) \in Seq(Byte)
    BY <1>2, KeyFields
  <2>3. /\ TokenHash(k.hash, k.len) \in Seq(Byte)
        /\ <<k.len>> \in Seq(Byte)
    <3>1. TokenHash(k.hash, k.len) \in Seq(Byte)
      BY <2>1, TokenHashType
    <3>2. <<k.len>> \in Seq(Byte)
      BY <2>1
    <3>. QED BY <3>1, <3>2
  <2>4. CASE k.class = "FtsIndex"
    <3>1. Body(k) = ValueBody(k)
      BY <2>4 DEF Body, BitmapClasses
    <3>. QED BY <2>4, <2>1, <2>3, <3>1, Literals
      DEF ValueBody, TaskQueueClasses, BlobClasses, DirectoryClasses,
           QueueClasses, ReportInClasses, TelemetryClasses
  <2>. QED BY <2>1, <2>4
<1>3. CASE KeyOf(k, {"BitmapText"}, [hash |-> TokenHashBytes, len |-> Byte, field |-> Byte])
  <2>1. /\ k.class \in {"BitmapText"}
        /\ k.hash \in TokenHashBytes
        /\ k.len \in Byte
        /\ k.field \in Byte
        /\ BE(k.account, W32) \in Seq(Byte) /\ <<k.collection>> \in Seq(Byte)
        /\ BE(k.document, W32) \in Seq(Byte)
    BY <1>3, KeyFields
  <2>3. /\ TokenHash(k.hash, k.len) \in Seq(Byte)
        /\ <<k.len>> \in Seq(Byte)
        /\ <<k.field>> \in Seq(Byte)
    <3>1. TokenHash(k.hash, k.len) \in Seq(Byte)
      BY <2>1, TokenHashType
    <3>2. <<k.len>> \in Seq(Byte)
      BY <2>1
    <3>3. <<k.field>> \in Seq(Byte)
      BY <2>1
    <3>. QED BY <3>1, <3>2, <3>3
  <2>4. CASE k.class = "BitmapText"
    <3>1. Body(k) = BitmapBody(k)
      BY <2>4 DEF Body, BitmapClasses
    <3>. QED BY <2>4, <2>1, <2>3, <3>1, Literals
      DEF BitmapBody
  <2>. QED BY <2>1, <2>4
<1>4. CASE KeyOf(k, {"Acl"}, [grantee |-> U32])
  <2>1. /\ k.class \in {"Acl"}
        /\ k.grantee \in U32
        /\ BE(k.account, W32) \in Seq(Byte) /\ <<k.collection>> \in Seq(Byte)
        /\ BE(k.document, W32) \in Seq(Byte)
    BY <1>4, KeyFields
  <2>2. k.grantee \in Int
    BY <2>1, IntRanges, Zenon
  <2>3. /\ BE(k.grantee, W32) \in Seq(Byte)
    <3>1. BE(k.grantee, W32) \in Seq(Byte)
      BY <2>2, BEWidths
    <3>. QED BY <3>1
  <2>4. CASE k.class = "Acl"
    <3>1. Body(k) = ValueBody(k)
      BY <2>4 DEF Body, BitmapClasses
    <3>. QED BY <2>4, <2>1, <2>3, <3>1, Literals
      DEF ValueBody, TaskQueueClasses, BlobClasses, DirectoryClasses,
           QueueClasses, ReportInClasses, TelemetryClasses
  <2>. QED BY <2>1, <2>4
<1>5. CASE KeyOf(k, {"IndexEmail"}, [due |-> U64, hash |-> BlobHash])
  <2>1. /\ k.class \in {"IndexEmail"}
        /\ k.due \in U64
        /\ k.hash \in BlobHash
        /\ BE(k.account, W32) \in Seq(Byte) /\ <<k.collection>> \in Seq(Byte)
        /\ BE(k.document, W32) \in Seq(Byte)
    BY <1>5, KeyFields
  <2>2. k.due \in Int
    BY <2>1, IntRanges, Zenon
  <2>3. /\ BE(k.due, W64) \in Seq(Byte)
        /\ k.hash \in Seq(Byte)
    <3>1. BE(k.due, W64) \in Seq(Byte)
      BY <2>2, BEWidths
    <3>2. k.hash \in Seq(Byte)
      BY <2>1, FixedSeq, CodecAssumption DEF BlobHash
    <3>. QED BY <3>1, <3>2
  <2>4. CASE k.class = "IndexEmail"
    <3>1. Body(k) = TaskQueueBody(k, BE(k.account, W32), BE(k.document, W32))
      BY <2>4 DEF Body, BitmapClasses, ValueBody, TaskQueueClasses, BlobClasses, DirectoryClasses,
           QueueClasses, ReportInClasses, TelemetryClasses
    <3>. QED BY <2>4, <2>1, <2>3, <3>1, Literals
      DEF TaskQueueBody
  <2>. QED BY <2>1, <2>4
<1>6. CASE KeyOf(k, {"BayesTrain"}, [due |-> U64, hash |-> BlobHash, learn_spam |-> BOOLEAN])
  <2>1. /\ k.class \in {"BayesTrain"}
        /\ k.due \in U64
        /\ k.hash \in BlobHash
        /\ k.learn_spam \in BOOLEAN
        /\ BE(k.account, W32) \in Seq(Byte) /\ <<k.collection>> \in Seq(Byte)
        /\ BE(k.document, W32) \in Seq(Byte)
    BY <1>6, KeyFields
  <2>2. k.due \in Int
    BY <2>1, IntRanges, Zenon
  <2>3. /\ BE(k.due, W64) \in Seq(Byte)
        /\ k.hash \in Seq(Byte)
    <3>1. BE(k.due, W64) \in Seq(Byte)
      BY <2>2, BEWidths
    <3>2. k.hash \in Seq(Byte)
      BY <2>1, FixedSeq, CodecAssumption DEF BlobHash
    <3>. QED BY <3>1, <3>2
  <2>4. CASE k.class = "BayesTrain"
    <3>1. Body(k) = TaskQueueBody(k, BE(k.account, W32), BE(k.document, W32))
      BY <2>4 DEF Body, BitmapClasses, ValueBody, TaskQueueClasses, BlobClasses, DirectoryClasses,
           QueueClasses, ReportInClasses, TelemetryClasses
    <3>. QED BY <2>4, <2>1, <2>3, <3>1, Literals
      DEF TaskQueueBody
  <2>. QED BY <2>1, <2>4
<1>7. CASE KeyOf(k, {"SendAlarm"}, [due |-> U64, event_id |-> U16, alarm_id |-> U16])
  <2>1. /\ k.class \in {"SendAlarm"}
        /\ k.due \in U64
        /\ k.event_id \in U16
        /\ k.alarm_id \in U16
        /\ BE(k.account, W32) \in Seq(Byte) /\ <<k.collection>> \in Seq(Byte)
        /\ BE(k.document, W32) \in Seq(Byte)
    BY <1>7, KeyFields
  <2>2. k.due \in Int /\ k.event_id \in Int /\ k.alarm_id \in Int
    BY <2>1, IntRanges, Zenon
  <2>3. /\ BE(k.due, W64) \in Seq(Byte)
        /\ BE(k.event_id, W16) \in Seq(Byte)
        /\ BE(k.alarm_id, W16) \in Seq(Byte)
    <3>1. BE(k.due, W64) \in Seq(Byte)
      BY <2>2, BEWidths
    <3>2. BE(k.event_id, W16) \in Seq(Byte)
      BY <2>2, BEWidths
    <3>3. BE(k.alarm_id, W16) \in Seq(Byte)
      BY <2>2, BEWidths
    <3>. QED BY <3>1, <3>2, <3>3
  <2>4. CASE k.class = "SendAlarm"
    <3>1. Body(k) = TaskQueueBody(k, BE(k.account, W32), BE(k.document, W32))
      BY <2>4 DEF Body, BitmapClasses, ValueBody, TaskQueueClasses, BlobClasses, DirectoryClasses,
           QueueClasses, ReportInClasses, TelemetryClasses
    <3>. QED BY <2>4, <2>1, <2>3, <3>1, Literals
      DEF TaskQueueBody
  <2>. QED BY <2>1, <2>4
<1>8. CASE KeyOf(k, {"SendImip"}, [due |-> U64, is_payload |-> BOOLEAN])
  <2>1. /\ k.class \in {"SendImip"}
        /\ k.due \in U64
        /\ k.is_payload \in BOOLEAN
        /\ BE(k.account, W32) \in Seq(Byte) /\ <<k.collection>> \in Seq(Byte)
        /\ BE(k.document, W32) \in Seq(Byte)
    BY <1>8, KeyFields
  <2>2. k.due \in Int
    BY <2>1, IntRanges, Zenon
  <2>3. /\ BE(k.due, W64) \in Seq(Byte)
    <3>1. BE(k.due, W64) \in Seq(Byte)
      BY <2>2, BEWidths
    <3>. QED BY <3>1
  <2>4. CASE k.class = "SendImip"
    <3>1. Body(k) = TaskQueueBody(k, BE(k.account, W32), BE(k.document, W32))
      BY <2>4 DEF Body, BitmapClasses, ValueBody, TaskQueueClasses, BlobClasses, DirectoryClasses,
           QueueClasses, ReportInClasses, TelemetryClasses
    <3>. QED BY <2>4, <2>1, <2>3, <3>1, Literals
      DEF TaskQueueBody
  <2>. QED BY <2>1, <2>4
<1>9. CASE KeyOf(k, {"BlobReserve"}, [hash |-> BlobHash, until |-> U64])
  <2>1. /\ k.class \in {"BlobReserve"}
        /\ k.hash \in BlobHash
        /\ k.until \in U64
        /\ BE(k.account, W32) \in Seq(Byte) /\ <<k.collection>> \in Seq(Byte)
        /\ BE(k.document, W32) \in Seq(Byte)
    BY <1>9, KeyFields
  <2>2. k.until \in Int
    BY <2>1, IntRanges, Zenon
  <2>3. /\ k.hash \in Seq(Byte)
        /\ BE(k.until, W64) \in Seq(Byte)
    <3>1. k.hash \in Seq(Byte)
      BY <2>1, FixedSeq, CodecAssumption DEF BlobHash
    <3>2. BE(k.until, W64) \in Seq(Byte)
      BY <2>2, BEWidths
    <3>. QED BY <3>1, <3>2
  <2>4. CASE k.class = "BlobReserve"
    <3>1. Body(k) = BlobBody(k, BE(k.account, W32), <<k.collection>>, BE(k.document, W32))
      BY <2>4 DEF Body, BitmapClasses, ValueBody, TaskQueueClasses, BlobClasses, DirectoryClasses,
           QueueClasses, ReportInClasses, TelemetryClasses
    <3>. QED BY <2>4, <2>1, <2>3, <3>1, Literals
      DEF BlobBody
  <2>. QED BY <2>1, <2>4
<1>10. CASE KeyOf(k, {"BlobCommit", "BlobLink"}, [hash |-> BlobHash])
  <2>1. /\ k.class \in {"BlobCommit", "BlobLink"}
        /\ k.hash \in BlobHash
        /\ BE(k.account, W32) \in Seq(Byte) /\ <<k.collection>> \in Seq(Byte)
        /\ BE(k.document, W32) \in Seq(Byte)
    BY <1>10, KeyFields
  <2>3. /\ k.hash \in Seq(Byte)
    <3>1. k.hash \in Seq(Byte)
      BY <2>1, FixedSeq, CodecAssumption DEF BlobHash
    <3>. QED BY <3>1
  <2>4. CASE k.class = "BlobCommit"
    <3>1. Body(k) = BlobBody(k, BE(k.account, W32), <<k.collection>>, BE(k.document, W32))
      BY <2>4 DEF Body, BitmapClasses, ValueBody, TaskQueueClasses, BlobClasses, DirectoryClasses,
           QueueClasses, ReportInClasses, TelemetryClasses
    <3>. QED BY <2>4, <2>1, <2>3, <3>1, Literals
      DEF BlobBody
  <2>5. CASE k.class = "BlobLink"
    <3>1. Body(k) = BlobBody(k, BE(k.account, W32), <<k.collection>>, BE(k.document, W32))
      BY <2>5 DEF Body, BitmapClasses, ValueBody, TaskQueueClasses, BlobClasses, DirectoryClasses,
           QueueClasses, ReportInClasses, TelemetryClasses
    <3>. QED BY <2>5, <2>1, <2>3, <3>1, Literals
      DEF BlobBody
  <2>. QED BY <2>1, <2>4, <2>5
<1>11. CASE KeyOf(k, {"BlobLinkId"}, [hash |-> BlobHash, id |-> U64])
  <2>1. /\ k.class \in {"BlobLinkId"}
        /\ k.hash \in BlobHash
        /\ k.id \in U64
        /\ BE(k.account, W32) \in Seq(Byte) /\ <<k.collection>> \in Seq(Byte)
        /\ BE(k.document, W32) \in Seq(Byte)
    BY <1>11, KeyFields
  <2>2. k.id \in Int
    BY <2>1, IntRanges, Zenon
  <2>3. /\ k.hash \in Seq(Byte)
        /\ BE(k.id, W64) \in Seq(Byte)
        /\ (k.id \div Radix^W32) % Radix^W32 \in Int /\ k.id % Radix^W32 \in Int
        /\ BE((k.id \div Radix^W32) % Radix^W32, W32) \in Seq(Byte)
          /\ BE(k.id % Radix^W32, W32) \in Seq(Byte)
    <3>1. k.hash \in Seq(Byte)
      BY <2>1, FixedSeq, CodecAssumption DEF BlobHash
    <3>2. BE(k.id, W64) \in Seq(Byte)
      BY <2>2, BEWidths
    <3>3. (k.id \div Radix^W32) % Radix^W32 \in Int /\ k.id % Radix^W32 \in Int
      BY <2>2, PowersPositive
    <3>4. BE((k.id \div Radix^W32) % Radix^W32, W32) \in Seq(Byte)
          /\ BE(k.id % Radix^W32, W32) \in Seq(Byte)
      BY <3>3, BEWidths
    <3>. QED BY <3>1, <3>2, <3>3, <3>4
  <2>4. CASE k.class = "BlobLinkId"
    <3>1. Body(k) = BlobBody(k, BE(k.account, W32), <<k.collection>>, BE(k.document, W32))
      BY <2>4 DEF Body, BitmapClasses, ValueBody, TaskQueueClasses, BlobClasses, DirectoryClasses,
           QueueClasses, ReportInClasses, TelemetryClasses
    <3>. QED BY <2>4, <2>1, <2>3, <3>1, Literals
      DEF BlobBody
  <2>. QED BY <2>1, <2>4
<1>12. CASE KeyOf(k, {"Config", "InMemoryKey", "InMemoryCounter", "QuotaCount", "QuotaSize"}, [key |-> Bytes])
  <2>1. /\ k.class \in {"Config", "InMemoryKey", "InMemoryCounter", "QuotaCount", "QuotaSize"}
        /\ k.key \in Bytes
        /\ BE(k.account, W32) \in Seq(Byte) /\ <<k.collection>> \in Seq(Byte)
        /\ BE(k.document, W32) \in Seq(Byte)
    BY <1>12, KeyFields
  <2>3. /\ k.key \in Seq(Byte)
    <3>1. k.key \in Seq(Byte)
      BY <2>1 DEF Bytes
    <3>. QED BY <3>1
  <2>4. CASE k.class = "Config"
    <3>1. Body(k) = ValueBody(k)
      BY <2>4 DEF Body, BitmapClasses
    <3>. QED BY <2>4, <2>1, <2>3, <3>1, Literals
      DEF ValueBody, TaskQueueClasses, BlobClasses, DirectoryClasses,
           QueueClasses, ReportInClasses, TelemetryClasses
  <2>5. CASE k.class = "InMemoryKey"
    <3>1. Body(k) = ValueBody(k)
      BY <2>5 DEF Body, BitmapClasses
    <3>. QED BY <2>5, <2>1, <2>3, <3>1, Literals
      DEF ValueBody, TaskQueueClasses, BlobClasses, DirectoryClasses,
           QueueClasses, ReportInClasses, TelemetryClasses
  <2>6. CASE k.class = "InMemoryCounter"
    <3>1. Body(k) = ValueBody(k)
      BY <2>6 DEF Body, BitmapClasses
    <3>. QED BY <2>6, <2>1, <2>3, <3>1, Literals
      DEF ValueBody, TaskQueueClasses, BlobClasses, DirectoryClasses,
           QueueClasses, ReportInClasses, TelemetryClasses
  <2>7. CASE k.class = "QuotaCount"
    <3>1. Body(k) = QueueBody(k)
      BY <2>7 DEF Body, BitmapClasses, ValueBody, TaskQueueClasses, BlobClasses, DirectoryClasses,
           QueueClasses, ReportInClasses, TelemetryClasses
    <3>. QED BY <2>7, <2>1, <2>3, <3>1, Literals
      DEF QueueBody
  <2>8. CASE k.class = "QuotaSize"
    <3>1. Body(k) = QueueBody(k)
      BY <2>8 DEF Body, BitmapClasses, ValueBody, TaskQueueClasses, BlobClasses, DirectoryClasses,
           QueueClasses, ReportInClasses, TelemetryClasses
    <3>. QED BY <2>8, <2>1, <2>3, <3>1, Literals
      DEF QueueBody
  <2>. QED BY <2>1, <2>4, <2>5, <2>6, <2>7, <2>8
<1>13. CASE KeyOf(k, {"Any", "AnyKey"}, [subspace |-> SubspaceNames, key |-> Bytes])
  <2>1. /\ k.class \in {"Any", "AnyKey"}
        /\ k.subspace \in SubspaceNames
        /\ k.key \in Bytes
        /\ BE(k.account, W32) \in Seq(Byte) /\ <<k.collection>> \in Seq(Byte)
        /\ BE(k.document, W32) \in Seq(Byte)
    BY <1>13, KeyFields
  <2>3. /\ k.key \in Seq(Byte)
    <3>1. k.key \in Seq(Byte)
      BY <2>1 DEF Bytes
    <3>. QED BY <3>1
  <2>4. CASE k.class = "Any"
    <3>1. Body(k) = ValueBody(k)
      BY <2>4 DEF Body, BitmapClasses
    <3>. QED BY <2>4, <2>1, <2>3, <3>1, Literals
      DEF ValueBody, TaskQueueClasses, BlobClasses, DirectoryClasses,
           QueueClasses, ReportInClasses, TelemetryClasses
  <2>5. CASE k.class = "AnyKey"
    <3>1. TRUE
      OBVIOUS
    <3>. QED BY <2>5, <2>1, <2>3, <3>1, Literals
      DEF Body, BitmapClasses
  <2>. QED BY <2>1, <2>4, <2>5
<1>14. CASE KeyOf(k, {"NameToId", "EmailToId"}, [name |-> Bytes])
  <2>1. /\ k.class \in {"NameToId", "EmailToId"}
        /\ k.name \in Bytes
        /\ BE(k.account, W32) \in Seq(Byte) /\ <<k.collection>> \in Seq(Byte)
        /\ BE(k.document, W32) \in Seq(Byte)
    BY <1>14, KeyFields
  <2>3. /\ k.name \in Seq(Byte)
    <3>1. k.name \in Seq(Byte)
      BY <2>1 DEF Bytes
    <3>. QED BY <3>1
  <2>4. CASE k.class = "NameToId"
    <3>1. Body(k) = DirectoryBody(k)
      BY <2>4 DEF Body, BitmapClasses, ValueBody, TaskQueueClasses, BlobClasses, DirectoryClasses,
           QueueClasses, ReportInClasses, TelemetryClasses
    <3>. QED BY <2>4, <2>1, <2>3, <3>1, Literals
      DEF DirectoryBody
  <2>5. CASE k.class = "EmailToId"
    <3>1. Body(k) = DirectoryBody(k)
      BY <2>5 DEF Body, BitmapClasses, ValueBody, TaskQueueClasses, BlobClasses, DirectoryClasses,
           QueueClasses, ReportInClasses, TelemetryClasses
    <3>. QED BY <2>5, <2>1, <2>3, <3>1, Literals
      DEF DirectoryBody
  <2>. QED BY <2>1, <2>4, <2>5
<1>15. CASE KeyOf(k, {"Principal", "UsedQuota"}, [uid |-> U32])
  <2>1. /\ k.class \in {"Principal", "UsedQuota"}
        /\ k.uid \in U32
        /\ BE(k.account, W32) \in Seq(Byte) /\ <<k.collection>> \in Seq(Byte)
        /\ BE(k.document, W32) \in Seq(Byte)
    BY <1>15, KeyFields
  <2>2. k.uid \in Int
    BY <2>1, IntRanges, Zenon
  <2>3. /\ BE(k.uid, W32) \in Seq(Byte)
        /\ Leb128(k.uid) \in Seq(Byte)
    <3>1. BE(k.uid, W32) \in Seq(Byte)
      BY <2>2, BEWidths
    <3>2. Leb128(k.uid) \in Seq(Byte)
      BY <2>2, LebType
    <3>. QED BY <3>1, <3>2
  <2>4. CASE k.class = "Principal"
    <3>1. Body(k) = DirectoryBody(k)
      BY <2>4 DEF Body, BitmapClasses, ValueBody, TaskQueueClasses, BlobClasses, DirectoryClasses,
           QueueClasses, ReportInClasses, TelemetryClasses
    <3>. QED BY <2>4, <2>1, <2>3, <3>1, Literals
      DEF DirectoryBody
  <2>5. CASE k.class = "UsedQuota"
    <3>1. Body(k) = DirectoryBody(k)
      BY <2>5 DEF Body, BitmapClasses, ValueBody, TaskQueueClasses, BlobClasses, DirectoryClasses,
           QueueClasses, ReportInClasses, TelemetryClasses
    <3>. QED BY <2>5, <2>1, <2>3, <3>1, Literals
      DEF DirectoryBody
  <2>. QED BY <2>1, <2>4, <2>5
<1>16. CASE KeyOf(k, {"MemberOf", "Members"}, [principal |-> U32, other |-> U32])
  <2>1. /\ k.class \in {"MemberOf", "Members"}
        /\ k.principal \in U32
        /\ k.other \in U32
        /\ BE(k.account, W32) \in Seq(Byte) /\ <<k.collection>> \in Seq(Byte)
        /\ BE(k.document, W32) \in Seq(Byte)
    BY <1>16, KeyFields
  <2>2. k.principal \in Int /\ k.other \in Int
    BY <2>1, IntRanges, Zenon
  <2>3. /\ BE(k.principal, W32) \in Seq(Byte)
        /\ BE(k.other, W32) \in Seq(Byte)
    <3>1. BE(k.principal, W32) \in Seq(Byte)
      BY <2>2, BEWidths
    <3>2. BE(k.other, W32) \in Seq(Byte)
      BY <2>2, BEWidths
    <3>. QED BY <3>1, <3>2
  <2>4. CASE k.class = "MemberOf"
    <3>1. Body(k) = DirectoryBody(k)
      BY <2>4 DEF Body, BitmapClasses, ValueBody, TaskQueueClasses, BlobClasses, DirectoryClasses,
           QueueClasses, ReportInClasses, TelemetryClasses
    <3>. QED BY <2>4, <2>1, <2>3, <3>1, Literals
      DEF DirectoryBody
  <2>5. CASE k.class = "Members"
    <3>1. Body(k) = DirectoryBody(k)
      BY <2>5 DEF Body, BitmapClasses, ValueBody, TaskQueueClasses, BlobClasses, DirectoryClasses,
           QueueClasses, ReportInClasses, TelemetryClasses
    <3>. QED BY <2>5, <2>1, <2>3, <3>1, Literals
      DEF DirectoryBody
  <2>. QED BY <2>1, <2>4, <2>5
<1>17. CASE KeyOf(k, {"DirIndex"}, [name |-> Bytes, principal |-> U32])
  <2>1. /\ k.class \in {"DirIndex"}
        /\ k.name \in Bytes
        /\ k.principal \in U32
        /\ BE(k.account, W32) \in Seq(Byte) /\ <<k.collection>> \in Seq(Byte)
        /\ BE(k.document, W32) \in Seq(Byte)
    BY <1>17, KeyFields
  <2>2. k.principal \in Int
    BY <2>1, IntRanges, Zenon
  <2>3. /\ k.name \in Seq(Byte)
        /\ BE(k.principal, W32) \in Seq(Byte)
    <3>1. k.name \in Seq(Byte)
      BY <2>1 DEF Bytes
    <3>2. BE(k.principal, W32) \in Seq(Byte)
      BY <2>2, BEWidths
    <3>. QED BY <3>1, <3>2
  <2>4. CASE k.class = "DirIndex"
    <3>1. Body(k) = DirectoryBody(k)
      BY <2>4 DEF Body, BitmapClasses, ValueBody, TaskQueueClasses, BlobClasses, DirectoryClasses,
           QueueClasses, ReportInClasses, TelemetryClasses
    <3>. QED BY <2>4, <2>1, <2>3, <3>1, Literals
      DEF DirectoryBody
  <2>. QED BY <2>1, <2>4
<1>18. CASE KeyOf(k, {"QueueMessage"}, [queue_id |-> U64])
  <2>1. /\ k.class \in {"QueueMessage"}
        /\ k.queue_id \in U64
        /\ BE(k.account, W32) \in Seq(Byte) /\ <<k.collection>> \in Seq(Byte)
        /\ BE(k.document, W32) \in Seq(Byte)
    BY <1>18, KeyFields
  <2>2. k.queue_id \in Int
    BY <2>1, IntRanges, Zenon
  <2>3. /\ BE(k.queue_id, W64) \in Seq(Byte)
    <3>1. BE(k.queue_id, W64) \in Seq(Byte)
      BY <2>2, BEWidths
    <3>. QED BY <3>1
  <2>4. CASE k.class = "QueueMessage"
    <3>1. Body(k) = QueueBody(k)
      BY <2>4 DEF Body, BitmapClasses, ValueBody, TaskQueueClasses, BlobClasses, DirectoryClasses,
           QueueClasses, ReportInClasses, TelemetryClasses
    <3>. QED BY <2>4, <2>1, <2>3, <3>1, Literals
      DEF QueueBody
  <2>. QED BY <2>1, <2>4
<1>19. CASE KeyOf(k, {"MessageEvent"}, [due |-> U64, queue_id |-> U64, name |-> Bytes])
  <2>1. /\ k.class \in {"MessageEvent"}
        /\ k.due \in U64
        /\ k.queue_id \in U64
        /\ k.name \in Bytes
        /\ BE(k.account, W32) \in Seq(Byte) /\ <<k.collection>> \in Seq(Byte)
        /\ BE(k.document, W32) \in Seq(Byte)
    BY <1>19, KeyFields
  <2>2. k.due \in Int /\ k.queue_id \in Int
    BY <2>1, IntRanges, Zenon
  <2>3. /\ BE(k.due, W64) \in Seq(Byte)
        /\ BE(k.queue_id, W64) \in Seq(Byte)
        /\ k.name \in Seq(Byte)
    <3>1. BE(k.due, W64) \in Seq(Byte)
      BY <2>2, BEWidths
    <3>2. BE(k.queue_id, W64) \in Seq(Byte)
      BY <2>2, BEWidths
    <3>3. k.name \in Seq(Byte)
      BY <2>1 DEF Bytes
    <3>. QED BY <3>1, <3>2, <3>3
  <2>4. CASE k.class = "MessageEvent"
    <3>1. Body(k) = QueueBody(k)
      BY <2>4 DEF Body, BitmapClasses, ValueBody, TaskQueueClasses, BlobClasses, DirectoryClasses,
           QueueClasses, ReportInClasses, TelemetryClasses
    <3>. QED BY <2>4, <2>1, <2>3, <3>1, Literals
      DEF QueueBody
  <2>. QED BY <2>1, <2>4
<1>20. CASE KeyOf(k, {"DmarcReportHeader", "TlsReportHeader", "DmarcReportEvent", "TlsReportEvent"}, [event |-> ReportEvent])
  <2>1. /\ k.class \in {"DmarcReportHeader", "TlsReportHeader", "DmarcReportEvent", "TlsReportEvent"}
        /\ k.event \in ReportEvent
        /\ BE(k.account, W32) \in Seq(Byte) /\ <<k.collection>> \in Seq(Byte)
        /\ BE(k.document, W32) \in Seq(Byte)
    BY <1>20, KeyFields
  <2>3. /\ ReportBody(k.event) \in Seq(Byte)
    <3>1. ReportBody(k.event) \in Seq(Byte)
      BY <2>1, ReportBodyType
    <3>. QED BY <3>1
  <2>4. CASE k.class = "DmarcReportHeader"
    <3>1. Body(k) = QueueBody(k)
      BY <2>4 DEF Body, BitmapClasses, ValueBody, TaskQueueClasses, BlobClasses, DirectoryClasses,
           QueueClasses, ReportInClasses, TelemetryClasses
    <3>. QED BY <2>4, <2>1, <2>3, <3>1, Literals
      DEF QueueBody
  <2>5. CASE k.class = "TlsReportHeader"
    <3>1. Body(k) = QueueBody(k)
      BY <2>5 DEF Body, BitmapClasses, ValueBody, TaskQueueClasses, BlobClasses, DirectoryClasses,
           QueueClasses, ReportInClasses, TelemetryClasses
    <3>. QED BY <2>5, <2>1, <2>3, <3>1, Literals
      DEF QueueBody
  <2>6. CASE k.class = "DmarcReportEvent"
    <3>1. Body(k) = QueueBody(k)
      BY <2>6 DEF Body, BitmapClasses, ValueBody, TaskQueueClasses, BlobClasses, DirectoryClasses,
           QueueClasses, ReportInClasses, TelemetryClasses
    <3>. QED BY <2>6, <2>1, <2>3, <3>1, Literals
      DEF QueueBody
  <2>7. CASE k.class = "TlsReportEvent"
    <3>1. Body(k) = QueueBody(k)
      BY <2>7 DEF Body, BitmapClasses, ValueBody, TaskQueueClasses, BlobClasses, DirectoryClasses,
           QueueClasses, ReportInClasses, TelemetryClasses
    <3>. QED BY <2>7, <2>1, <2>3, <3>1, Literals
      DEF QueueBody
  <2>. QED BY <2>1, <2>4, <2>5, <2>6, <2>7
<1>21. CASE KeyOf(k, {"ReportTls", "ReportDmarc", "ReportArf"}, [id |-> U64, expires |-> U64])
  <2>1. /\ k.class \in {"ReportTls", "ReportDmarc", "ReportArf"}
        /\ k.id \in U64
        /\ k.expires \in U64
        /\ BE(k.account, W32) \in Seq(Byte) /\ <<k.collection>> \in Seq(Byte)
        /\ BE(k.document, W32) \in Seq(Byte)
    BY <1>21, KeyFields
  <2>2. k.id \in Int /\ k.expires \in Int
    BY <2>1, IntRanges, Zenon
  <2>3. /\ BE(k.id, W64) \in Seq(Byte)
        /\ BE(k.expires, W64) \in Seq(Byte)
    <3>1. BE(k.id, W64) \in Seq(Byte)
      BY <2>2, BEWidths
    <3>2. BE(k.expires, W64) \in Seq(Byte)
      BY <2>2, BEWidths
    <3>. QED BY <3>1, <3>2
  <2>4. CASE k.class = "ReportTls"
    <3>1. Body(k) = ReportInBody(k)
      BY <2>4 DEF Body, BitmapClasses, ValueBody, TaskQueueClasses, BlobClasses, DirectoryClasses,
           QueueClasses, ReportInClasses, TelemetryClasses
    <3>. QED BY <2>4, <2>1, <2>3, <3>1, Literals
      DEF ReportInBody
  <2>5. CASE k.class = "ReportDmarc"
    <3>1. Body(k) = ReportInBody(k)
      BY <2>5 DEF Body, BitmapClasses, ValueBody, TaskQueueClasses, BlobClasses, DirectoryClasses,
           QueueClasses, ReportInClasses, TelemetryClasses
    <3>. QED BY <2>5, <2>1, <2>3, <3>1, Literals
      DEF ReportInBody
  <2>6. CASE k.class = "ReportArf"
    <3>1. Body(k) = ReportInBody(k)
      BY <2>6 DEF Body, BitmapClasses, ValueBody, TaskQueueClasses, BlobClasses, DirectoryClasses,
           QueueClasses, ReportInClasses, TelemetryClasses
    <3>. QED BY <2>6, <2>1, <2>3, <3>1, Literals
      DEF ReportInBody
  <2>. QED BY <2>1, <2>4, <2>5, <2>6
<1>22. CASE KeyOf(k, {"Span"}, [span_id |-> U64])
  <2>1. /\ k.class \in {"Span"}
        /\ k.span_id \in U64
        /\ BE(k.account, W32) \in Seq(Byte) /\ <<k.collection>> \in Seq(Byte)
        /\ BE(k.document, W32) \in Seq(Byte)
    BY <1>22, KeyFields
  <2>2. k.span_id \in Int
    BY <2>1, IntRanges, Zenon
  <2>3. /\ BE(k.span_id, W64) \in Seq(Byte)
    <3>1. BE(k.span_id, W64) \in Seq(Byte)
      BY <2>2, BEWidths
    <3>. QED BY <3>1
  <2>4. CASE k.class = "Span"
    <3>1. Body(k) = TelemetryBody(k)
      BY <2>4 DEF Body, BitmapClasses, ValueBody, TaskQueueClasses, BlobClasses, DirectoryClasses,
           QueueClasses, ReportInClasses, TelemetryClasses
    <3>. QED BY <2>4, <2>1, <2>3, <3>1, Literals
      DEF TelemetryBody
  <2>. QED BY <2>1, <2>4
<1>23. CASE KeyOf(k, {"SpanIndex"}, [key |-> Bytes, span_id |-> U64])
  <2>1. /\ k.class \in {"SpanIndex"}
        /\ k.key \in Bytes
        /\ k.span_id \in U64
        /\ BE(k.account, W32) \in Seq(Byte) /\ <<k.collection>> \in Seq(Byte)
        /\ BE(k.document, W32) \in Seq(Byte)
    BY <1>23, KeyFields
  <2>2. k.span_id \in Int
    BY <2>1, IntRanges, Zenon
  <2>3. /\ k.key \in Seq(Byte)
        /\ BE(k.span_id, W64) \in Seq(Byte)
    <3>1. k.key \in Seq(Byte)
      BY <2>1 DEF Bytes
    <3>2. BE(k.span_id, W64) \in Seq(Byte)
      BY <2>2, BEWidths
    <3>. QED BY <3>1, <3>2
  <2>4. CASE k.class = "SpanIndex"
    <3>1. Body(k) = TelemetryBody(k)
      BY <2>4 DEF Body, BitmapClasses, ValueBody, TaskQueueClasses, BlobClasses, DirectoryClasses,
           QueueClasses, ReportInClasses, TelemetryClasses
    <3>. QED BY <2>4, <2>1, <2>3, <3>1, Literals
      DEF TelemetryBody
  <2>. QED BY <2>1, <2>4
<1>24. CASE KeyOf(k, {"Metric"}, [timestamp |-> U64, metric_id |-> U64, node_id |-> U64])
  <2>1. /\ k.class \in {"Metric"}
        /\ k.timestamp \in U64
        /\ k.metric_id \in U64
        /\ k.node_id \in U64
        /\ BE(k.account, W32) \in Seq(Byte) /\ <<k.collection>> \in Seq(Byte)
        /\ BE(k.document, W32) \in Seq(Byte)
    BY <1>24, KeyFields
  <2>2. k.timestamp \in Int /\ k.metric_id \in Int /\ k.node_id \in Int
    BY <2>1, IntRanges, Zenon
  <2>3. /\ BE(k.timestamp, W64) \in Seq(Byte)
        /\ BE(k.metric_id, W64) \in Seq(Byte)
        /\ Leb128(k.metric_id) \in Seq(Byte)
        /\ BE(k.node_id, W64) \in Seq(Byte)
        /\ Leb128(k.node_id) \in Seq(Byte)
    <3>1. BE(k.timestamp, W64) \in Seq(Byte)
      BY <2>2, BEWidths
    <3>2. BE(k.metric_id, W64) \in Seq(Byte)
      BY <2>2, BEWidths
    <3>3. Leb128(k.metric_id) \in Seq(Byte)
      BY <2>2, LebType
    <3>4. BE(k.node_id, W64) \in Seq(Byte)
      BY <2>2, BEWidths
    <3>5. Leb128(k.node_id) \in Seq(Byte)
      BY <2>2, LebType
    <3>. QED BY <3>1, <3>2, <3>3, <3>4, <3>5
  <2>4. CASE k.class = "Metric"
    <3>1. Body(k) = TelemetryBody(k)
      BY <2>4 DEF Body, BitmapClasses, ValueBody, TaskQueueClasses, BlobClasses, DirectoryClasses,
           QueueClasses, ReportInClasses, TelemetryClasses
    <3>. QED BY <2>4, <2>1, <2>3, <3>1, Literals
      DEF TelemetryBody
  <2>. QED BY <2>1, <2>4
<1>25. CASE KeyOf(k, {"DocumentId", "ChangeId", "BitmapDocumentIds"}, << >>)
  <2>1. /\ k.class \in {"DocumentId", "ChangeId", "BitmapDocumentIds"}
        /\ BE(k.account, W32) \in Seq(Byte) /\ <<k.collection>> \in Seq(Byte)
        /\ BE(k.document, W32) \in Seq(Byte)
    BY <1>25, KeyFields
  <2>3. TRUE
    OBVIOUS
  <2>4. CASE k.class = "DocumentId"
    <3>1. Body(k) = ValueBody(k)
      BY <2>4 DEF Body, BitmapClasses
    <3>. QED BY <2>4, <2>1, <2>3, <3>1, Literals
      DEF ValueBody, TaskQueueClasses, BlobClasses, DirectoryClasses,
           QueueClasses, ReportInClasses, TelemetryClasses
  <2>5. CASE k.class = "ChangeId"
    <3>1. Body(k) = ValueBody(k)
      BY <2>5 DEF Body, BitmapClasses
    <3>. QED BY <2>5, <2>1, <2>3, <3>1, Literals
      DEF ValueBody, TaskQueueClasses, BlobClasses, DirectoryClasses,
           QueueClasses, ReportInClasses, TelemetryClasses
  <2>6. CASE k.class = "BitmapDocumentIds"
    <3>1. Body(k) = BitmapBody(k)
      BY <2>6 DEF Body, BitmapClasses
    <3>. QED BY <2>6, <2>1, <2>3, <3>1, Literals
      DEF BitmapBody
  <2>. QED BY <2>1, <2>4, <2>5, <2>6
<1>26. CASE KeyOf(k, {"BitmapTagId"}, [field |-> Byte, id |-> U32])
  <2>1. /\ k.class \in {"BitmapTagId"}
        /\ k.field \in Byte
        /\ k.id \in U32
        /\ BE(k.account, W32) \in Seq(Byte) /\ <<k.collection>> \in Seq(Byte)
        /\ BE(k.document, W32) \in Seq(Byte)
    BY <1>26, KeyFields
  <2>2. k.id \in Int
    BY <2>1, IntRanges, Zenon
  <2>3. /\ <<k.field>> \in Seq(Byte)
        /\ BE(k.id, W32) \in Seq(Byte)
        /\ Leb128(k.id) \in Seq(Byte)
    <3>1. <<k.field>> \in Seq(Byte)
      BY <2>1
    <3>2. BE(k.id, W32) \in Seq(Byte)
      BY <2>2, BEWidths
    <3>3. Leb128(k.id) \in Seq(Byte)
      BY <2>2, LebType
    <3>. QED BY <3>1, <3>2, <3>3
  <2>4. CASE k.class = "BitmapTagId"
    <3>1. Body(k) = BitmapBody(k)
      BY <2>4 DEF Body, BitmapClasses
    <3>. QED BY <2>4, <2>1, <2>3, <3>1, Literals
      DEF BitmapBody
  <2>. QED BY <2>1, <2>4
<1>27. CASE KeyOf(k, {"BitmapTagText", "IndexKey"}, [field |-> Byte, key |-> Bytes])
  <2>1. /\ k.class \in {"BitmapTagText", "IndexKey"}
        /\ k.field \in Byte
        /\ k.key \in Bytes
        /\ BE(k.account, W32) \in Seq(Byte) /\ <<k.collection>> \in Seq(Byte)
        /\ BE(k.document, W32) \in Seq(Byte)
    BY <1>27, KeyFields
  <2>3. /\ <<MarkField(k.field)>> \in Seq(Byte)
        /\ <<k.field>> \in Seq(Byte)
        /\ k.key \in Seq(Byte)
    <3>1. <<MarkField(k.field)>> \in Seq(Byte)
      BY <2>1, MarkFieldType
    <3>2. <<k.field>> \in Seq(Byte)
      BY <2>1
    <3>3. k.key \in Seq(Byte)
      BY <2>1 DEF Bytes
    <3>. QED BY <3>1, <3>2, <3>3
  <2>4. CASE k.class = "BitmapTagText"
    <3>1. Body(k) = BitmapBody(k)
      BY <2>4 DEF Body, BitmapClasses
    <3>. QED BY <2>4, <2>1, <2>3, <3>1, Literals
      DEF BitmapBody
  <2>5. CASE k.class = "IndexKey"
    <3>1. TRUE
      OBVIOUS
    <3>. QED BY <2>5, <2>1, <2>3, <3>1, Literals
      DEF Body, BitmapClasses
  <2>. QED BY <2>1, <2>4, <2>5
<1>28. CASE KeyOf(k, {"IndexKeyPrefix"}, [field |-> Byte])
  <2>1. /\ k.class \in {"IndexKeyPrefix"}
        /\ k.field \in Byte
        /\ BE(k.account, W32) \in Seq(Byte) /\ <<k.collection>> \in Seq(Byte)
        /\ BE(k.document, W32) \in Seq(Byte)
    BY <1>28, KeyFields
  <2>3. /\ <<k.field>> \in Seq(Byte)
    <3>1. <<k.field>> \in Seq(Byte)
      BY <2>1
    <3>. QED BY <3>1
  <2>4. CASE k.class = "IndexKeyPrefix"
    <3>1. TRUE
      OBVIOUS
    <3>. QED BY <2>4, <2>1, <2>3, <3>1, Literals
      DEF Body, BitmapClasses
  <2>. QED BY <2>1, <2>4
<1>29. CASE KeyOf(k, {"LogKey"}, [change_id |-> U64])
  <2>1. /\ k.class \in {"LogKey"}
        /\ k.change_id \in U64
        /\ BE(k.account, W32) \in Seq(Byte) /\ <<k.collection>> \in Seq(Byte)
        /\ BE(k.document, W32) \in Seq(Byte)
    BY <1>29, KeyFields
  <2>2. k.change_id \in Int
    BY <2>1, IntRanges, Zenon
  <2>3. /\ BE(k.change_id, W64) \in Seq(Byte)
    <3>1. BE(k.change_id, W64) \in Seq(Byte)
      BY <2>2, BEWidths
    <3>. QED BY <3>1
  <2>4. CASE k.class = "LogKey"
    <3>1. TRUE
      OBVIOUS
    <3>. QED BY <2>4, <2>1, <2>3, <3>1, Literals
      DEF Body, BitmapClasses
  <2>. QED BY <2>1, <2>4
<1>. QED BY <1>1, <1>2, <1>3, <1>4, <1>5, <1>6, <1>7, <1>8, <1>9, <1>10, <1>11, <1>12, <1>13, <1>14, <1>15, <1>16, <1>17, <1>18, <1>19, <1>20, <1>21, <1>22, <1>23, <1>24, <1>25, <1>26, <1>27, <1>28, <1>29 DEF IsKey

(***************************************************************************)
(* The classes of the well-formed keys.                                    *)
(***************************************************************************)
ValueClasses ==
    {"Property", "FtsIndex", "Acl", "Config", "InMemoryKey", "InMemoryCounter",
     "Any", "DocumentId", "ChangeId"}
    \cup TaskQueueClasses \cup BlobClasses \cup DirectoryClasses
    \cup QueueClasses \cup ReportInClasses \cup TelemetryClasses
KeyClasses ==
    ValueClasses \cup BitmapClasses
    \cup {"IndexKey", "IndexKeyPrefix", "LogKey", "AnyKey"}

\* A well-formed key has one of the classes, and a raw key has a subspace.
LEMMA KeyClass ==
    ASSUME NEW k, IsKey(k)
    PROVE  /\ k.class \in KeyClasses
           /\ k.class \in {"Any", "AnyKey"} => k.subspace \in SubspaceNames
<1>. DEFINE Concl ==
       /\ k.class \in KeyClasses
       /\ k.class \in {"Any", "AnyKey"} => k.subspace \in SubspaceNames
<1>. USE DEF KeyClasses, ValueClasses, TaskQueueClasses, BlobClasses,
             DirectoryClasses, QueueClasses, ReportInClasses,
             TelemetryClasses, BitmapClasses
<1>1. KeyOf(k, {"Property"}, [field |-> Byte]) => Concl
  BY KeyFields
<1>2. KeyOf(k, {"FtsIndex"}, [hash |-> TokenHashBytes, len |-> Byte]) => Concl
  BY KeyFields
<1>3. KeyOf(k, {"BitmapText"}, [hash |-> TokenHashBytes, len |-> Byte, field |-> Byte]) => Concl
  BY KeyFields
<1>4. KeyOf(k, {"Acl"}, [grantee |-> U32]) => Concl
  BY KeyFields
<1>5. KeyOf(k, {"IndexEmail"}, [due |-> U64, hash |-> BlobHash]) => Concl
  BY KeyFields
<1>6. KeyOf(k, {"BayesTrain"}, [due |-> U64, hash |-> BlobHash, learn_spam |-> BOOLEAN]) => Concl
  BY KeyFields
<1>7. KeyOf(k, {"SendAlarm"}, [due |-> U64, event_id |-> U16, alarm_id |-> U16]) => Concl
  BY KeyFields
<1>8. KeyOf(k, {"SendImip"}, [due |-> U64, is_payload |-> BOOLEAN]) => Concl
  BY KeyFields
<1>9. KeyOf(k, {"BlobReserve"}, [hash |-> BlobHash, until |-> U64]) => Concl
  BY KeyFields
<1>10. KeyOf(k, {"BlobCommit", "BlobLink"}, [hash |-> BlobHash]) => Concl
  BY KeyFields
<1>11. KeyOf(k, {"BlobLinkId"}, [hash |-> BlobHash, id |-> U64]) => Concl
  BY KeyFields
<1>12. KeyOf(k, {"Config", "InMemoryKey", "InMemoryCounter", "QuotaCount", "QuotaSize"}, [key |-> Bytes]) => Concl
  BY KeyFields
<1>13. KeyOf(k, {"Any", "AnyKey"}, [subspace |-> SubspaceNames, key |-> Bytes]) => Concl
  BY KeyFields
<1>14. KeyOf(k, {"NameToId", "EmailToId"}, [name |-> Bytes]) => Concl
  BY KeyFields
<1>15. KeyOf(k, {"Principal", "UsedQuota"}, [uid |-> U32]) => Concl
  BY KeyFields
<1>16. KeyOf(k, {"MemberOf", "Members"}, [principal |-> U32, other |-> U32]) => Concl
  BY KeyFields
<1>17. KeyOf(k, {"DirIndex"}, [name |-> Bytes, principal |-> U32]) => Concl
  BY KeyFields
<1>18. KeyOf(k, {"QueueMessage"}, [queue_id |-> U64]) => Concl
  BY KeyFields
<1>19. KeyOf(k, {"MessageEvent"}, [due |-> U64, queue_id |-> U64, name |-> Bytes]) => Concl
  BY KeyFields
<1>20. KeyOf(k, {"DmarcReportHeader", "TlsReportHeader", "DmarcReportEvent", "TlsReportEvent"}, [event |-> ReportEvent]) => Concl
  BY KeyFields
<1>21. KeyOf(k, {"ReportTls", "ReportDmarc", "ReportArf"}, [id |-> U64, expires |-> U64]) => Concl
  BY KeyFields
<1>22. KeyOf(k, {"Span"}, [span_id |-> U64]) => Concl
  BY KeyFields
<1>23. KeyOf(k, {"SpanIndex"}, [key |-> Bytes, span_id |-> U64]) => Concl
  BY KeyFields
<1>24. KeyOf(k, {"Metric"}, [timestamp |-> U64, metric_id |-> U64, node_id |-> U64]) => Concl
  BY KeyFields
<1>25. KeyOf(k, {"DocumentId", "ChangeId", "BitmapDocumentIds"}, << >>) => Concl
  BY KeyFields
<1>26. KeyOf(k, {"BitmapTagId"}, [field |-> Byte, id |-> U32]) => Concl
  BY KeyFields
<1>27. KeyOf(k, {"BitmapTagText", "IndexKey"}, [field |-> Byte, key |-> Bytes]) => Concl
  BY KeyFields
<1>28. KeyOf(k, {"IndexKeyPrefix"}, [field |-> Byte]) => Concl
  BY KeyFields
<1>29. KeyOf(k, {"LogKey"}, [change_id |-> U64]) => Concl
  BY KeyFields
<1>. QED BY <1>1, <1>2, <1>3, <1>4, <1>5, <1>6, <1>7, <1>8, <1>9, <1>10, <1>11, <1>12, <1>13, <1>14, <1>15, <1>16, <1>17, <1>18, <1>19, <1>20, <1>21, <1>22, <1>23, <1>24, <1>25, <1>26, <1>27, <1>28, <1>29 DEF IsKey
\* Every class is routed by ValueSubspace, BitmapSerializedSubspace or one
\* of the fixed subspaces of IndexKey, LogKey and AnyKey.
LEMMA SerializedSubspaceCases ==
    ASSUME NEW k, k.class \in KeyClasses
    PROVE  /\ k.class \in BitmapClasses =>
                 SerializedSubspace(k) = BitmapSerializedSubspace(k)
           /\ k.class \in {"IndexKey", "IndexKeyPrefix"} =>
                 SerializedSubspace(k) = "INDEXES"
           /\ k.class = "LogKey" => SerializedSubspace(k) = "LOGS"
           /\ k.class = "AnyKey" => SerializedSubspace(k) = k.subspace
           /\ k.class \in ValueClasses =>
                 SerializedSubspace(k) = ValueSubspace(k)
BY DEF SerializedSubspace, KeyClasses, ValueClasses, TaskQueueClasses,
       BlobClasses, DirectoryClasses, QueueClasses, ReportInClasses,
       TelemetryClasses, BitmapClasses

\* The first byte of every serialized key is a subspace tag.
LEMMA SubspaceType ==
    ASSUME NEW k, IsKey(k)
    PROVE  SerializedSubspace(k) \in SubspaceNames
<1>1. /\ k.class \in KeyClasses
      /\ k.class \in {"Any", "AnyKey"} => k.subspace \in SubspaceNames
  BY KeyClass
<1>2. CASE k.class \in BitmapClasses
  BY <1>1, <1>2, SerializedSubspaceCases
  DEF BitmapSerializedSubspace, BitmapClasses, SubspaceNames
<1>3. CASE k.class \in ValueClasses
  <2>1. SerializedSubspace(k) = ValueSubspace(k)
    BY <1>1, <1>3, SerializedSubspaceCases
  <2>. QED BY <1>1, <1>3, <2>1
       DEF ValueSubspace, SubspaceNames, ValueClasses, TaskQueueClasses,
           BlobClasses, DirectoryClasses, QueueClasses, ReportInClasses,
           TelemetryClasses
<1>4. CASE k.class \in {"IndexKey", "IndexKeyPrefix", "LogKey", "AnyKey"}
  BY <1>1, <1>4, SerializedSubspaceCases DEF SubspaceNames
<1>. QED BY <1>1, <1>2, <1>3, <1>4 DEF KeyClasses

\* A serialized key is its subspace tag followed by the key's bytes.
LEMMA SerializeFacts ==
    ASSUME NEW k, IsKey(k)
    PROVE  /\ Serialize(k) # << >>
           /\ Serialize(k)[1] = SerializedSubspace(k)
           /\ Tail(Serialize(k)) = Body(k)
           /\ Tail(Serialize(k)) \in Seq(Byte)
<1>. DEFINE S == SubspaceNames \cup Byte
            B == Body(k)
            x == SerializedSubspace(k)
<1>1. B \in Seq(Byte) /\ B \in Seq(S)
  BY BodyType, SeqMonotonic
<1>2. <<x>> \in Seq(S)
  BY SubspaceType
<1>3. /\ <<x>> \o B \in Seq(S)
      /\ Len(<<x>> \o B) = 1 + Len(B)
      /\ \A i \in 1..(1 + Len(B)) : (<<x>> \o B)[i] = IF i <= 1 THEN x ELSE B[i - 1]
  BY <1>1, <1>2, ConcatProperties
<1>4. Tail(<<x>> \o B) = B
  <2>1. <<x>> \o B # << >>
    BY <1>1, <1>3
  <2>2. Tail(<<x>> \o B) \in Seq(S) /\ Len(Tail(<<x>> \o B)) = Len(B)
        /\ \A i \in 1..Len(B) : Tail(<<x>> \o B)[i] = B[i]
    BY <1>1, <1>3, <2>1, HeadTailProperties
  <2>. QED BY <1>1, <2>2, SeqEqual
<1>5. Serialize(k) = <<x>> \o B
  BY DEF Serialize
<1>6. (<<x>> \o B)[1] = x /\ <<x>> \o B # << >>
  BY <1>1, <1>3
<1>. QED BY <1>1, <1>4, <1>5, <1>6
====
