------------------------------ MODULE KeyCodec ------------------------------
(***************************************************************************)
(* The key layer of the store crate (crates/store/src/write/key.rs): the   *)
(* typed record identifiers ("key classes"), the byte string each one      *)
(* serializes to, the subspace each one is routed to, the capacity hint    *)
(* and the counter classifier.  Everything here is a pure operator; the    *)
(* state machine that uses it is KeyStore.                                 *)
(*                                                                         *)
(* Data abstraction.  A byte is a digit 0..Radix-1 (Radix = 256 in the     *)
(* code) and the fixed integer widths are the constants W16, W32, W64      *)
(* (2, 4, 8 in the code), so that small instances keep the sentinels       *)
(* u32::MAX and u64::MAX, the high bit 0x80 and the LEB128 continuation    *)
(* bit.  A subspace byte is the name of the subspace (the numeric values   *)
(* live outside the repository; only their distinctness matters).  Text    *)
(* fields (names, domains, queue names) are byte sequences.                *)
(*                                                                         *)
(* A logical key is a record.  Every record has the fields class,          *)
(* account, collection and document (the ValueKey / BitmapKey fields; 0    *)
(* when the From conversions build the key) and the fields of its class.  *)
(***************************************************************************)
EXTENDS Integers, Sequences, FiniteSets, SequencesExt

CONSTANTS
    Radix,           \* number of byte values (256)
    W16, W32, W64,   \* widths in bytes of u16, u32, u64 (2, 4, 8)
    TruncLen,        \* the literal 8 of the token-hash truncation rule
    CounterField,    \* the literal 84 of the Property(84) counter pun
    CounterCollection, \* the literal 1 of the same pun
    BlobHashLen      \* utils::BLOB_HASH_LEN (32)

ASSUME CodecAssumption ==
    /\ Radix \in Nat /\ Radix >= 8 /\ Radix % 2 = 0
    /\ W16 \in Nat \ {0} /\ W32 \in Nat \ {0} /\ W64 \in Nat \ {0}
    /\ TruncLen \in Nat \ {0}
    /\ CounterField \in 0..(Radix - 1) /\ CounterCollection \in 0..(Radix - 1)
    /\ BlobHashLen \in Nat
    /\ W16 <= W32 /\ W32 <= W64

\* The powers the encoders divide by are positive naturals.  This is
\* arithmetic, stated for the exponents used (to_be_bytes divides by
\* 256^j for j < 8, LEB128 by 128^j for j < 2 * 8) because the proof
\* backends have no theory of exponentiation.
ASSUME PowerAssumption ==
    \A n \in 0..(2 * W64) : /\ Radix^n \in Nat \ {0}
                           /\ (Radix \div 2)^n \in Nat \ {0}

Byte == 0..(Radix - 1)
MaxU8 == Radix - 1
MaxU32 == Radix^W32 - 1
MaxU64 == Radix^W64 - 1
BmMarker == Radix \div 2          \* const BM_MARKER: u8 = 1 << 7

\* The subspace tags of crate::SUBSPACE_*.
SubspaceNames ==
    {"ACL", "BITMAP_ID", "BITMAP_TAG", "BITMAP_TEXT", "BLOB_LINK",
     "BLOB_RESERVE", "COUNTER", "DIRECTORY", "FTS_INDEX", "IN_MEMORY_COUNTER",
     "IN_MEMORY_VALUE", "INDEXES", "LOGS", "PROPERTY", "QUEUE_EVENT",
     "QUEUE_MESSAGE", "QUOTA", "REPORT_IN", "REPORT_OUT", "SETTINGS",
     "TASK_QUEUE", "TELEMETRY_INDEX", "TELEMETRY_METRIC", "TELEMETRY_SPAN"}

MinOf(a, b) == IF a <= b THEN a ELSE b

\* Mutant: to_be_bytes without the reduction of each byte to 8 bits.
BE_NoTruncate(v, w) == [i \in 1..w |-> v \div Radix^(w - i)]

\* KeySerialize for u16 / u32 / u64: to_be_bytes.
BE(v, w) == [i \in 1..w |-> (v \div Radix^(w - i)) % Radix]

\* The inverse used by from_be_bytes.
FromBE(s) == LET f[i \in 0..Len(s)] ==
                   IF i = 0 THEN 0 ELSE f[i - 1] * Radix + s[i]
             IN  f[Len(s)]

\* Leb128_::to_leb128_bytes (utils crate): the value in groups of 7 bits,
\* low group first, the high bit set on every byte but the last.  The
\* number of bytes is one more than the number of powers 128^m <= v; for
\* a u64 those m are below 2 * W64 (128^2 > 256).
LebLen(v) == Cardinality({m \in 1..(2 * W64) : BmMarker^m <= v}) + 1
Leb128(v) ==
    [i \in 1..LebLen(v) |->
        ((v \div BmMarker^(i - 1)) % BmMarker)
          + (IF i < LebLen(v) THEN BmMarker ELSE 0)]

\* Mutant: the text-tag marker forgotten.
MarkField_NoMarker(f) == f

\* field | BM_MARKER
MarkField(f) == IF f >= BmMarker THEN f ELSE f + BmMarker

\* The token-hash truncation of FtsIndex and BitmapClass::Text: the first
\* min(len, 8) bytes of the hash (get(..).unwrap_or_default()), then len
\* itself when len >= 8.
TokenHash(h, len) ==
    LET n == MinOf(len, TruncLen)
    IN  (IF n <= Len(h) THEN SubSeq(h, 1, n) ELSE <<>>)
          \o (IF len >= TruncLen THEN <<len>> ELSE <<>>)

\* The serialized ReportEvent fields after the variant byte.
ReportBody(e) == BE(e.due, W64) \o e.domain \o BE(e.policy_hash, W64)
                   \o BE(e.seq_id, W64)

(***************************************************************************)
(* The well-formed keys: the fields and integer widths of every key class  *)
(* (the types of crates/store/src/write/mod.rs, as used by key.rs).        *)
(***************************************************************************)
U16 == 0..(Radix^W16 - 1)
U32 == 0..MaxU32
U64 == 0..MaxU64
Bytes == Seq(Byte)
BlobHash == [1..BlobHashLen -> Byte]
TokenHashBytes == [1..TruncLen -> Byte]
ReportEvent == [due : U64, domain : Bytes, policy_hash : U64, seq_id : U64]


\* KeyOf(k, C, F): k is a key of one of the classes C whose other fields
\* have the types F (a record of sets); account, collection and document
\* are typed as in ValueKey / BitmapKey.
KeyOf(k, C, F) ==
    /\ DOMAIN k = {"class", "account", "collection", "document"} \cup DOMAIN F
    /\ k.class \in C /\ k.account \in U32 /\ k.collection \in Byte
    /\ k.document \in U32
    /\ \A f \in DOMAIN F : k[f] \in F[f]

IsKey(k) ==
    \/ KeyOf(k, {"Property"}, [field |-> Byte])
    \/ KeyOf(k, {"FtsIndex"}, [hash |-> TokenHashBytes, len |-> Byte])
    \/ KeyOf(k, {"BitmapText"},
              [hash |-> TokenHashBytes, len |-> Byte, field |-> Byte])
    \/ KeyOf(k, {"Acl"}, [grantee |-> U32])
    \/ KeyOf(k, {"IndexEmail"}, [due |-> U64, hash |-> BlobHash])
    \/ KeyOf(k, {"BayesTrain"}, [due |-> U64, hash |-> BlobHash,
                                learn_spam |-> BOOLEAN])
    \/ KeyOf(k, {"SendAlarm"}, [due |-> U64, event_id |-> U16, alarm_id |-> U16])
    \/ KeyOf(k, {"SendImip"}, [due |-> U64, is_payload |-> BOOLEAN])
    \/ KeyOf(k, {"BlobReserve"}, [hash |-> BlobHash, until |-> U64])
    \/ KeyOf(k, {"BlobCommit", "BlobLink"}, [hash |-> BlobHash])
    \/ KeyOf(k, {"BlobLinkId"}, [hash |-> BlobHash, id |-> U64])
    \/ KeyOf(k, {"Config", "InMemoryKey", "InMemoryCounter", "QuotaCount",
                "QuotaSize"}, [key |-> Bytes])
    \/ KeyOf(k, {"Any", "AnyKey"}, [subspace |-> SubspaceNames, key |-> Bytes])
    \/ KeyOf(k, {"NameToId", "EmailToId"}, [name |-> Bytes])
    \/ KeyOf(k, {"Principal", "UsedQuota"}, [uid |-> U32])
    \/ KeyOf(k, {"MemberOf", "Members"}, [principal |-> U32, other |-> U32])
    \/ KeyOf(k, {"DirIndex"}, [name |-> Bytes, principal |-> U32])
    \/ KeyOf(k, {"QueueMessage"}, [queue_id |-> U64])
    \/ KeyOf(k, {"MessageEvent"}, [due |-> U64, queue_id |-> U64, name |-> Bytes])
    \/ KeyOf(k, {"DmarcReportHeader", "TlsReportHeader", "DmarcReportEvent",
                "TlsReportEvent"}, [event |-> ReportEvent])
    \/ KeyOf(k, {"ReportTls", "ReportDmarc", "ReportArf"},
               [id |-> U64, expires |-> U64])
    \/ KeyOf(k, {"Span"}, [span_id |-> U64])
    \/ KeyOf(k, {"SpanIndex"}, [key |-> Bytes, span_id |-> U64])
    \/ KeyOf(k, {"Metric"}, [timestamp |-> U64, metric_id |-> U64,
                            node_id |-> U64])
    \/ KeyOf(k, {"DocumentId", "ChangeId", "BitmapDocumentIds"}, << >>)
    \/ KeyOf(k, {"BitmapTagId"}, [field |-> Byte, id |-> U32])
    \/ KeyOf(k, {"BitmapTagText", "IndexKey"}, [field |-> Byte, key |-> Bytes])
    \/ KeyOf(k, {"IndexKeyPrefix"}, [field |-> Byte])
    \/ KeyOf(k, {"LogKey"}, [change_id |-> U64])

-----------------------------------------------------------------------------
(***************************************************************************)
(* ValueClass::subspace(collection): the subspace a value key lives in.    *)
(***************************************************************************)
ValueSubspace(k) ==
    CASE k.class = "Property" ->
            IF k.field = CounterField /\ k.collection = CounterCollection
            THEN "COUNTER" ELSE "PROPERTY"
      [] k.class = "Acl"       -> "ACL"
      [] k.class = "FtsIndex"  -> "FTS_INDEX"
      [] k.class \in {"IndexEmail", "BayesTrain", "SendAlarm", "SendImip"}
                               -> "TASK_QUEUE"
      [] k.class = "BlobReserve" -> "BLOB_RESERVE"
      [] k.class \in {"BlobCommit", "BlobLink", "BlobLinkId"} -> "BLOB_LINK"
      [] k.class = "Config"    -> "SETTINGS"
      [] k.class = "InMemoryKey" -> "IN_MEMORY_VALUE"
      [] k.class = "InMemoryCounter" -> "IN_MEMORY_COUNTER"
      [] k.class = "UsedQuota" -> "QUOTA"
      [] k.class \in {"NameToId", "EmailToId", "Principal", "MemberOf",
                      "Members", "DirIndex"} -> "DIRECTORY"
      [] k.class = "QueueMessage" -> "QUEUE_MESSAGE"
      [] k.class = "MessageEvent" -> "QUEUE_EVENT"
      [] k.class \in {"DmarcReportHeader", "TlsReportHeader",
                      "DmarcReportEvent", "TlsReportEvent"} -> "REPORT_OUT"
      [] k.class \in {"QuotaCount", "QuotaSize"} -> "QUOTA"
      [] k.class \in {"ReportTls", "ReportDmarc", "ReportArf"} -> "REPORT_IN"
      [] k.class = "Span"      -> "TELEMETRY_SPAN"
      [] k.class = "SpanIndex" -> "TELEMETRY_INDEX"
      [] k.class = "Metric"    -> "TELEMETRY_METRIC"
      [] k.class \in {"DocumentId", "ChangeId"} -> "COUNTER"
      [] k.class = "Any"       -> k.subspace

\* Mutant: the Property(84) arm without its `if collection == 1` guard.
IsCounter_AnyCollection(k) ==
    \/ k.class \in {"UsedQuota", "InMemoryCounter", "QuotaCount",
                    "QuotaSize", "DocumentId", "ChangeId"}
    \/ k.class = "Property" /\ k.field = CounterField

\* ValueClass::is_counter(collection)
IsCounter(k) ==
    \/ k.class \in {"UsedQuota", "InMemoryCounter", "QuotaCount",
                    "QuotaSize", "DocumentId", "ChangeId"}
    \/ k.class = "Property" /\ k.field = CounterField
                            /\ k.collection = CounterCollection

(***************************************************************************)
(* ValueClass::serialize, the bytes after the optional subspace byte, one  *)
(* operator per nested enum of the match.  a, c, d are the serialized      *)
(* account_id, collection and document_id.                                 *)
(***************************************************************************)
\* Mutant: the SendImip payload row written in the order of the other
\* rows, its real due first and u64::MAX last.
TaskQueueBody_PayloadDueFirst(k, a, d) ==
    CASE k.class = "IndexEmail" -> BE(k.due, W64) \o a \o <<0>> \o d \o k.hash
      [] k.class = "BayesTrain" ->
            BE(k.due, W64) \o a \o <<IF k.learn_spam THEN 1 ELSE 2>> \o d
              \o k.hash
      [] k.class = "SendAlarm" ->
            BE(k.due, W64) \o a \o <<3>> \o d \o BE(k.event_id, W16)
              \o BE(k.alarm_id, W16)
      [] k.class = "SendImip" ->
            IF ~k.is_payload THEN BE(k.due, W64) \o a \o <<4>> \o d
            ELSE BE(k.due, W64) \o a \o <<5>> \o d \o BE(MaxU64, W64)

\* TaskQueueClass
TaskQueueBody(k, a, d) ==
    CASE k.class = "IndexEmail" -> BE(k.due, W64) \o a \o <<0>> \o d \o k.hash
      [] k.class = "BayesTrain" ->
            BE(k.due, W64) \o a \o <<IF k.learn_spam THEN 1 ELSE 2>> \o d
              \o k.hash
      [] k.class = "SendAlarm" ->
            BE(k.due, W64) \o a \o <<3>> \o d \o BE(k.event_id, W16)
              \o BE(k.alarm_id, W16)
      [] k.class = "SendImip" ->
            IF ~k.is_payload THEN BE(k.due, W64) \o a \o <<4>> \o d
            ELSE BE(MaxU64, W64) \o a \o <<5>> \o d \o BE(k.due, W64)

\* BlobOp
BlobBody(k, a, c, d) ==
    CASE k.class = "BlobReserve" -> a \o k.hash \o BE(k.until, W64)
      [] k.class = "BlobCommit" -> k.hash \o BE(MaxU32, W32) \o <<0>>
                                     \o BE(MaxU32, W32)
      [] k.class = "BlobLink"  -> k.hash \o a \o c \o d
      [] k.class = "BlobLinkId" ->
            k.hash \o BE((k.id \div Radix^W32) % Radix^W32, W32) \o <<MaxU8>>
              \o BE(k.id % Radix^W32, W32)

\* DirectoryClass
DirectoryBody(k) ==
    CASE k.class = "NameToId"  -> <<0>> \o k.name
      [] k.class = "EmailToId" -> <<1>> \o k.name
      [] k.class = "Principal" -> <<2>> \o Leb128(k.uid)
      [] k.class = "UsedQuota" -> <<4>> \o Leb128(k.uid)
      [] k.class = "MemberOf"  -> <<5>> \o BE(k.principal, W32) \o BE(k.other, W32)
      [] k.class = "Members"   -> <<6>> \o BE(k.principal, W32) \o BE(k.other, W32)
      [] k.class = "DirIndex"  -> <<7>> \o k.name \o BE(k.principal, W32)

\* QueueClass
QueueBody(k) ==
    CASE k.class = "QueueMessage" -> BE(k.queue_id, W64)
      [] k.class = "MessageEvent" -> BE(k.due, W64) \o BE(k.queue_id, W64)
                                       \o k.name
      [] k.class = "DmarcReportHeader" -> <<0>> \o ReportBody(k.event) \o <<0>>
      [] k.class = "TlsReportHeader"   -> <<0>> \o ReportBody(k.event) \o <<1>>
      [] k.class = "DmarcReportEvent"  -> <<1>> \o ReportBody(k.event)
      [] k.class = "TlsReportEvent"    -> <<2>> \o ReportBody(k.event)
      [] k.class = "QuotaCount" -> <<0>> \o k.key
      [] k.class = "QuotaSize"  -> <<1>> \o k.key

\* ReportClass and TelemetryClass
ReportInBody(k) ==
    <<CASE k.class = "ReportTls" -> 0 [] k.class = "ReportDmarc" -> 1
        [] k.class = "ReportArf" -> 2>> \o BE(k.expires, W64) \o BE(k.id, W64)
TelemetryBody(k) ==
    CASE k.class = "Span"      -> BE(k.span_id, W64)
      [] k.class = "SpanIndex" -> k.key \o BE(k.span_id, W64)
      [] k.class = "Metric"    -> BE(k.timestamp, W64) \o Leb128(k.metric_id)
                                    \o Leb128(k.node_id)

TaskQueueClasses == {"IndexEmail", "BayesTrain", "SendAlarm", "SendImip"}
BlobClasses == {"BlobReserve", "BlobCommit", "BlobLink", "BlobLinkId"}
DirectoryClasses == {"NameToId", "EmailToId", "Principal", "UsedQuota",
                     "MemberOf", "Members", "DirIndex"}
QueueClasses == {"QueueMessage", "MessageEvent", "DmarcReportHeader",
                 "TlsReportHeader", "DmarcReportEvent", "TlsReportEvent",
                 "QuotaCount", "QuotaSize"}
ReportInClasses == {"ReportTls", "ReportDmarc", "ReportArf"}
TelemetryClasses == {"Span", "SpanIndex", "Metric"}

ValueBody(k) ==
    LET a == BE(k.account, W32)   c == <<k.collection>>
        d == BE(k.document, W32)
    IN
    CASE k.class = "Property"  -> a \o c \o <<k.field>> \o d
      [] k.class = "FtsIndex"  -> a \o TokenHash(k.hash, k.len) \o c \o d
      [] k.class = "Acl"       -> BE(k.grantee, W32) \o a \o c \o d
      [] k.class \in TaskQueueClasses -> TaskQueueBody(k, a, d)
      [] k.class \in BlobClasses -> BlobBody(k, a, c, d)
      [] k.class \in {"Config", "InMemoryKey", "InMemoryCounter", "Any"}
                               -> k.key
      [] k.class \in DirectoryClasses -> DirectoryBody(k)
      [] k.class \in QueueClasses -> QueueBody(k)
      [] k.class \in ReportInClasses -> ReportInBody(k)
      [] k.class \in TelemetryClasses -> TelemetryBody(k)
      [] k.class = "DocumentId" -> a \o c
      [] k.class = "ChangeId"   -> a

(***************************************************************************)
(* ValueClass::serialized_size, the capacity hint.  The literal 10 of the  *)
(* FtsIndex branch is 8 + 2, written TruncLen + 2.                         *)
(***************************************************************************)
SerializedSize(k) ==
    CASE k.class = "Property"  -> W32 * 2 + 3
      [] k.class = "FtsIndex"  ->
            IF k.len >= TruncLen THEN W32 * 2 + TruncLen + 2
            ELSE k.len + W32 * 2 + 1
      [] k.class = "Acl"       -> W32 * 3 + 2
      [] k.class \in {"InMemoryCounter", "InMemoryKey", "Config", "Any",
                      "QuotaCount", "QuotaSize"} -> Len(k.key)
      [] k.class \in {"NameToId", "EmailToId"} -> Len(k.name)
      [] k.class \in {"Principal", "UsedQuota"} -> W32
      [] k.class \in {"Members", "MemberOf"} -> W32 * 2
      [] k.class = "DirIndex"  -> Len(k.name) + W32
      [] k.class = "BlobReserve" -> BlobHashLen + W64 + W32 + 1
      [] k.class \in {"BlobCommit", "BlobLink", "BlobLinkId"} ->
            BlobHashLen + W32 * 2 + 2
      [] k.class \in {"IndexEmail", "BayesTrain"} -> BlobHashLen + W64 * 2 + 1
      [] k.class = "SendAlarm" -> W64 + W32 * 3 + 1
      [] k.class = "SendImip"  ->
            IF k.is_payload THEN W64 * 2 + W32 * 2 + 1 ELSE W64 + W32 * 2 + 1
      [] k.class = "QueueMessage" -> W64
      [] k.class = "MessageEvent" -> W64 * 3
      [] k.class \in {"DmarcReportEvent", "TlsReportEvent"} ->
            Len(k.event.domain) + W64 * 3
      [] k.class \in {"DmarcReportHeader", "TlsReportHeader"} ->
            Len(k.event.domain) + W64 * 3 + 1
      [] k.class \in {"ReportTls", "ReportDmarc", "ReportArf"} -> W64 * 2 + 1
      [] k.class = "Span"      -> W64 + 1
      [] k.class = "SpanIndex" -> W64 + Len(k.key) + 1
      [] k.class = "Metric"    -> W64 * 2 + 1
      [] k.class = "DocumentId" -> W32 + 1
      [] k.class = "ChangeId"  -> W32

-----------------------------------------------------------------------------
(***************************************************************************)
(* The other key types: BitmapKey (BitmapClass), IndexKey, IndexKeyPrefix, *)
(* LogKey and AnyKey.                                                      *)
(***************************************************************************)
BitmapClasses == {"BitmapDocumentIds", "BitmapTagId", "BitmapTagText",
                  "BitmapText"}

\* BitmapClass::subspace
BitmapSubspace(k) ==
    CASE k.class = "BitmapDocumentIds" -> "BITMAP_ID"
      [] k.class \in {"BitmapTagId", "BitmapTagText"} -> "BITMAP_TAG"
      [] k.class = "BitmapText" -> "BITMAP_TEXT"

\* Mutant: the text-tag branch writing the BITMAP_TEXT literal.
BitmapSerializedSubspace_TagTextSwap(k) ==
    CASE k.class = "BitmapDocumentIds" -> "BITMAP_ID"
      [] k.class = "BitmapTagId" -> "BITMAP_TAG"
      [] k.class \in {"BitmapTagText", "BitmapText"} -> "BITMAP_TEXT"

\* The subspace literal each branch of BitmapClass::serialize writes.
BitmapSerializedSubspace(k) ==
    CASE k.class = "BitmapDocumentIds" -> "BITMAP_ID"
      [] k.class \in {"BitmapTagId", "BitmapTagText"} -> "BITMAP_TAG"
      [] k.class = "BitmapText" -> "BITMAP_TEXT"

\* BitmapClass::serialize without the subspace byte.
BitmapBody(k) ==
    LET a == BE(k.account, W32)   c == <<k.collection>>
        d == BE(k.document, W32)
    IN
    CASE k.class = "BitmapDocumentIds" -> a \o c \o d
      [] k.class = "BitmapTagId"   -> a \o c \o <<k.field>> \o Leb128(k.id) \o d
      [] k.class = "BitmapTagText" -> a \o c \o <<MarkField(k.field)>> \o k.key \o d
      [] k.class = "BitmapText"    ->
            a \o TokenHash(k.hash, k.len) \o c \o <<k.field>> \o d

\* Key::subspace of every key type.
Subspace(k) ==
    CASE k.class \in BitmapClasses -> BitmapSubspace(k)
      [] k.class \in {"IndexKey", "IndexKeyPrefix"} -> "INDEXES"
      [] k.class = "LogKey" -> "LOGS"
      [] k.class = "AnyKey" -> k.subspace
      [] OTHER -> ValueSubspace(k)

\* The subspace byte Key::serialize writes first under WITH_SUBSPACE.
SerializedSubspace(k) ==
    CASE k.class \in BitmapClasses -> BitmapSerializedSubspace(k)
      [] k.class \in {"IndexKey", "IndexKeyPrefix"} -> "INDEXES"
      [] k.class = "LogKey" -> "LOGS"
      [] k.class = "AnyKey" -> k.subspace
      [] OTHER -> ValueSubspace(k)

\* Key::serialize(0)
Body(k) ==
    CASE k.class \in BitmapClasses -> BitmapBody(k)
      [] k.class = "IndexKey" ->
            BE(k.account, W32) \o <<k.collection>> \o <<k.field>> \o k.key
              \o BE(k.document, W32)
      [] k.class = "IndexKeyPrefix" ->
            BE(k.account, W32) \o <<k.collection>> \o <<k.field>>
      [] k.class = "LogKey" ->
            BE(k.account, W32) \o <<k.collection>> \o BE(k.change_id, W64)
      [] k.class = "AnyKey" -> k.key
      [] OTHER -> ValueBody(k)

\* Key::serialize(WITH_SUBSPACE)
Serialize(k) == <<SerializedSubspace(k)>> \o Body(k)

\* Lexicographic order of byte strings, the order of the KV engine's scans.
LexLess(s, t) ==
    \/ IsStrictPrefix(s, t)
    \/ \E i \in 1..MinOf(Len(s), Len(t)) :
          /\ SubSeq(s, 1, i - 1) = SubSeq(t, 1, i - 1)
          /\ s[i] < t[i]

=============================================================================
