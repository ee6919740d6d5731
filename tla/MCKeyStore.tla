----------------------------- MODULE MCKeyStore -----------------------------
(***************************************************************************)
(* Model-checking instance of KeyStore.  Bytes have eight values, u16/u32/  *)
(* u64 are 1/2/3 bytes wide, the token-hash truncation keeps 2 bytes and   *)
(* the Property(84)/collection 1 pun is Property(3)/collection 1.  The key *)
(* sets below give every key class of key.rs a few members, chosen at the  *)
(* edges the encoders treat specially: u32::MAX / u64::MAX sentinels, dues *)
(* of u64::MAX, token hashes shorter than, equal to and longer than the    *)
(* truncation, LEB128 values of one and of several bytes, the counter pun  *)
(* and its neighbours, and a raw REPORT_OUT key too short to decode.       *)
(***************************************************************************)
EXTENDS KeyStore, TLC

MCRadix == 8
MCW16 == 1
MCW32 == 2
MCW64 == 3
MCTruncLen == 2
MCCounterField == 3
MCCounterCollection == 1
MCBlobHashLen == 1

\* Reference definition of to_leb128_bytes, the loop of the utils crate:
\* while value >= 0x80 push (value & 0x7f) | 0x80 and shift by 7; then
\* push value.
LebRef[v \in Nat] ==
    IF v < BmMarker THEN <<v>>
    ELSE <<(v % BmMarker) + BmMarker>> \o LebRef[v \div BmMarker]

\* The closed form Leb128 of KeyCodec agrees with the loop on every u64 of
\* the instance.
ASSUME LebAgreesWithReference ==
    \A v \in 0..MaxU64 : Leb128(v) = LebRef[v]

\* A ValueKey / BitmapKey with the class-specific fields r.
K(cls, a, c, d, r) ==
    [class |-> cls, account |-> a, collection |-> c, document |-> d] @@ r

Ev(due, dom) == [due |-> due, domain |-> dom, policy_hash |-> 1, seq_id |-> 0]

PropertyKeys ==
    {K("Property", a, c, 0, [field |-> f]) : a \in {0, 1}, c \in {0, 1},
                                             f \in {0, MCCounterField}}
FtsKeys ==
    {K("FtsIndex", 0, 0, 1, [hash |-> <<1, 2>>, len |-> l]) : l \in {1, 2, 3}}
AclKeys == {K("Acl", 1, 0, 1, [grantee |-> g]) : g \in {0, 1}}
TaskKeys ==
    {K("IndexEmail", 0, 0, 1, [due |-> d, hash |-> <<2>>]) : d \in {1, 511}}
    \cup {K("BayesTrain", 0, 0, 1, [due |-> 2, hash |-> <<2>>, learn_spam |-> s])
            : s \in BOOLEAN}
    \cup {K("SendAlarm", 0, 0, 1, [due |-> 2, event_id |-> 0, alarm_id |-> 1])}
    \cup {K("SendImip", 0, 0, 1, [due |-> d, is_payload |-> p])
            : d \in {1, 511}, p \in BOOLEAN}
BlobKeys ==
    {K("BlobReserve", 0, 0, 0, [hash |-> <<1>>, until |-> 5]),
     K("BlobCommit", 0, 0, 0, [hash |-> <<1>>]),
     K("BlobLink", 1, 1, 63, [hash |-> <<1>>])}
    \cup {K("BlobLinkId", 0, 0, 0, [hash |-> <<1>>, id |-> i]) : i \in {0, 511}}
SimpleKeys ==
    {K(c, 0, 0, 0, [key |-> <<1>>])
        : c \in {"Config", "InMemoryKey", "InMemoryCounter", "QuotaCount",
                 "QuotaSize"}}
    \cup {K("Any", 0, 0, 0, [subspace |-> "SETTINGS", key |-> <<2>>])}
DirectoryKeys ==
    {K("NameToId", 0, 0, 0, [name |-> <<1>>]),
     K("EmailToId", 0, 0, 0, [name |-> <<1>>]),
     K("UsedQuota", 0, 0, 0, [uid |-> 5]),
     K("MemberOf", 0, 0, 0, [principal |-> 0, other |-> 1]),
     K("Members", 0, 0, 0, [principal |-> 0, other |-> 1]),
     K("DirIndex", 0, 0, 0, [name |-> <<1>>, principal |-> 0])}
    \cup {K("Principal", 0, 0, 0, [uid |-> u]) : u \in {1, 63}}
QueueKeys ==
    {K("QueueMessage", 0, 0, 0, [queue_id |-> 0])}
    \cup {K("MessageEvent", 0, 0, 0, [due |-> d, queue_id |-> 1, name |-> <<1>>])
            : d \in {1, 2}}
    \cup {K(c, 0, 0, 0, [event |-> e])
            : c \in ReportOutClasses,
              e \in {Ev(1, <<1>>), Ev(2, <<>>)}}
ReportInKeys ==
    {K(c, 0, 0, 0, [id |-> 0, expires |-> 1])
        : c \in {"ReportTls", "ReportDmarc", "ReportArf"}}
TelemetryKeys ==
    {K("Span", 0, 0, 0, [span_id |-> 0]),
     K("SpanIndex", 0, 0, 0, [key |-> <<1>>, span_id |-> 0]),
     K("Metric", 0, 0, 0, [timestamp |-> 0, metric_id |-> 1, node_id |-> 2]),
     K("DocumentId", 0, 1, 0, << >>),
     K("ChangeId", 0, 0, 0, << >>)}
BitmapKeys ==
    {K("BitmapDocumentIds", 0, 0, 1, << >>)}
    \cup {K("BitmapTagId", 0, 0, 1, [field |-> f, id |-> i])
            : f \in {0, 1}, i \in {1, 3}}
    \cup {K("BitmapTagText", 0, 0, 1, [field |-> f, key |-> <<1>>]) : f \in {0, 1}}
    \cup {K("BitmapText", 0, 0, 1, [field |-> 0, hash |-> <<1, 2>>, len |-> l])
            : l \in {1, 3}}
OtherKeys ==
    {K("IndexKey", 0, 0, 1, [field |-> 0, key |-> v]) : v \in {<< >>, <<1>>}}
    \cup {K("IndexKeyPrefix", 0, 0, 0, [field |-> 0]),
          K("LogKey", 0, 0, 0, [change_id |-> 1]),
          K("AnyKey", 0, 0, 0, [subspace |-> "REPORT_OUT", key |-> <<0, 0, 0, 0, 0>>])}

MCKeys ==
    PropertyKeys \cup FtsKeys \cup AclKeys \cup TaskKeys \cup BlobKeys
    \cup SimpleKeys \cup DirectoryKeys \cup QueueKeys \cup ReportInKeys
    \cup TelemetryKeys \cup BitmapKeys \cup OtherKeys

\* Bitmap tags whose field has the high bit set: BitmapTagId(field 4 =
\* 0x80 scaled) next to text tags of field 0.
HighBitTagKeys ==
    {K("BitmapTagId", 0, 0, 1, [field |-> 4, id |-> 1])}
    \cup {K("BitmapTagText", 0, 0, 1, [field |-> 0, key |-> <<1>>])}

\* Principals whose ids straddle a LEB128 length boundary.
PrincipalKeys == {K("Principal", 0, 0, 0, [uid |-> u]) : u \in 1..9}

\* Report keys of both layouts, and a raw key of a length the decoder's
\* usize subtraction underflows on.
ReportKeys ==
    {K(c, 0, 0, 0, [event |-> e])
        : c \in ReportOutClasses, e \in {Ev(1, <<1>>), Ev(2, << >>)}}
    \cup {K("AnyKey", 0, 0, 0, [subspace |-> "REPORT_OUT", key |-> v])
            : v \in {<<0, 0, 0, 0, 0>>, <<1, 0, 0>>}}

=============================================================================
