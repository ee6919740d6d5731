------------------------------ MODULE KeyStore ------------------------------
(***************************************************************************)
(* The key layer used by the KV engine beneath it.  Clients build logical  *)
(* keys, serialize them with WITH_SUBSPACE and write, add to or delete the *)
(* resulting byte key; the report scheduler reads REPORT_OUT keys back     *)
(* through ReportEvent::deserialize.  The engine is the interface of spec  *)
(* section 6.1 (point set, atomic add, delete, scan); it is not part of    *)
(* the repository and is modelled from the spec.  Its routing of a         *)
(* ValueKey to the atomic-counter interface uses ValueKey::is_counter      *)
(* (key.rs 179-181).                                                       *)
(*                                                                         *)
(* kv maps each byte key present in the engine to the logical key that     *)
(* wrote it and to the interface that wrote it ("value" or "counter");     *)
(* live is the set of logical keys written and not deleted since; lastRead *)
(* is the last report key decoded and the decoder's result.                *)
(***************************************************************************)
EXTENDS ReportCodec, FiniteSets

CONSTANTS
    Keys,        \* the logical keys clients build
    MaxEntries   \* bound on the number of byte keys in the engine

\* The subspaces whose values the engine maintains with atomic add.
CounterSubspaces == {"COUNTER", "QUOTA", "IN_MEMORY_COUNTER"}

\* Raw-key escape hatches: ValueClass::Any and AnyKey.
RawClasses == {"Any", "AnyKey"}

ASSUME StoreAssumption ==
    /\ MaxEntries \in Nat
    /\ \A k \in Keys : IsKey(k)
    /\ \A k \in Keys : k.class \in RawClasses =>
                        /\ k.subspace \notin CounterSubspaces

VARIABLES kv, live, lastRead

vars == <<kv, live, lastRead>>

NoRead == [owner |-> [class |-> "none"], result |-> [status |-> "none"]]

Entry == [owner : Keys, kind : {"value", "counter"}]

Write(k, kind) ==
    /\ Serialize(k) \in DOMAIN kv \/ Cardinality(DOMAIN kv) < MaxEntries
    /\ kv' = [b \in DOMAIN kv \cup {Serialize(k)} |->
                IF b = Serialize(k) THEN [owner |-> k, kind |-> kind]
                ELSE kv[b]]
    /\ live' = live \cup {k}
    /\ UNCHANGED lastRead

-----------------------------------------------------------------------------
Init ==
    /\ kv = << >>
    /\ live = {}
    /\ lastRead = NoRead

\* A set of a value key (any key the engine does not treat as a counter).
Set(k) ==
    /\ ~IsCounter(k)
    /\ Write(k, "value")

\* An atomic add on a counter key.
AddCounter(k) ==
    /\ IsCounter(k)
    /\ Write(k, "counter")

\* A delete of the byte key k serializes to.
Clear(k) ==
    /\ Serialize(k) \in DOMAIN kv
    /\ kv' = [b \in DOMAIN kv \ {Serialize(k)} |-> kv[b]]
    /\ live' = live \ {k}
    /\ UNCHANGED lastRead

\* The report scheduler decodes a REPORT_OUT key found by a scan; the
\* engine hands it the key without its subspace byte.
ReadReport(b) ==
    /\ b[1] = "REPORT_OUT"
    /\ \E r \in DeserializeReportEvent(Tail(b)) :
          lastRead' = [owner |-> kv[b].owner, result |-> r]
    /\ UNCHANGED <<kv, live>>

Next ==
    \/ \E k \in Keys : Set(k) \/ AddCounter(k) \/ Clear(k)
    \/ \E b \in DOMAIN kv : ReadReport(b)

Spec == Init /\ [][Next]_vars

-----------------------------------------------------------------------------
TypeOK ==
    /\ \A b \in DOMAIN kv : /\ b # << >> /\ b[1] \in SubspaceNames
                            /\ Tail(b) \in Seq(Byte)
    /\ \A b \in DOMAIN kv : kv[b] \in Entry
    /\ live \subseteq Keys
    /\ lastRead.result.status \in {"none", "ok", "corrupt", "panic"}


(***************************************************************************)
(* Safety properties.                                                      *)
(***************************************************************************)

\* No aliasing: a write or delete through one logical key never destroys
\* the record of another.  Every live logical key still owns the byte key
\* it serializes to (ValueClass/BitmapClass::serialize are injective on
\* the keys clients build).
NoAliasing ==
    \A k \in live : Serialize(k) \in DOMAIN kv /\ kv[Serialize(k)].owner = k

\* Counter routing: an entry was written through the atomic-add interface
\* exactly when its byte key lies in a counter subspace.  It relates two
\* separately written tables of key.rs, is_counter and subspace, including
\* the Property(84)/collection 1 pun they both special-case.
CounterRouting ==
    \A b \in DOMAIN kv : kv[b].kind = "counter" <=> b[1] \in CounterSubspaces

\* Subspace agreement (spec P1): the subspace byte serialize writes is the
\* one Key::subspace reports, so engines that route by subspace() and
\* engines that route by the first byte file a key in the same place.
SubspaceAgreement ==
    \A b \in DOMAIN kv : b[1] = Subspace(kv[b].owner)

\* The scheduled-due of a key in a due-led subspace: the due of a task,
\* a queue event or an outgoing report; SendImip payload rows have none.
ReportOutClasses == {"DmarcReportHeader", "TlsReportHeader",
                     "DmarcReportEvent", "TlsReportEvent"}
IsPayload(k) == k.class = "SendImip" /\ k.is_payload
Scheduled(k) ==
    k.class \in (TaskQueueClasses \cup {"MessageEvent"} \cup ReportOutClasses)
      /\ ~IsPayload(k)
DueOf(k) == IF k.class \in ReportOutClasses THEN k.event.due ELSE k.due

\* Due-time scans (spec 3.3, P8, P9): in TASK_QUEUE, QUEUE_EVENT and within
\* one record kind of REPORT_OUT, a key with an earlier due sorts first,
\* and a SendImip payload row sorts after every scheduled row whose due is
\* below u64::MAX, so a scan [0, now] yields due entries in due order and
\* never a payload row.
DueScanOrder ==
    \A b1, b2 \in DOMAIN kv :
        LET k1 == kv[b1].owner  k2 == kv[b2].owner
        IN  /\ b1[1] = b2[1]
            /\ Scheduled(k1)
            /\ b1[1] = "REPORT_OUT" => Len(b2) > 1 /\ b1[2] = b2[2]
            => /\ Scheduled(k2) /\ DueOf(k1) < DueOf(k2)
                   => LexLess(Tail(b1), Tail(b2))
               /\ IsPayload(k2) /\ DueOf(k1) < MaxU64
                   => LexLess(Tail(b1), Tail(b2))

\* Report round trip on header keys: decoding a DmarcReportHeader or
\* TlsReportHeader key returns the event it was built from.
HeaderRoundTrip ==
    lastRead.owner.class \in {"DmarcReportHeader", "TlsReportHeader"}
      => lastRead.result = Ok(lastRead.owner.event)

\* Spec 4.4 and P6: decoding a DmarcReportEvent or TlsReportEvent key
\* returns the event it was built from.
EventRoundTrip ==
    lastRead.owner.class \in {"DmarcReportEvent", "TlsReportEvent"}
      => lastRead.result = Ok(lastRead.owner.event)

\* Spec 4.5: the decoder fails only with DataCorruption; it never panics.
DecodeNeverPanics == lastRead.result # Panic

\* Spec P5: serialized_size() <= serialize(0).len() <= serialized_size()+1
\* for every ValueClass key.
ValueClassKey(k) ==
    k.class \notin (BitmapClasses \cup {"IndexKey", "IndexKeyPrefix", "LogKey",
                                        "AnyKey"})
SizeHintBound ==
    \A b \in DOMAIN kv :
        ValueClassKey(kv[b].owner) =>
            LET n == SerializedSize(kv[b].owner)
            IN  n <= Len(Tail(b)) /\ Len(Tail(b)) <= n + 1

\* Spec 3.3 and P3 for DirectoryClass::Principal: principals with smaller
\* ids sort first.
PrincipalOrder ==
    \A b1, b2 \in DOMAIN kv :
        /\ kv[b1].owner.class = "Principal" /\ kv[b2].owner.class = "Principal"
        /\ kv[b1].owner.uid < kv[b2].owner.uid
        => LexLess(Tail(b1), Tail(b2))

=============================================================================
