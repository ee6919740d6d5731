--------------------------- MODULE KeyStoreProofs ---------------------------
(***************************************************************************)
(* Proofs about KeyStore for every value of the constants: the engine's    *)
(* entries are well-typed byte keys, an entry is written through the       *)
(* atomic-add interface exactly when its key lies in a counter subspace,   *)
(* and its first byte is its owner's subspace.                             *)
(***************************************************************************)
EXTENDS KeyStore, KeyCodecProofs

\* Every outcome of ReportEvent::deserialize is a success, a DataCorruption
\* error or a panic.
LEMMA DecodeStatus ==
    ASSUME NEW key
    PROVE  \A r \in DeserializeReportEvent(key) :
              r.status \in {"ok", "corrupt", "panic"}
BY DEF DeserializeReportEvent, Corrupt, Panic, Ok

-----------------------------------------------------------------------------
(***************************************************************************)
(* Type correctness.  TypeOK is inductive: a write adds the serialization  *)
(* of a well-formed key, which SerializeFacts shows to be a subspace tag   *)
(* followed by bytes.                                                      *)
(***************************************************************************)

\* Init establishes TypeOK.
LEMMA InitTypeOK == Init => TypeOK
BY DEF Init, TypeOK, NoRead

\* Every step of the engine and the report scheduler preserves TypeOK.
LEMMA NextTypeOK == TypeOK /\ [Next]_vars => TypeOK'
<1>. SUFFICES ASSUME TypeOK, [Next]_vars PROVE TypeOK'
  OBVIOUS
<1>1. ASSUME NEW k \in Keys, NEW kind \in {"value", "counter"}, Write(k, kind)
      PROVE  TypeOK'
  <2>1. IsKey(k)
    BY StoreAssumption
  <2>2. /\ Serialize(k) # << >>
        /\ Serialize(k)[1] \in SubspaceNames
        /\ Tail(Serialize(k)) \in Seq(Byte)
    BY <2>1, SerializeFacts, SubspaceType
  <2>3. /\ DOMAIN kv' = DOMAIN kv \cup {Serialize(k)}
        /\ kv'[Serialize(k)] = [owner |-> k, kind |-> kind]
        /\ \A b \in DOMAIN kv \ {Serialize(k)} : kv'[b] = kv[b]
    BY <1>1 DEF Write
  <2>4. [owner |-> k, kind |-> kind] \in Entry
    BY DEF Entry
  <2>. QED BY <1>1, <2>2, <2>3, <2>4 DEF TypeOK, Write
<1>2. ASSUME NEW k \in Keys, Clear(k)
      PROVE  TypeOK'
  BY <1>2 DEF TypeOK, Clear
<1>3. ASSUME NEW b \in DOMAIN kv, ReadReport(b)
      PROVE  TypeOK'
  <2>1. PICK r \in DeserializeReportEvent(Tail(b)) :
               lastRead' = [owner |-> kv[b].owner, result |-> r]
    BY <1>3 DEF ReadReport
  <2>2. r.status \in {"ok", "corrupt", "panic"}
    BY DecodeStatus
  <2>. QED BY <1>3, <2>1, <2>2 DEF TypeOK, ReadReport
<1>4. CASE UNCHANGED vars
  BY <1>4 DEF TypeOK, vars
<1>. QED BY <1>1, <1>2, <1>3, <1>4 DEF Next, Set, AddCounter

\* Type correctness of the engine's contents: every stored key is a
\* subspace tag followed by bytes, and every entry names a client key.
THEOREM TypeCorrect == Spec => []TypeOK
BY InitTypeOK, NextTypeOK, PTL DEF Spec


-----------------------------------------------------------------------------
(***************************************************************************)
(* Counter routing.  ValueClass::is_counter and ValueClass::subspace are   *)
(* two tables written separately in key.rs; CounterAgreement shows that    *)
(* they agree on every client key, including the Property(84) /            *)
(* collection 1 pun both of them special-case.  CounterRouting is not      *)
(* inductive by itself: it speaks of the first byte of a stored key, and a *)
(* step needs to know that the key is the serialization of the entry's     *)
(* owner and that the entry's kind was chosen by is_counter.  Routed says  *)
(* so, and is preserved because a write stores exactly that and a delete   *)
(* only removes entries.                                                   *)
(***************************************************************************)

\* ValueClass::is_counter holds of a client key exactly when the subspace
\* byte serialize writes for it is a counter subspace.
LEMMA CounterAgreement ==
    ASSUME NEW k \in Keys
    PROVE  IsCounter(k) <=> SerializedSubspace(k) \in CounterSubspaces
<1>1. /\ k.class \in KeyClasses
      /\ k.class \in RawClasses => k.subspace \notin CounterSubspaces
  BY StoreAssumption, KeyClass
<1>. USE DEF CounterSubspaces
<1>2. CASE k.class \in BitmapClasses
  <2>1. SerializedSubspace(k) = BitmapSerializedSubspace(k)
    BY <1>1, <1>2, SerializedSubspaceCases
  <2>. QED BY <1>2, <2>1 DEF IsCounter, BitmapSerializedSubspace, BitmapClasses
<1>3. CASE k.class \in {"IndexKey", "IndexKeyPrefix", "LogKey", "AnyKey"}
  BY <1>1, <1>3, SerializedSubspaceCases DEF IsCounter, RawClasses
<1>4. CASE k.class \in ValueClasses
  <2>1. SerializedSubspace(k) = ValueSubspace(k)
    BY <1>1, <1>4, SerializedSubspaceCases
  <2>2. CASE k.class = "Any"
    BY <1>1, <2>1, <2>2 DEF ValueSubspace, IsCounter, RawClasses
  <2>3. CASE k.class # "Any"
    BY <1>4, <2>1, <2>3
    DEF ValueSubspace, IsCounter, ValueClasses, TaskQueueClasses,
        BlobClasses, DirectoryClasses, QueueClasses, ReportInClasses,
        TelemetryClasses
  <2>. QED BY <2>2, <2>3
<1>. QED BY <1>1, <1>2, <1>3, <1>4 DEF KeyClasses

\* Every entry is stored under the serialization of the key that wrote it,
\* through the interface is_counter chose for that key.
Routed ==
    \A b \in DOMAIN kv :
        /\ b = Serialize(kv[b].owner)
        /\ kv[b].kind = "counter" <=> IsCounter(kv[b].owner)

IInv == TypeOK /\ Routed

\* Init establishes the inductive invariant.
LEMMA InitIInv == Init => IInv
BY InitTypeOK DEF Init, IInv, Routed

\* Every step preserves the inductive invariant.
LEMMA NextIInv == IInv /\ [Next]_vars => IInv'
<1>. SUFFICES ASSUME IInv, [Next]_vars PROVE Routed'
  BY NextTypeOK DEF IInv
<1>1. ASSUME NEW k \in Keys, NEW kind \in {"value", "counter"}, Write(k, kind),
             kind = "counter" <=> IsCounter(k)
      PROVE  Routed'
  <2>1. /\ DOMAIN kv' = DOMAIN kv \cup {Serialize(k)}
        /\ kv'[Serialize(k)] = [owner |-> k, kind |-> kind]
        /\ \A b \in DOMAIN kv \ {Serialize(k)} : kv'[b] = kv[b]
    BY <1>1 DEF Write
  <2>. QED BY <1>1, <2>1 DEF IInv, Routed
<1>2. ASSUME NEW k \in Keys, Clear(k)
      PROVE  Routed'
  BY <1>2 DEF IInv, Routed, Clear
<1>3. ASSUME NEW b \in DOMAIN kv, ReadReport(b)
      PROVE  Routed'
  BY <1>3 DEF IInv, Routed, ReadReport
<1>4. CASE UNCHANGED vars
  BY <1>4 DEF IInv, Routed, vars
<1>. QED BY <1>1, <1>2, <1>3, <1>4 DEF Next, Set, AddCounter

\* The inductive invariant implies CounterRouting: the first byte of a
\* stored key is the subspace serialize wrote for its owner.
LEMMA IInvCounterRouting == IInv => CounterRouting
<1>. SUFFICES ASSUME IInv, NEW b \in DOMAIN kv
              PROVE  kv[b].kind = "counter" <=> b[1] \in CounterSubspaces
  BY DEF CounterRouting
<1>1. kv[b].owner \in Keys
  BY DEF IInv, TypeOK, Entry
<1>2. b = Serialize(kv[b].owner) /\ (kv[b].kind = "counter" <=> IsCounter(kv[b].owner))
  BY DEF IInv, Routed
<1>3. b[1] = SerializedSubspace(kv[b].owner)
  BY <1>1, <1>2, StoreAssumption, SerializeFacts
<1>. QED BY <1>1, <1>2, <1>3, CounterAgreement

\* Counter routing (the property CounterRouting of the runs): in every
\* reachable state, an entry was written through the atomic-add interface
\* exactly when its byte key lies in a counter subspace, so the engine
\* never adds to a value row nor overwrites a counter.
THEOREM CounterRoutingHolds == Spec => []CounterRouting
<1>1. Init => IInv
  BY InitIInv
<1>2. IInv /\ [Next]_vars => IInv'
  BY NextIInv
<1>3. IInv => CounterRouting
  BY IInvCounterRouting
<1>. QED BY <1>1, <1>2, <1>3, PTL DEF Spec

-----------------------------------------------------------------------------
(***************************************************************************)
(* Subspace agreement.  Key::subspace and the subspace byte serialize      *)
(* writes are two tables: each BitmapClass branch of serialize writes its  *)
(* own literal.  They agree on every well-formed key, and Routed says each *)
(* stored key is the serialization of its owner, so the first byte of      *)
(* every stored key is its owner's Key::subspace.                          *)
(***************************************************************************)

\* Key::subspace is the subspace byte serialize writes, for every key.
LEMMA SubspaceMatch ==
    ASSUME NEW k \in Keys
    PROVE  Subspace(k) = SerializedSubspace(k)
<1>1. k.class \in KeyClasses
  BY StoreAssumption, KeyClass
<1>2. CASE k.class \in BitmapClasses
  <2>1. SerializedSubspace(k) = BitmapSerializedSubspace(k)
    BY <1>1, <1>2, SerializedSubspaceCases
  <2>2. Subspace(k) = BitmapSubspace(k)
    BY <1>2 DEF Subspace, BitmapClasses
  <2>. QED BY <1>2, <2>1, <2>2
       DEF BitmapSubspace, BitmapSerializedSubspace, BitmapClasses
<1>3. CASE k.class \notin BitmapClasses
  BY <1>3 DEF Subspace, SerializedSubspace
<1>. QED BY <1>2, <1>3

\* The inductive invariant of CounterRoutingHolds implies SubspaceAgreement.
LEMMA IInvSubspaceAgreement == IInv => SubspaceAgreement
<1>. SUFFICES ASSUME IInv, NEW b \in DOMAIN kv
              PROVE  b[1] = Subspace(kv[b].owner)
  BY DEF SubspaceAgreement
<1>1. kv[b].owner \in Keys
  BY DEF IInv, TypeOK, Entry
<1>2. b = Serialize(kv[b].owner)
  BY DEF IInv, Routed
<1>3. b[1] = SerializedSubspace(kv[b].owner)
  BY <1>1, <1>2, StoreAssumption, SerializeFacts
<1>. QED BY <1>1, <1>3, SubspaceMatch

\* Subspace agreement (the property SubspaceAgreement of the runs): in
\* every reachable state of every instance, the first byte of every stored
\* key is the subspace Key::subspace names for the key that wrote it, so an
\* engine that routes by Key::subspace finds every entry where serialize
\* put it.
THEOREM SubspaceAgreementHolds == Spec => []SubspaceAgreement
<1>1. Init => IInv
  BY InitIInv
<1>2. IInv /\ [Next]_vars => IInv'
  BY NextIInv
<1>3. IInv => SubspaceAgreement
  BY IInvSubspaceAgreement
<1>. QED BY <1>1, <1>2, <1>3, PTL DEF Spec

=============================================================================
