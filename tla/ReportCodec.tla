----------------------------- MODULE ReportCodec -----------------------------
(***************************************************************************)
(* The decode path of the key layer: DeserializeBigEndian for &[u8]        *)
(* (key.rs 104-155) and Deserialize for ReportEvent (key.rs 726-743).      *)
(*                                                                         *)
(* Offsets are 0-based as in the code; a slice get(i..j) is SubSeq(key,    *)
(* i+1, j).  std::str::from_utf8 is abstracted to "every byte is below the *)
(* high bit" (the ASCII subset), which is all domain names use.            *)
(*                                                                         *)
(* The decoder computes key.len() - (U64_LEN * 2 + 1) in usize.  When the  *)
(* key is shorter than that, a debug build panics on the overflow and a    *)
(* release build wraps; the wrapped index makes get() return None, so the  *)
(* release build reports DataCorruption.  Which build runs is not fixed by *)
(* the code, so the outcome is a choice between the two.                   *)
(***************************************************************************)
EXTENDS KeyCodec

\* The results of a decode.
Corrupt == [status |-> "corrupt"]
Panic   == [status |-> "panic"]
Ok(e)   == [status |-> "ok", event |-> e]

\* deserialize_be_u64(index): None from get() is DataCorruption.  The
\* try_into() error path cannot be taken: get() returned exactly U64_LEN
\* bytes.
ReadBeU64Fits(key, index) == index + W64 <= Len(key)
ReadBeU64(key, index) == FromBE(SubSeq(key, index + 1, index + W64))

\* std::str::from_utf8(domain).ok()
IsUtf8(s) == \A i \in 1..Len(s) : s[i] < BmMarker

\* Mutant: policy_hash and seq_id read at len - 16 and len - 8, the
\* offsets of a key without the trailing header byte.
DeserializeReportEvent_NoTrailer(key) ==
    LET n       == Len(key)
        phIdx   == n - W64 * 2
        seqIdx  == n - W64
        domain  == SubSeq(key, W64 + 2, phIdx)
    IN
    IF ~ReadBeU64Fits(key, 1) THEN {Corrupt}
    ELSE IF phIdx < 0 THEN {Panic, Corrupt}
    ELSE IF W64 + 1 > phIdx \/ ~IsUtf8(domain) THEN {Corrupt}
    ELSE {Ok([due         |-> ReadBeU64(key, 1),
              domain      |-> domain,
              policy_hash |-> ReadBeU64(key, phIdx),
              seq_id      |-> ReadBeU64(key, seqIdx)])}

\* ReportEvent::deserialize(key): the set of outcomes the builds produce.
\* The struct fields are evaluated in order: due, policy_hash, seq_id,
\* domain; each ? returns at the first failure.
DeserializeReportEvent(key) ==
    LET n       == Len(key)
        phIdx   == n - (W64 * 2 + 1)
        seqIdx  == n - (W64 + 1)
        domain  == SubSeq(key, W64 + 2, phIdx)
    IN
    IF ~ReadBeU64Fits(key, 1) THEN {Corrupt}
    ELSE IF phIdx < 0 THEN {Panic, Corrupt}
    ELSE IF W64 + 1 > phIdx \/ ~IsUtf8(domain) THEN {Corrupt}
    ELSE {Ok([due         |-> ReadBeU64(key, 1),
              domain      |-> domain,
              policy_hash |-> ReadBeU64(key, phIdx),
              seq_id      |-> ReadBeU64(key, seqIdx)])}

=============================================================================
