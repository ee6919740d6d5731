---------------------------- MODULE ForwardedFor ----------------------------
(***************************************************************************)
(* How handle_session (crates/jmap/src/api/http.rs) reads the client's     *)
(* address from the Forwarded and X-Forwarded-For headers when             *)
(* http_use_forwarded is set.                                              *)
(*                                                                         *)
(* A header value is a sequence of tokens.  An address token stands for    *)
(* the whole text of an IPv4 address; the other tokens are the             *)
(* punctuation and words of RFC 7239.  Each token's characters fall in one *)
(* class of the scan loop at http.rs 626-639: an address, ":" and the port *)
(* digits are all in '0'..='9' | 'a'..='f' | ':' | '.', the quote, the     *)
(* bracket and the space are skipped before the address, and every other   *)
(* token stops the scan.  A header that cannot be read as visible ASCII    *)
(* (to_str() failing) is not modelled.                                     *)
(***************************************************************************)
EXTENDS Integers, Sequences, SequencesExt

CONSTANTS
    Addr,       \* the IPv4 addresses of the instance
    Loopback    \* those of them in 127.0.0.0/8

\* Option::None.
None == "none"

ForKey == "for="
ForKeyUpper == "FOR="
Quote == "\""
LBracket == "["
RBracket == "]"
Space == " "
Comma == ","
Semicolon == ";"
Colon == ":"
PortDigits == "port"
Unknown == "unknown"

\* An address is none of the other tokens.
ASSUME AddrAssumption ==
    /\ Loopback \subseteq Addr
    /\ Addr \cap {None, ForKey, ForKeyUpper, Quote, LBracket, RBracket, Space,
                  Comma, Semicolon, Colon, PortDigits, Unknown} = {}

\* '0'..='9' | 'a'..='f' | ':' | '.': the characters the scan keeps.
ScanClass == Addr \cup {Colon, PortDigits}

\* '"' | '[' | ' ': the characters skipped while no address has started.
SkipClass == {Quote, LBracket, Space}

\* h.to_ascii_lowercase()
Lower(h) == ReplaceAll(h, ForKeyUpper, ForKey)

\* text.parse::<IpAddr>(): the address the text spells, or None.
ParseIp(s) == IF Len(s) = 1 /\ s[1] \in Addr THEN s[1] ELSE None

\* The scan loop over the characters after "for=": skip leading quotes,
\* brackets and spaces, then keep the run of address characters;
\* rest.get(start_ip..=end_ip) is that run, and None when it is empty.
ScanSpan(rest) ==
    LET start == SelectInSeq(rest, LAMBDA t : t \notin SkipClass)
        stop  == IF start = 0 THEN 0
                 ELSE SelectInSubSeq(rest, start, Len(rest),
                                     LAMBDA t : t \notin ScanClass)
        end   == IF start = 0 THEN 0
                 ELSE IF stop = 0 THEN Len(rest) ELSE stop - 1
    IN  IF start = 0 \/ end < start THEN << >> ELSE SubSeq(rest, start, end)

\* The Forwarded header: lower-case it, split at the first "for=", scan
\* the address after it and parse it.
ParseForwarded(h) ==
    LET l == Lower(h)
        i == SelectInSeq(l, LAMBDA t : t = ForKey)
    IN  IF i = 0 THEN None ELSE ParseIp(ScanSpan(SubSeq(l, i + 1, Len(l))))

\* text.trim(): drop the leading and trailing spaces.
Trim(s) ==
    LET first == SelectInSeq(s, LAMBDA t : t # Space)
        last  == SelectLastInSeq(s, LAMBDA t : t # Space)
    IN  IF first = 0 THEN << >> ELSE SubSeq(s, first, last)

\* The X-Forwarded-For header: the text before the first comma, trimmed
\* and parsed.
ParseXff(h) ==
    LET c == SelectInSeq(h, LAMBDA t : t = Comma)
    IN  ParseIp(Trim(IF c = 0 THEN h ELSE SubSeq(h, 1, c - 1)))

\* The forwarded address: the Forwarded header's, or when it is missing or
\* does not parse, the X-Forwarded-For header's (the or_else); None when
\* neither gives one.  A missing header is the empty value, which both
\* parsers read as no address, as the code does with a missing header.
ForwardedIp(fwd, xff) ==
    IF ParseForwarded(fwd) # None THEN ParseForwarded(fwd) ELSE ParseXff(xff)

-----------------------------------------------------------------------------
(***************************************************************************)
(* The reference: RFC 7239 section 6.  The first forwarded-element's "for" *)
(* node names the client; a node is an address, optionally quoted, a       *)
(* bracketed IPv6 address, and optionally followed by ":" and a port, or   *)
(* an obfuscated or "unknown" identifier, which names no address.          *)
(***************************************************************************)
RfcForwardedFor(h) ==
    LET l    == Lower(h)
        i    == SelectInSeq(l, LAMBDA t : t = ForKey)
        rest == SubSeq(l, i + 1, Len(l))
        j    == SelectInSeq(rest, LAMBDA t : t \in {Comma, Semicolon})
        node == IF j = 0 THEN rest ELSE SubSeq(rest, 1, j - 1)
        name == SelectSeq(node, LAMBDA t : t \notin {Quote, LBracket, RBracket, Space})
    IN  IF i = 0 \/ name = << >> THEN None
        ELSE IF name[1] \in Addr /\ (Len(name) = 1 \/ name[2] = Colon)
             THEN name[1] ELSE None

=============================================================================
