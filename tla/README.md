# Formal models of the store key layer and the JMAP HTTP front end

This directory holds TLA+ models of parts of the mail server in `src/`. It
also holds the TLC configurations that model-check them and the TLAPS proofs
of their main invariants. `PROJECT.json` lists the components, the runs, the
mutants that show each checked property can fail, the map from every
definition to the source lines it models, the findings and the hazards.

## 1. The system and its parts

The repository snapshot holds six source files:

| Part | Source | State and operations | Modelled |
|---|---|---|---|
| Key layer | `crates/store/src/write/key.rs` | Pure functions. Typed key classes (`ValueClass` and its nested enums, `BitmapClass`, `IndexKey`, `IndexKeyPrefix`, `LogKey`, `AnyKey`) are serialized to byte keys with a subspace byte. Other operations: `Key::subspace`, `ValueClass::is_counter`, `serialized_size`, `DeserializeBigEndian`, `ReportEvent::deserialize`. | yes: `KeyCodec`, `ReportCodec` |
| KV engine | outside the repository (spec §6.1) | A map from byte keys to values. It offers point set, atomic add and delete, plus a scan in byte order. It routes a `ValueKey` with `is_counter`. | from the spec: `KeyStore` |
| LEB128 | `utils` crate, outside `src/` | `to_leb128_bytes` | from the spec, checked against a reference |
| JMAP HTTP router | `crates/jmap/src/api/http.rs` | `handle_session` resolves each request's remote address (from the TCP peer, or with `http_use_forwarded` from `Forwarded` / `X-Forwarded-For`) and refuses blocked addresses. `parse_http_request` checks the endpoint rule (loopback exempt), routes the request through authentication or the anonymous rate limit, and bans the address of a request that falls through to a banned path. | partly: `ForwardedFor`, `HttpRouter` |
| Sieve `http_header` | `crates/common/src/scripts/plugins/http.rs` | One outbound request | no: I/O only |
| IMAP RENAME, JMAP types | `imap-proto/.../rename.rs`, `jmap/src/api/mod.rs` | Data types only | no: no operations |
| Script tests | `tests/src/smtp/inbound/scripts.rs` | Test harness | no |

The parts interact as follows. Clients build a key record, serialize it with
`WITH_SUBSPACE`, and hand the bytes to the engine. The engine's choice between
set and atomic add comes from `ValueKey::is_counter`. Its scans run in byte
order, and that order is what makes due-time queues (`TASK_QUEUE`,
`QUEUE_EVENT`, `REPORT_OUT`) come out in due order. The report scheduler
decodes the `REPORT_OUT` keys it scans with `ReportEvent::deserialize`.

The HTTP front end shares no state with the key layer in this snapshot. Its
shared state is the server's: the blocked-address set and the anonymous
rate limiter, which every request of every client reads and writes. What
makes it hard is that the address these are keyed by comes from headers a
client may write, passed through a reverse proxy the code cannot see.

### Hard behaviours of the key layer

Nothing in `key.rs` is concurrent and nothing is persisted by it, so it has no
interleaving or crash hazards. Its hazards are about data layout:

- **Aliasing.** Two different logical keys can serialize to the same bytes:
  - through the `BM_MARKER` high bit;
  - through the sentinels `u32::MAX` / `u8::MAX` in blob keys;
  - through raw `Any`/`AnyKey` keys.
- **Routing.** `is_counter` and `subspace` are two tables written separately.
  Both special-case `Property(84)` with collection 1.
- **Ordering.** Due-led keys must sort by due. LEB128 fields do not sort
  numerically.
- **Decoding.**
  - `ReportEvent::deserialize` computes offsets from the end of the key in
    `usize`.
  - It reads a layout that only one of the two report key layouts has.
- **Capacity hints.** The `serialized_size` values are written by hand.

## 2. Modules

| Module | Models | Contents |
|---|---|---|
| `KeyCodec` | key.rs 40-102, 179-689 | Constants, the byte model, `BE` (to_be_bytes), `FromBE`, `Leb128`, `MarkField` (BM_MARKER), `TokenHash`, `ReportBody`, the key types `IsKey`, `ValueSubspace`, `IsCounter`, one body operator per nested enum (`TaskQueueBody`, `BlobBody`, `DirectoryBody`, `QueueBody`, `ReportInBody`, `TelemetryBody`), `ValueBody`, `SerializedSize`, `BitmapSubspace`, `BitmapSerializedSubspace`, `BitmapBody`, `Subspace`, `SerializedSubspace`, `Body`, `Serialize`, `LexLess` |
| `ReportCodec` | key.rs 104-155, 726-743 | `ReadBeU64`, `DeserializeReportEvent`: the set of outcomes the builds produce (`Ok`, `Corrupt`, `Panic`) |
| `KeyStore` | spec §6.1, key.rs 179-181 | The engine as a state machine and the properties |
| `ForwardedFor` | http.rs 616-651 | The `Forwarded` scan loop (`ScanSpan`, `ParseForwarded`), the `X-Forwarded-For` split and trim (`ParseXff`), their `or_else` (`ForwardedIp`), and the RFC 7239 reference `RfcForwardedFor` |
| `HttpRouter` | http.rs 84-104, 576-588, 592-700, 809-818 and the route table 105-574 | The front end as a state machine and its properties |
| `HttpFrontEnd` | (abstract) | What the front end promises: blocked clients refused, the endpoint rule, the route's gate, the rate limit and the path-scan ban, all on the client's real address. It takes the route table (`Table`) and the endpoint rule (`Denied`) as constants. It may also refuse any request, as the listener does for blocked peers it cannot see. |
| `MCHttpRouter` | (instance) | Addresses, clients, routes, header values, the proxy, and the parser checked against the reference |
| `MCKeyStore` | (instance) | Constant values, the key sets, the LEB128 reference |
| `KeyCodecProofs`, `KeyStoreProofs`, `HttpRouterProofs` | (proofs) | The TLAPS lemmas and theorems |

### Data abstraction

A byte is a digit `0..Radix-1`. u16, u32 and u64 are `W16`, `W32` and `W64`
digits wide. The constants `TruncLen`, `CounterField` and `CounterCollection`
stand for the literals 8, 84 and 1. `BmMarker = Radix/2` is the high bit, and
it is also the LEB128 group size.

The instance uses `Radix = 8`, widths 1/2/3 and `TruncLen = 2`. That gives
`u32::MAX = 63` and `u64::MAX = 511`, and keeps every sentinel, high bit and
continuation bit of the code. `Radix >= 8` is required because the
discriminator bytes go up to 7.

Other abstractions:
- Subspace bytes are the names of the `SUBSPACE_*` constants. Only their
  distinctness matters.
- UTF-8 validity of a domain is abstracted to "every byte is below the high
  bit".
- A logical key is a record with `class`, `account`, `collection`,
  `document` and its class's fields. `IsKey` gives the types of those fields.

### KeyStore: state and actions

| Variable | Meaning |
|---|---|
| `kv` | Maps each stored byte key to the logical key that wrote it and to the interface used (`value` or `counter`) |
| `live` | The logical keys written and not deleted since |
| `lastRead` | The last report key decoded and the decoder's outcome |

| Action | Code |
|---|---|
| `Set(k)` | The engine's set of a key `is_counter` rejects |
| `AddCounter(k)` | The atomic add of a key `is_counter` accepts |
| `Clear(k)` | Delete of `Serialize(k)` |
| `ReadReport(b)` | The scheduler decodes a stored `REPORT_OUT` key with `ReportEvent::deserialize`. The engine hands it the key without its subspace byte. |

`Set` and `AddCounter` both serialize the whole key first, as the engine does
before a write. `MaxEntries` bounds the number of stored keys.

### HttpRouter: data, state and actions

A header value is a sequence of tokens. An address token stands for the
whole text of an IPv4 address. The other tokens are `for=`, `FOR=`, the
quote, the brackets, the space, the comma, the semicolon, the colon, the
port digits and `unknown`. Each token falls in one character class of the
scan loop at http.rs 626-639, so the loop becomes a closed form over
`SelectInSeq` / `SelectInSubSeq` with no recursion. A missing header is the
empty value, which both parsers read as no address, as the code does.

The proxy is the deployment, not the code, so it is a set of constants:
- `ProxyHeader`: which header it sets (`none` means no proxy);
- `ProxyAppends`: whether it appends to the client's header or replaces it;
- `ProxyPort`: whether it writes `for="a:port"`;
- `ProxyAddr`: its own address.

Clients are adversarial: each request carries any `Forwarded` and
`X-Forwarded-For` value of `ClientForwarded` / `ClientXff`.

| Variable | Meaning |
|---|---|
| `blocked` | The addresses `is_ip_blocked` refuses |
| `anon` | Anonymous requests counted per address in this window |
| `anonServed` | Anonymous requests each client got through in this window (history) |
| `scanners` | Real addresses of the clients that requested a banned path (history) |
| `last` | The last request: client, route and whether it passed the endpoint check |
| `conn` | The clients with an open keep-alive connection |

| Action | Code |
|---|---|
| `Connect(c)` | The listener accepts a connection; it refuses a peer that is blocked (outside `src/`, so modelled from the spec) |
| `Close(c)` | The connection ends; until then `serve_connection` with `keep_alive(true)` (http.rs 596-598) serves every request on it |
| `Request(c, r, fwd, xff, cred)` | One request on an open connection, in `handle_session`: the forwarded address, its blocked check (403, http.rs 654, only when `http_use_forwarded` is on), then `Dispatch` with `RemoteIp`. The peer is not checked again. |
| `Dispatch` | `parse_http_request`: `EndpointGate` (the rule, loopback exempt), then the route's gate from `RoutePlan` (authentication, the anonymous limit `AnonAllowed`/`CountAnon`, or none), then `Finish` (the banned-path ban on the remote address) |
| `Expire` | The rate limiter's window ends |

`RoutePlan` is the route table: per top segment, sub segment and method, it
says which gate the arm applies and whether the request is handled, answered
as a preflight, or falls through to the banned-path check. `logo.svg` is
handled only under `Enterprise` when `logo_resource` finds a logo
(`HasLogo`) or the webadmin bundle has one; otherwise it falls through.

## 3. Runs

All runs use the instance above and `MaxEntries = 2`. Every property is about
at most two stored entries, and with two entries every pair of keys can
coexist in every order of writes, deletes and decodes.

| Run (cfg) | Checks | Result |
|---|---|---|
| `keystore_safety` (`MCKeyStore.cfg`) | `TypeOK`; `NoAliasing`; `CounterRouting`; `SubspaceAgreement`; `DueScanOrder`; `HeaderRoundTrip` | passes, 30,536 distinct states, depth 6 |
| `tag_high_bit` | `NoAliasing` on an id tag with field 0x80 next to a text tag | violated |
| `event_roundtrip` | `EventRoundTrip` (spec §4.4, P6) | violated |
| `decode_panic` | `DecodeNeverPanics` (spec §4.5) | violated |
| `size_hint` | `SizeHintBound` (spec P5) | violated |
| `principal_order` | `PrincipalOrder` (spec §3.3, P3) | violated |

What the passing run's properties mean:
- **`NoAliasing`.** A write or delete never destroys another live key's entry.
- **`CounterRouting`.** An entry was written by atomic add iff its first byte
  is a counter subspace.
- **`SubspaceAgreement`.** The subspace byte written equals `Key::subspace`.
- **`DueScanOrder`.** Due scans return entries in due order and never return a
  SendImip payload row.
- **`HeaderRoundTrip`.** Header report keys decode to their event.

`MCKeyStore`'s key sets give every class members at its edges:
- the dues 1 and `u64::MAX`, and the `LinkId` ids 0 and `u64::MAX`;
- token hashes shorter than, equal to and longer than the truncation;
- LEB128 values of one and two bytes;
- the counter pun and its neighbours;
- a raw `REPORT_OUT` key too short to decode.

The passing run fires every action. Each property has a mutant: a plausible
bug in the mapped code that makes TLC report the property violated. The
mutants are listed in `PROJECT.json`.

### Router runs

`MCHttpRouter` has three clients:
- `mallory` at 10.0.0.1, with no credentials;
- `alice` at 10.0.0.2, a user;
- `admin` on 127.0.0.1, a user.

The seven routes cover the three gates, a banned path and a plain NotFound
(`/favicon.ico`). The endpoint rule
refuses `api` for mallory and for the loopback, and `healthz` for mallory.
Each client may send no header, a header naming 127.0.0.1, a header naming
alice's address, and a list. `AnonLimit = 1`, so the limit is reached on
the first request.

| Run (cfg) | Proxy | Checks | Result |
|---|---|---|---|
| `router_proxy` (`MCHttpRouter.cfg`) | overwrites `Forwarded` with `for=a` | `TypeOK`; `EndpointAccessSound`; `AnonRateBound`; `BansJustified`; `BanEnforced`; `ImplementsFrontEnd` | passes, 10,280 distinct states |
| `xff_append` | appends to `X-Forwarded-For` | `EndpointAccessSound` | violated |
| `forwarded_passthrough` | sets only `X-Forwarded-For` | `BansJustified` | violated |
| `forwarded_port` | writes `for="a:port"`, on loopback | `EndpointAccessSound` | violated |
| `keepalive_ban` (`MCHttpRouterKeepAlive.cfg`) | none, `http_use_forwarded` off | `BanEnforced` | violated |

What the properties mean:
- **`BanEnforced`** (action property). A step that newly dispatches a
  request finds its client's real address unblocked, so a banned client
  never gets through again, whatever headers it sends and even on a
  connection it opened before the ban.
- **`ImplementsFrontEnd`** (refinement). The front end with its proxy and
  client-chosen headers implements `HttpFrontEnd`, in which the server
  sees every client at its own address.
- **`EndpointAccessSound`.** A request the endpoint rule refuses for its
  client's real address is dispatched only when that address is loopback.
- **`AnonRateBound`.** No client gets more than `AnonLimit` anonymous
  requests through in one window.
- **`BansJustified`.** Every blocked address was blocked at start, or is
  the real address of a client that requested a banned path.

`MCHttpRouter` also states, as `ASSUME`s evaluated by TLC, how
`ParseForwarded` compares with the RFC 7239 reference on seven sample
headers: it agrees on all but `for="a:port"`. It also states what
`ParseXff` reads from a list.

There is no fairness: the properties are safety properties, and a client
is free never to send another request.

## 4. Findings

1. **`ReportEvent::deserialize` assumes the header layout** (key.rs 730-733).
   It reads `policy_hash` at `len-17` and `seq_id` at `len-9`, which leaves
   room for the trailing byte of `*ReportHeader`. On a `*ReportEvent` key it
   returns `Ok` with:
   - the domain cut by one byte;
   - `policy_hash` and `seq_id` shifted by one byte.
2. **The decoder panics on short keys.** `key.len() - 17` is computed in
   `usize` after only the first 9 bytes were checked.
   - A debug build panics on a `REPORT_OUT` key of 9 to 16 bytes.
   - A release build wraps and reports DataCorruption.
   - The model lets either outcome happen.
3. **Id tags can alias text tags.** `field | BM_MARKER` (key.rs 522) is
   unguarded, so an id tag with `field >= 0x80` has the same bytes as a text
   tag (spec §7 recommends rejecting such fields).
4. **`serialized_size` is not always within one byte** of the length (spec
   P5). Examples:
   - `Property` is hinted `2*U32_LEN+3` but written in `2*U32_LEN+2` bytes;
   - LEB128 fields can exceed their fixed hints.
5. **LEB128 is not order-preserving.** Principal ids therefore do not sort
   numerically (spec P3).
6. **The first `X-Forwarded-For` entry is the client's** (http.rs 649).
   Behind a proxy that appends, a client that sends
   `X-Forwarded-For: 127.0.0.1` gets the loopback exemption of the endpoint
   rule (http.rs 98), which the comment meant only to avoid lockouts.
7. **`Forwarded` takes precedence over `X-Forwarded-For`** (http.rs 645).
   Behind a proxy that sets only `X-Forwarded-For`, the client's own
   `Forwarded: for=<victim>` becomes the remote address. Requesting a
   banned path then gets the victim banned.
8. **A port in the `Forwarded` node defeats the parser** (http.rs 642).
   The scan keeps `:` and the digits, so `for="192.0.2.1:8080"` (allowed by
   RFC 7239) never parses. The code then reads the `X-Forwarded-For` the
   client sent, which this proxy passes through, and without one the TCP
   peer. A client thus names its own address; with the proxy on loopback,
   every other client passes the loopback exemption (`PortNodeSpoof`).

9. **A ban does not end an open keep-alive connection** (http.rs 597, 654).
   Without forwarding, `handle_session` never calls `is_ip_blocked`; only
   the listener checks the peer, when the connection opens. A scanner
   banned by `is_http_banned_path` keeps being served on the connection
   it already has (`keepalive_ban`: connect, request a banned path, then
   a dispatched request on the same connection).

## 5. Proofs

The proofs are in `KeyCodecProofs`, `KeyStoreProofs` and
`HttpRouterProofs`. `tlapm` checks every step.

- **`TypeCorrect == Spec => []TypeOK`.** Every stored key is a subspace tag
  followed by bytes below the radix, and every entry names a client key.
  - `TypeOK` is inductive.
  - The argument rests on `SerializeFacts`: the serialization of a
    well-formed key is its subspace tag followed by `Body(k)`.
  - That in turn rests on `BodyType`: every one of the 46 classes serializes
    to bytes. Its proof goes class by class through the encoders.
  - Lemmas used along the way: `BEType`, `LebType`, `TokenHashType`,
    `MarkFieldType`, `ReportBodyType`.
- **`CounterRoutingHolds == Spec => []CounterRouting`.**
  - `CounterRouting` is not inductive, because it talks about the first byte
    of a stored key.
  - The inductive invariant is `IInv == TypeOK /\ Routed`.
  - `Routed` says that every entry is stored under `Serialize` of its owner,
    and that its kind is what `is_counter` says of that owner.
  - `CounterAgreement` does the real work: `is_counter(k)` holds iff the
    subspace written for `k` is COUNTER, QUOTA or IN_MEMORY_COUNTER. This
    holds for every well-formed key, including the `Property(84)` pun.
  - TLC checked `Routed` on the instance before it was proved.
- **`SubspaceAgreementHolds == Spec => []SubspaceAgreement`.**
  - It uses the same inductive invariant `IInv`.
  - `SubspaceMatch` shows that `Key::subspace` equals the byte `serialize`
    writes for every well-formed key. The two tables differ only in the
    `BitmapClass` branches, and those write the same literals as
    `BitmapClass::subspace`.

Assumptions:
- **`CodecAssumption`.**
  - `Radix` is even and at least 8.
  - The widths are positive and ordered.
- **`PowerAssumption`.**
  - The powers `Radix^n` and `(Radix/2)^n` are positive naturals for
    `n <= 2*W64`.
  - This is plain arithmetic. It is stated as an assumption because none of
    the proof backends has a theory of `^`.
  - TLC evaluates it on every run.
- **`StoreAssumption`.**
  - The client keys are well-formed (`IsKey`).
  - Raw keys (`Any`, `AnyKey`) never name a counter subspace. Spec §6.2
    makes raw keys the caller's choice.

- **`BansJustifiedHolds`** and **`EndpointAccessSoundHolds`**
  (`HttpRouterProofs`). Each is stated as
  `TrustedDeployment => (Spec => []P)`.
  - `TrustedDeployment` is either no proxy with `http_use_forwarded` off,
    or a proxy that overwrites `Forwarded` with the bare client address
    (`RewritingProxy`). The three header violation runs show why it is
    needed.
  - Both invariants are inductive as they stand.
  - The key lemma is `RemoteIsReal`: in a trusted deployment the remote
    address is the client's real address, whatever headers it sends.
  - `RemoteIsReal` rests on `ParseProxyNode`, which says
    `ParseForwarded(<<for=, a>>) = a`. That in turn rests on
    `ScanLoneAddress`, which works through the scan loop's selections.
  - Then `Finish` bans exactly the address it records as a scanner, and
    `Dispatch` records a request as reached only through `EndpointGate`.
- **`TypeCorrect`** (`HttpRouterProofs`, `Spec => []TypeOK`) holds in
  every deployment.
  - The parsers yield an address or None (`ForwardedIpType`), so the
    remote address is always an address (`RemoteIpType`).
  - The limiter counts only below the limit, so each count stays within
    `0..AnonLimit`.
- **`AnonRateBoundHolds`.** `AnonRateBound` is not inductive. The
  strengthening is `AnonInv == TypeOK /\ AnonAccounted`:
  - `AnonAccounted` says `anonServed[c] <= anon[RealAddr[c]]`. A client's
    served requests are among those counted against its real address;
    clients sharing the address add to the count too.
  - TLC checked `AnonAccounted` on the instance before it was proved.
  - The step case uses `RemoteIsReal`. Then the limiter counts against the
    same address the client's count is bounded by.
- **`BanEnforcedHolds`** proves the action property
  `RewritingProxy => (Spec => BanEnforced)` from a per-step lemma.
  - A dispatched request passed `is_ip_blocked` on the forwarded address,
    which behind the rewriting proxy is the real address
    (`ForwardedIsReal`). Connecting and closing leave `last` alone.
  - It is restricted to `RewritingProxy`: without a proxy nothing checks
    the address per request, and `keepalive_ban` shows the ban failing.
- **`RefinesFrontEnd`** proves `RewritingProxy => (Spec => FE!Spec)`,
  for the same reason: `FE!Serve` needs the client unblocked.
  The mapping is the identity on the variables. The route table becomes
  `Table` and the endpoint rule becomes `Denied`.
  - `Init` maps to `FE!Init`.
  - A request refused by a blocked check or by the endpoint rule maps to
    `FE!Refuse`.
  - A dispatched request maps to `FE!Serve` on the client's real address
    (`DispatchServes`).
  - `Expire` maps to `FE!Expire`; `Connect` and `Close` are stutters.
  - The step proof uses `TypeCorrect`: the limiter's refusal step needs
    the counts to be numbers.

- **Why `TrustedDeployment` is needed** (`HttpRouterProofs`). These are
  results about the address operators, for every instance.
  - `XffAppendSpoof`: behind a proxy that appends to `X-Forwarded-For`,
    a client that sends `X-Forwarded-For: a` is served as `a`.
  - `ForwardedPassThroughSpoof`: behind a proxy that does not write
    `Forwarded`, the client's own `Forwarded: for=a` decides.
  - `ForwardedAppendSpoof`: behind a proxy that appends its node to
    `Forwarded`, the client's own `for=a` comes first.
  - `PortNodeSpoof`: behind a proxy that writes `for="a:port"`, the
    remote address is the client's first `X-Forwarded-For` entry, and
    without one the proxy's address.
  - `UntrustedDeployments` puts them together. Outside `TrustedDeployment`,
    one of two things holds. Either every client is seen at the proxy's
    address (`http_use_forwarded` off behind a proxy), or every client can
    be served as any address it names. So the hypothesis of the theorems
    above cannot be weakened.
  - The lemmas work through the parsers' selections. `MinIsLeast` gives
    `Min` of a set of indices. `ScanLead` and `ScanPortNode` cover the
    scan loop on `a,` and on `"a:port"`. `ForwardedLead`,
    `PortNodeUnread`, `XffLead`, `TrimLone`, `ForwardedEmpty` and
    `XffEmpty` cover the two header parsers.
  - The violation runs show the consequence on a small instance: a ban
    or a loopback pass that the trusted deployment rules out.

Left to TLC:
- The properties that need whole sets of keys or orders: `NoAliasing`,
  `DueScanOrder` and the round trips. `NoAliasing` rests on `serialize`
  being injective on the keys clients build, which would have to be shown
  class by class, over variable-length fields. The round trips
  need `FromBE(BE(v)) = v`, which is induction over the digits under an
  opaque `^`.
- The router's findings, as violation runs: what a spoofed address leads
  to in a run (a wrong ban, a loopback pass). The theorems above prove
  the spoofing itself for every instance.
- LEB128 agreement with the loop of the `utils` crate.
  - `MCKeyStore` checks `Leb128(v) = LebRef[v]` for every u64 of the
    instance.
  - A proof would need induction over data, which the installed provers
    cannot instantiate.
- Nothing in the key layer is scheduled, so there is no liveness and no
  fairness to assume. Liveness and `ENABLED` are beyond TLAPS in any case,
  and would be TLC's.

## 6. Not modelled, and the plan

- **JMAP HTTP router, the rest.** Not modelled:
  - the handlers behind each route;
  - response building and the custom headers;
  - `fetch_body`, a buffer loop over the body;
  - the error-to-status mapping (`to_request_error`);
  - hyper's connection errors. On those, `is_scanner_fail2banned` bans the
    TCP peer (http.rs 741), which behind a proxy is the proxy.

  None of these change shared state except the last. That one needs a
  model of malformed connections.
- **Abstract ordered-KV specification.** `KeyStore` will be shown to refine
  it, with the byte keys mapped to logical keys.
- **Further theorems.**
  - `HeaderRoundTrip`, which needs lemmas on `FromBE` of `BE`.
  - `DueScanOrder`, which needs lemmas on `LexLess` of `BE`.
- **Not modelled:**
  - the sieve plugin (a single outbound HTTP request);
  - the IMAP and JMAP type declarations;
  - the test harness.
