----------------------------- MODULE HttpRouter -----------------------------
(***************************************************************************)
(* The JMAP HTTP front end (crates/jmap/src/api/http.rs): handle_session   *)
(* resolves the remote address of each request, and parse_http_request    *)
(* checks the endpoint access rule, then routes the request.  The state    *)
(* the requests share is the server's: the set of blocked addresses        *)
(* (is_ip_blocked, filled by the path-scan ban is_http_banned_path) and    *)
(* the anonymous-request rate limiter (is_http_anonymous_request_allowed). *)
(*                                                                         *)
(* Clients reach the server directly or through one reverse proxy.  The    *)
(* proxy is the deployment, not the code: it sets one header to the        *)
(* client's address, either replacing what the client sent or appending   *)
(* to it, and passes every other header through.  A client may send any  *)
(* Forwarded and X-Forwarded-For value of the instance.                    *)
(***************************************************************************)
EXTENDS Integers, Sequences, FiniteSets, ForwardedFor

CONSTANTS
    Clients,          \* the actors sending requests
    RealAddr,         \* RealAddr[c]: the address client c really has
    Users,            \* the clients holding valid credentials
    Routes,           \* the requests of the instance: [top, sub, method, args]
    BannedRoutes,     \* the paths is_http_banned_path bans for
    DeniedEndpoints,  \* pairs <<address, top segment>> http_allowed_endpoint refuses
    AnonLimit,        \* anonymous requests per address and window
    BlockedInit,      \* addresses blocked at start
    UseForwarded,     \* server.core.jmap.http_use_forwarded
    HasAcme,          \* has_acme_http_providers()
    HasForm,          \* core.network.contact_form is set
    Prometheus,       \* core.metrics.prometheus: "off", "open" or "auth"
    Enterprise,       \* is_enterprise_edition()
    HasLogo,          \* logo_resource finds a logo for the request's host
    WebadminPaths,    \* the paths <<top, sub>> the web-admin bundle has a resource for
    ProxyHeader,      \* the header the proxy sets: "none" (no proxy), "forwarded", "xff"
    ProxyAppends,     \* the proxy appends its node to the client's header
    ProxyPort,        \* the proxy writes the client's port after its IPv4 address
    ProxyAddr,        \* the proxy's own address
    ClientForwarded,  \* Forwarded values a client may send (<< >>: no header)
    ClientXff         \* X-Forwarded-For values a client may send

ASSUME RouterAssumption ==
    /\ RealAddr \in [Clients -> Addr]
    /\ Users \subseteq Clients
    /\ BannedRoutes \subseteq Routes
    /\ AnonLimit \in Nat \ {0}
    /\ BlockedInit \subseteq Addr
    /\ UseForwarded \in BOOLEAN
    /\ ProxyHeader \in {"none", "forwarded", "xff"}
    /\ ProxyAppends \in BOOLEAN /\ ProxyPort \in BOOLEAN
    /\ ProxyAddr \in Addr

VARIABLES
    blocked,     \* the addresses is_ip_blocked refuses
    anon,        \* anon[a]: anonymous requests counted for address a this window
    anonServed,  \* anonServed[c]: client c's anonymous requests let through this window
    scanners,    \* the real addresses of clients that requested a banned path
    last,        \* the last request: its client, route, and whether it was dispatched
    conn         \* the clients with an open keep-alive connection (handle_session)

vars == <<blocked, anon, anonServed, scanners, last, conn>>

NoRequest == [client |-> None, route |-> None, reached |-> FALSE]

-----------------------------------------------------------------------------
(***************************************************************************)
(* What the server receives.                                               *)
(***************************************************************************)

\* The TCP peer of the connection (SessionData.remote_ip).
Peer(c) == IF ProxyHeader = "none" THEN RealAddr[c] ELSE ProxyAddr

\* The node the proxy writes for a client: for=a, or for="a:port".
ProxyNode(a) ==
    IF ProxyPort THEN << ForKey, Quote, a, Colon, PortDigits, Quote >>
    ELSE << ForKey, a >>

\* The value of the header the proxy sets, given what the client sent.
Rewrite(sent, node) ==
    IF ProxyAppends /\ sent # << >> THEN sent \o << Comma, Space >> \o node
    ELSE node

\* The Forwarded and X-Forwarded-For values the server sees.
Received(c, fwd, xff) ==
    [fwd |-> IF ProxyHeader = "forwarded"
             THEN Rewrite(fwd, ProxyNode(RealAddr[c])) ELSE fwd,
     xff |-> IF ProxyHeader = "xff"
             THEN Rewrite(xff, << RealAddr[c] >>) ELSE xff]

\* The forwarded address handle_session reads (None when
\* http_use_forwarded is off or no header gives one).
FwdIp(c, fwd, xff) ==
    IF UseForwarded
    THEN ForwardedIp(Received(c, fwd, xff).fwd, Received(c, fwd, xff).xff)
    ELSE None

\* The remote address handle_session hands to parse_http_request.
RemoteIp(c, fwd, xff) ==
    IF FwdIp(c, fwd, xff) # None THEN FwdIp(c, fwd, xff) ELSE Peer(c)

-----------------------------------------------------------------------------
(***************************************************************************)
(* The route table of parse_http_request.  RoutePlan(r) says which gate    *)
(* the code applies to request r ("auth": authenticate_headers, "anon":    *)
(* is_http_anonymous_request_allowed, "none") and how the request ends     *)
(* once through it: "handled" by a handler, "nocontent" (a CORS            *)
(* preflight), or "fall" through to the banned-path check and NotFound.    *)
(* r.args says whether the remaining path segments are the ones the arm   *)
(* expects (a blob id, an account id, "mail/config-v1.1.xml", ...).         *)
(***************************************************************************)

Plan(g, e) == [gate |-> g, end |-> e]

\* /jmap/...
JmapPlan(r) ==
    CASE r.sub = "" /\ r.method = "POST" -> Plan("auth", "handled")
      [] \/ r.sub = "download" /\ r.method = "GET"
         \/ r.sub = "upload" /\ r.method = "POST"
            -> Plan("auth", IF r.args THEN "handled" ELSE "fall")
      [] r.sub \in {"eventsource", "ws"} /\ r.method = "GET"
            -> Plan("auth", "handled")
      [] r.method = "OPTIONS" -> Plan("none", "nocontent")
      [] OTHER -> Plan("none", "fall")

\* /.well-known/...
WellKnownPlan(r) ==
    CASE r.method = "GET" /\ r.sub = "jmap" -> Plan("auth", "handled")
      [] r.method = "GET" /\ r.sub \in {"oauth-authorization-server",
                   "openid-configuration", "mta-sts.txt", "mail-v1.xml"}
            -> Plan("anon", "handled")
      [] r.method = "GET" /\ r.sub = "acme-challenge" /\ HasAcme
            -> Plan("none", IF r.args THEN "handled" ELSE "fall")
      [] r.method = "GET" /\ r.sub = "autoconfig"
            -> IF r.args THEN Plan("anon", "handled") ELSE Plan("none", "fall")
      [] r.method = "OPTIONS" -> Plan("none", "nocontent")
      [] OTHER -> Plan("none", "fall")

\* /auth/...
AuthPlan(r) ==
    CASE r.method = "POST" /\ r.sub \in {"device", "token"} -> Plan("anon", "handled")
      [] r.method = "POST" /\ r.sub = "introspect" -> Plan("auth", "handled")
      [] r.method = "GET" /\ r.sub = "userinfo" -> Plan("auth", "handled")
      [] r.method = "POST" /\ r.sub = "register" -> Plan("none", "handled")
      [] r.method = "GET" /\ r.sub = "jwks.json" -> Plan("anon", "handled")
      [] r.method = "OPTIONS" -> Plan("none", "nocontent")
      [] OTHER -> Plan("none", "fall")

\* /api/...: a preflight, or the management API for an authenticated
\* caller; a troubleshooting or telemetry token in the query is the
\* credential of the fallback at http.rs 356-413.
ApiPlan(r) ==
    IF r.method = "OPTIONS" THEN Plan("none", "nocontent") ELSE Plan("auth", "handled")

\* The other top-level segments.
OtherPlan(r) ==
    CASE r.top = "mail" -> IF r.method = "GET" /\ r.args
                           THEN Plan("anon", "handled") ELSE Plan("none", "fall")
      [] r.top = "autodiscover" -> IF r.method = "POST" /\ r.args
                                   THEN Plan("anon", "handled") ELSE Plan("none", "fall")
      [] r.top = "robots.txt" -> Plan("anon", "handled")
      [] r.top = "healthz" -> Plan("anon", IF r.sub \in {"live", "ready"}
                                          THEN "handled" ELSE "fall")
      [] r.top = "metrics" -> IF r.sub = "prometheus" /\ Prometheus # "off"
                              THEN Plan(IF Prometheus = "auth" THEN "auth" ELSE "none", "handled")
                              ELSE Plan("none", "fall")
      [] r.top = "logo.svg" /\ Enterprise ->
            Plan("none", IF HasLogo \/ <<"logo.svg", "">> \in WebadminPaths
                         THEN "handled" ELSE "fall")
      [] r.top = "form" /\ HasForm /\ r.method = "POST" -> Plan("anon", "handled")
      [] r.top = "form" /\ HasForm /\ r.method = "OPTIONS" -> Plan("none", "nocontent")
      [] r.top \in {"mail", "autodiscover", "robots.txt", "healthz", "metrics", "form"}
            -> Plan("none", "fall")
      [] OTHER -> Plan("none", IF <<r.top, r.sub>> \in WebadminPaths
                               THEN "handled" ELSE "fall")

RoutePlan(r) ==
    CASE r.top = "jmap" -> JmapPlan(r)
      [] r.top = ".well-known" -> WellKnownPlan(r)
      [] r.top = "auth" -> AuthPlan(r)
      [] r.top = "api" -> ApiPlan(r)
      [] OTHER -> OtherPlan(r)

\* has_endpoint_access: the http_allowed_endpoint rule refuses the request.
EndpointDenied(remote, r) == <<remote, r.top>> \in DeniedEndpoints

\* Mutant: the loopback test without its negation.
EndpointGate_LoopbackInverted(remote, r) ==
    ~EndpointDenied(remote, r) \/ remote \notin Loopback

\* The endpoint check of parse_http_request: a refused request goes on
\* only from a loopback address ("Allow loopback address to avoid
\* lockouts").
EndpointGate(remote, r) == ~EndpointDenied(remote, r) \/ remote \in Loopback

\* Mutant: the window's limit compared with <= instead of <.
AnonAllowed_OffByOne(remote) == anon[remote] <= AnonLimit

\* is_http_anonymous_request_allowed: the remote address has requests
\* left in this window.
AnonAllowed(remote) == anon[remote] < AnonLimit

\* Mutant: the limiter asked without counting the request.
CountAnon_Missing(remote) == anon' = anon

\* is_http_anonymous_request_allowed counts an allowed request against
\* the remote address.
CountAnon(remote) == anon' = [anon EXCEPT ![remote] = @ + 1]

-----------------------------------------------------------------------------

Init ==
    /\ blocked = BlockedInit
    /\ anon = [a \in Addr |-> 0]
    /\ anonServed = [c \in Clients |-> 0]
    /\ scanners = {}
    /\ last = NoRequest
    /\ conn = {}

Observe(c, r, reached) == last' = [client |-> c, route |-> r, reached |-> reached]

\* Mutant: the ban applied to the connection's peer, as handle_session's
\* error path does with session.remote_ip.
Finish_BanPeer(c, r, remote, end) ==
    IF end = "fall" /\ r \in BannedRoutes
    THEN /\ blocked' = blocked \cup {Peer(c)}
         /\ scanners' = scanners \cup {RealAddr[c]}
    ELSE UNCHANGED <<blocked, scanners>>

\* Mutant: is_http_banned_path answering for every path.
Finish_AnyPath(c, r, remote, end) ==
    IF end = "fall"
    THEN /\ blocked' = blocked \cup {remote}
         /\ scanners' = scanners \cup {RealAddr[c]}
    ELSE UNCHANGED <<blocked, scanners>>

\* The end of the dispatch: a request that falls through is checked
\* against the banned paths (is_http_banned_path bans its remote
\* address), then answered NotFound.
Finish(c, r, remote, end) ==
    IF end = "fall" /\ r \in BannedRoutes
    THEN /\ blocked' = blocked \cup {remote}
         /\ scanners' = scanners \cup {RealAddr[c]}
    ELSE UNCHANGED <<blocked, scanners>>

\* parse_http_request for a request of client c whose remote address
\* resolved to remote, carrying valid credentials when cred.
Dispatch(c, r, remote, cred) ==
    LET p == RoutePlan(r) IN
    \/ /\ ~EndpointGate(remote, r)
       /\ Observe(c, r, FALSE)
       /\ UNCHANGED <<blocked, anon, anonServed, scanners>>
    \/ /\ EndpointGate(remote, r)
       /\ Observe(c, r, TRUE)
       /\ \/ /\ p.gate = "auth" /\ ~cred
             /\ UNCHANGED <<blocked, anon, anonServed, scanners>>
          \/ /\ p.gate = "anon" /\ ~AnonAllowed(remote)
             /\ UNCHANGED <<blocked, anon, anonServed, scanners>>
          \/ /\ p.gate = "anon" /\ AnonAllowed(remote)
             /\ CountAnon(remote)
             /\ anonServed' = [anonServed EXCEPT ![c] = @ + 1]
             /\ Finish(c, r, remote, p.end)
          \/ /\ p.gate = "none" \/ (p.gate = "auth" /\ cred)
             /\ UNCHANGED <<anon, anonServed>>
             /\ Finish(c, r, remote, p.end)

\* A client opens a connection.  The listener refuses a peer that is
\* blocked when it accepts the connection; handle_session then serves
\* every request of the connection (keep_alive(true), http.rs 596-598)
\* without asking about the peer again.
Connect(c) ==
    /\ c \notin conn
    /\ Peer(c) \notin blocked
    /\ conn' = conn \cup {c}
    /\ UNCHANGED <<blocked, anon, anonServed, scanners, last>>

\* The client or the server closes the connection (serve_connection
\* returns).
Close(c) ==
    /\ c \in conn
    /\ conn' = conn \ {c}
    /\ UNCHANGED <<blocked, anon, anonServed, scanners, last>>

\* Mutant: the forwarded address dispatched without the is_ip_blocked
\* check of handle_session.
Request_NoForwardedBlockCheck(c, r, fwd, xff, cred) ==
    /\ c \in conn
    /\ Dispatch(c, r, RemoteIp(c, fwd, xff), cred)
    /\ UNCHANGED conn

\* A request of client c on its open connection, sent with the headers fwd
\* and xff, for route r.  The session resolves the remote address; a
\* forwarded address that is blocked is refused with 403 (http.rs 654),
\* and otherwise the request is dispatched.  Without a forwarded address
\* nothing is checked per request.
Request(c, r, fwd, xff, cred) ==
    /\ c \in conn
    /\ \/ /\ FwdIp(c, fwd, xff) \in blocked
          /\ Observe(c, r, FALSE)
          /\ UNCHANGED <<blocked, anon, anonServed, scanners>>
       \/ /\ FwdIp(c, fwd, xff) \notin blocked
          /\ Dispatch(c, r, RemoteIp(c, fwd, xff), cred)
    /\ UNCHANGED conn

\* The rate limiter's window ends: every address starts a new count.
Expire ==
    /\ \E a \in Addr : anon[a] # 0
    /\ anon' = [a \in Addr |-> 0]
    /\ anonServed' = [c \in Clients |-> 0]
    /\ UNCHANGED <<blocked, scanners, last, conn>>

Next ==
    \/ \E c \in Clients, r \in Routes, fwd \in ClientForwarded, xff \in ClientXff :
          \E cred \in IF c \in Users THEN BOOLEAN ELSE {FALSE} :
             Request(c, r, fwd, xff, cred)
    \/ \E c \in Clients : Connect(c) \/ Close(c)
    \/ Expire

Spec == Init /\ [][Next]_vars

-----------------------------------------------------------------------------

TypeOK ==
    /\ blocked \subseteq Addr
    /\ anon \in [Addr -> 0..AnonLimit]
    /\ anonServed \in [Clients -> Nat]
    /\ scanners \subseteq Addr
    /\ last \in [client : Clients, route : Routes, reached : BOOLEAN] \cup {NoRequest}
    /\ conn \subseteq Clients

\* The loopback bypass of the endpoint rule (http.rs 97-101, "Allow
\* loopback address to avoid lockouts") serves only clients really on
\* the loopback: a request the rule refuses for its client's real address
\* is dispatched only when that address is a loopback address.
EndpointAccessSound ==
    last.reached /\ EndpointDenied(RealAddr[last.client], last.route)
        => RealAddr[last.client] \in Loopback

\* The anonymous rate limit holds per client: within a window no client
\* gets more anonymous requests through than AnonLimit, whatever headers
\* it sends.
AnonRateBound == \A c \in Clients : anonServed[c] <= AnonLimit

\* http_use_forwarded on behind a proxy that replaces the Forwarded header
\* with the client's bare address: the deployment in which handle_session
\* checks each request's own client against the blocked addresses.
RewritingProxy ==
    /\ ProxyHeader = "forwarded" /\ UseForwarded
    /\ ~ProxyAppends /\ ~ProxyPort

\* The deployments in which the remote address is the client's own: no
\* proxy with http_use_forwarded off, or the rewriting proxy.
TrustedDeployment ==
    \/ ProxyHeader = "none" /\ ~UseForwarded
    \/ RewritingProxy

\* The path-scan ban only hits scanners: every blocked address was blocked
\* from the start or is the real address of a client that requested a
\* banned path.
BansJustified == blocked \subseteq BlockedInit \cup scanners

\* The front end this one promises to be (HttpFrontEnd): the route table
\* and the endpoint rule are its constants, and it sees every client at its
\* real address.
FE == INSTANCE HttpFrontEnd
        WITH Table <- [r \in Routes |-> RoutePlan(r)],
             Denied <- {p \in Addr \X Routes : EndpointDenied(p[1], p[2])}

\* The forwarded-address handling is transparent: every behaviour of the
\* front end behind its proxy, with whatever headers the clients send, is
\* a behaviour of a server that sees each client at its own address
\* (blocked clients refused, the endpoint rule, the rate limit and the
\* path-scan ban all applied to the real address).
ImplementsFrontEnd == FE!Spec

\* The ban is enforced: once a client's real address is blocked, no
\* request of that client reaches parse_http_request again, whatever
\* Forwarded and X-Forwarded-For values it sends, even on a connection it
\* opened before the ban (is_ip_blocked in handle_session, http.rs 654;
\* the listener checks the peer only when a connection opens).  A step
\* that records a newly dispatched request finds its client's real
\* address unblocked.
BanEnforced ==
    [][last'.reached /\ last' # last => RealAddr[last'.client] \notin blocked]_vars

=============================================================================
