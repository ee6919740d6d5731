-------------------------- MODULE HttpRouterProofs --------------------------
(***************************************************************************)
(* Proofs about HttpRouter for every instance: in a trusted deployment the *)
(* remote address parse_http_request sees is the client's own, so the      *)
(* path-scan ban only blocks scanners and the loopback bypass of the       *)
(* endpoint rule only serves clients on the loopback; in every other       *)
(* deployment a client is served as the proxy or as an address it names.   *)
(***************************************************************************)
EXTENDS HttpRouter, SequenceTheorems, TLAPS

-----------------------------------------------------------------------------
(***************************************************************************)
(* The parser on the node a trusted proxy writes.                          *)
(***************************************************************************)

\* The scan of a value that is one lone address keeps that address.
LEMMA ScanLoneAddress ==
    ASSUME NEW a \in Addr, NEW s \in Seq(Addr), Len(s) = 1, s[1] = a
    PROVE  ParseIp(ScanSpan(s)) = a
<1>1. a \notin SkipClass /\ a \in ScanClass
  BY AddrAssumption DEF SkipClass, ScanClass
<1> DEFINE start == SelectInSeq(s, LAMBDA t : t \notin SkipClass)
<1> DEFINE stop  == SelectInSubSeq(s, start, Len(s), LAMBDA t : t \notin ScanClass)
<1>2. start = 1
  <2>1. {i \in 1..Len(s) : s[i] \notin SkipClass} = {1}
    BY <1>1
  <2>2. Min({1}) = 1
    BY DEF Min
  <2>. QED BY <2>1, <2>2 DEF SelectInSeq
<1>3. stop = 0
  <2>1. {i \in 1..Len(s) : s[i] \notin ScanClass} = {}
    BY <1>1
  <2>. QED BY <1>2, <2>1 DEF SelectInSubSeq
<1>4. ScanSpan(s) =
        IF start = 0 \/ (IF start = 0 THEN 0 ELSE IF stop = 0 THEN Len(s) ELSE stop - 1) < start
        THEN << >>
        ELSE SubSeq(s, start, IF start = 0 THEN 0 ELSE IF stop = 0 THEN Len(s) ELSE stop - 1)
  BY DEF ScanSpan
<1> HIDE DEF start, stop
<1>5. ScanSpan(s) = SubSeq(s, 1, 1)
  BY <1>2, <1>3, <1>4
<1>6. Len(SubSeq(s, 1, 1)) = 1 /\ SubSeq(s, 1, 1)[1] = a
  OBVIOUS
<1>. QED BY <1>5, <1>6 DEF ParseIp

\* Forwarded: for=a reads as a.
LEMMA ParseProxyNode ==
    ASSUME NEW a \in Addr
    PROVE  ParseForwarded(<< ForKey, a >>) = a
<1>1. a # ForKeyUpper /\ a # ForKey
  BY AddrAssumption
<1> DEFINE h == << ForKey, a >>
<1> DEFINE i == SelectInSeq(Lower(h), LAMBDA t : t = ForKey)
<1>2. Lower(h) = h
  BY <1>1 DEF Lower, ReplaceAll, ForKey, ForKeyUpper
<1>3. i = 1
  <2>1. {j \in 1..Len(h) : h[j] = ForKey} = {1}
    BY <1>1
  <2>2. Min({1}) = 1
    BY DEF Min
  <2>. QED BY <1>2, <2>1, <2>2 DEF SelectInSeq
<1>4. ParseForwarded(h) =
        IF i = 0 THEN None ELSE ParseIp(ScanSpan(SubSeq(Lower(h), i + 1, Len(Lower(h)))))
  BY DEF ParseForwarded
<1>5. Len(h) = 2
  BY DEF h
<1> HIDE DEF h, i
<1>6. ParseForwarded(h) = ParseIp(ScanSpan(SubSeq(h, 2, 2)))
  BY <1>2, <1>3, <1>4, <1>5
<1>7. /\ SubSeq(h, 2, 2) \in Seq(Addr)
      /\ Len(SubSeq(h, 2, 2)) = 1
      /\ SubSeq(h, 2, 2)[1] = a
  BY DEF h
<1>. QED BY <1>6, <1>7, ScanLoneAddress DEF h

\* Behind a proxy that overwrites Forwarded with for=a, the forwarded
\* address is the client's real address.
LEMMA ForwardedIsReal ==
    ASSUME NEW c \in Clients, NEW fwd, NEW xff,
           ProxyHeader = "forwarded", UseForwarded, ~ProxyAppends, ~ProxyPort
    PROVE  FwdIp(c, fwd, xff) = RealAddr[c]
<1>1. RealAddr[c] \in Addr
  BY RouterAssumption
<1>2. Received(c, fwd, xff).fwd = << ForKey, RealAddr[c] >>
  BY DEF Received, Rewrite, ProxyNode
<1>3. ParseForwarded(<< ForKey, RealAddr[c] >>) = RealAddr[c]
  BY <1>1, ParseProxyNode
<1>4. RealAddr[c] # None
  BY <1>1, AddrAssumption
<1>. QED BY <1>2, <1>3, <1>4 DEF FwdIp, ForwardedIp

\* In a trusted deployment the remote address of every request is the
\* real address of its client, whatever headers the client sends.
LEMMA RemoteIsReal ==
    ASSUME TrustedDeployment, NEW c \in Clients, NEW fwd, NEW xff
    PROVE  RemoteIp(c, fwd, xff) = RealAddr[c]
<1>1. CASE ProxyHeader = "none" /\ ~UseForwarded
  BY <1>1 DEF RemoteIp, FwdIp, Peer
<1>2. CASE ProxyHeader = "forwarded" /\ UseForwarded /\ ~ProxyAppends /\ ~ProxyPort
  <2>1. FwdIp(c, fwd, xff) = RealAddr[c]
    BY <1>2, ForwardedIsReal
  <2>2. RealAddr[c] # None
    BY RouterAssumption, AddrAssumption
  <2>. QED BY <2>1, <2>2 DEF RemoteIp
<1>. QED BY <1>1, <1>2 DEF TrustedDeployment, RewritingProxy

-----------------------------------------------------------------------------
(***************************************************************************)
(* What a dispatch does to the ban list and to the observed request.       *)
(***************************************************************************)

\* A dispatch leaves the ban list alone or bans its remote address while
\* recording its client as a scanner.
LEMMA DispatchBans ==
    ASSUME NEW c, NEW r, NEW remote, NEW cred, Dispatch(c, r, remote, cred)
    PROVE  \/ UNCHANGED <<blocked, scanners>>
           \/ /\ blocked' = blocked \cup {remote}
              /\ scanners' = scanners \cup {RealAddr[c]}
BY DEF Dispatch, Finish

\* A dispatch records its client and route, and records the request as
\* dispatched only when it passed the endpoint check.
LEMMA DispatchObserves ==
    ASSUME NEW c, NEW r, NEW remote, NEW cred, Dispatch(c, r, remote, cred)
    PROVE  /\ last'.client = c /\ last'.route = r
           /\ last'.reached => EndpointGate(remote, r)
BY DEF Dispatch, Observe

\* A dispatch leaves the limiter alone, or counts an anonymous request it
\* lets through below the limit against the remote address and the client.
LEMMA DispatchCounts ==
    ASSUME NEW c, NEW r, NEW remote, NEW cred, Dispatch(c, r, remote, cred)
    PROVE  \/ UNCHANGED <<anon, anonServed>>
           \/ /\ AnonAllowed(remote) /\ CountAnon(remote)
              /\ anonServed' = [anonServed EXCEPT ![c] = @ + 1]
BY DEF Dispatch

-----------------------------------------------------------------------------
(***************************************************************************)
(* The ban list.  BansJustified is inductive by itself in a trusted        *)
(* deployment: the only step that grows the ban list bans the remote      *)
(* address, which RemoteIsReal shows to be the real address of the client *)
(* it records as a scanner.                                                *)
(***************************************************************************)

\* Every step preserves BansJustified in a trusted deployment.
LEMMA NextBansJustified ==
    ASSUME TrustedDeployment
    PROVE  BansJustified /\ [Next]_vars => BansJustified'
<1>. SUFFICES ASSUME BansJustified, [Next]_vars PROVE BansJustified'
  OBVIOUS
<1>1. ASSUME NEW c \in Clients, NEW r, NEW fwd, NEW xff, NEW cred,
             Request(c, r, fwd, xff, cred)
      PROVE  BansJustified'
  <2>1. CASE UNCHANGED <<blocked, anon, anonServed, scanners>>
    BY <2>1 DEF BansJustified
  <2>2. CASE Dispatch(c, r, RemoteIp(c, fwd, xff), cred)
    <3>1. RemoteIp(c, fwd, xff) = RealAddr[c]
      BY RemoteIsReal
    <3>. QED BY <2>2, <3>1, DispatchBans DEF BansJustified
  <2>. QED BY <1>1, <2>1, <2>2 DEF Request
<1>2. CASE Expire
  BY <1>2 DEF Expire, BansJustified
<1>4. ASSUME NEW c \in Clients, Connect(c) \/ Close(c)
      PROVE  BansJustified'
  BY <1>4 DEF Connect, Close, BansJustified
<1>3. CASE UNCHANGED vars
  BY <1>3 DEF vars, BansJustified
<1>. QED BY <1>1, <1>2, <1>3, <1>4 DEF Next

\* The path-scan ban (is_http_banned_path on the remote address
\* handle_session resolved) only blocks scanners: in a trusted deployment,
\* for every instance, every blocked address was blocked from the start or
\* is the real address of a client that requested a banned path.
THEOREM BansJustifiedHolds == TrustedDeployment => (Spec => []BansJustified)
<1>. SUFFICES ASSUME TrustedDeployment PROVE Spec => []BansJustified
  OBVIOUS
<1>1. Init => BansJustified
  BY DEF Init, BansJustified
<1>2. BansJustified /\ [Next]_vars => BansJustified'
  BY NextBansJustified
<1>. QED BY <1>1, <1>2, PTL DEF Spec

-----------------------------------------------------------------------------
(***************************************************************************)
(* The loopback bypass.  EndpointAccessSound is inductive by itself in a   *)
(* trusted deployment: a step records a request as dispatched only when    *)
(* it passed EndpointGate on its remote address, which is the client's     *)
(* real address.                                                           *)
(***************************************************************************)

\* Every step preserves EndpointAccessSound in a trusted deployment.
LEMMA NextEndpointAccessSound ==
    ASSUME TrustedDeployment
    PROVE  EndpointAccessSound /\ [Next]_vars => EndpointAccessSound'
<1>. SUFFICES ASSUME EndpointAccessSound, [Next]_vars PROVE EndpointAccessSound'
  OBVIOUS
<1>1. ASSUME NEW c \in Clients, NEW r, NEW fwd, NEW xff, NEW cred,
             Request(c, r, fwd, xff, cred)
      PROVE  EndpointAccessSound'
  <2>1. CASE Observe(c, r, FALSE)
    BY <2>1 DEF Observe, EndpointAccessSound
  <2>2. CASE Dispatch(c, r, RemoteIp(c, fwd, xff), cred)
    <3>1. RemoteIp(c, fwd, xff) = RealAddr[c]
      BY RemoteIsReal
    <3>2. /\ last'.client = c /\ last'.route = r
          /\ last'.reached => EndpointGate(RealAddr[c], r)
      BY <2>2, <3>1, DispatchObserves
    <3>. QED BY <3>2 DEF EndpointGate, EndpointAccessSound
  <2>. QED BY <1>1, <2>1, <2>2 DEF Request
<1>2. CASE Expire
  BY <1>2 DEF Expire, EndpointAccessSound
<1>4. ASSUME NEW c \in Clients, Connect(c) \/ Close(c)
      PROVE  EndpointAccessSound'
  BY <1>4 DEF Connect, Close, EndpointAccessSound
<1>3. CASE UNCHANGED vars
  BY <1>3 DEF vars, EndpointAccessSound
<1>. QED BY <1>1, <1>2, <1>3, <1>4 DEF Next

\* The loopback exemption of the endpoint check (http.rs 97-101) serves
\* only clients on the loopback: in a trusted deployment, for every
\* instance, a request the http_allowed_endpoint rule refuses for its
\* client's real address is dispatched only when that address is a
\* loopback address.
THEOREM EndpointAccessSoundHolds == TrustedDeployment => (Spec => []EndpointAccessSound)
<1>. SUFFICES ASSUME TrustedDeployment PROVE Spec => []EndpointAccessSound
  OBVIOUS
<1>1. Init => EndpointAccessSound
  BY DEF Init, NoRequest, EndpointAccessSound
<1>2. EndpointAccessSound /\ [Next]_vars => EndpointAccessSound'
  BY NextEndpointAccessSound
<1>. QED BY <1>1, <1>2, PTL DEF Spec

-----------------------------------------------------------------------------
(***************************************************************************)
(* Type correctness, in every deployment.  The remote address is always    *)
(* an address: the parsers return an address or None, and None falls back *)
(* to the peer.  The limiter's count stays within 0..AnonLimit because     *)
(* is_http_anonymous_request_allowed only counts a request it lets         *)
(* through below the limit.                                                *)
(***************************************************************************)

\* parse::<IpAddr> gives an address or None.
LEMMA ParseIpType ==
    ASSUME NEW s
    PROVE  ParseIp(s) \in Addr \cup {None}
BY DEF ParseIp

\* The forwarded address is an address or None, whatever the headers.
LEMMA ForwardedIpType ==
    ASSUME NEW fwd, NEW xff
    PROVE  ForwardedIp(fwd, xff) \in Addr \cup {None}
<1>1. ParseForwarded(fwd) \in Addr \cup {None}
  <2> DEFINE l == Lower(fwd)
             i == SelectInSeq(l, LAMBDA t : t = ForKey)
             s == ScanSpan(SubSeq(l, i + 1, Len(l)))
  <2>1. ParseForwarded(fwd) = IF i = 0 THEN None ELSE ParseIp(s)
    BY DEF ParseForwarded
  <2>2. ParseIp(s) \in Addr \cup {None}
    BY ParseIpType
  <2> HIDE DEF l, i, s
  <2>. QED BY <2>1, <2>2
<1>2. ParseXff(xff) \in Addr \cup {None}
  <2> DEFINE c == SelectInSeq(xff, LAMBDA t : t = Comma)
             s == Trim(IF c = 0 THEN xff ELSE SubSeq(xff, 1, c - 1))
  <2>1. ParseXff(xff) = ParseIp(s)
    BY DEF ParseXff
  <2>2. ParseIp(s) \in Addr \cup {None}
    BY ParseIpType
  <2> HIDE DEF c, s
  <2>. QED BY <2>1, <2>2
<1>. QED BY <1>1, <1>2 DEF ForwardedIp

\* The remote address handle_session hands on is always an address.
LEMMA RemoteIpType ==
    ASSUME NEW c \in Clients, NEW fwd, NEW xff
    PROVE  /\ Peer(c) \in Addr
           /\ FwdIp(c, fwd, xff) \in Addr \cup {None}
           /\ RemoteIp(c, fwd, xff) \in Addr
<1>1. Peer(c) \in Addr
  BY RouterAssumption DEF Peer
<1>2. FwdIp(c, fwd, xff) \in Addr \cup {None}
  BY ForwardedIpType DEF FwdIp
<1>. QED BY <1>1, <1>2 DEF RemoteIp

\* A dispatch of a request of a client for a route, from an address,
\* preserves the type invariant.
LEMMA DispatchTypeOK ==
    ASSUME TypeOK, NEW c \in Clients, NEW r \in Routes, NEW remote \in Addr,
           NEW cred, Dispatch(c, r, remote, cred), UNCHANGED conn
    PROVE  TypeOK'
<1>1. last' \in [client : Clients, route : Routes, reached : BOOLEAN]
  <2>1. \E b \in BOOLEAN : last' = [client |-> c, route |-> r, reached |-> b]
    BY DEF Dispatch, Observe
  <2>. QED BY <2>1
<1>2. /\ blocked' \subseteq Addr
      /\ scanners' \subseteq Addr
  BY RouterAssumption, DispatchBans DEF TypeOK
<1>3. anon' \in [Addr -> 0..AnonLimit] /\ anonServed' \in [Clients -> Nat]
  <2>1. CASE UNCHANGED <<anon, anonServed>>
    BY <2>1 DEF TypeOK
  <2>2. CASE /\ AnonAllowed(remote) /\ CountAnon(remote)
             /\ anonServed' = [anonServed EXCEPT ![c] = @ + 1]
    BY <2>2, RouterAssumption DEF CountAnon, AnonAllowed, TypeOK
  <2>. QED BY <2>1, <2>2, DispatchCounts
<1>. QED BY <1>1, <1>2, <1>3 DEF TypeOK

\* Every step preserves the type invariant.
LEMMA NextTypeOK == TypeOK /\ [Next]_vars => TypeOK'
<1>. SUFFICES ASSUME TypeOK, [Next]_vars PROVE TypeOK'
  OBVIOUS
<1>1. ASSUME NEW c \in Clients, NEW r \in Routes, NEW fwd, NEW xff, NEW cred,
             Request(c, r, fwd, xff, cred)
      PROVE  TypeOK'
  <2>0. UNCHANGED conn
    BY <1>1 DEF Request
  <2>1. CASE /\ Observe(c, r, FALSE)
             /\ UNCHANGED <<blocked, anon, anonServed, scanners>>
    BY <2>0, <2>1 DEF Observe, TypeOK
  <2>2. CASE Dispatch(c, r, RemoteIp(c, fwd, xff), cred)
    BY <2>0, <2>2, RemoteIpType, DispatchTypeOK
  <2>. QED BY <1>1, <2>1, <2>2 DEF Request
<1>2. CASE Expire
  BY <1>2, RouterAssumption DEF Expire, TypeOK
<1>3. CASE UNCHANGED vars
  BY <1>3 DEF vars, TypeOK
<1>4. ASSUME NEW c \in Clients, Connect(c) \/ Close(c)
      PROVE  TypeOK'
  BY <1>4 DEF Connect, Close, TypeOK
<1>. QED BY <1>1, <1>2, <1>3, <1>4 DEF Next

\* Type correctness of the front end (TypeOK of the runs), in every
\* deployment and for every instance: the blocked set and the scanners are
\* addresses, and every address's anonymous count stays within 0..AnonLimit.
THEOREM TypeCorrect == Spec => []TypeOK
<1>1. Init => TypeOK
  BY RouterAssumption DEF Init, NoRequest, TypeOK
<1>2. TypeOK /\ [Next]_vars => TypeOK'
  BY NextTypeOK
<1>. QED BY <1>1, <1>2, PTL DEF Spec

-----------------------------------------------------------------------------
(***************************************************************************)
(* The anonymous rate limit.  AnonRateBound is not inductive: a step that  *)
(* lets a client's anonymous request through must know that the client's   *)
(* count is below the limit, which the limiter only knows of the address   *)
(* it keys by.  In a trusted deployment that address is the client's real  *)
(* address, and a client's served requests are among the requests counted *)
(* against it (other clients behind the same address count there too).     *)
(***************************************************************************)

\* Every client's anonymous requests let through this window are counted
\* against its real address.
AnonAccounted == \A c \in Clients : anonServed[c] <= anon[RealAddr[c]]

AnonInv == TypeOK /\ AnonAccounted

\* Every step preserves AnonInv in a trusted deployment.
LEMMA NextAnonInv ==
    ASSUME TrustedDeployment
    PROVE  AnonInv /\ [Next]_vars => AnonInv'
<1>. SUFFICES ASSUME AnonInv, [Next]_vars PROVE AnonAccounted'
  BY NextTypeOK DEF AnonInv
<1>. RealAddr \in [Clients -> Addr]
  BY RouterAssumption
<1>1. ASSUME NEW c \in Clients, NEW r, NEW fwd, NEW xff, NEW cred,
             Request(c, r, fwd, xff, cred)
      PROVE  AnonAccounted'
  <2>1. CASE UNCHANGED <<blocked, anon, anonServed, scanners>>
    BY <2>1 DEF AnonInv, AnonAccounted
  <2>2. CASE Dispatch(c, r, RemoteIp(c, fwd, xff), cred)
    <3>1. RemoteIp(c, fwd, xff) = RealAddr[c]
      BY RemoteIsReal
    <3>2. CASE UNCHANGED <<anon, anonServed>>
      BY <3>2 DEF AnonInv, AnonAccounted
    <3>3. CASE /\ anon' = [anon EXCEPT ![RealAddr[c]] = @ + 1]
               /\ anonServed' = [anonServed EXCEPT ![c] = @ + 1]
      BY <3>3 DEF AnonInv, AnonAccounted, TypeOK
    <3>. QED BY <2>2, <3>1, <3>2, <3>3, DispatchCounts DEF CountAnon
  <2>. QED BY <1>1, <2>1, <2>2 DEF Request
<1>2. CASE Expire
  BY <1>2 DEF Expire, AnonAccounted
<1>3. CASE UNCHANGED vars
  BY <1>3 DEF vars, AnonInv, AnonAccounted
<1>4. ASSUME NEW c \in Clients, Connect(c) \/ Close(c)
      PROVE  AnonAccounted'
  BY <1>4 DEF Connect, Close, AnonInv, AnonAccounted
<1>. QED BY <1>1, <1>2, <1>3, <1>4 DEF Next

\* The anonymous rate limit of is_http_anonymous_request_allowed holds per
\* client: in a trusted deployment, for every instance, no client gets more
\* than AnonLimit anonymous requests through in one window, whatever
\* headers it sends.
THEOREM AnonRateBoundHolds == TrustedDeployment => (Spec => []AnonRateBound)
<1>. SUFFICES ASSUME TrustedDeployment PROVE Spec => []AnonRateBound
  OBVIOUS
<1>1. Init => AnonInv
  BY RouterAssumption DEF Init, NoRequest, AnonInv, TypeOK, AnonAccounted
<1>2. AnonInv /\ [Next]_vars => AnonInv'
  BY NextAnonInv
<1>3. AnonInv => AnonRateBound
  BY RouterAssumption DEF AnonInv, TypeOK, AnonAccounted, AnonRateBound
<1>. QED BY <1>1, <1>2, <1>3, PTL DEF Spec

-----------------------------------------------------------------------------
(***************************************************************************)
(* The ban is enforced behind the rewriting proxy.  A step that dispatches *)
(* a request passed the is_ip_blocked check of handle_session on the       *)
(* forwarded address, which behind that proxy is the client's real         *)
(* address (ForwardedIsReal).  Opening and closing connections, and the    *)
(* end of a window, leave the observed request as it was.  Without a       *)
(* proxy there is no such check: the listener checks the peer only when a  *)
(* connection opens, and a client banned on an open keep-alive connection  *)
(* goes on being served (the run keepalive_ban).                           *)
(***************************************************************************)

\* Every step satisfies the action of BanEnforced behind the rewriting proxy.
LEMMA NextBanEnforced ==
    ASSUME RewritingProxy, [Next]_vars
    PROVE  last'.reached /\ last' # last => RealAddr[last'.client] \notin blocked
<1>1. ASSUME NEW c \in Clients, NEW r, NEW fwd, NEW xff, NEW cred,
             Request(c, r, fwd, xff, cred)
      PROVE  last'.reached => RealAddr[last'.client] \notin blocked
  <2>1. CASE Observe(c, r, FALSE)
    BY <2>1 DEF Observe
  <2>2. CASE /\ FwdIp(c, fwd, xff) \notin blocked
             /\ Dispatch(c, r, RemoteIp(c, fwd, xff), cred)
    <3>1. last'.client = c
      BY <2>2, DispatchObserves
    <3>2. FwdIp(c, fwd, xff) = RealAddr[c]
      BY ForwardedIsReal DEF RewritingProxy
    <3>. QED BY <2>2, <3>1, <3>2
  <2>. QED BY <1>1, <2>1, <2>2 DEF Request
<1>2. CASE Expire
  BY <1>2 DEF Expire
<1>3. CASE UNCHANGED vars
  BY <1>3 DEF vars
<1>4. ASSUME NEW c \in Clients, Connect(c) \/ Close(c)
      PROVE  last' = last
  BY <1>4 DEF Connect, Close
<1>. QED BY <1>1, <1>2, <1>3, <1>4 DEF Next

\* The path-scan ban is enforced (the action property BanEnforced of the
\* runs): behind a proxy that rewrites Forwarded with the client's address,
\* for every instance, once a client's real address is blocked none of its
\* requests reaches parse_http_request again, even on a connection opened
\* before the ban, whatever Forwarded and X-Forwarded-For values it sends.
THEOREM BanEnforcedHolds == RewritingProxy => (Spec => BanEnforced)
<1>. SUFFICES ASSUME RewritingProxy PROVE Spec => BanEnforced
  OBVIOUS
<1>1. [Next]_vars => [last'.reached /\ last' # last
                         => RealAddr[last'.client] \notin blocked]_vars
  BY NextBanEnforced
<1>. QED BY <1>1, PTL DEF Spec, BanEnforced

-----------------------------------------------------------------------------
(***************************************************************************)
(* Refinement.  Behind the rewriting proxy HttpRouter implements           *)
(* HttpFrontEnd under the identity mapping of the front end's variables    *)
(* (the open connections are HttpRouter's own): a refused request (by the  *)
(* forwarded-address check or by the endpoint rule) is FE!Refuse, a        *)
(* dispatched one is FE!Serve on the client's real address, Expire is      *)
(* FE!Expire, and opening or closing a connection is a stutter.  FE!Serve  *)
(* needs the client's address unblocked, which only the per-request check  *)
(* on the forwarded address gives; without a proxy the refinement fails    *)
(* with BanEnforced.  The step of FE!Serve that turns the client away at   *)
(* the limit needs anon to hold numbers, so the step proof rests on TypeOK.*)
(***************************************************************************)

\* A dispatch on the client's real address that passes the endpoint check
\* is a step of the front end's Serve.
LEMMA DispatchServes ==
    ASSUME TypeOK, NEW c \in Clients, NEW r \in Routes, NEW cred \in BOOLEAN,
           RealAddr[c] \notin blocked,
           EndpointGate(RealAddr[c], r),
           Dispatch(c, r, RealAddr[c], cred)
    PROVE  FE!Serve(c, r, cred)
<1> DEFINE a == RealAddr[c]
           p == RoutePlan(r)
<1>1. a \in Addr
  BY RouterAssumption
<1>2. /\ [q \in Routes |-> RoutePlan(q)][r] = p
      /\ (<<a, r>> \in {q \in Addr \X Routes : EndpointDenied(q[1], q[2])})
           <=> EndpointDenied(a, r)
  BY <1>1
<1>3. /\ last' = [client |-> c, route |-> r, reached |-> TRUE]
      /\ \/ /\ p.gate = "auth" /\ ~cred
            /\ UNCHANGED <<blocked, anon, anonServed, scanners>>
         \/ /\ p.gate = "anon" /\ ~AnonAllowed(a)
            /\ UNCHANGED <<blocked, anon, anonServed, scanners>>
         \/ /\ p.gate = "anon" /\ AnonAllowed(a)
            /\ CountAnon(a)
            /\ anonServed' = [anonServed EXCEPT ![c] = @ + 1]
            /\ Finish(c, r, a, p.end)
         \/ /\ p.gate = "none" \/ (p.gate = "auth" /\ cred)
            /\ UNCHANGED <<anon, anonServed>>
            /\ Finish(c, r, a, p.end)
  BY DEF Dispatch, Observe
<1>4. anon[a] \in Nat /\ AnonLimit \in Nat
  BY <1>1, RouterAssumption DEF TypeOK
<1>5. ~AnonAllowed(a) <=> anon[a] >= AnonLimit
  BY <1>4 DEF AnonAllowed
<1>6. \A e : Finish(c, r, a, e) <=> FE!Ban(c, r, e)
  BY DEF Finish, FE!Ban
<1>7. <<a, r>> \notin {q \in Addr \X Routes : EndpointDenied(q[1], q[2])}
        \/ a \in Loopback
  BY <1>2 DEF EndpointGate
<1>8. SUFFICES
        /\ a \notin blocked
        /\ <<a, r>> \notin {q \in Addr \X Routes : EndpointDenied(q[1], q[2])}
           \/ a \in Loopback
        /\ last' = [client |-> c, route |-> r, reached |-> TRUE]
        /\ \/ /\ p.gate = "auth" /\ ~cred
              /\ UNCHANGED <<blocked, anon, anonServed, scanners>>
           \/ /\ p.gate = "anon" /\ anon[a] >= AnonLimit
              /\ UNCHANGED <<blocked, anon, anonServed, scanners>>
           \/ /\ p.gate = "anon" /\ anon[a] < AnonLimit
              /\ anon' = [anon EXCEPT ![a] = @ + 1]
              /\ anonServed' = [anonServed EXCEPT ![c] = @ + 1]
              /\ FE!Ban(c, r, p.end)
           \/ /\ p.gate = "none" \/ (p.gate = "auth" /\ cred)
              /\ UNCHANGED <<anon, anonServed>>
              /\ FE!Ban(c, r, p.end)
  BY <1>2 DEF FE!Serve
<1>9. a \notin blocked
  OBVIOUS
<1> HIDE DEF a, p
<1>. QED BY <1>3, <1>5, <1>6, <1>7, <1>9 DEF AnonAllowed, CountAnon

\* Every step of HttpRouter is a step of HttpFrontEnd or leaves its
\* variables alone, behind the rewriting proxy.
LEMMA NextRefines ==
    ASSUME RewritingProxy, TypeOK, [Next]_vars
    PROVE  [FE!Next]_FE!vars
<1>0. TrustedDeployment
  BY DEF TrustedDeployment
<1>1. ASSUME NEW c \in Clients, NEW r \in Routes, NEW fwd, NEW xff,
             NEW cred \in BOOLEAN, Request(c, r, fwd, xff, cred)
      PROVE  FE!Next
  <2>1. CASE /\ Observe(c, r, FALSE)
             /\ UNCHANGED <<blocked, anon, anonServed, scanners>>
    BY <2>1 DEF FE!Next, FE!Refuse, Observe
  <2>2. CASE /\ FwdIp(c, fwd, xff) \notin blocked
             /\ Dispatch(c, r, RemoteIp(c, fwd, xff), cred)
    <3>1. RemoteIp(c, fwd, xff) = RealAddr[c]
      BY <1>0, RemoteIsReal
    <3>2. RealAddr[c] \notin blocked
      BY <2>2, ForwardedIsReal DEF RewritingProxy
    <3>3. CASE ~EndpointGate(RealAddr[c], r)
      <4>1. /\ last' = [client |-> c, route |-> r, reached |-> FALSE]
            /\ UNCHANGED <<blocked, anon, anonServed, scanners>>
        BY <2>2, <3>1, <3>3 DEF Dispatch, Observe
      <4>. QED BY <4>1 DEF FE!Next, FE!Refuse
    <3>4. CASE EndpointGate(RealAddr[c], r)
      <4>1. FE!Serve(c, r, cred)
        BY <2>2, <3>1, <3>2, <3>4, DispatchServes
      <4>. QED BY <4>1 DEF FE!Next
    <3>. QED BY <3>3, <3>4
  <2>. QED BY <1>1, <2>1, <2>2 DEF Request
<1>2. CASE Expire
  BY <1>2 DEF Expire, FE!Expire, FE!Next
<1>3. CASE UNCHANGED vars
  BY <1>3 DEF vars, FE!vars
<1>4. ASSUME NEW c \in Clients, Connect(c) \/ Close(c)
      PROVE  UNCHANGED FE!vars
  BY <1>4 DEF Connect, Close, FE!vars
<1>. QED BY <1>1, <1>2, <1>3, <1>4 DEF Next

\* The forwarded-address handling is transparent (the property
\* ImplementsFrontEnd of the runs): behind a proxy that rewrites Forwarded
\* with the client's address, for every instance, every behaviour of
\* handle_session and parse_http_request, over keep-alive connections and
\* whatever headers the clients send, is a behaviour of a front end that
\* sees each client at its own address and refuses it once it is blocked.
THEOREM RefinesFrontEnd == RewritingProxy => (Spec => ImplementsFrontEnd)
<1>. SUFFICES ASSUME RewritingProxy PROVE Spec => FE!Spec
  BY DEF ImplementsFrontEnd
<1>1. Init => FE!Init
  BY DEF Init, FE!Init, NoRequest, None
<1>2. TypeOK /\ [Next]_vars => [FE!Next]_FE!vars
  BY NextRefines
<1>. QED BY <1>1, <1>2, TypeCorrect, PTL DEF Spec, FE!Spec

-----------------------------------------------------------------------------
(***************************************************************************)
(* The untrusted deployments.  Outside TrustedDeployment the hypothesis of *)
(* the theorems above fails for a reason: in each of the other proxy       *)
(* set-ups some client chooses, by the headers it sends, the remote        *)
(* address the server acts on, for every instance and every address.       *)
(***************************************************************************)

\* Min (FiniteSetsExt) of a set of integers is its least element.
LEMMA MinIsLeast ==
    ASSUME NEW S \in SUBSET Int, NEW m \in S, \A y \in S : m =< y
    PROVE  Min(S) = m
<1>1. \A x \in S : (\A y \in S : x =< y) => x = m
  OBVIOUS
<1>. QED BY <1>1 DEF Min

\* text.trim() keeps a lone token that is not a space.
LEMMA TrimLone ==
    ASSUME NEW S, NEW s \in Seq(S), NEW a, a # Space, Len(s) = 1, s[1] = a
    PROVE  Len(Trim(s)) = 1 /\ Trim(s)[1] = a
<1> DEFINE fst == SelectInSeq(s, LAMBDA t : t # Space)
<1> DEFINE lst == SelectLastInSeq(s, LAMBDA t : t # Space)
<1>1. {i \in 1..Len(s) : s[i] # Space} = {1}
  OBVIOUS
<1>2. fst = 1
  <2>1. Min({1}) = 1
    BY DEF Min
  <2>. QED BY <1>1, <2>1 DEF SelectInSeq
<1>3. lst = 1
  <2>1. Max({1}) = 1
    BY DEF Max
  <2>. QED BY <1>1, <2>1 DEF SelectLastInSeq
<1>4. Trim(s) = IF fst = 0 THEN << >> ELSE SubSeq(s, fst, lst)
  BY DEF Trim
<1> HIDE DEF fst, lst
<1>. QED BY <1>2, <1>3, <1>4

\* The X-Forwarded-For header reads as its first entry: an address that is
\* the whole value or is followed by a comma.
LEMMA XffLead ==
    ASSUME NEW T, NEW h \in Seq(T), NEW a \in Addr, h[1] = a,
           Len(h) = 1 \/ (Len(h) >= 2 /\ h[2] = Comma)
    PROVE  ParseXff(h) = a
<1>1. a # Comma /\ a # Space /\ a # None
  BY AddrAssumption
<1>2. Len(h) \in Nat
  BY LenProperties, Zenon
<1> DEFINE cm == SelectInSeq(h, LAMBDA t : t = Comma)
<1> DEFINE u  == IF cm = 0 THEN h ELSE SubSeq(h, 1, cm - 1)
<1>3. ParseXff(h) = ParseIp(Trim(u))
  BY DEF ParseXff
<1>4. u \in Seq(T) /\ Len(u) = 1 /\ u[1] = a
  <2>1. CASE Len(h) = 1
    <3>1. {i \in 1..Len(h) : h[i] = Comma} = {}
      BY <1>1, <2>1
    <3>2. cm = 0
      BY <3>1 DEF SelectInSeq
    <3>. QED BY <2>1, <3>2
  <2>2. CASE Len(h) >= 2 /\ h[2] = Comma
    <3>1. /\ {i \in 1..Len(h) : h[i] = Comma} \subseteq Int
          /\ 2 \in {i \in 1..Len(h) : h[i] = Comma}
          /\ \A y \in {i \in 1..Len(h) : h[i] = Comma} : 2 =< y
      BY <1>1, <1>2, <2>2
    <3>2. Min({i \in 1..Len(h) : h[i] = Comma}) = 2
      BY <3>1, MinIsLeast
    <3>3. cm = 2
      BY <3>1, <3>2 DEF SelectInSeq
    <3> HIDE DEF cm
    <3>4. u = SubSeq(h, 1, 1)
      BY <3>3
    <3>5. SubSeq(h, 1, 1) \in Seq(T) /\ Len(SubSeq(h, 1, 1)) = 1 /\ SubSeq(h, 1, 1)[1] = a
      BY <1>2, <2>2
    <3>. QED BY <3>4, <3>5
  <2>. QED BY <2>1, <2>2
<1> HIDE DEF cm, u
<1>5. Len(Trim(u)) = 1 /\ Trim(u)[1] = a
  BY <1>1, <1>4, TrimLone
<1>. QED BY <1>3, <1>5 DEF ParseIp

\* A Forwarded header without a for= node gives no address.
LEMMA ForwardedEmpty == ParseForwarded(<< >>) = None
<1>1. Lower(<< >>) = << >>
  BY DEF Lower, ReplaceAll
<1>2. {j \in 1..Len(<< >>) : << >>[j] = ForKey} = {}
  OBVIOUS
<1>3. SelectInSeq(Lower(<< >>), LAMBDA t : t = ForKey) = 0
  BY <1>1, <1>2 DEF SelectInSeq
<1>. QED BY <1>3 DEF ParseForwarded

\* The scan of the node "a:port" in quotes, after for=, keeps the address,
\* the colon and the port: three tokens, which do not parse as an address.
\* Only the classes of the five tokens matter.
LEMMA ScanPortNode ==
    ASSUME NEW S, NEW r \in Seq(S), Len(r) = 5,
           r[1] \in SkipClass,
           \A k \in 2..4 : r[k] \notin SkipClass /\ r[k] \in ScanClass,
           r[5] \notin ScanClass
    PROVE  ParseIp(ScanSpan(r)) = None
<1> DEFINE start == SelectInSeq(r, LAMBDA t : t \notin SkipClass)
<1> DEFINE stop  == SelectInSubSeq(r, start, Len(r), LAMBDA t : t \notin ScanClass)
<1>1. start = 2
  <2>1. {i \in 1..Len(r) : r[i] \notin SkipClass} \subseteq Int
    OBVIOUS
  <2>2. 2 \in {i \in 1..Len(r) : r[i] \notin SkipClass}
    OBVIOUS
  <2>3. \A y \in {i \in 1..Len(r) : r[i] \notin SkipClass} : 2 =< y
    OBVIOUS
  <2>4. Min({i \in 1..Len(r) : r[i] \notin SkipClass}) = 2
    BY <2>1, <2>2, <2>3, MinIsLeast
  <2>. QED BY <2>2, <2>4 DEF SelectInSeq
<1>2. stop = 5
  <2>1. {i \in 2..Len(r) : r[i] \notin ScanClass} = {5}
    OBVIOUS
  <2>2. Min({5}) = 5
    BY DEF Min
  <2>. QED BY <1>1, <2>1, <2>2 DEF SelectInSubSeq
<1>3. ScanSpan(r) =
        IF start = 0 \/ (IF start = 0 THEN 0 ELSE IF stop = 0 THEN Len(r) ELSE stop - 1) < start
        THEN << >>
        ELSE SubSeq(r, start, IF start = 0 THEN 0 ELSE IF stop = 0 THEN Len(r) ELSE stop - 1)
  BY DEF ScanSpan
<1> HIDE DEF start, stop
<1>4. ScanSpan(r) = SubSeq(r, 2, 4)
  BY <1>1, <1>2, <1>3
<1>5. Len(SubSeq(r, 2, 4)) = 3
  OBVIOUS
<1>. QED BY <1>4, <1>5 DEF ParseIp

\* Forwarded: for="a:port" gives no address.
LEMMA PortNodeUnread ==
    ASSUME NEW a \in Addr
    PROVE  ParseForwarded(<< ForKey, Quote, a, Colon, PortDigits, Quote >>) = None
<1>1. /\ a \notin {ForKey, ForKeyUpper}
      /\ \A t \in {Quote, Colon, PortDigits} : t # ForKey /\ t # ForKeyUpper
  BY AddrAssumption DEF ForKey, ForKeyUpper, Quote, Colon, PortDigits
<1> DEFINE h == << ForKey, Quote, a, Colon, PortDigits, Quote >>
<1> DEFINE i == SelectInSeq(Lower(h), LAMBDA t : t = ForKey)
<1>2. Lower(h) = h
  BY <1>1 DEF Lower, ReplaceAll
<1>3. i = 1
  <2>1. {j \in 1..Len(h) : h[j] = ForKey} = {1}
    BY <1>1
  <2>2. Min({1}) = 1
    BY DEF Min
  <2>. QED BY <1>2, <2>1, <2>2 DEF SelectInSeq
<1>4. ParseForwarded(h) =
        IF i = 0 THEN None ELSE ParseIp(ScanSpan(SubSeq(Lower(h), i + 1, Len(Lower(h)))))
  BY DEF ParseForwarded
<1>5. Len(h) = 6
  OBVIOUS
<1> HIDE DEF h, i
<1>6. ParseForwarded(h) = ParseIp(ScanSpan(SubSeq(h, 2, 6)))
  BY <1>2, <1>3, <1>4, <1>5
<1>7. /\ Quote \in SkipClass /\ Quote \notin ScanClass
      /\ \A t \in {a, Colon, PortDigits} : t \notin SkipClass /\ t \in ScanClass
  BY AddrAssumption DEF SkipClass, ScanClass, Quote, LBracket, Space, Colon,
                        PortDigits
<1>8. /\ SubSeq(h, 2, 6) \in Seq({ForKey, Quote, a, Colon, PortDigits})
      /\ Len(SubSeq(h, 2, 6)) = 5
      /\ SubSeq(h, 2, 6)[1] = Quote
      /\ \A k \in 2..4 : SubSeq(h, 2, 6)[k] \in {a, Colon, PortDigits}
      /\ SubSeq(h, 2, 6)[5] = Quote
  BY DEF h
<1>9. /\ SubSeq(h, 2, 6)[1] \in SkipClass
      /\ \A k \in 2..4 : SubSeq(h, 2, 6)[k] \notin SkipClass /\ SubSeq(h, 2, 6)[k] \in ScanClass
      /\ SubSeq(h, 2, 6)[5] \notin ScanClass
  BY <1>7, <1>8, Zenon
<1>10. ParseForwarded(h) = None
  BY <1>6, <1>8, <1>9, ScanPortNode, Zenon
<1>. QED BY <1>10 DEF h

\* Behind a proxy that appends to X-Forwarded-For (http.rs 649), a client
\* that sends no Forwarded header and X-Forwarded-For: a is served as a,
\* whatever a is: the loopback bypass and the path-scan ban act on an
\* address of the client's choosing.
THEOREM XffAppendSpoof ==
    ASSUME ProxyHeader = "xff", ProxyAppends, UseForwarded,
           NEW c \in Clients, NEW a \in Addr
    PROVE  RemoteIp(c, << >>, << a >>) = a
<1>1. Received(c, << >>, << a >>).fwd = << >>
  BY DEF Received
<1> DEFINE x == << a >> \o << Comma, Space >> \o << RealAddr[c] >>
<1>2. Received(c, << >>, << a >>).xff = x
  BY DEF Received, Rewrite
<1>3. x \in Seq(Addr \cup {Comma, Space}) /\ Len(x) = 4 /\ x[1] = a /\ x[2] = Comma
  BY RouterAssumption
<1> HIDE DEF x
<1>4. ParseXff(x) = a
  BY <1>3, XffLead
<1>5. a # None
  BY AddrAssumption
<1>. QED BY <1>1, <1>2, <1>4, <1>5, ForwardedEmpty DEF RemoteIp, FwdIp, ForwardedIp

\* Behind a proxy that does not write Forwarded (http.rs 645), the
\* Forwarded: for=a a client sends is read before any X-Forwarded-For, so
\* the client is served as a.
THEOREM ForwardedPassThroughSpoof ==
    ASSUME ProxyHeader # "forwarded", UseForwarded,
           NEW c \in Clients, NEW a \in Addr, NEW xff
    PROVE  RemoteIp(c, << ForKey, a >>, xff) = a
<1>1. Received(c, << ForKey, a >>, xff).fwd = << ForKey, a >>
  BY DEF Received
<1>2. a # None
  BY AddrAssumption
<1>. QED BY <1>1, <1>2, ParseProxyNode DEF RemoteIp, FwdIp, ForwardedIp

\* An empty (or missing) X-Forwarded-For header gives no address.
LEMMA XffEmpty == ParseXff(<< >>) = None
<1>1. /\ {i \in 1..Len(<< >>) : << >>[i] = Comma} = {}
      /\ {i \in 1..Len(<< >>) : << >>[i] # Space} = {}
  OBVIOUS
<1>2. SelectInSeq(<< >>, LAMBDA t : t = Comma) = 0
  BY <1>1 DEF SelectInSeq
<1>3. SelectInSeq(<< >>, LAMBDA t : t # Space) = 0
  BY <1>1 DEF SelectInSeq
<1>4. Trim(<< >>) = << >>
  BY <1>3 DEF Trim
<1>5. ParseXff(<< >>) = ParseIp(Trim(<< >>))
  BY <1>2 DEF ParseXff
<1>. QED BY <1>4, <1>5 DEF ParseIp

\* Behind a proxy that writes the RFC 7239 node with its port (http.rs
\* 642), the proxy's node never parses, so the remote address is the first
\* entry of the X-Forwarded-For header the client sent, passed through
\* untouched, and without one the proxy's own address: either the client
\* picks its address or every client shares the proxy's.
THEOREM PortNodeSpoof ==
    ASSUME ProxyHeader = "forwarded", ProxyPort, ~ProxyAppends, UseForwarded,
           NEW c \in Clients, NEW fwd, NEW a \in Addr
    PROVE  /\ RemoteIp(c, fwd, << a >>) = a
           /\ RemoteIp(c, fwd, << >>) = ProxyAddr
<1>1. RealAddr[c] \in Addr
  BY RouterAssumption
<1>2. \A x : Received(c, fwd, x).fwd
               = << ForKey, Quote, RealAddr[c], Colon, PortDigits, Quote >>
  BY DEF Received, Rewrite, ProxyNode
<1>3. \A x : Received(c, fwd, x).xff = x
  BY DEF Received
<1>4. ParseForwarded(<< ForKey, Quote, RealAddr[c], Colon, PortDigits, Quote >>) = None
  BY <1>1, PortNodeUnread
<1>5. \A x : FwdIp(c, fwd, x) = ParseXff(x)
  BY <1>2, <1>3, <1>4 DEF FwdIp, ForwardedIp
<1>6. ParseXff(<< a >>) = a
  <2>1. << a >> \in Seq(Addr) /\ Len(<< a >>) = 1 /\ << a >>[1] = a
    OBVIOUS
  <2>. QED BY <2>1, XffLead
<1>7. a # None
  BY AddrAssumption
<1>8. Peer(c) = ProxyAddr
  BY DEF Peer
<1>. QED BY <1>5, <1>6, <1>7, <1>8, XffEmpty DEF RemoteIp

\* The scan of a value that starts with an address followed by a token
\* outside the scan class (a comma, a semicolon, a quote) keeps that
\* address alone.
LEMMA ScanLead ==
    ASSUME NEW S, NEW r \in Seq(S), NEW a \in Addr, Len(r) >= 2, r[1] = a,
           r[2] \notin ScanClass
    PROVE  ParseIp(ScanSpan(r)) = a
<1>1. a \notin SkipClass /\ a \in ScanClass /\ a # None
  BY AddrAssumption DEF SkipClass, ScanClass, Quote, LBracket, Space
<1>2. Len(r) \in Nat
  BY LenProperties, Zenon
<1> DEFINE start == SelectInSeq(r, LAMBDA t : t \notin SkipClass)
<1> DEFINE stop  == SelectInSubSeq(r, start, Len(r), LAMBDA t : t \notin ScanClass)
<1>3. start = 1
  <2>1. /\ {i \in 1..Len(r) : r[i] \notin SkipClass} \subseteq Int
        /\ 1 \in {i \in 1..Len(r) : r[i] \notin SkipClass}
        /\ \A y \in {i \in 1..Len(r) : r[i] \notin SkipClass} : 1 =< y
    BY <1>1, <1>2
  <2>2. Min({i \in 1..Len(r) : r[i] \notin SkipClass}) = 1
    BY <2>1, MinIsLeast
  <2>. QED BY <2>1, <2>2 DEF SelectInSeq
<1>4. stop = 2
  <2>1. /\ {i \in 1..Len(r) : r[i] \notin ScanClass} \subseteq Int
        /\ 2 \in {i \in 1..Len(r) : r[i] \notin ScanClass}
        /\ \A y \in {i \in 1..Len(r) : r[i] \notin ScanClass} : 2 =< y
    BY <1>1, <1>2
  <2>2. Min({i \in 1..Len(r) : r[i] \notin ScanClass}) = 2
    BY <2>1, MinIsLeast
  <2>. QED BY <1>3, <2>1, <2>2 DEF SelectInSubSeq
<1>5. ScanSpan(r) =
        IF start = 0 \/ (IF start = 0 THEN 0 ELSE IF stop = 0 THEN Len(r) ELSE stop - 1) < start
        THEN << >>
        ELSE SubSeq(r, start, IF start = 0 THEN 0 ELSE IF stop = 0 THEN Len(r) ELSE stop - 1)
  BY DEF ScanSpan
<1> HIDE DEF start, stop
<1>6. ScanSpan(r) = SubSeq(r, 1, 1)
  BY <1>3, <1>4, <1>5
<1>7. Len(SubSeq(r, 1, 1)) = 1 /\ SubSeq(r, 1, 1)[1] = a
  BY <1>2
<1>. QED BY <1>1, <1>6, <1>7 DEF ParseIp

\* A Forwarded value whose first element is for=a followed by a comma
\* reads as a, whatever follows.
LEMMA ForwardedLead ==
    ASSUME NEW S, NEW h \in Seq(S), NEW a \in Addr, Len(h) >= 3,
           h[1] = ForKey, h[2] = a, h[3] = Comma
    PROVE  ParseForwarded(h) = a
<1>1. /\ a # ForKeyUpper /\ ForKey # ForKeyUpper /\ Comma # ForKeyUpper
      /\ Comma \notin ScanClass
  BY AddrAssumption DEF ForKey, ForKeyUpper, Comma, ScanClass, Colon, PortDigits
<1>2. Len(h) \in Nat
  BY LenProperties, Zenon
<1> DEFINE l == Lower(h)
<1> DEFINE i == SelectInSeq(l, LAMBDA t : t = ForKey)
<1>3. /\ l \in Seq(S \cup {ForKey}) /\ Len(l) = Len(h)
      /\ l[1] = ForKey /\ l[2] = a /\ l[3] = Comma
  BY <1>1, <1>2 DEF Lower, ReplaceAll
<1>4. i = 1
  <2>1. /\ {j \in 1..Len(l) : l[j] = ForKey} \subseteq Int
        /\ 1 \in {j \in 1..Len(l) : l[j] = ForKey}
        /\ \A y \in {j \in 1..Len(l) : l[j] = ForKey} : 1 =< y
    BY <1>2, <1>3
  <2>2. Min({j \in 1..Len(l) : l[j] = ForKey}) = 1
    BY <2>1, MinIsLeast
  <2>. QED BY <2>1, <2>2 DEF SelectInSeq
<1>5. ParseForwarded(h) =
        IF i = 0 THEN None ELSE ParseIp(ScanSpan(SubSeq(l, i + 1, Len(l))))
  BY DEF ParseForwarded
<1> HIDE DEF l, i
<1>6. ParseForwarded(h) = ParseIp(ScanSpan(SubSeq(l, 2, Len(l))))
  BY <1>4, <1>5
<1>7. /\ SubSeq(l, 2, Len(l)) \in Seq(S \cup {ForKey})
      /\ Len(SubSeq(l, 2, Len(l))) >= 2
      /\ SubSeq(l, 2, Len(l))[1] = a
      /\ SubSeq(l, 2, Len(l))[2] = Comma
  BY <1>2, <1>3
<1>8. ParseIp(ScanSpan(SubSeq(l, 2, Len(l)))) = a
  BY <1>1, <1>7, ScanLead
<1>. QED BY <1>6, <1>8

\* Behind a proxy that appends its node to the Forwarded header the client
\* sent, the client's own for=a comes first and is the one read.
THEOREM ForwardedAppendSpoof ==
    ASSUME ProxyHeader = "forwarded", ProxyAppends, UseForwarded,
           NEW c \in Clients, NEW a \in Addr, NEW xff
    PROVE  RemoteIp(c, << ForKey, a >>, xff) = a
<1> DEFINE S == Addr \cup {ForKey, Quote, Colon, PortDigits, Comma, Space}
<1> DEFINE h == << ForKey, a >> \o << Comma, Space >> \o ProxyNode(RealAddr[c])
<1>1. ProxyNode(RealAddr[c]) \in Seq(S)
  <2>1. RealAddr[c] \in S
    BY RouterAssumption
  <2>2. << ForKey, Quote, RealAddr[c], Colon, PortDigits, Quote >> \in Seq(S)
    BY <2>1
  <2>3. << ForKey, RealAddr[c] >> \in Seq(S)
    BY <2>1
  <2>. QED BY <2>2, <2>3 DEF ProxyNode
<1>2. Received(c, << ForKey, a >>, xff).fwd = h
  BY DEF Received, Rewrite
<1>3. h \in Seq(S) /\ Len(h) >= 3 /\ h[1] = ForKey /\ h[2] = a /\ h[3] = Comma
  BY <1>1
<1> HIDE DEF S, h
<1>4. ParseForwarded(h) = a
  BY <1>3, ForwardedLead
<1>5. a # None
  BY AddrAssumption
<1>. QED BY <1>2, <1>4, <1>5 DEF RemoteIp, FwdIp, ForwardedIp

\* TrustedDeployment is not only sufficient for the theorems above but
\* needed: in every other deployment the server does not see clients at
\* their own addresses.  Without http_use_forwarded behind a proxy every
\* client is the proxy's address (one shared rate limit, one ban for all);
\* with it, outside the trusted proxy set-up, every client can be served
\* as any address it names in the headers it sends.
THEOREM UntrustedDeployments ==
    ~TrustedDeployment =>
        \/ \A c \in Clients : \A fwd, xff : RemoteIp(c, fwd, xff) = ProxyAddr
        \/ \A c \in Clients, a \in Addr : \E fwd, xff : RemoteIp(c, fwd, xff) = a
<1>. SUFFICES ASSUME ~TrustedDeployment
              PROVE  \/ \A c \in Clients : \A fwd, xff : RemoteIp(c, fwd, xff) = ProxyAddr
                     \/ \A c \in Clients, a \in Addr : \E fwd, xff : RemoteIp(c, fwd, xff) = a
  OBVIOUS
<1>1. CASE ~UseForwarded
  <2>1. ProxyHeader # "none"
    BY <1>1 DEF TrustedDeployment
  <2>2. \A c \in Clients : \A fwd, xff : RemoteIp(c, fwd, xff) = ProxyAddr
    BY <1>1, <2>1 DEF RemoteIp, FwdIp, Peer
  <2>. QED BY <2>2
<1>2. CASE UseForwarded
  <2>. SUFFICES ASSUME NEW c \in Clients, NEW a \in Addr
                PROVE  \E fwd, xff : RemoteIp(c, fwd, xff) = a
    OBVIOUS
  <2>1. CASE ProxyHeader # "forwarded"
    <3>1. RemoteIp(c, << ForKey, a >>, << >>) = a
      BY <1>2, <2>1, ForwardedPassThroughSpoof
    <3>. QED BY <3>1
  <2>2. CASE ProxyHeader = "forwarded" /\ ProxyAppends
    <3>1. RemoteIp(c, << ForKey, a >>, << >>) = a
      BY <1>2, <2>2, ForwardedAppendSpoof
    <3>. QED BY <3>1
  <2>3. CASE ProxyHeader = "forwarded" /\ ~ProxyAppends
    <3>1. ProxyPort
      BY <1>2, <2>3, RouterAssumption DEF TrustedDeployment, RewritingProxy
    <3>2. RemoteIp(c, << >>, << a >>) = a
      BY <1>2, <2>3, <3>1, PortNodeSpoof
    <3>. QED BY <3>2
  <2>. QED BY <2>1, <2>2, <2>3
<1>. QED BY <1>1, <1>2

=============================================================================
