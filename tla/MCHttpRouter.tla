---------------------------- MODULE MCHttpRouter ----------------------------
(***************************************************************************)
(* An instance of HttpRouter: an attacker, a user and an administrator on  *)
(* the loopback, behind a proxy or not, with the routes that exercise each *)
(* gate of the route table, a banned path and a plain NotFound.            *)
(***************************************************************************)
EXTENDS HttpRouter

MCAttacker == "10.0.0.1"
MCUser == "10.0.0.2"
MCLocal == "127.0.0.1"
MCProxy == "10.0.0.9"

MCAddr == {MCAttacker, MCUser, MCLocal, MCProxy}
MCLoopback == {MCLocal}

MCClients == {"mallory", "alice", "admin"}
MCRealAddr == [c \in MCClients |->
                 CASE c = "mallory" -> MCAttacker
                   [] c = "alice"   -> MCUser
                   [] c = "admin"   -> MCLocal]
MCUsers == {"alice", "admin"}

Route(top, sub, method, args) ==
    [top |-> top, sub |-> sub, method |-> method, args |-> args]

MCSession == Route("jmap", "", "POST", TRUE)
MCOidc == Route(".well-known", "openid-configuration", "GET", TRUE)
MCManage == Route("api", "principal", "GET", TRUE)
MCHealth == Route("healthz", "live", "GET", TRUE)
MCScan == Route("wp-admin", "setup.php", "GET", TRUE)
MCPreflight == Route("jmap", "", "OPTIONS", TRUE)
MCMissing == Route("favicon.ico", "", "GET", TRUE)

MCRoutes == {MCSession, MCOidc, MCManage, MCHealth, MCScan, MCPreflight,
             MCMissing}
MCBannedRoutes == {MCScan}
MCDenied == {<<MCAttacker, "api">>, <<MCLocal, "api">>, <<MCAttacker, "healthz">>}
MCWebadmin == {<<"login", "">>}

\* What a client may put in the headers: nothing, its own or another
\* client's address, in upper or lower case.
MCClientForwarded == {<< >>, << ForKey, MCLocal >>, << ForKeyUpper, MCUser >>}
MCClientXff == {<< >>, << MCLocal >>, << MCUser, Comma, Space, MCAttacker >>}

\* Forwarded values for comparing the parser with RFC 7239: one or two
\* nodes, bare, quoted, with a port, followed by a parameter, or unknown.
MCPortNode == << ForKey, Quote, MCUser, Colon, PortDigits, Quote >>
MCSampleForwarded ==
    { << ForKey, MCUser >>, << ForKeyUpper, Quote, MCUser, Quote >>, MCPortNode,
      << ForKey, Unknown >>, << ForKey, Space, MCUser, Semicolon >>,
      << ForKey, MCUser, Comma, Space, ForKey, MCLocal >>,
      << Semicolon, ForKey, LBracket, MCUser, RBracket >> }

\* The scan of the Forwarded header agrees with RFC 7239 on every sample
\* but the quoted IPv4 address with a port, which it does not parse.
ASSUME ForwardedDisagreement ==
    {h \in MCSampleForwarded : ParseForwarded(h) # RfcForwardedFor(h)} = {MCPortNode}

\* The X-Forwarded-For parse takes the first entry, trimmed.
ASSUME XffFirstEntry ==
    /\ ParseXff(<< Space, MCUser, Space, Comma, MCAttacker >>) = MCUser
    /\ ParseXff(<< MCUser, Colon, PortDigits >>) = None

=============================================================================
