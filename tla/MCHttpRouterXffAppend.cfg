CONSTANTS
    Addr <- MCAddr
    Loopback <- MCLoopback
    Clients <- MCClients
    RealAddr <- MCRealAddr
    Users <- MCUsers
    Routes <- MCRoutes
    BannedRoutes <- MCBannedRoutes
    DeniedEndpoints <- MCDenied
    AnonLimit = 1
    BlockedInit = {}
    UseForwarded = TRUE
    HasAcme = FALSE
    HasForm = FALSE
    Prometheus = "off"
    Enterprise = FALSE
    HasLogo = FALSE
    WebadminPaths <- MCWebadmin
    ProxyHeader = "xff"
    ProxyAppends = TRUE
    ProxyPort = FALSE
    ProxyAddr <- MCProxy
    ClientForwarded <- MCClientForwarded
    ClientXff <- MCClientXff
SPECIFICATION Spec
INVARIANT
    EndpointAccessSound
