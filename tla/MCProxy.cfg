SPECIFICATION ProxySpec
CONSTANTS
    cert1 = cert1
    cert2 = cert2
    cert3 = cert3
    w1 = w1
    w2 = w2
    NoCert = NoCert
    Certs = {cert1, cert3}
    Attr <- Three
    Workers = {w1, w2}
    Enabled = {"mqtt", "stream", "reverse"}
    MaxClients = 1
    MaxEvents = 2
    MaxFaults = 1
    MaxConns = 2
    PolicyCerts <- Identities
    SnOf <- SnOfIdentity
    NotBefore <- Since
    NotAfter <- Until
    Clients = {"x1"}
    Grace = 2
    Poll = 1
    SaveRetry = 1
    Skews <- TwoSkews
    MaxTime = 1
    MaxIdentities = 2
    MaxPolicyFaults = 1
    MaxServer = 1
    MaxBoots = 1
INVARIANTS NoDanglingLease HeaderMatchesCert DeniedClosed
SYMMETRY WorkerSym
CHECK_DEADLOCK FALSE
