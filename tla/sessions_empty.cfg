SPECIFICATION Spec
CONSTANTS
    Clients = {c1, c2}
    IPs = {i1}
    IpOf <- MCIpOf
    Legacy = {a1, a2}
    Segwit = {s1}
    Addrs <- MCAddrs
    MaxFleet = {1}
    WorkerSlots = 1
    MaxPerIp <- MCMaxPerIp
    MaxLogins = 2
    MaxShares = 1
    MaxUpkeep = 1
SYMMETRY ClientSymmetry
PROPERTIES
    PaidAsRegistered
CHECK_DEADLOCK FALSE
