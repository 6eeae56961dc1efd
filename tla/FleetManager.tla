---------------------------- MODULE FleetManager ----------------------------
(***************************************************************************)
(* The fleet manager (fleetManager.js): which miners are the operator's    *)
(* own.  A miner is of the fleet when its IP or its payout address is on a *)
(* whitelist and there is room; fleet miners bypass the bans and the       *)
(* connection limits.  The lists change at run time (routes/fleet.js).     *)
(* A CIDR entry is the set of the addresses in it: one element of IPs      *)
(* stands for an entry of either kind (there is no call that drops a CIDR).*)
(***************************************************************************)
EXTENDS Integers, FiniteSets

CONSTANTS
    Clients,     \* connections; an id is a fresh UUID and is never used again
    IPs,
    IpOf,        \* client -> socket.remoteAddress
    Addrs,       \* what a miner may name as its payout address
    MaxFleet     \* capacities the operator may set

None == "none"

ASSUME FleetAssumption ==
    /\ IsFiniteSet(Clients) /\ None \notin Clients
    /\ IpOf \in [Clients -> IPs]
    /\ MaxFleet \subseteq Nat /\ MaxFleet # {}

VARIABLES
    whitelistedIps, whitelistedAddresses, maxFleetMiners,
    fleetMiners, publicMiners,  \* client -> the address of its entry, or None
    isFleet                     \* client._isFleet

fleetVars == <<whitelistedIps, whitelistedAddresses, maxFleetMiners,
               fleetMiners, publicMiners, isFleet>>
listVars == <<whitelistedIps, whitelistedAddresses, maxFleetMiners>>

FleetTypeOK ==
    /\ whitelistedIps \subseteq IPs
    /\ whitelistedAddresses \subseteq Addrs
    /\ maxFleetMiners \in MaxFleet
    /\ fleetMiners \in [Clients -> Addrs \cup {None}]
    /\ publicMiners \in [Clients -> Addrs \cup {None}]
    /\ isFleet \in [Clients -> BOOLEAN]

FleetInit ==
    /\ whitelistedIps = {} /\ whitelistedAddresses = {}
    /\ maxFleetMiners \in MaxFleet
    /\ fleetMiners = [c \in Clients |-> None]
    /\ publicMiners = [c \in Clients |-> None]
    /\ isFleet = [c \in Clients |-> FALSE]

Listed(book) == { c \in Clients : book[c] # None }

IsFleetIp(c) == IpOf[c] \in whitelistedIps

\* classify
IsFleet(c, a) == IsFleetIp(c) \/ a \in whitelistedAddresses

\* Wrong on purpose: one miner too many.
RoomForOneMore == Cardinality(Listed(fleetMiners)) <= maxFleetMiners

\* The miner that logs in again counts as one more.
HasRoom == Cardinality(Listed(fleetMiners)) < maxFleetMiners

\* registerMiner writes one map and leaves the other alone: a miner that logs
\* in again may end up in both.
RegisterMiner(c, a) ==
    LET fleet == IsFleet(c, a) /\ HasRoom
    IN /\ fleetMiners' = IF fleet THEN [fleetMiners EXCEPT ![c] = a] ELSE fleetMiners
       /\ publicMiners' = IF fleet THEN publicMiners ELSE [publicMiners EXCEPT ![c] = a]
       /\ isFleet' = [isFleet EXCEPT ![c] = fleet]
       /\ UNCHANGED listVars

RemoveMiner(c) ==
    /\ fleetMiners' = [fleetMiners EXCEPT ![c] = None]
    /\ publicMiners' = [publicMiners EXCEPT ![c] = None]
    /\ UNCHANGED <<listVars, isFleet>>

\* _reclassifyConnectedMiners walks the public miners while there is room, in
\* the order of their arrival, here in any; client._isFleet is left as it is.
Reclassify(ips, addrs) ==
    LET mine == { c \in Listed(publicMiners) :
                    IpOf[c] \in ips \/ publicMiners[c] \in addrs }
    IN \E moved \in SUBSET mine :
         /\ LET Size(set) == Cardinality(Listed(fleetMiners) \cup set)
            IN /\ moved = {} \/ \E last \in moved : Size(moved \ {last}) < maxFleetMiners
               /\ moved = mine \/ Size(moved) >= maxFleetMiners
         /\ fleetMiners' = [c \in Clients |->
                              IF c \in moved THEN publicMiners[c] ELSE fleetMiners[c]]
         /\ publicMiners' = [c \in Clients |->
                              IF c \in moved THEN None ELSE publicMiners[c]]

AddIp(ip) ==
    /\ whitelistedIps' = whitelistedIps \cup {ip}
    /\ Reclassify(whitelistedIps', whitelistedAddresses)
    /\ UNCHANGED <<whitelistedAddresses, maxFleetMiners, isFleet>>

AddAddress(a) ==
    /\ whitelistedAddresses' = whitelistedAddresses \cup {a}
    /\ Reclassify(whitelistedIps, whitelistedAddresses')
    /\ UNCHANGED <<whitelistedIps, maxFleetMiners, isFleet>>

\* Miners that are connected keep their place.
RemoveIp(ip) ==
    /\ whitelistedIps' = whitelistedIps \ {ip}
    /\ UNCHANGED <<whitelistedAddresses, maxFleetMiners,
                   fleetMiners, publicMiners, isFleet>>

RemoveAddress(a) ==
    /\ whitelistedAddresses' = whitelistedAddresses \ {a}
    /\ UNCHANGED <<whitelistedIps, maxFleetMiners, fleetMiners, publicMiners, isFleet>>

SetMaxMiners(n) ==
    /\ maxFleetMiners' = n
    /\ UNCHANGED <<whitelistedIps, whitelistedAddresses,
                   fleetMiners, publicMiners, isFleet>>
=============================================================================
