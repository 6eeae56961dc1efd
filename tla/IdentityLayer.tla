--------------------------- MODULE IdentityLayer ---------------------------
(***************************************************************************)
(* Layers 3 and 7 of the security engine (securityEngine.js): the mining   *)
(* cookies, issued and revoked but never asked for, and the register of    *)
(* payout addresses: which address each connection logged in with and      *)
(* which connections share an address.                                     *)
(***************************************************************************)
EXTENDS FleetManager

CONSTANTS
    Legacy,      \* the addresses of 26 to 35 Base58 characters, L M 3 m n 2
    Segwit,      \* ltc1 addresses: the Stratum server takes them, L7 does not
    WorkerSlots  \* maxWorkersPerAddress (50)

ASSUME IdentityAssumption ==
    /\ Legacy \subseteq Addrs /\ Segwit \subseteq Addrs \ Legacy
    /\ None \notin Addrs
    /\ WorkerSlots \in Nat \ {0}

VARIABLES
    cookies,         \* the clients with a mining cookie
    clientAddress,   \* client -> the address registered, or None
    addressWorkers   \* address -> the clients registered under it

identityVars == <<cookies, clientAddress, addressWorkers>>

IdentityTypeOK ==
    /\ cookies \subseteq Clients
    /\ clientAddress \in [Clients -> Legacy \cup {None}]
    /\ addressWorkers \in [Legacy -> SUBSET Clients]

IdentityInit ==
    /\ cookies = {}
    /\ clientAddress = [c \in Clients |-> None]
    /\ addressWorkers = [a \in Legacy |-> {}]

IssueCookie(c) == cookies' = cookies \cup {c}

\* registerMiner: "reject", "flag" when the slots are full, and for a client
\* that holds one of them too, or "pass".
L7Verdict(c, a) ==
    IF a \notin Legacy THEN "reject"
    ELSE IF Cardinality(addressWorkers[a]) >= WorkerSlots THEN "flag" ELSE "pass"

\* A client that logs in under another address keeps its slot of the first.
L7Register(c, a) ==
    IF L7Verdict(c, a) = "pass"
    THEN /\ clientAddress' = [clientAddress EXCEPT ![c] = a]
         /\ addressWorkers' = [addressWorkers EXCEPT ![a] = @ \cup {c}]
    ELSE UNCHANGED <<clientAddress, addressWorkers>>

\* Wrong on purpose: only a client whose address differs is stopped.
OnlyMismatch(c, a) ==
    IF clientAddress[c] \in {None, a} THEN "pass" ELSE "ban"

\* verifyPayoutIntegrity
PayoutIntegrity(c, a) ==
    IF clientAddress[c] = None THEN "reject"
    ELSE IF clientAddress[c] # a THEN "ban" ELSE "pass"

RevokeCookie(c) == cookies' = cookies \ {c}

DeregisterMiner(c) ==
    /\ clientAddress' = [clientAddress EXCEPT ![c] = None]
    /\ addressWorkers' = IF clientAddress[c] = None THEN addressWorkers
                         ELSE [addressWorkers EXCEPT ![clientAddress[c]] = @ \ {c}]

\* Wrong on purpose: the set of the address keeps the client.
ForgetClientOnly(c) ==
    /\ RevokeCookie(c)
    /\ clientAddress' = [clientAddress EXCEPT ![c] = None]
    /\ UNCHANGED addressWorkers

\* What SecurityEngine.onDisconnect does for these two layers; layer 5, which
\* judges the session, and layer 6 are SecurityEngine.tla's.
Deregister(c) == RevokeCookie(c) /\ DeregisterMiner(c)
=============================================================================
