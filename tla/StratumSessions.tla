-------------------------- MODULE StratumSessions --------------------------
(***************************************************************************)
(* The life of a miner's connection (stratum/server.js, ssl.js, solo.js)   *)
(* and what index.js hangs on its events: the books that every part of the *)
(* pool keeps per connection, filled on subscribe, authorize and on a      *)
(* valid share, emptied on disconnect.                                     *)
(*                                                                         *)
(* A socket is destroyed first and closed later; between the two, lines of *)
(* the same chunk are still handled.  Authorization and every share wait   *)
(* for Redis, and the connection may be gone when the answer comes.        *)
(*                                                                         *)
(* Whether a connection is refused (bans, reputation, lockdown, floods) is *)
(* left open here: Admission.tla is about that.                            *)
(***************************************************************************)
EXTENDS IdentityLayer

CONSTANTS
    MaxPerIp,   \* limit of open connections per IP: port -> number (5 and 3)
    MaxLogins,  \* bound: authorizations of all clients
    MaxShares,  \* bound: shares being processed at once
    MaxUpkeep   \* bound: sweeps of a book and changes by the operator

Ports == {"pool", "solo"}

ASSUME SessionAssumption ==
    /\ MaxPerIp \in [Ports -> Nat \ {0}]
    /\ {MaxLogins, MaxShares} \subseteq Nat \ {0} /\ MaxUpkeep \in Nat

VARIABLES
    listening,   \* FALSE after stop()
    sock,        \* client -> state of its socket
    port,        \* client -> the port it came through; TLS shares the pool's
    ipCounts,    \* port -> IP -> what the server believes is open
    rest,        \* the client whose chunk may hold more lines, or None
    authorized,
    minerAddress,
    awaiting,    \* client -> its authorizations that wait for layer 8
    inFlight,    \* shares that passed layer 7 and are being processed
    books,       \* book -> the clients it holds
    disturbed,   \* for the properties: IPs that had a failed or a fleet socket
    late,        \* for the properties: clients answered after their close
    logins,      \* client -> authorizations so far
    loginsMade,  \* and of all clients together
    upkeep       \* sweeps and changes so far

sockVars == <<listening, sock, port, ipCounts, disturbed>>
loginVars == <<authorized, minerAddress, logins, loginsMade>>
vars == <<fleetVars, identityVars, sockVars, rest, loginVars, awaiting,
          inFlight, books, late, upkeep>>
bookVars == <<books, late>>

BookNames == { "clients",    \* StratumServer.clients, SoloMiningServer.clients
               "workers",    \* WorkerTracker.workers
               "prints",     \* ConnectionFingerprint.profiles
               "rates",      \* HashrateEstimator.shareRecords, cachedRates
               "models" }    \* FirmwareTracker.tracked, HashrateOptimizer.profiles

SockStates == {"idle", "open", "destroyed", "failed", "closed", "refused"}

\* What a miner may name: "empty" stands for a worker name such as ".x".  Both
\* it and "bad" fail the validation of addressCodec.js.
Named == Legacy \cup Segwit \cup {"bad", "empty"}
Invalid == {"bad", "empty"}
Shares == [client : Clients, registered : Legacy \cup {None}, relogin : BOOLEAN]

TypeOK ==
    /\ FleetTypeOK
    /\ IdentityTypeOK
    /\ listening \in BOOLEAN
    /\ sock \in [Clients -> SockStates]
    /\ port \in [Clients -> Ports]
    /\ ipCounts \in [Ports -> [IPs -> Nat]]
    /\ rest \in Clients \cup {None}
    /\ authorized \in [Clients -> BOOLEAN]
    /\ minerAddress \in [Clients -> Named \cup {None}]
    /\ awaiting \in [Clients -> 0 .. MaxLogins]
    /\ inFlight \subseteq Shares
    /\ books \in [BookNames -> SUBSET Clients]
    /\ disturbed \subseteq IPs
    /\ late \subseteq Clients
    /\ logins \in [Clients -> 0 .. MaxLogins]
    /\ loginsMade \in 0 .. MaxLogins
    /\ upkeep \in 0 .. MaxUpkeep

\* A new StratumClient: nobody has logged in through it.
ClientInit ==
    /\ authorized = [c \in Clients |-> FALSE]
    /\ minerAddress = [c \in Clients |-> None]
    /\ awaiting = [c \in Clients |-> 0]
    /\ rest = None
    /\ logins = [c \in Clients |-> 0]
    /\ loginsMade = 0

Init ==
    /\ FleetInit
    /\ IdentityInit
    /\ ClientInit
    /\ listening = TRUE
    /\ sock = [c \in Clients |-> "idle"]
    /\ port = [c \in Clients |-> "pool"]
    /\ ipCounts = [p \in Ports |-> [ip \in IPs |-> 0]]
    /\ inFlight = {}
    /\ books = [b \in BookNames |-> {}]
    /\ disturbed = {} /\ late = {}
    /\ upkeep = 0
----------------------------------------------------------------------------
(* The books.                                                              *)

Enter(c, names) ==
    books' = [b \in BookNames |-> IF b \in names THEN books[b] \cup {c} ELSE books[b]]

Leave(c, names) ==
    books' = [b \in BookNames |-> IF b \in names THEN books[b] \ {c} ELSE books[b]]

\* ConnectionFingerprint.onSubscribe starts the profile anew.
Fingerprint(c) == Enter(c, {"prints"})

\* WorkerTracker.onConnect; it starts the worker's tallies anew, too.
Track(c, more) == Enter(c, {"workers"} \cup more)

\* The optimizer registers a miner whose model MinerRegistry knows.
Enrolments == { {}, {"models"} }

\* The end of an authorization.  The firmware is checked before the optimizer
\* is told, if its version was found.
Enrol(c) == \E more \in Enrolments : Enter(c, more)

\* HashrateEstimator.recordShare makes the record of a worker it has not.
Tally(c) == Enter(c, {"rates"})

\* An answer that comes when nobody will clean up behind it.
NoteLate(c) == late' = IF sock[c] = "closed" THEN late \cup {c} ELSE late
----------------------------------------------------------------------------
(* Sockets.                                                                *)

Accept(c, p) ==
    /\ port' = [port EXCEPT ![c] = p]
    /\ sock' = [sock EXCEPT ![c] = "open"]
    /\ Enter(c, {"clients"})

\* The limit of a port for the connections of an IP.
ConnectCounted(c, p) ==
    LET n == ipCounts[p][IpOf[c]] + 1
    IN \/ /\ n <= MaxPerIp[p]
          /\ ipCounts' = [ipCounts EXCEPT ![p][IpOf[c]] = n]
          /\ Accept(c, p)
       \/ /\ n > MaxPerIp[p]
          /\ port' = [port EXCEPT ![c] = p]
          /\ sock' = [sock EXCEPT ![c] = "refused"]
          /\ UNCHANGED <<ipCounts, books>>

\* The solo server knows no fleet.
ConnectSolo(c) == ConnectCounted(c, "solo") /\ UNCHANGED disturbed

\* On the pool's port a fleet IP is not counted.
ConnectPool(c) ==
    IF IsFleetIp(c)
    THEN /\ Accept(c, "pool")
         /\ disturbed' = disturbed \cup {IpOf[c]}
         /\ UNCHANGED ipCounts
    ELSE ConnectCounted(c, "pool") /\ UNCHANGED disturbed

Connect(c) ==
    /\ listening
    /\ sock[c] = "idle"
    /\ ConnectSolo(c) \/ ConnectPool(c)
    /\ rest' = None
    /\ UNCHANGED <<fleetVars, identityVars, listening, loginVars, awaiting,
                   inFlight, late>>

\* A line of c is handled: its socket is open, or a line before it in the same
\* chunk has destroyed the socket.
HandlesLine(c) == sock[c] = "open" \/ rest = c

\* client.disconnect while a chunk is being handled.
Destroy(c) ==
    /\ sock' = [sock EXCEPT ![c] = IF @ = "open" THEN "destroyed" ELSE @]
    /\ UNCHANGED <<listening, port, ipCounts, disturbed>>

\* The message flood ends a line, not the chunk.
Flood(c) ==
    /\ HandlesLine(c)
    /\ Destroy(c)
    /\ rest' = c
    /\ UNCHANGED <<fleetVars, identityVars, loginVars, awaiting, inFlight, bookVars>>

\* Oversized data, a protocol ban of layer 2, ten idle minutes.
Drop(c) ==
    /\ HandlesLine(c)
    /\ Destroy(c)
    /\ rest' = None
    /\ UNCHANGED <<fleetVars, identityVars, loginVars, awaiting, inFlight, bookVars>>

\* Wrong on purpose: without the default and the test for 0.
CountDownAnyway(c) == ipCounts[port[c]][IpOf[c]] - 1

\* Wrong on purpose: a socket that was destroyed stays counted.
CountDownIfOpen(c) ==
    LET n == ipCounts[port[c]][IpOf[c]]
    IN IF n = 0 \/ sock[c] = "destroyed" THEN n ELSE n - 1

\* (this.ipCounts.get(ip) || 1) - 1, and the key is dropped at 0.
CountDown(c) ==
    LET n == ipCounts[port[c]][IpOf[c]]
    IN IF n = 0 THEN 0 ELSE n - 1

\* The handlers of 'disconnect': of the server, then handleDisconnect of
\* index.js.  The work that SecurityEngine.onDisconnect may put off behind an
\* audit record is done at once.
Cleanup(c) ==
    /\ ipCounts' = [ipCounts EXCEPT ![port[c]][IpOf[c]] = CountDown(c)]
    /\ Leave(c, BookNames)
    /\ RemoveMiner(c)
    /\ Deregister(c)

\* The socket fails: 'error' comes first and 'close' follows.
SocketError(c) ==
    /\ sock[c] = "open"
    /\ sock' = [sock EXCEPT ![c] = "failed"]
    /\ Cleanup(c)
    /\ disturbed' = disturbed \cup {IpOf[c]}
    /\ rest' = None
    /\ UNCHANGED <<listening, port, loginVars, awaiting, inFlight, late>>

\* 'close': the miner went away, or the socket was destroyed or has failed.
SocketClose(c) ==
    /\ sock[c] \in {"open", "destroyed", "failed"}
    /\ sock' = [sock EXCEPT ![c] = "closed"]
    /\ Cleanup(c)
    /\ rest' = None
    /\ UNCHANGED <<listening, port, disturbed, loginVars, awaiting, inFlight, late>>

\* stop() of the servers, at shutdown.
Stop ==
    /\ listening
    /\ listening' = FALSE
    /\ sock' = [c \in Clients |-> IF sock[c] = "open" THEN "destroyed" ELSE sock[c]]
    /\ rest' = None
    /\ UNCHANGED <<fleetVars, identityVars, port, ipCounts, disturbed, loginVars,
                   awaiting, inFlight, bookVars>>
----------------------------------------------------------------------------
(* Messages of the miner.                                                  *)

\* The pool's listener lets the client in.
Welcome(c) ==
    /\ Fingerprint(c)
    /\ IssueCookie(c)
    /\ isFleet' = [isFleet EXCEPT ![c] = IsFleetIp(c)]
    /\ UNCHANGED <<sockVars, listVars, fleetMiners, publicMiners,
                   clientAddress, addressWorkers>>

\* _handleSubscribe; the solo server does not pass it on.
Subscribe(c) ==
    /\ HandlesLine(c) /\ port[c] = "pool"
    /\ rest' = c
    /\ UNCHANGED <<loginVars, awaiting, inFlight, late>>
    /\ \/ /\ ~IsFleetIp(c)
          /\ Destroy(c)
          /\ UNCHANGED <<fleetVars, identityVars, books>>
       \/ Welcome(c)

\* An authorization that the solo server's listener in index.js handles.
AuthorizeSolo(c) ==
    /\ port[c] = "solo"
    /\ UNCHANGED <<awaiting, books>>
    /\ \/ /\ ~IsFleetIp(c)
          /\ Destroy(c)
          /\ UNCHANGED <<fleetVars, identityVars>>
       \/ /\ IssueCookie(c)
          /\ RegisterMiner(c, minerAddress'[c])
          /\ UNCHANGED <<sockVars, clientAddress, addressWorkers>>

\* An authorization that the pool's listener handles, up to its await.  What
\* layer 7 decides comes back in the same turn: a rejected address destroys
\* the socket, a full one enrols the miner without registering it.
AuthorizePool(c, a) ==
    /\ port[c] = "pool"
    /\ RegisterMiner(c, a)
    /\ L7Register(c, a)
    /\ UNCHANGED cookies
    /\ CASE L7Verdict(c, a) = "reject" ->
              Destroy(c) /\ Track(c, {}) /\ UNCHANGED awaiting
         [] L7Verdict(c, a) = "flag" ->
              /\ \E more \in Enrolments : Track(c, more)
              /\ UNCHANGED <<sockVars, awaiting>>
         [] L7Verdict(c, a) = "pass" ->
              /\ Track(c, {})
              /\ awaiting' = [awaiting EXCEPT ![c] = @ + 1]
              /\ UNCHANGED sockVars

\* _handleAuthorize: the address is set before it is validated, and a client
\* once authorized stays so when it names an invalid one.
Authorize(c, a) ==
    /\ HandlesLine(c)
    /\ loginsMade < MaxLogins
    /\ rest' = c
    /\ UNCHANGED late
    /\ minerAddress' = [minerAddress EXCEPT ![c] = a]
    /\ logins' = [logins EXCEPT ![c] = @ + 1]
    /\ loginsMade' = loginsMade + 1
    /\ inFlight' = { [s EXCEPT !.relogin = @ \/ s.client = c] : s \in inFlight }
    /\ IF a \in Invalid
       THEN UNCHANGED <<fleetVars, identityVars, sockVars, authorized, awaiting, books>>
       ELSE /\ authorized' = [authorized EXCEPT ![c] = TRUE]
            /\ AuthorizeSolo(c) \/ AuthorizePool(c, a)

\* Layer 8 has answered.  A ban destroys the socket; otherwise, and after an
\* error too, the miner is enrolled, whatever has become of its connection.
AuthorizeAnswer(c) ==
    /\ awaiting[c] > 0
    /\ awaiting' = [awaiting EXCEPT ![c] = @ - 1]
    /\ rest' = None
    /\ UNCHANGED <<fleetVars, identityVars, loginVars, inFlight>>
    /\ \/ Destroy(c) /\ UNCHANGED bookVars
       \/ Enrol(c) /\ NoteLate(c) /\ UNCHANGED sockVars

\* securityEngine.onShare: a share for an empty address skips layer 7.
PassesLayer7(c) ==
    minerAddress[c] # "empty" => PayoutIntegrity(c, minerAddress[c]) = "pass"

\* handleShare up to its awaits: layer 7 is the check that sessions decide.
\* What the other layers reject leaves no trace here, what they ban does.
Submit(c) ==
    /\ HandlesLine(c)
    /\ authorized[c]
    /\ rest' = c
    /\ UNCHANGED <<fleetVars, identityVars, loginVars, awaiting, bookVars>>
    /\ \/ Destroy(c) /\ UNCHANGED inFlight
       \/ /\ Cardinality(inFlight) < MaxShares
          /\ PassesLayer7(c)
          /\ inFlight' = inFlight \cup
               {[client |-> c, registered |-> clientAddress[c], relogin |-> FALSE]}
          /\ UNCHANGED sockVars

\* _handleMessage: what a line may ask for.
Message(c) ==
    Flood(c) \/ Subscribe(c) \/ (\E a \in Named : Authorize(c, a)) \/ Submit(c)

\* processShare ends with 'validShare': the share is paid to the address the
\* client has by now.  The worker and the fleet entry are updated if there.
Credit(s) ==
    /\ s \in inFlight
    /\ inFlight' = inFlight \ {s}
    /\ Tally(s.client) /\ NoteLate(s.client)
    /\ rest' = None
    /\ UNCHANGED <<fleetVars, identityVars, sockVars, loginVars, awaiting>>

\* It ends as an invalid, stale or duplicate share.
Refuse(s) ==
    /\ s \in inFlight
    /\ inFlight' = inFlight \ {s}
    /\ rest' = None
    /\ UNCHANGED <<fleetVars, identityVars, sockVars, loginVars, awaiting, bookVars>>
----------------------------------------------------------------------------
(* Timers and the operator.                                                *)

\* An entry goes whose client was silent too long, connected or not.
Sweep(c, b) ==
    /\ c \in books[b]
    /\ Leave(c, {b})
    /\ upkeep < MaxUpkeep
    /\ upkeep' = upkeep + 1
    /\ rest' = None
    /\ UNCHANGED <<fleetVars, identityVars, sockVars, loginVars, awaiting,
                   inFlight, late>>

\* _recalculateAll: no share for 20 minutes.
RecalculateAll(c) == Sweep(c, "rates")

\* ConnectionFingerprint._cleanup: for 30 minutes, so that its rate is gone.
CleanupPrints(c) == Sweep(c, "prints") /\ c \notin books["rates"]

\* _persistAll: for an hour.
PersistAll(c) == Sweep(c, "workers") /\ c \notin books["rates"]

\* routes/fleet.js
Administer ==
    /\ upkeep < MaxUpkeep
    /\ upkeep' = upkeep + 1
    /\ \/ \E ip \in IPs : (AddIp(ip) \/ RemoveIp(ip))
       \/ \E a \in Legacy : (AddAddress(a) \/ RemoveAddress(a))
       \/ \E n \in MaxFleet : SetMaxMiners(n)
    /\ rest' = None
    /\ UNCHANGED <<identityVars, sockVars, loginVars, awaiting, inFlight, bookVars>>

Next ==
    \/ /\ UNCHANGED upkeep
       /\ \/ \E c \in Clients :
               \/ Connect(c) \/ SocketError(c) \/ SocketClose(c) \/ Drop(c)
               \/ Message(c) \/ AuthorizeAnswer(c)
          \/ \E s \in inFlight : Credit(s) \/ Refuse(s)
          \/ Stop
    \/ \E c \in Clients : RecalculateAll(c) \/ CleanupPrints(c) \/ PersistAll(c)
    \/ Administer

Spec == Init /\ [][Next]_vars
----------------------------------------------------------------------------
(* Properties.                                                             *)

Holding(p, ip) ==
    { c \in Clients : sock[c] \in {"open", "destroyed"} /\ port[c] = p /\ IpOf[c] = ip }

\* The count of an IP never exceeds its open sockets, or the IP would be locked
\* out, and it is exact, so that the limit is one, as long as no socket of the
\* IP has failed (its error and its close both count down) or was let in as
\* the fleet's (its close counts down what nobody counted).
\* server.js _handleConnection, solo.js _handleConnection.
CountsMatch ==
    \A p \in Ports, ip \in IPs :
        LET open == Cardinality(Holding(p, ip))
        IN /\ ipCounts[p][ip] <= open
           /\ ip \notin disturbed => ipCounts[p][ip] = open /\ open <= MaxPerIp[p]

\* Once its socket is closed, no book holds a client, whatever it was waiting
\* for, unless an answer came after the close (what that leaves is told in the
\* README), and then only the books that the late answers fill; nor do the
\* fleet, the cookies or the register of addresses hold it; the slots of its
\* addresses are free again if it logged in at most once.
\* index.js handleDisconnect, server.js client.on('disconnect').
NothingLeftBehind ==
    \A c \in Clients : sock[c] = "closed" =>
        /\ \A b \in BookNames :
             c \in books[b] => c \in late /\ b \in {"rates", "models"}
        /\ c \notin Listed(fleetMiners) \cup Listed(publicMiners)
        /\ c \notin cookies /\ clientAddress[c] = None
        /\ logins[c] < 2 => \A a \in Legacy : c \notin addressWorkers[a]

\* A share is never paid to another address than the one registered for its
\* client when layer 7 let it through, unless the client logged in again in
\* between; a client that has named an empty address mines for nobody.
\* index.js handleShare, securityEngine.js onShare, server.js _handleAuthorize.
CreditMatchesLogin ==
    [][\A s \in inFlight : Credit(s) =>
          \/ s.relogin
          \/ s.registered \in Legacy /\ minerAddress[s.client] = s.registered
          \/ minerAddress[s.client] = "empty"]_vars

\* The stronger promise of securityEngine.js:673-675, "address used for auth must
\* match what payment processor will send to": every share is paid to the
\* registered address.  The code breaks it for the empty address, in
\* sessions_empty.cfg.  securityEngine.js onShare.
PaidAsRegistered ==
    [][\A s \in inFlight : Credit(s) =>
          \/ s.relogin
          \/ s.registered \in Legacy /\ minerAddress[s.client] = s.registered]_vars

\* Neither a login nor a change of the lists takes the fleet beyond the capacity
\* in force; a capacity lowered below the fleet leaves it as it is.
\* fleetManager.js registerMiner, _reclassifyConnectedMiners.
FleetWithinCapacity ==
    [][LET n == Cardinality(Listed(fleetMiners'))
       IN n <= Cardinality(Listed(fleetMiners)) \/ n <= maxFleetMiners]_vars
=============================================================================
