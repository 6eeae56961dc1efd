--------------------------- MODULE SessionsProofs ---------------------------
(* Proofs about StratumSessions, for any number of clients, IPs and addresses. *)
EXTENDS StratumSessions, FiniteSetTheorems, TLAPS

USE SessionAssumption, IdentityAssumption, FleetAssumption

----------------------------------------------------------------------------
(* Types, as far as the proofs need them: TypeOK without its bounds.       *)

SockTyped ==
    /\ sock \in [Clients -> SockStates]
    /\ port \in [Clients -> Ports]
    /\ ipCounts \in [Ports -> [IPs -> Nat]]
    /\ disturbed \subseteq IPs

LoginTyped ==
    /\ rest \in Clients \cup {None}
    /\ minerAddress \in [Clients -> Named \cup {None}]
    /\ inFlight \subseteq Shares
    /\ awaiting \in [Clients -> Nat] /\ logins \in [Clients -> Nat]

BooksTyped == books \in [BookNames -> SUBSET Clients] /\ late \subseteq Clients

Typed == FleetTypeOK /\ IdentityTypeOK /\ SockTyped /\ LoginTyped /\ BooksTyped

LEMMA InitTyped == Init => Typed
BY DEF Init, Typed, FleetTypeOK, IdentityTypeOK, SockTyped, LoginTyped, BooksTyped,
       FleetInit, IdentityInit, ClientInit, SockStates, Ports, Named, Shares

\* What a step leaves alone keeps its type.
LEMMA KeepTyped ==
    ASSUME Typed
    PROVE  /\ UNCHANGED fleetVars => FleetTypeOK'
           /\ UNCHANGED identityVars => IdentityTypeOK'
           /\ UNCHANGED sockVars => SockTyped'
           /\ UNCHANGED bookVars => BooksTyped'
BY DEF Typed, FleetTypeOK, IdentityTypeOK, SockTyped, BooksTyped, fleetVars, identityVars,
       sockVars, bookVars

LEMMA EnterTyped ==
    ASSUME Typed, NEW c \in Clients, NEW names, Enter(c, names)
    PROVE  books' \in [BookNames -> SUBSET Clients]
BY DEF Typed, BooksTyped, Enter

\* What the operations of the fleet manager do to its types.
LEMMA RegisterTyped ==
    ASSUME FleetTypeOK, NEW c \in Clients, NEW a \in Addrs, RegisterMiner(c, a)
    PROVE  FleetTypeOK'
BY DEF RegisterMiner, FleetTypeOK, listVars, IsFleet, IsFleetIp, HasRoom

LEMMA RemoveTyped ==
    ASSUME FleetTypeOK, NEW c \in Clients, RemoveMiner(c)
    PROVE  FleetTypeOK'
BY DEF RemoveMiner, FleetTypeOK, listVars

LEMMA ReclassifyTyped ==
    ASSUME FleetTypeOK, NEW ips, NEW addrs, Reclassify(ips, addrs)
    PROVE  /\ fleetMiners' \in [Clients -> Addrs \cup {None}]
           /\ publicMiners' \in [Clients -> Addrs \cup {None}]
BY DEF Reclassify, FleetTypeOK

\* The operator changes nothing but the fleet.
FleetOrder ==
    \/ \E ip \in IPs : AddIp(ip) \/ RemoveIp(ip)
    \/ \E a \in Legacy : AddAddress(a) \/ RemoveAddress(a)
    \/ \E n \in MaxFleet : SetMaxMiners(n)

LEMMA OrderTyped == FleetTypeOK /\ FleetOrder => FleetTypeOK'
<1> SUFFICES ASSUME FleetTypeOK, FleetOrder PROVE FleetTypeOK'
  OBVIOUS
<1>1. ASSUME NEW ip \in IPs, AddIp(ip) PROVE FleetTypeOK'
  BY <1>1, ReclassifyTyped DEF AddIp, FleetTypeOK
<1>2. ASSUME NEW a \in Legacy, AddAddress(a) PROVE FleetTypeOK'
  BY <1>2, ReclassifyTyped DEF AddAddress, FleetTypeOK
<1>3. ASSUME NEW ip \in IPs, RemoveIp(ip) PROVE FleetTypeOK'
  BY <1>3 DEF RemoveIp, FleetTypeOK
<1>4. ASSUME NEW a \in Legacy, RemoveAddress(a) PROVE FleetTypeOK'
  BY <1>4 DEF RemoveAddress, FleetTypeOK
<1>5. ASSUME NEW n \in MaxFleet, SetMaxMiners(n) PROVE FleetTypeOK'
  BY <1>5 DEF SetMaxMiners, FleetTypeOK
<1>6. QED BY <1>1, <1>2, <1>3, <1>4, <1>5 DEF FleetOrder

----------------------------------------------------------------------------
(* Every step keeps the types.                                             *)

LEMMA CountedTyped ==
    ASSUME Typed, NEW c \in Clients, NEW p \in Ports, ConnectCounted(c, p)
    PROVE  /\ sock' \in [Clients -> SockStates]
           /\ port' \in [Clients -> Ports]
           /\ ipCounts' \in [Ports -> [IPs -> Nat]]
           /\ books' \in [BookNames -> SUBSET Clients]
<1> USE DEF Typed, SockTyped
<1>1. ipCounts[p][IpOf[c]] + 1 \in Nat
  OBVIOUS
<1>2. CASE Accept(c, p)
  <2>1. ipCounts' \in [Ports -> [IPs -> Nat]]
    <3>1. ipCounts' = [ipCounts EXCEPT ![p][IpOf[c]] = ipCounts[p][IpOf[c]] + 1]
          \/ ipCounts' = ipCounts
      BY DEF ConnectCounted
    <3>2. QED BY <1>1, <3>1
  <2>2. QED BY <1>2, <2>1, EnterTyped DEF Accept, SockStates
<1>3. CASE UNCHANGED <<ipCounts, books>>
  BY <1>3 DEF ConnectCounted, SockStates, BooksTyped, Accept
<1>4. QED BY <1>2, <1>3 DEF ConnectCounted

LEMMA ConnectTyped == ASSUME Typed, NEW c \in Clients, Connect(c) PROVE Typed'
<1>1. LoginTyped' /\ FleetTypeOK' /\ IdentityTypeOK' /\ late' = late
  BY KeepTyped DEF Connect, Typed, LoginTyped, loginVars
<1>2. SockTyped' /\ BooksTyped'
  <2>1. CASE ConnectSolo(c)
    BY <1>1, <2>1, CountedTyped DEF ConnectSolo, Typed, SockTyped, BooksTyped, Ports
  <2>2. CASE ConnectPool(c) /\ ~IsFleetIp(c)
    BY <1>1, <2>2, CountedTyped DEF ConnectPool, Typed, SockTyped, BooksTyped, Ports
  <2>3. CASE ConnectPool(c) /\ IsFleetIp(c)
    BY <1>1, <2>3, EnterTyped
    DEF ConnectPool, Accept, Typed, SockTyped, BooksTyped, Ports, SockStates
  <2>4. QED BY <2>1, <2>2, <2>3 DEF Connect
<1>3. QED BY <1>1, <1>2 DEF Typed

LEMMA CloseTyped ==
    ASSUME Typed, NEW c \in Clients, SocketError(c) \/ SocketClose(c)
    PROVE  Typed'
<1>0. Cleanup(c)
  BY DEF SocketError, SocketClose
<1>1. ipCounts' \in [Ports -> [IPs -> Nat]]
  <2>1. CountDown(c) \in Nat
    BY DEF CountDown, Typed, SockTyped
  <2>2. QED BY <1>0, <2>1 DEF Cleanup, Typed, SockTyped
<1>2. FleetTypeOK'
  BY <1>0, RemoveTyped DEF Cleanup, Typed
<1>3. IdentityTypeOK'
  BY <1>0 DEF Cleanup, Deregister, RevokeCookie, DeregisterMiner, Typed, IdentityTypeOK
<1>4. BooksTyped'
  BY <1>0 DEF SocketError, SocketClose, Cleanup, Leave, Typed, BooksTyped
<1>5. SockTyped'
  BY <1>1 DEF SocketError, SocketClose, Typed, SockTyped, SockStates
<1>6. LoginTyped'
  BY DEF SocketError, SocketClose, Typed, LoginTyped, loginVars
<1>7. QED BY <1>2, <1>3, <1>4, <1>5, <1>6 DEF Typed

LEMMA DestroyTyped ==
    ASSUME Typed, NEW c \in Clients, Destroy(c) PROVE SockTyped'
BY DEF Typed, SockTyped, Destroy, SockStates

LEMMA SubscribeTyped == ASSUME Typed, NEW c \in Clients, Subscribe(c) PROVE Typed'
<1>1. CASE Welcome(c)
  BY <1>1 DEF Subscribe, Welcome, Fingerprint, Enter, IssueCookie, Typed, FleetTypeOK,
       IdentityTypeOK, SockTyped, LoginTyped, BooksTyped, sockVars, listVars, loginVars,
       IsFleetIp
<1>2. CASE Destroy(c) /\ UNCHANGED <<fleetVars, identityVars, books>>
  BY <1>2, DestroyTyped DEF Subscribe, Typed, FleetTypeOK, IdentityTypeOK, LoginTyped,
       BooksTyped, fleetVars, identityVars, loginVars
<1>3. QED BY <1>1, <1>2 DEF Subscribe

LEMMA AuthorizeTyped ==
    ASSUME Typed, NEW c \in Clients, NEW a \in Named, Authorize(c, a) PROVE Typed'
<1>1. LoginTyped' /\ late' = late
  <2>1. minerAddress' \in [Clients -> Named \cup {None}] /\ logins' \in [Clients -> Nat]
        /\ rest' \in Clients \cup {None} /\ late' = late
    BY DEF Authorize, Typed, LoginTyped
  <2>2. inFlight' \subseteq Shares
    <3>1. ASSUME NEW s \in Shares
          PROVE  [s EXCEPT !.relogin = @ \/ s.client = c] \in Shares
      <4>1. (s.relogin \/ s.client = c) \in BOOLEAN
        OBVIOUS
      <4>2. QED BY <4>1 DEF Shares
    <3>2. QED BY <3>1 DEF Authorize, Typed, LoginTyped
  <2>3. awaiting' \in [Clients -> Nat]
    <3>1. awaiting' = awaiting \/ awaiting' = [awaiting EXCEPT ![c] = @ + 1]
      BY DEF Authorize, AuthorizeSolo, AuthorizePool, L7Verdict
    <3>2. QED BY <3>1 DEF Typed, LoginTyped
  <2>4. QED BY <2>1, <2>2, <2>3 DEF LoginTyped
<1>2. CASE a \in Invalid
  BY <1>1, <1>2 DEF Authorize, Typed, FleetTypeOK, IdentityTypeOK, SockTyped, BooksTyped,
       fleetVars, identityVars, sockVars
<1>3. CASE a \notin Invalid /\ AuthorizeSolo(c)
  <2>1. minerAddress'[c] = a /\ a \in Addrs
    BY <1>3 DEF Authorize, Typed, LoginTyped, Named, Invalid
  <2>2. CASE Destroy(c) /\ UNCHANGED <<fleetVars, identityVars>>
    BY <1>1, <1>3, <2>2, DestroyTyped DEF AuthorizeSolo, Typed, FleetTypeOK,
         IdentityTypeOK, BooksTyped, fleetVars, identityVars
  <2>3. CASE IssueCookie(c) /\ RegisterMiner(c, minerAddress'[c])
             /\ UNCHANGED <<sockVars, clientAddress, addressWorkers>>
    BY <1>1, <1>3, <2>1, <2>3, RegisterTyped DEF AuthorizeSolo, IssueCookie, Typed,
         IdentityTypeOK, BooksTyped, sockVars, SockTyped
  <2>4. QED BY <1>3, <2>2, <2>3 DEF AuthorizeSolo
<1>4. CASE a \notin Invalid /\ AuthorizePool(c, a)
  <2>1. FleetTypeOK'
    BY <1>4, RegisterTyped DEF AuthorizePool, Typed, Named, Invalid
  <2>2. IdentityTypeOK'
    BY <1>4 DEF AuthorizePool, L7Register, L7Verdict, Typed, IdentityTypeOK
  <2>3. SockTyped'
    BY <1>4, DestroyTyped DEF AuthorizePool, L7Verdict, Typed, SockTyped, sockVars
  <2>4. BooksTyped'
    <3>1. \E names : Enter(c, names)
      BY <1>4 DEF AuthorizePool, L7Verdict, Track
    <3>2. QED BY <1>1, <3>1, EnterTyped DEF Typed, BooksTyped
  <2>5. QED BY <1>1, <2>1, <2>2, <2>3, <2>4 DEF Typed
<1>5. QED BY <1>2, <1>3, <1>4 DEF Authorize

\* Shares and answers, and what a line may do besides.
LEMMA ShareTyped ==
    ASSUME Typed,
           \/ \E c \in Clients : Flood(c) \/ Drop(c) \/ Submit(c) \/ AuthorizeAnswer(c)
           \/ \E s \in inFlight : Credit(s) \/ Refuse(s)
    PROVE  Typed'
<1> USE DEF Typed, FleetTypeOK, IdentityTypeOK, LoginTyped, BooksTyped, fleetVars,
            identityVars, loginVars, bookVars
<1>1. ASSUME NEW c \in Clients, Flood(c) \/ Drop(c) PROVE Typed'
  BY <1>1, DestroyTyped DEF Flood, Drop
<1>2. ASSUME NEW c \in Clients, Submit(c) PROVE Typed'
  <2>1. CASE Destroy(c) /\ UNCHANGED inFlight
    BY <1>2, <2>1, DestroyTyped DEF Submit
  <2>2. CASE /\ UNCHANGED sockVars
             /\ inFlight' = inFlight \cup
                  {[client |-> c, registered |-> clientAddress[c], relogin |-> FALSE]}
    <3>1. clientAddress[c] \in Legacy \cup {None}
      BY DEF IdentityTypeOK
    <3>2. inFlight' \subseteq Shares
      <4>1. [client |-> c, registered |-> clientAddress[c], relogin |-> FALSE] \in Shares
        BY <3>1 DEF Shares
      <4>2. QED BY <2>2, <4>1
    <3>3. QED BY <1>2, <2>2, <3>2, KeepTyped DEF Submit
  <2>3. QED BY <1>2, <2>1, <2>2 DEF Submit
<1>3. ASSUME NEW c \in Clients, AuthorizeAnswer(c) PROVE Typed'
  <2>1. awaiting' \in [Clients -> Nat]
    BY <1>3 DEF AuthorizeAnswer
  <2>2. SockTyped'
    BY <1>3, DestroyTyped DEF AuthorizeAnswer, sockVars, SockTyped
  <2>3. BooksTyped'
    BY <1>3 DEF AuthorizeAnswer, Enrol, Enrolments, Enter, NoteLate
  <2>4. QED BY <1>3, <2>1, <2>2, <2>3 DEF AuthorizeAnswer
<1>4. ASSUME NEW s \in inFlight, Credit(s) \/ Refuse(s) PROVE Typed'
  <2>1. s.client \in Clients
    BY DEF Shares
  <2>2. BooksTyped'
    BY <1>4, <2>1, EnterTyped, KeepTyped DEF Credit, Refuse, Tally, NoteLate
  <2>3. QED BY <1>4, <2>2, KeepTyped DEF Credit, Refuse
<1>5. QED BY <1>1, <1>2, <1>3, <1>4

LEMMA SweepTyped ==
    ASSUME Typed, NEW c \in Clients, NEW b \in BookNames, Sweep(c, b) PROVE Typed'
BY DEF Typed, FleetTypeOK, IdentityTypeOK, SockTyped, LoginTyped, BooksTyped, fleetVars,
       identityVars, sockVars, loginVars, Sweep, Leave

LEMMA AdministerTyped == Typed /\ Administer => Typed'
BY OrderTyped DEF Administer, FleetOrder, Typed, IdentityTypeOK, SockTyped, LoginTyped,
       BooksTyped, identityVars, sockVars, loginVars, bookVars

LEMMA StopTyped == Typed /\ Stop => Typed'
BY DEF Stop, Typed, FleetTypeOK, IdentityTypeOK, SockTyped, LoginTyped, BooksTyped,
       fleetVars, identityVars, loginVars, bookVars, SockStates

LEMMA StepTyped == Typed /\ [Next]_vars => Typed'
<1>1. CASE UNCHANGED vars
  BY <1>1 DEF vars, Typed, FleetTypeOK, IdentityTypeOK, SockTyped, LoginTyped, BooksTyped,
       fleetVars, identityVars, sockVars, loginVars
<1>2. QED BY <1>1, ConnectTyped, CloseTyped, SubscribeTyped, AuthorizeTyped, ShareTyped,
             SweepTyped, AdministerTyped, StopTyped
          DEF Next, Message, RecalculateAll, CleanupPrints, PersistAll, BookNames

LEMMA AlwaysTyped == Spec => []Typed
BY InitTyped, StepTyped, PTL DEF Spec

----------------------------------------------------------------------------
(* The bounds of TypeOK: no more answers are awaited than logins were made. *)

LoginsCounted ==
    /\ authorized \in [Clients -> BOOLEAN]
    /\ loginsMade \in 0 .. MaxLogins
    /\ \A c \in Clients : awaiting[c] <= logins[c] /\ logins[c] <= loginsMade

BoundInv == LoginsCounted /\ upkeep \in 0 .. MaxUpkeep /\ listening \in BOOLEAN

\* A login adds one to the count of its client and one to that of all.
LEMMA AuthorizeCounted ==
    ASSUME Typed, LoginsCounted, NEW c \in Clients, NEW a \in Named, Authorize(c, a)
    PROVE  LoginsCounted'
<1> USE DEF Typed, LoginTyped, LoginsCounted
<1>1. loginsMade' \in 0 .. MaxLogins
  BY DEF Authorize
<1>2. authorized' \in [Clients -> BOOLEAN]
  <2>1. authorized' = authorized \/ authorized' = [authorized EXCEPT ![c] = TRUE]
    BY DEF Authorize
  <2>2. QED BY <2>1
<1>3. awaiting' = awaiting \/ awaiting' = [awaiting EXCEPT ![c] = @ + 1]
  BY DEF Authorize, AuthorizeSolo, AuthorizePool, L7Verdict
<1>4. logins' = [logins EXCEPT ![c] = @ + 1] /\ loginsMade' = loginsMade + 1
  BY DEF Authorize
<1>5. ASSUME NEW d \in Clients PROVE awaiting'[d] <= logins'[d] /\ logins'[d] <= loginsMade'
  <2>1. /\ awaiting[d] \in Nat /\ logins[d] \in Nat /\ loginsMade \in Nat
        /\ awaiting[d] <= logins[d] /\ logins[d] <= loginsMade
    OBVIOUS
  <2>2. CASE d = c
    BY <1>3, <1>4, <2>1, <2>2
  <2>3. CASE d # c
    BY <1>3, <1>4, <2>1, <2>3
  <2>4. QED BY <2>2, <2>3
<1>6. QED BY <1>1, <1>2, <1>5

\* Every other step leaves the logins alone, and answers only take away.
LEMMA OthersCounted ==
    ASSUME Typed, LoginsCounted, UNCHANGED loginVars,
           awaiting' = awaiting \/ \E c \in Clients :
               awaiting[c] > 0 /\ awaiting' = [awaiting EXCEPT ![c] = @ - 1]
    PROVE  LoginsCounted'
<1> USE DEF Typed, LoginTyped, LoginsCounted, loginVars
<1>1. CASE awaiting' = awaiting
  BY <1>1
<1>2. ASSUME NEW c \in Clients, awaiting[c] > 0, awaiting' = [awaiting EXCEPT ![c] = @ - 1]
      PROVE  \A d \in Clients : awaiting'[d] <= logins[d]
  <2> SUFFICES ASSUME NEW d \in Clients PROVE awaiting'[d] <= logins[d]
    OBVIOUS
  <2>1. awaiting[d] \in Nat /\ logins[d] \in Nat /\ awaiting[d] <= logins[d]
    OBVIOUS
  <2>2. QED BY <1>2, <2>1
<1>3. QED BY <1>1, <1>2

LEMMA MessageCounted ==
    ASSUME Typed, LoginsCounted, NEW c \in Clients, Message(c) PROVE LoginsCounted'
<1>1. CASE Flood(c) \/ Subscribe(c) \/ Submit(c)
  BY <1>1, OthersCounted DEF Flood, Subscribe, Submit
<1>2. QED BY <1>1, AuthorizeCounted DEF Message

LEMMA BoundStep == Typed /\ BoundInv /\ [Next]_vars => BoundInv'
<1> SUFFICES ASSUME Typed, BoundInv, [Next]_vars PROVE BoundInv'
  OBVIOUS
<1> USE DEF BoundInv
<1>1. ASSUME NEW c \in Clients,
             \/ Connect(c) \/ SocketError(c) \/ SocketClose(c) \/ Drop(c)
             \/ AuthorizeAnswer(c)
      PROVE  LoginsCounted'
  BY <1>1, OthersCounted DEF Connect, SocketError, SocketClose, Drop, AuthorizeAnswer
<1>2. ASSUME Stop \/ \E s \in inFlight : Credit(s) \/ Refuse(s) PROVE LoginsCounted'
  <2>1. UNCHANGED <<loginVars, awaiting>>
    BY <1>2 DEF Stop, Credit, Refuse
  <2>2. QED BY <2>1, OthersCounted
<1>3. ASSUME NEW c \in Clients, RecalculateAll(c) \/ CleanupPrints(c) \/ PersistAll(c)
      PROVE  LoginsCounted' /\ upkeep' \in 0 .. MaxUpkeep
  <2>1. LoginsCounted'
    BY <1>3, OthersCounted DEF RecalculateAll, CleanupPrints, PersistAll, Sweep
  <2>2. QED BY <1>3, <2>1 DEF RecalculateAll, CleanupPrints, PersistAll, Sweep
<1>4. ASSUME Administer PROVE LoginsCounted' /\ upkeep' \in 0 .. MaxUpkeep
  <2>1. LoginsCounted'
    BY <1>4, OthersCounted DEF Administer
  <2>2. QED BY <1>4, <2>1 DEF Administer
<1>5. ASSUME UNCHANGED vars PROVE LoginsCounted' /\ upkeep' \in 0 .. MaxUpkeep
  BY <1>5, OthersCounted DEF vars
<1>6. listening' \in BOOLEAN
  <2>1. ASSUME NEW c \in Clients, Message(c) PROVE listening' = listening
    BY <2>1 DEF Message, Flood, Subscribe, Welcome, Submit, Authorize, AuthorizeSolo,
         AuthorizePool, L7Verdict, Destroy, sockVars
  <2>2. ASSUME NEW c \in Clients, Drop(c) \/ AuthorizeAnswer(c) PROVE listening' = listening
    BY <2>2 DEF Drop, AuthorizeAnswer, Destroy, sockVars
  <2>3. ASSUME NEW c \in Clients, Connect(c) \/ SocketError(c) \/ SocketClose(c)
        PROVE  listening' = listening
    BY <2>3 DEF Connect, SocketError, SocketClose
  <2>4. ASSUME NEW c \in Clients, RecalculateAll(c) \/ CleanupPrints(c) \/ PersistAll(c)
        PROVE  listening' = listening
    BY <2>4 DEF RecalculateAll, CleanupPrints, PersistAll, Sweep, sockVars
  <2>5. CASE Administer \/ Stop \/ (\E s \in inFlight : Credit(s) \/ Refuse(s))
             \/ UNCHANGED vars
    BY <2>5 DEF Administer, Stop, Credit, Refuse, vars, sockVars
  <2>6. QED BY <2>1, <2>2, <2>3, <2>4, <2>5 DEF Next
<1>7. QED BY <1>1, <1>2, <1>3, <1>4, <1>5, <1>6, MessageCounted DEF Next

\* The books have their types, and whatever the order of lines, answers and
\* closes, no client waits for more answers than the logins made.
THEOREM SessionTypes == Spec => []TypeOK
<1>1. Init => BoundInv
  BY DEF Init, ClientInit, BoundInv, LoginsCounted
<1>2. Typed /\ BoundInv => TypeOK
  <2> SUFFICES ASSUME Typed, BoundInv PROVE TypeOK
    OBVIOUS
  <2>1. \A c \in Clients : awaiting[c] \in 0 .. MaxLogins /\ logins[c] \in 0 .. MaxLogins
    BY DEF Typed, LoginTyped, BoundInv, LoginsCounted
  <2>2. awaiting \in [Clients -> 0 .. MaxLogins] /\ logins \in [Clients -> 0 .. MaxLogins]
    BY <2>1 DEF Typed, LoginTyped
  <2>3. QED
    BY <2>2 DEF Typed, SockTyped, LoginTyped, BooksTyped, BoundInv, LoginsCounted, TypeOK
<1>3. QED BY <1>1, <1>2, BoundStep, AlwaysTyped, PTL DEF Spec

----------------------------------------------------------------------------
(* The fleet and its capacity.                                             *)

\* What a step may do to the fleet.
LEMMA FleetSteps ==
    ASSUME Typed, [Next]_vars
    PROVE  \/ UNCHANGED <<fleetMiners, publicMiners, maxFleetMiners>>
           \/ \E c \in Clients : HandlesLine(c) /\ \E a \in Addrs : RegisterMiner(c, a)
           \/ \E c \in Clients : RemoveMiner(c)
           \/ FleetOrder
<1>1. ASSUME NEW c \in Clients, Message(c)
      PROVE  \/ UNCHANGED <<fleetMiners, publicMiners, maxFleetMiners>>
             \/ HandlesLine(c) /\ \E a \in Addrs : RegisterMiner(c, a)
  <2>1. CASE Flood(c) \/ Subscribe(c) \/ Submit(c)
    BY <2>1 DEF Flood, Subscribe, Welcome, Submit, fleetVars, listVars
  <2>2. ASSUME NEW a \in Named, Authorize(c, a)
        PROVE  \/ UNCHANGED <<fleetMiners, publicMiners, maxFleetMiners>>
               \/ HandlesLine(c) /\ a \in Addrs /\ RegisterMiner(c, a)
    <3>1. minerAddress'[c] = a
      BY <2>2 DEF Authorize, Typed, LoginTyped
    <3>2. QED BY <2>2, <3>1 DEF Authorize, AuthorizeSolo, AuthorizePool, Named, Invalid, fleetVars
  <2>3. QED BY <1>1, <2>1, <2>2 DEF Message
<1>2. ASSUME NEW c \in Clients, SocketError(c) \/ SocketClose(c) PROVE RemoveMiner(c)
  BY <1>2 DEF SocketError, SocketClose, Cleanup
<1>3. ASSUME NEW c \in Clients, Connect(c) \/ Drop(c) \/ AuthorizeAnswer(c)
      PROVE  UNCHANGED <<fleetMiners, publicMiners, maxFleetMiners>>
  BY <1>3 DEF Connect, Drop, AuthorizeAnswer, fleetVars
<1>4. CASE Stop \/ \E s \in inFlight : Credit(s) \/ Refuse(s)
  BY <1>4 DEF Stop, Credit, Refuse, fleetVars
<1>5. CASE \E c \in Clients : RecalculateAll(c) \/ CleanupPrints(c) \/ PersistAll(c)
  BY <1>5 DEF RecalculateAll, CleanupPrints, PersistAll, Sweep, fleetVars
<1>6. CASE Administer
  BY <1>6 DEF Administer, FleetOrder
<1>7. CASE UNCHANGED vars
  BY <1>7 DEF vars, fleetVars
<1>8. QED BY <1>1, <1>2, <1>3, <1>4, <1>5, <1>6, <1>7 DEF Next

Grows == Cardinality(Listed(fleetMiners')) <= Cardinality(Listed(fleetMiners))
Fits == Cardinality(Listed(fleetMiners')) <= maxFleetMiners

LEMMA ListedFinite ==
    ASSUME NEW book
    PROVE  /\ Listed(book) \subseteq Clients /\ IsFiniteSet(Listed(book))
           /\ Cardinality(Listed(book)) \in Nat
BY FS_Subset, FS_CardinalityType DEF Listed

LEMMA AddOne ==
    ASSUME NEW S, NEW x, IsFiniteSet(S)
    PROVE  /\ IsFiniteSet(S \cup {x})
           /\ Cardinality(S) \in Nat /\ Cardinality(S \cup {x}) \in Nat
           /\ x \in S => Cardinality(S \cup {x}) = Cardinality(S)
           /\ x \notin S => Cardinality(S \cup {x}) = Cardinality(S) + 1
           /\ Cardinality(S \cup {x}) <= Cardinality(S) + 1
<1>1. /\ IsFiniteSet(S \cup {x})
      /\ Cardinality(S \cup {x}) = IF x \in S THEN Cardinality(S) ELSE Cardinality(S) + 1
  BY FS_AddElement
<1>2. QED BY <1>1, FS_CardinalityType

LEMMA RegisterFits ==
    ASSUME Typed, NEW c \in Clients, NEW a \in Addrs, RegisterMiner(c, a)
    PROVE  Grows \/ Fits
<1>1. CASE fleetMiners' = fleetMiners
  BY <1>1, ListedFinite DEF Grows
<1>2. CASE HasRoom /\ fleetMiners' = [fleetMiners EXCEPT ![c] = a]
  <2>1. Listed(fleetMiners') \subseteq Listed(fleetMiners) \cup {c}
    BY <1>2 DEF Listed, Typed, FleetTypeOK
  <2>2. Cardinality(Listed(fleetMiners) \cup {c}) <= Cardinality(Listed(fleetMiners)) + 1
        /\ IsFiniteSet(Listed(fleetMiners) \cup {c})
    BY ListedFinite, AddOne
  <2>3. Cardinality(Listed(fleetMiners')) <= Cardinality(Listed(fleetMiners) \cup {c})
    BY <2>1, <2>2, FS_Subset
  <2>4. maxFleetMiners \in Nat
    BY DEF Typed, FleetTypeOK
  <2>5. Cardinality(Listed(fleetMiners) \cup {c}) \in Nat
    BY <2>2, FS_CardinalityType
  <2>6. QED BY <1>2, <2>2, <2>3, <2>4, <2>5, ListedFinite DEF HasRoom, Fits
<1>3. QED BY <1>1, <1>2 DEF RegisterMiner

LEMMA ReclassifyFits ==
    ASSUME Typed, NEW ips, NEW addrs, Reclassify(ips, addrs)
    PROVE  Grows \/ Fits
<1> DEFINE Size(set) == Cardinality(Listed(fleetMiners) \cup set)
<1>1. PICK moved \in SUBSET Listed(publicMiners) :
        /\ moved = {} \/ \E last \in moved : Size(moved \ {last}) < maxFleetMiners
        /\ fleetMiners' = [c \in Clients |->
                             IF c \in moved THEN publicMiners[c] ELSE fleetMiners[c]]
  BY DEF Reclassify
<1>2. Listed(fleetMiners') = Listed(fleetMiners) \cup moved
  BY <1>1, ListedFinite DEF Listed, Typed, FleetTypeOK
<1>3. CASE moved = {}
  BY <1>2, <1>3, ListedFinite DEF Grows
<1>4. ASSUME NEW last \in moved, Size(moved \ {last}) < maxFleetMiners PROVE Fits
  <2>1. IsFiniteSet(Listed(fleetMiners) \cup (moved \ {last}))
    BY ListedFinite, FS_Subset, FS_Union
  <2>2. Listed(fleetMiners') = (Listed(fleetMiners) \cup (moved \ {last})) \cup {last}
    BY <1>2
  <2>3. Cardinality(Listed(fleetMiners')) <= Size(moved \ {last}) + 1
    BY <2>1, <2>2, AddOne
  <2>4. Size(moved \ {last}) \in Nat /\ maxFleetMiners \in Nat
    BY <2>1, FS_CardinalityType DEF Typed, FleetTypeOK
  <2>5. QED BY <1>4, <2>3, <2>4, ListedFinite DEF Fits
<1>5. QED BY <1>1, <1>3, <1>4

LEMMA CapacityStep == ASSUME Typed, [Next]_vars PROVE Grows \/ Fits
<1>1. CASE UNCHANGED <<fleetMiners, publicMiners, maxFleetMiners>>
  BY <1>1, ListedFinite DEF Grows
<1>2. ASSUME NEW c \in Clients, RemoveMiner(c) PROVE Grows
  <2>1. Listed(fleetMiners') \subseteq Listed(fleetMiners)
    BY <1>2 DEF RemoveMiner, Listed, Typed, FleetTypeOK
  <2>2. QED BY <2>1, ListedFinite, FS_Subset DEF Grows
<1>3. ASSUME FleetOrder PROVE Grows \/ Fits
  <2>1. \/ fleetMiners' = fleetMiners
        \/ \E ips, addrs : Reclassify(ips, addrs)
    BY <1>3 DEF FleetOrder, AddIp, AddAddress, RemoveIp, RemoveAddress, SetMaxMiners
  <2>2. CASE fleetMiners' = fleetMiners
    BY <2>2, ListedFinite DEF Grows
  <2>3. QED BY <2>1, <2>2, ReclassifyFits
<1>4. QED BY <1>1, <1>2, <1>3, FleetSteps, RegisterFits

\* For any number of miners, whatever the order of logins, disconnections and
\* changes of the lists: nothing takes the fleet beyond the capacity in force.
THEOREM FleetStaysInCapacity == Spec => FleetWithinCapacity
<1>1. ASSUME Typed, [Next]_vars
      PROVE  [LET n == Cardinality(Listed(fleetMiners'))
              IN n <= Cardinality(Listed(fleetMiners)) \/ n <= maxFleetMiners]_vars
  BY <1>1, CapacityStep DEF Grows, Fits
<1>2. QED BY <1>1, AlwaysTyped, PTL DEF Spec, FleetWithinCapacity

----------------------------------------------------------------------------
(* Shares and the address they are paid to.                                *)

\* A share under way whose client has not logged in again is for the address
\* the client has; CreditMatchesLogin is this at the moment of the credit.
Faithful ==
    \A s \in inFlight :
        \/ s.relogin
        \/ s.registered \in Legacy /\ minerAddress[s.client] = s.registered
        \/ minerAddress[s.client] = "empty"

LEMMA LoginSteps ==
    ASSUME [Next]_vars
    PROVE  \/ UNCHANGED minerAddress /\ inFlight' \subseteq inFlight
           \/ \E c \in Clients : Submit(c) \/ \E a \in Named : Authorize(c, a)
<1>1. ASSUME NEW c \in Clients, SocketError(c) \/ SocketClose(c) \/ Connect(c) \/ Drop(c)
                                \/ Flood(c) \/ Subscribe(c) \/ AuthorizeAnswer(c)
      PROVE  UNCHANGED <<minerAddress, inFlight>>
  BY <1>1 DEF SocketError, SocketClose, Connect, Drop, Flood, Subscribe, AuthorizeAnswer,
              loginVars
<1>2. CASE Stop \/ \E s \in inFlight : Credit(s) \/ Refuse(s)
  BY <1>2 DEF Stop, Credit, Refuse, loginVars
<1>3. CASE \E c \in Clients : RecalculateAll(c) \/ CleanupPrints(c) \/ PersistAll(c)
  BY <1>3 DEF RecalculateAll, CleanupPrints, PersistAll, Sweep, loginVars
<1>4. CASE Administer
  BY <1>4 DEF Administer, loginVars
<1>5. CASE UNCHANGED vars
  BY <1>5 DEF vars, loginVars
<1>6. QED BY <1>1, <1>2, <1>3, <1>4, <1>5 DEF Next, Message

LEMMA FaithfulStep == Typed /\ Faithful /\ [Next]_vars => Faithful'
<1> SUFFICES ASSUME Typed, Faithful, [Next]_vars PROVE Faithful'
  OBVIOUS
<1>1. CASE UNCHANGED minerAddress /\ inFlight' \subseteq inFlight
  BY <1>1 DEF Faithful
<1>2. ASSUME NEW c \in Clients, Submit(c) PROVE Faithful'
  <2>1. UNCHANGED minerAddress
    BY <1>2 DEF Submit, loginVars
  <2>2. CASE UNCHANGED inFlight
    BY <2>1, <2>2 DEF Faithful
  <2>3. CASE /\ PassesLayer7(c)
             /\ inFlight' = inFlight \cup
                  {[client |-> c, registered |-> clientAddress[c], relogin |-> FALSE]}
    <3>1. \/ clientAddress[c] \in Legacy /\ minerAddress[c] = clientAddress[c]
          \/ minerAddress[c] = "empty"
      BY <2>3 DEF PassesLayer7, PayoutIntegrity, Typed, IdentityTypeOK
    <3>2. QED BY <2>1, <2>3, <3>1 DEF Faithful
  <2>4. QED BY <1>2, <2>2, <2>3 DEF Submit
<1>3. ASSUME NEW c \in Clients, NEW a \in Named, Authorize(c, a) PROVE Faithful'
  <2>1. SUFFICES ASSUME NEW t \in inFlight'
                 PROVE  \/ t.relogin
                        \/ t.registered \in Legacy /\ minerAddress'[t.client] = t.registered
                        \/ minerAddress'[t.client] = "empty"
    BY DEF Faithful
  <2>2. PICK s \in inFlight : t = [s EXCEPT !.relogin = @ \/ s.client = c]
    BY <1>3 DEF Authorize
  <2>3. /\ s \in Shares /\ t.client = s.client /\ t.registered = s.registered
        /\ t.relogin = (s.relogin \/ s.client = c)
    BY <2>2 DEF Typed, LoginTyped, Shares
  <2>4. s.client # c => minerAddress'[s.client] = minerAddress[s.client]
    BY <1>3, <2>3 DEF Authorize, Typed, LoginTyped, Shares
  <2>5. QED BY <2>3, <2>4 DEF Faithful
<1>4. QED BY <1>1, <1>2, <1>3, LoginSteps

\* For any number of clients, shares and logins: a share is paid to no address
\* but the one layer 7 found registered for its client, unless the client logged
\* in again; a client that names an empty address, which layer 7 lets through,
\* is the only other case.
THEOREM CreditIsFaithful == Spec => CreditMatchesLogin
<1>1. Init => Faithful
  BY DEF Init, Faithful
<1>2. ASSUME Faithful
      PROVE  [\A s \in inFlight : Credit(s) =>
                \/ s.relogin
                \/ s.registered \in Legacy /\ minerAddress[s.client] = s.registered
                \/ minerAddress[s.client] = "empty"]_vars
  BY <1>2 DEF Faithful
<1>3. QED BY <1>1, <1>2, FaithfulStep, AlwaysTyped, PTL DEF Spec, CreditMatchesLogin

----------------------------------------------------------------------------
(* Connections and the counts of their IPs.                                *)

\* CountsMatch rests on this: the second event of a socket, which counts down
\* again, finds its IP among the disturbed ones.
FailedIsDisturbed == \A c \in Clients : sock[c] = "failed" => IpOf[c] \in disturbed

CountInv == CountsMatch /\ FailedIsDisturbed

\* A step that neither opens nor closes a connection.
SocketsKept ==
    /\ UNCHANGED <<port, ipCounts, disturbed>>
    /\ \A c \in Clients : sock'[c] = sock[c] \/ (sock[c] = "open" /\ sock'[c] = "destroyed")

LEMMA DestroyKeeps == ASSUME Typed, NEW c \in Clients, Destroy(c) PROVE SocketsKept
BY DEF Destroy, SocketsKept, Typed, SockTyped

LEMMA SocketSteps ==
    ASSUME Typed, [Next]_vars
    PROVE  SocketsKept \/ \E c \in Clients : Connect(c) \/ SocketError(c) \/ SocketClose(c)
<1>1. ASSUME UNCHANGED sockVars PROVE SocketsKept
  BY <1>1 DEF sockVars, SocketsKept
<1>2. ASSUME NEW c \in Clients, Message(c) PROVE SocketsKept
  <2>1. Destroy(c) \/ UNCHANGED sockVars
    <3>1. CASE Flood(c) \/ Subscribe(c) \/ Submit(c)
      BY <3>1 DEF Flood, Subscribe, Welcome, Submit
    <3>2. ASSUME NEW a \in Named, Authorize(c, a) PROVE Destroy(c) \/ UNCHANGED sockVars
      BY <3>2 DEF Authorize, AuthorizeSolo, AuthorizePool, L7Verdict
    <3>3. QED BY <1>2, <3>1, <3>2 DEF Message
  <2>2. QED BY <1>1, <2>1, DestroyKeeps
<1>3. ASSUME NEW c \in Clients, Drop(c) \/ AuthorizeAnswer(c) PROVE SocketsKept
  BY <1>1, <1>3, DestroyKeeps DEF Drop, AuthorizeAnswer
<1>4. CASE Stop
  BY <1>4 DEF Stop, SocketsKept, Typed, SockTyped
<1>5. CASE \E s \in inFlight : Credit(s) \/ Refuse(s)
  BY <1>1, <1>5 DEF Credit, Refuse
<1>6. CASE \E c \in Clients : RecalculateAll(c) \/ CleanupPrints(c) \/ PersistAll(c)
  BY <1>1, <1>6 DEF RecalculateAll, CleanupPrints, PersistAll, Sweep
<1>7. CASE Administer
  BY <1>1, <1>7 DEF Administer
<1>8. CASE UNCHANGED vars
  BY <1>1, <1>8 DEF vars
<1>9. QED BY <1>2, <1>3, <1>4, <1>5, <1>6, <1>7, <1>8 DEF Next

LEMMA HoldingFinite ==
    \A p, ip : IsFiniteSet(Holding(p, ip)) /\ Cardinality(Holding(p, ip)) \in Nat
BY FS_Subset, FS_CardinalityType DEF Holding

\* What CountsMatch says of one IP on one port.
Matches(p, ip) ==
    /\ ipCounts[p][ip] <= Cardinality(Holding(p, ip))
    /\ ip \notin disturbed =>
         ipCounts[p][ip] = Cardinality(Holding(p, ip)) /\ ipCounts[p][ip] <= MaxPerIp[p]

LEMMA MatchesAll == Typed => (CountsMatch <=> \A p \in Ports, ip \in IPs : Matches(p, ip))
BY DEF Matches, CountsMatch

LEMMA OtherMatches ==
    ASSUME NEW p \in Ports, NEW ip \in IPs, Matches(p, ip),
           ipCounts'[p][ip] = ipCounts[p][ip], Holding(p, ip)' = Holding(p, ip),
           disturbed \subseteq disturbed'
    PROVE  Matches(p, ip)'
BY DEF Matches

LEMMA Opened ==
    ASSUME Typed, NEW c \in Clients, NEW p \in Ports, sock[c] = "idle", Accept(c, p),
           NEW q \in Ports, NEW ip \in IPs
    PROVE  /\ q = p /\ ip = IpOf[c] => /\ Holding(q, ip)' = Holding(q, ip) \cup {c}
                                      /\ c \notin Holding(q, ip)
           /\ q # p \/ ip # IpOf[c] => Holding(q, ip)' = Holding(q, ip)
BY DEF Accept, Holding, Typed, SockTyped

LEMMA CountedStep ==
    ASSUME Typed, CountsMatch, NEW c \in Clients, NEW p \in Ports, sock[c] = "idle",
           ConnectCounted(c, p), UNCHANGED disturbed
    PROVE  CountsMatch'
<1> SUFFICES ASSUME NEW q \in Ports, NEW ip \in IPs PROVE Matches(q, ip)'
  BY DEF CountsMatch, Matches
<1>1. Matches(q, ip)
  BY MatchesAll
<1>2. CASE UNCHANGED ipCounts /\ sock' = [sock EXCEPT ![c] = "refused"]
           /\ port' = [port EXCEPT ![c] = p]
  <2>1. Holding(q, ip)' = Holding(q, ip)
    BY <1>2 DEF Holding, Typed, SockTyped
  <2>2. QED BY <1>1, <1>2, <2>1, OtherMatches
<1>3. CASE /\ ipCounts[p][IpOf[c]] + 1 <= MaxPerIp[p]
           /\ ipCounts' = [ipCounts EXCEPT ![p][IpOf[c]] = ipCounts[p][IpOf[c]] + 1]
           /\ Accept(c, p)
  <2>1. CASE q = p /\ ip = IpOf[c]
    <3>1. ipCounts'[q][ip] = ipCounts[q][ip] + 1 /\ ipCounts[q][ip] \in Nat
      BY <1>3, <2>1 DEF Typed, SockTyped
    <3>2. Cardinality(Holding(q, ip)') = Cardinality(Holding(q, ip)) + 1
      <4>1. Holding(q, ip)' = Holding(q, ip) \cup {c} /\ c \notin Holding(q, ip)
        BY <1>3, <2>1, Opened
      <4>2. IsFiniteSet(Holding(q, ip))
        BY HoldingFinite
      <4>3. QED BY <4>1, <4>2, AddOne
    <3>3. QED BY <1>1, <1>3, <2>1, <3>1, <3>2, HoldingFinite DEF Matches
  <2>2. CASE q # p \/ ip # IpOf[c]
    <3>1. ipCounts'[q][ip] = ipCounts[q][ip]
      BY <1>3, <2>2 DEF Typed, SockTyped
    <3>2. QED BY <1>1, <1>3, <2>2, <3>1, Opened, OtherMatches
  <2>3. QED BY <2>1, <2>2
<1>4. QED BY <1>2, <1>3 DEF ConnectCounted

LEMMA ConnectStep ==
    ASSUME Typed, CountInv, NEW c \in Clients, Connect(c) PROVE CountInv'
<1>1. CASE ConnectSolo(c) \/ (ConnectPool(c) /\ ~IsFleetIp(c))
  <2>1. PICK p \in Ports : ConnectCounted(c, p) /\ UNCHANGED disturbed
    BY <1>1 DEF ConnectSolo, ConnectPool, Ports
  <2>2. CountsMatch'
    BY <2>1, CountedStep DEF Connect, CountInv
  <2>3. FailedIsDisturbed'
    BY <2>1 DEF Connect, ConnectCounted, Accept, CountInv, FailedIsDisturbed, Typed, SockTyped
  <2>4. QED BY <2>2, <2>3 DEF CountInv
<1>2. CASE ConnectPool(c) /\ IsFleetIp(c)
  <2>1. /\ Accept(c, "pool") /\ UNCHANGED ipCounts /\ sock[c] = "idle"
        /\ disturbed' = disturbed \cup {IpOf[c]}
    BY <1>2 DEF Connect, ConnectPool
  <2>2. ASSUME NEW q \in Ports, NEW ip \in IPs PROVE Matches(q, ip)'
    <3>1. Matches(q, ip)
      BY MatchesAll DEF CountInv
    <3>2. CASE q = "pool" /\ ip = IpOf[c]
      <4>1. Cardinality(Holding(q, ip)') = Cardinality(Holding(q, ip)) + 1
        <5>1. Holding(q, ip)' = Holding(q, ip) \cup {c} /\ c \notin Holding(q, ip)
          BY <2>1, <3>2, Opened DEF Ports
        <5>2. IsFiniteSet(Holding(q, ip))
          BY HoldingFinite
        <5>3. QED BY <5>1, <5>2, AddOne
      <4>2. ip \in disturbed' /\ ipCounts[q][ip] \in Nat /\ ipCounts' = ipCounts
        BY <2>1, <3>2 DEF Typed, SockTyped
      <4>3. QED BY <3>1, <4>1, <4>2, HoldingFinite DEF Matches
    <3>3. CASE q # "pool" \/ ip # IpOf[c]
      BY <2>1, <3>1, <3>3, Opened, OtherMatches DEF Ports
    <3>4. QED BY <3>2, <3>3
  <2>3. CountsMatch'
    BY <2>2 DEF CountsMatch, Matches
  <2>4. FailedIsDisturbed'
    BY <2>1 DEF Accept, CountInv, FailedIsDisturbed, Typed, SockTyped
  <2>5. QED BY <2>3, <2>4 DEF CountInv
<1>3. QED BY <1>1, <1>2 DEF Connect

\* A connection ends, or is heard of once more after it ended.
LEMMA CloseStep ==
    ASSUME Typed, CountInv, NEW c \in Clients, SocketError(c) \/ SocketClose(c)
    PROVE  CountInv'
<1> DEFINE port0 == port[c]  ip0 == IpOf[c]
<1>1. PICK x \in {"failed", "closed"} : sock' = [sock EXCEPT ![c] = x]
  BY DEF SocketError, SocketClose
<1>2. /\ port' = port /\ disturbed \subseteq disturbed'
      /\ ipCounts' = [ipCounts EXCEPT ![port0][ip0] = CountDown(c)]
      /\ sock[c] \in {"open", "destroyed", "failed"}
      /\ sock'[c] = "failed" => ip0 \in disturbed'
  BY DEF SocketError, SocketClose, Cleanup, Typed, SockTyped
<1>3. ASSUME NEW q \in Ports, NEW ip \in IPs PROVE Matches(q, ip)'
  <2>1. Matches(q, ip)
    BY MatchesAll DEF CountInv
  <2>2. Holding(q, ip)' = Holding(q, ip) \ {c}
    BY <1>1, <1>2 DEF Holding, Typed, SockTyped
  <2>3. CASE q # port0 \/ ip # ip0
    <3>1. ipCounts'[q][ip] = ipCounts[q][ip]
      BY <1>2, <2>3 DEF Typed, SockTyped
    <3>2. c \notin Holding(q, ip)
      BY <2>3 DEF Holding
    <3>3. QED BY <1>2, <2>1, <2>2, <3>1, <3>2, OtherMatches
  <2>4. CASE q = port0 /\ ip = ip0
    <3>1. ipCounts'[q][ip] = CountDown(c) /\ ipCounts[q][ip] \in Nat
      BY <1>2, <2>4 DEF Typed, SockTyped
    <3>2. CASE c \in Holding(q, ip)
      <4>1. IsFiniteSet(Holding(q, ip))
        BY HoldingFinite
      <4>2. Cardinality(Holding(q, ip)') = Cardinality(Holding(q, ip)) - 1
        BY <2>2, <3>2, <4>1, FS_RemoveElement
      <4>3. Cardinality(Holding(q, ip)) \in Nat /\ Cardinality(Holding(q, ip)') \in Nat
        BY <2>2, <4>1, HoldingFinite, FS_RemoveElement, FS_CardinalityType
      <4>4. MaxPerIp'[q] = MaxPerIp[q] /\ MaxPerIp[q] \in Nat
        OBVIOUS
      <4>5. QED BY <1>2, <2>1, <2>4, <3>1, <4>2, <4>3, <4>4 DEF Matches, CountDown
    <3>3. CASE c \notin Holding(q, ip)
      <4>1. ip \in disturbed'
        BY <1>2, <2>4, <3>3 DEF Holding, CountInv, FailedIsDisturbed
      <4>2. Holding(q, ip)' = Holding(q, ip) /\ CountDown(c) <= ipCounts[q][ip]
        BY <2>2, <2>4, <3>1, <3>3 DEF CountDown
      <4>3. CountDown(c) \in Nat
        BY <2>4, <3>1 DEF CountDown
      <4>4. QED BY <2>1, <3>1, <4>1, <4>2, <4>3, HoldingFinite DEF Matches
    <3>4. QED BY <3>2, <3>3
  <2>5. QED BY <2>3, <2>4
<1>4. CountsMatch'
  BY <1>3 DEF CountsMatch, Matches
<1>5. FailedIsDisturbed'
  BY <1>1, <1>2 DEF CountInv, FailedIsDisturbed, Typed, SockTyped
<1>6. QED BY <1>4, <1>5 DEF CountInv

LEMMA KeptStep == ASSUME Typed, CountInv, SocketsKept PROVE CountInv'
<1>1. \A p \in Ports, ip \in IPs : Holding(p, ip)' = Holding(p, ip)
  BY DEF SocketsKept, Holding
<1>2. \A p \in Ports, ip \in IPs : Matches(p, ip)'
  BY <1>1, MatchesAll, OtherMatches DEF SocketsKept, CountInv
<1>3. CountsMatch'
  BY <1>2 DEF CountsMatch, Matches
<1>4. FailedIsDisturbed'
  BY DEF SocketsKept, CountInv, FailedIsDisturbed
<1>5. QED BY <1>3, <1>4 DEF CountInv

LEMMA InitCounts == Init => CountInv
<1> SUFFICES ASSUME Init PROVE CountInv
  OBVIOUS
<1>1. \A p \in Ports, ip \in IPs : Holding(p, ip) = {}
  BY DEF Init, Holding
<1>2. \A p \in Ports, ip \in IPs : Cardinality(Holding(p, ip)) = 0 /\ ipCounts[p][ip] = 0
  BY <1>1, FS_EmptySet DEF Init
<1>3. CountsMatch
  BY <1>2 DEF CountsMatch
<1>4. QED BY <1>3 DEF Init, CountInv, FailedIsDisturbed

\* For any number of clients, IPs and limits: the counts never exceed what is
\* open, and where no socket failed and none was the fleet's they are exact.
THEOREM CountsAreRight == Spec => []CountsMatch
<1>1. Typed /\ CountInv /\ [Next]_vars => CountInv'
  BY SocketSteps, KeptStep, ConnectStep, CloseStep
<1>2. CountInv => CountsMatch
  BY DEF CountInv
<1>3. QED BY <1>1, <1>2, InitCounts, AlwaysTyped, PTL DEF Spec

----------------------------------------------------------------------------
(* What a closed connection leaves behind.                                 *)

\* Only a client whose socket is there has lines left to handle.
RestIsThere == \A c \in Clients : rest = c => sock[c] \in {"open", "destroyed"}

\* A client that logged in once has one slot at most, that of its address.
OneSlot ==
    \A c \in Clients, a \in Legacy : c \in addressWorkers[a] =>
        logins[c] > 0 /\ (logins[c] < 2 => clientAddress[c] = a)

\* The three parts of NothingLeftBehind.
OffBooks(c) ==
    \A b \in BookNames : c \in books[b] => c \in late /\ b \in {"rates", "models"}
OffFleet(c) == c \notin Listed(fleetMiners) \cup Listed(publicMiners)
OffRegister(c) ==
    /\ c \notin cookies /\ clientAddress[c] = None
    /\ logins[c] < 2 => \A a \in Legacy : c \notin addressWorkers[a]

Gone(c) == OffBooks(c) /\ OffFleet(c) /\ OffRegister(c)
CleanInv == RestIsThere /\ OneSlot /\ \A c \in Clients : sock[c] = "closed" => Gone(c)

LEMMA RestStep == Typed /\ RestIsThere /\ [Next]_vars => RestIsThere'
<1> SUFFICES ASSUME Typed, RestIsThere, [Next]_vars PROVE RestIsThere'
  OBVIOUS
<1>1. ASSUME rest' = None PROVE RestIsThere'
  BY <1>1 DEF RestIsThere
<1>2. ASSUME UNCHANGED <<rest, sock>> PROVE RestIsThere'
  BY <1>2 DEF RestIsThere
<1>3. ASSUME NEW c \in Clients, Message(c) PROVE RestIsThere'
  <2>1. rest' = c /\ sock[c] \in {"open", "destroyed"}
    BY <1>3 DEF Message, Flood, Subscribe, Authorize, Submit, HandlesLine, RestIsThere
  <2>2. Destroy(c) \/ UNCHANGED sockVars
    <3>1. CASE Flood(c) \/ Subscribe(c) \/ Submit(c)
      BY <3>1 DEF Flood, Subscribe, Welcome, Submit
    <3>2. ASSUME NEW a \in Named, Authorize(c, a) PROVE Destroy(c) \/ UNCHANGED sockVars
      BY <3>2 DEF Authorize, AuthorizeSolo, AuthorizePool, L7Verdict
    <3>3. QED BY <1>3, <3>1, <3>2 DEF Message
  <2>3. sock'[c] \in {"open", "destroyed"}
    BY <2>1, <2>2 DEF Destroy, sockVars, Typed, SockTyped
  <2>4. QED BY <2>1, <2>3 DEF RestIsThere
<1>4. CASE Administer
  BY <1>1, <1>4 DEF Administer
<1>5. QED BY <1>1, <1>2, <1>3, <1>4
          DEF Next, Connect, SocketError, SocketClose, Drop, AuthorizeAnswer, Credit, Refuse,
              Stop, RecalculateAll, CleanupPrints, PersistAll, Sweep, vars, sockVars

\* What a step may do to the register of layer 7 and to the cookies.
RegisterStep(c) ==
    \/ Deregister(c) /\ UNCHANGED logins
    \/ HandlesLine(c) /\ Welcome(c) /\ UNCHANGED logins
    \/ \E a \in Named : Authorize(c, a)

LEMMA RegisterSteps ==
    ASSUME [Next]_vars
    PROVE  UNCHANGED <<identityVars, logins>> \/ \E c \in Clients : RegisterStep(c)
<1>1. ASSUME NEW c \in Clients, Connect(c) \/ Drop(c) \/ Flood(c) \/ Submit(c)
                                \/ AuthorizeAnswer(c)
      PROVE  UNCHANGED <<identityVars, logins>>
  BY <1>1 DEF Connect, Drop, Flood, Submit, AuthorizeAnswer, loginVars
<1>2. ASSUME NEW c \in Clients, SocketError(c) \/ SocketClose(c) PROVE RegisterStep(c)
  BY <1>2 DEF SocketError, SocketClose, Cleanup, loginVars, RegisterStep
<1>3. ASSUME NEW c \in Clients, Message(c)
      PROVE  UNCHANGED <<identityVars, logins>> \/ RegisterStep(c)
  BY <1>1, <1>3 DEF Message, Subscribe, loginVars, RegisterStep
<1>4. CASE Stop \/ \E s \in inFlight : Credit(s) \/ Refuse(s)
  BY <1>4 DEF Stop, Credit, Refuse, loginVars
<1>5. CASE \E c \in Clients : RecalculateAll(c) \/ CleanupPrints(c) \/ PersistAll(c)
  BY <1>5 DEF RecalculateAll, CleanupPrints, PersistAll, Sweep, loginVars
<1>6. CASE Administer
  BY <1>6 DEF Administer, loginVars
<1>7. CASE UNCHANGED vars
  BY <1>7 DEF vars, loginVars
<1>8. QED BY <1>1, <1>2, <1>3, <1>4, <1>5, <1>6, <1>7 DEF Next

\* What an authorization does to them.
LEMMA AuthorizeRegisters ==
    ASSUME Typed, NEW c \in Clients, NEW a \in Named, Authorize(c, a)
    PROVE  /\ HandlesLine(c) /\ logins' = [logins EXCEPT ![c] = @ + 1]
           /\ cookies' \subseteq cookies \cup {c}
           /\ \/ UNCHANGED <<clientAddress, addressWorkers>>
              \/ /\ a \in Legacy
                 /\ clientAddress' = [clientAddress EXCEPT ![c] = a]
                 /\ addressWorkers' = [addressWorkers EXCEPT ![a] = @ \cup {c}]
<1>1. HandlesLine(c) /\ logins' = [logins EXCEPT ![c] = @ + 1]
  BY DEF Authorize
<1>2. CASE UNCHANGED identityVars
  BY <1>1, <1>2 DEF identityVars
<1>3. CASE AuthorizeSolo(c)
  BY <1>1, <1>3 DEF AuthorizeSolo, IssueCookie, identityVars
<1>4. CASE AuthorizePool(c, a)
  BY <1>1, <1>4 DEF AuthorizePool, L7Register, L7Verdict
<1>5. QED BY <1>2, <1>3, <1>4 DEF Authorize

LEMMA OneSlotStep == Typed /\ OneSlot /\ [Next]_vars => OneSlot'
<1> SUFFICES ASSUME Typed, OneSlot, [Next]_vars, NEW c \in Clients, NEW a \in Legacy,
                    c \in addressWorkers'[a]
             PROVE  logins'[c] > 0 /\ (logins'[c] < 2 => clientAddress'[c] = a)
  BY DEF OneSlot
<1> USE DEF OneSlot
<1>1. CASE UNCHANGED <<clientAddress, addressWorkers, logins>>
  BY <1>1
<1>2. ASSUME NEW d \in Clients, DeregisterMiner(d), UNCHANGED logins
      PROVE  logins'[c] > 0 /\ (logins'[c] < 2 => clientAddress'[c] = a)
  <2>1. c \in addressWorkers[a]
    BY <1>2 DEF DeregisterMiner, Typed, IdentityTypeOK
  <2>2. CASE d = c
    BY <1>2, <2>1, <2>2 DEF DeregisterMiner, Typed, IdentityTypeOK
  <2>3. CASE d # c
    BY <1>2, <2>1, <2>3 DEF DeregisterMiner, Typed, IdentityTypeOK
  <2>4. QED BY <2>2, <2>3
<1>3. ASSUME NEW d \in Clients, NEW e \in Named, Authorize(d, e)
      PROVE  logins'[c] > 0 /\ (logins'[c] < 2 => clientAddress'[c] = a)
  <2>1. logins[c] \in Nat /\ logins' = [logins EXCEPT ![d] = @ + 1]
    BY <1>3, AuthorizeRegisters DEF Typed, LoginTyped
  <2>2. CASE UNCHANGED <<clientAddress, addressWorkers>>
    BY <2>1, <2>2 DEF Typed, LoginTyped
  <2>3. CASE /\ e \in Legacy
             /\ clientAddress' = [clientAddress EXCEPT ![d] = e]
             /\ addressWorkers' = [addressWorkers EXCEPT ![e] = @ \cup {d}]
    <3>1. CASE d # c
      BY <2>1, <2>3, <3>1 DEF Typed, LoginTyped, IdentityTypeOK
    <3>2. CASE d = c
      <4>1. logins'[c] = logins[c] + 1 /\ clientAddress'[c] = e
        BY <2>1, <2>3, <3>2 DEF Typed, LoginTyped, IdentityTypeOK
      <4>2. a # e => c \in addressWorkers[a]
        BY <2>3 DEF Typed, IdentityTypeOK
      <4>3. QED BY <2>1, <4>1, <4>2
    <3>3. QED BY <3>1, <3>2
  <2>4. QED BY <1>3, <2>2, <2>3, AuthorizeRegisters
<1>4. QED BY <1>1, <1>2, <1>3, RegisterSteps
          DEF identityVars, Deregister, Welcome, RegisterStep

\* What a step may write into the books, and when it notes a late answer.
Entry(c, names) ==
    /\ Enter(c, names)
    /\ \/ sock[c] = "idle" \/ HandlesLine(c)
       \/ names \subseteq {"rates", "models"} /\ NoteLate(c)

LEMMA BookSteps ==
    ASSUME Typed, [Next]_vars
    PROVE  /\ late \subseteq late'
           /\ \/ \A b \in BookNames : books'[b] \subseteq books[b]
              \/ \E c \in Clients : \E names : Entry(c, names)
<1>1. ASSUME NEW c \in Clients, Leave(c, BookNames) \/ \E b \in BookNames : Leave(c, {b})
      PROVE  \A b \in BookNames : books'[b] \subseteq books[b]
  BY <1>1 DEF Leave
<1>2. ASSUME NEW c \in Clients, Connect(c)
      PROVE  late' = late /\ (books' = books \/ \E names : Entry(c, names))
  BY <1>2 DEF Connect, ConnectSolo, ConnectPool, ConnectCounted, Accept, Entry
<1>3. ASSUME NEW c \in Clients, Message(c)
      PROVE  late' = late /\ (books' = books \/ \E names : Entry(c, names))
  <2>1. CASE Flood(c) \/ Subscribe(c) \/ Submit(c)
    BY <2>1 DEF Flood, Subscribe, Welcome, Fingerprint, Submit, bookVars, Entry
  <2>2. ASSUME NEW a \in Named, Authorize(c, a)
        PROVE  late' = late /\ (books' = books \/ \E names : Entry(c, names))
    <3>1. HandlesLine(c) /\ late' = late
      BY <2>2 DEF Authorize
    <3>2. books' = books \/ \E names : Enter(c, names)
      BY <2>2 DEF Authorize, AuthorizeSolo, AuthorizePool, L7Verdict, Track
    <3>3. QED BY <3>1, <3>2 DEF Entry
  <2>3. QED BY <1>3, <2>1, <2>2 DEF Message
<1>4. ASSUME NEW c \in Clients, AuthorizeAnswer(c)
      PROVE  late \subseteq late' /\ (books' = books \/ \E names : Entry(c, names))
  BY <1>4 DEF AuthorizeAnswer, Enrol, Enrolments, NoteLate, bookVars, Entry
<1>5. ASSUME NEW s \in inFlight, Credit(s)
      PROVE  s.client \in Clients /\ late \subseteq late' /\ Entry(s.client, {"rates"})
  BY <1>5 DEF Credit, Tally, NoteLate, Entry, Typed, LoginTyped, Shares
<1>6. ASSUME NEW c \in Clients, SocketError(c) \/ SocketClose(c)
      PROVE  late' = late /\ \A b \in BookNames : books'[b] \subseteq books[b]
  BY <1>1, <1>6 DEF SocketError, SocketClose, Cleanup
<1>7. ASSUME NEW c \in Clients, RecalculateAll(c) \/ CleanupPrints(c) \/ PersistAll(c)
      PROVE  late' = late /\ \A b \in BookNames : books'[b] \subseteq books[b]
  BY <1>1, <1>7 DEF RecalculateAll, CleanupPrints, PersistAll, Sweep, BookNames
<1>8. CASE Stop \/ Administer \/ \E s \in inFlight : Refuse(s)
  BY <1>8 DEF Stop, Administer, Refuse, bookVars
<1>9. CASE \E c \in Clients : Drop(c)
  BY <1>9 DEF Drop, bookVars
<1>10. CASE UNCHANGED vars
  BY <1>10 DEF vars
<1>11. QED BY <1>2, <1>3, <1>4, <1>5, <1>6, <1>7, <1>8, <1>9, <1>10 DEF Next

\* Who is gone stays gone, but for the books a late answer fills.
LEMMA StaysGone ==
    ASSUME Typed, RestIsThere, [Next]_vars, NEW c \in Clients, sock[c] = "closed", Gone(c)
    PROVE  Gone(c)'
<1>1. ~HandlesLine(c)
  BY DEF RestIsThere, HandlesLine
<1>2. OffBooks(c)'
  <2>1. late \subseteq late'
    BY BookSteps
  <2>2. CASE \A b \in BookNames : books'[b] \subseteq books[b]
    BY <2>1, <2>2 DEF Gone, OffBooks
  <2>3. ASSUME NEW d \in Clients, NEW names, Entry(d, names) PROVE OffBooks(c)'
    <3>1. CASE d # c
      BY <2>1, <2>3, <3>1 DEF Entry, Enter, Gone, OffBooks, Typed, BooksTyped
    <3>2. CASE d = c
      <4>1. names \subseteq {"rates", "models"} /\ c \in late'
        BY <1>1, <2>3, <3>2 DEF Entry, NoteLate
      <4>2. QED BY <2>1, <2>3, <4>1, <3>2 DEF Entry, Enter, Gone, OffBooks, Typed, BooksTyped
    <3>3. QED BY <3>1, <3>2
  <2>4. QED BY <2>2, <2>3, BookSteps
<1>3. OffFleet(c)'
  <2>1. fleetMiners[c] = None /\ publicMiners[c] = None
    BY DEF Gone, OffFleet, Listed
  <2> SUFFICES fleetMiners'[c] = None /\ publicMiners'[c] = None
    BY DEF OffFleet, Listed
  <2>2. CASE UNCHANGED <<fleetMiners, publicMiners, maxFleetMiners>>
    BY <2>1, <2>2
  <2>3. ASSUME NEW d \in Clients, HandlesLine(d), NEW a \in Addrs, RegisterMiner(d, a)
        PROVE  fleetMiners'[c] = None /\ publicMiners'[c] = None
    BY <1>1, <2>1, <2>3 DEF RegisterMiner, Typed, FleetTypeOK
  <2>4. ASSUME NEW d \in Clients, RemoveMiner(d)
        PROVE  fleetMiners'[c] = None /\ publicMiners'[c] = None
    BY <2>1, <2>4 DEF RemoveMiner, Typed, FleetTypeOK
  <2>5. ASSUME FleetOrder PROVE fleetMiners'[c] = None /\ publicMiners'[c] = None
    <3>1. \/ UNCHANGED <<fleetMiners, publicMiners>>
          \/ \E ips, addrs : Reclassify(ips, addrs)
      BY <2>5 DEF FleetOrder, AddIp, AddAddress, RemoveIp, RemoveAddress, SetMaxMiners
    <3>2. ASSUME NEW ips, NEW addrs, Reclassify(ips, addrs)
          PROVE  fleetMiners'[c] = None /\ publicMiners'[c] = None
      BY <2>1, <3>2 DEF Reclassify, Listed
    <3>3. QED BY <2>1, <3>1, <3>2
  <2>6. QED BY <2>2, <2>3, <2>4, <2>5, FleetSteps
<1>4. OffRegister(c)'
  <2> USE DEF Gone, OffRegister
  <2>1. CASE UNCHANGED <<identityVars, logins>>
    BY <2>1 DEF identityVars
  <2>2. ASSUME NEW d \in Clients, Deregister(d), UNCHANGED logins PROVE OffRegister(c)'
    BY <2>2 DEF Deregister, RevokeCookie, DeregisterMiner, Typed, IdentityTypeOK
  <2>3. ASSUME NEW d \in Clients, HandlesLine(d), Welcome(d), UNCHANGED logins
        PROVE  OffRegister(c)'
    BY <1>1, <2>3 DEF Welcome, IssueCookie
  <2>4. ASSUME NEW d \in Clients, NEW a \in Named, Authorize(d, a) PROVE OffRegister(c)'
    <3>1. d # c
      BY <1>1, <2>4, AuthorizeRegisters
    <3>2. logins'[c] = logins[c] /\ cookies' \subseteq cookies \cup {d}
      BY <2>4, <3>1, AuthorizeRegisters DEF Typed, LoginTyped
    <3>3. \/ UNCHANGED <<clientAddress, addressWorkers>>
          \/ /\ a \in Legacy
             /\ clientAddress' = [clientAddress EXCEPT ![d] = a]
             /\ addressWorkers' = [addressWorkers EXCEPT ![a] = @ \cup {d}]
      BY <2>4, AuthorizeRegisters
    <3>4. QED BY <3>1, <3>2, <3>3 DEF Typed, IdentityTypeOK
  <2>5. QED BY <2>1, <2>2, <2>3, <2>4, RegisterSteps DEF RegisterStep
<1>5. QED BY <1>2, <1>3, <1>4 DEF Gone

\* The handlers of the disconnection leave nothing.
LEMMA CloseLeavesNothing ==
    ASSUME Typed, OneSlot, NEW c \in Clients, Cleanup(c), UNCHANGED logins
    PROVE  Gone(c)'
<1>1. OffBooks(c)'
  BY DEF Cleanup, Leave, OffBooks
<1>2. OffFleet(c)'
  BY DEF Cleanup, RemoveMiner, OffFleet, Listed, Typed, FleetTypeOK
<1>3. c \notin cookies' /\ clientAddress'[c] = None
  BY DEF Cleanup, Deregister, RevokeCookie, DeregisterMiner, Typed, IdentityTypeOK
<1>4. ASSUME logins[c] < 2, NEW a \in Legacy PROVE c \notin addressWorkers'[a]
  <2>1. c \in addressWorkers[a] => clientAddress[c] = a /\ a # None
    BY <1>4 DEF OneSlot
  <2>2. DeregisterMiner(c)
    BY DEF Cleanup, Deregister
  <2>3. CASE clientAddress[c] = None
    BY <2>1, <2>2, <2>3 DEF DeregisterMiner
  <2>4. CASE clientAddress[c] # None
    BY <2>1, <2>2, <2>4 DEF DeregisterMiner, Typed, IdentityTypeOK
  <2>5. QED BY <2>3, <2>4
<1>5. OffRegister(c)'
  BY <1>3, <1>4 DEF OffRegister
<1>6. QED BY <1>1, <1>2, <1>5 DEF Gone

LEMMA CleanStep == Typed /\ CleanInv /\ [Next]_vars => CleanInv'
<1> SUFFICES ASSUME Typed, CleanInv, [Next]_vars PROVE CleanInv'
  OBVIOUS
<1>1. RestIsThere' /\ OneSlot'
  BY RestStep, OneSlotStep DEF CleanInv
<1>2. ASSUME NEW c \in Clients, sock'[c] = "closed" PROVE Gone(c)'
  <2>1. CASE sock[c] = "closed"
    BY <2>1, StaysGone DEF CleanInv
  <2>2. CASE sock[c] # "closed"
    <3>1. ~SocketsKept
      BY <1>2, <2>2 DEF SocketsKept
    <3>2. ASSUME NEW d \in Clients, Connect(d) PROVE FALSE
      <4>1. sock' = [sock EXCEPT ![d] = "open"] \/ sock' = [sock EXCEPT ![d] = "refused"]
        BY <3>2 DEF Connect, ConnectSolo, ConnectPool, ConnectCounted, Accept
      <4>2. QED BY <1>2, <2>2, <4>1 DEF Typed, SockTyped
    <3>3. PICK d \in Clients : SocketError(d) \/ SocketClose(d)
      BY <3>1, <3>2, SocketSteps
    <3>4. d = c /\ Cleanup(c) /\ UNCHANGED logins
      BY <1>2, <2>2, <3>3 DEF SocketError, SocketClose, Typed, SockTyped, loginVars
    <3>5. QED BY <3>4, CloseLeavesNothing DEF CleanInv
  <2>3. QED BY <2>1, <2>2
<1>3. QED BY <1>1, <1>2 DEF CleanInv

\* For any number of clients, sockets that fail, and answers that come late: once
\* a socket is closed, only the books that late answers fill still hold its client.
THEOREM ClosedIsForgotten == Spec => []NothingLeftBehind
<1>1. Init => CleanInv
  BY DEF Init, ClientInit, IdentityInit, CleanInv, RestIsThere, OneSlot
<1>2. CleanInv => NothingLeftBehind
  BY DEF CleanInv, Gone, OffBooks, OffFleet, OffRegister, NothingLeftBehind
<1>3. QED BY <1>1, <1>2, CleanStep, AlwaysTyped, PTL DEF Spec
=============================================================================
