------------------------------ MODULE Banning ------------------------------
(***************************************************************************)
(* The banning manager (banningManager.js): bans per IP address, held in   *)
(* memory, written to the table banned_ips and read back at startup.       *)
(*                                                                         *)
(* A term is the number of hours a ban has left: Forever is longer than    *)
(* every other, 0 is a record whose time is over, None is no record.  The  *)
(* counts that lead to a ban (share rates, warnings, connections per       *)
(* minute) are left out: any offence may be the one that trips.            *)
(***************************************************************************)
EXTENDS Integers

CONSTANTS
    IPs,         \* addresses outside the fleet
    Hour, Day,   \* the terms of a first and of a second ban: 3600 s and 86400 s
    Faults       \* what may go wrong, see AdmissionFaults

AdmissionFaults ==
    { "db",      \* an SQL statement fails
      "late",    \* miners connect before _loadBans has its answer
      "crash" }  \* the process stops and is started again

ASSUME BanAssumption ==
    /\ Hour \in Nat \ {0} /\ Day \in Nat /\ Hour < Day
    /\ Faults \subseteq AdmissionFaults

VARIABLES
    bannedIps,   \* ip -> the term its record in memory has left
    banHistory,  \* ip -> calls of ban in this process; two stands for more
    bannedRows,  \* ip -> the term its row of banned_ips has left
    inserting,   \* ip -> the term in an INSERT that is not answered yet
    loading      \* _loadBans: "asked", "done" or "failed"

banVars == <<bannedIps, banHistory, bannedRows, inserting, loading>>

None == -1
Forever == Day + 1
Terms == None .. Forever

BanTypeOK ==
    /\ bannedIps \in [IPs -> Terms]
    /\ banHistory \in [IPs -> 0 .. 2]
    /\ bannedRows \in [IPs -> Terms]
    /\ inserting \in [IPs -> Terms]
    /\ loading \in {"asked", "done", "failed"}

Live(t) == t > 0

\* isBanned; that it also drops a record whose time is over is DropExpired.
IsBanned(ip) == Live(bannedIps[ip])

\* Wrong on purpose: time that is over goes on.
OlderAlways(t) == IF t # Forever THEN t - 1 ELSE t

\* An hour later.
Older(t) == IF Live(t) /\ t # Forever THEN t - 1 ELSE t

----------------------------------------------------------------------------

\* getProgressiveDuration, given the offences counted.
Progressive(n) == IF n = 0 THEN Hour ELSE IF n = 1 THEN Day ELSE Forever

\* Wrong on purpose: a ban in force is no obstacle.
MayBanAgain(ip) == TRUE

\* bannedIps.has: the record that stands in the way may be one whose time is over.
MayBan(ip) == bannedIps[ip] = None

\* One handler calls ban n times.  Each call counts, even while the ban runs;
\* the duration is looked up after the first has counted.
Ban(ip, n) ==
    /\ banHistory' = [banHistory EXCEPT ![ip] = IF @ + n > 2 THEN 2 ELSE @ + n]
    /\ IF MayBan(ip)
       THEN LET term == Progressive(banHistory[ip] + 1)
            IN /\ bannedIps' = [bannedIps EXCEPT ![ip] = term]
               /\ inserting' = [inserting EXCEPT ![ip] = term]
       ELSE UNCHANGED <<bannedIps, inserting>>
    /\ UNCHANGED <<bannedRows, loading>>

\* The INSERT ... ON CONFLICT (ip_address) DO UPDATE is answered.
WriteBan(ip) ==
    /\ inserting[ip] # None
    /\ \/ bannedRows' = [bannedRows EXCEPT ![ip] = inserting[ip]]
       \/ "db" \in Faults /\ UNCHANGED bannedRows
    /\ inserting' = [inserting EXCEPT ![ip] = None]
    /\ UNCHANGED <<bannedIps, banHistory, loading>>

\* isBanned and _cleanup drop a record whose time is over.
DropExpired(ip) ==
    /\ bannedIps[ip] = 0
    /\ bannedIps' = [bannedIps EXCEPT ![ip] = None]
    /\ UNCHANGED <<banHistory, bannedRows, inserting, loading>>

\* An hour passes, in memory and for expires_at in the table.  An INSERT is
\* answered before that.
HourPasses ==
    /\ \A ip \in IPs : inserting[ip] = None
    /\ bannedIps' = [ip \in IPs |-> Older(bannedIps[ip])]
    /\ bannedRows' = [ip \in IPs |-> Older(bannedRows[ip])]
    /\ UNCHANGED <<banHistory, inserting, loading>>

\* Wrong on purpose: only permanent bans are read back.
LoadedPermanent(ip) == IF bannedRows[ip] = Forever THEN Forever ELSE bannedIps[ip]

\* A row that is permanent or not over replaces what memory has.
Loaded(ip) == IF Live(bannedRows[ip]) THEN bannedRows[ip] ELSE bannedIps[ip]

\* _loadBans has its answer; on an error nobody asks again.
LoadBans ==
    /\ loading = "asked"
    /\ \/ /\ loading' = "done"
          /\ bannedIps' = [ip \in IPs |-> Loaded(ip)]
       \/ "db" \in Faults /\ loading' = "failed" /\ UNCHANGED bannedIps
    /\ UNCHANGED <<banHistory, bannedRows, inserting>>

BanInit ==
    /\ bannedIps = [ip \in IPs |-> None]
    /\ banHistory = [ip \in IPs |-> 0]
    /\ bannedRows = [ip \in IPs |-> None]
    /\ inserting = [ip \in IPs |-> None]
    /\ loading = "asked"

\* The process starts anew: the counts are gone, an INSERT under way has reached
\* the table or never will.
BanRestart ==
    /\ bannedIps' = [ip \in IPs |-> None]
    /\ banHistory' = [ip \in IPs |-> 0]
    /\ \E landed \in SUBSET {ip \in IPs : inserting[ip] # None} :
          bannedRows' = [ip \in IPs |-> IF ip \in landed THEN inserting[ip] ELSE bannedRows[ip]]
    /\ inserting' = [ip \in IPs |-> None]
    /\ loading' = "asked"
=============================================================================
