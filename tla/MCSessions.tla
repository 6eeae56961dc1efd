----------------------------- MODULE MCSessions -----------------------------
(***************************************************************************)
(* Two connections from one IP; each may come through either port.        *)
(***************************************************************************)
EXTENDS StratumSessions, TLC

MCIpOf == [c \in Clients |-> CHOOSE ip \in IPs : TRUE]
MCMaxPerIp == [p \in Ports |-> IF p = "pool" THEN 2 ELSE 1]
MCAddrs == Legacy \cup Segwit \cup {"bad", "empty"}
ClientSymmetry == Permutations(Clients)
=============================================================================
