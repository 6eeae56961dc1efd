----------------------------- MODULE Admission -----------------------------
(***************************************************************************)
(* Who may mine: bans, reputation and lockdown as index.js wires them to   *)
(* the events of the Stratum servers.  Connections of the fleet pass every *)
(* check and are left out.  A share may come from any address: its         *)
(* connection may be older than a ban, and a ban closes no connection.     *)
(***************************************************************************)
EXTENDS Banning, IpReputation, EmergencyLockdown

CONSTANT MaxRestarts     \* bound of the exploration

ASSUME AdmissionAssumption == MaxRestarts \in Nat

VARIABLES score, restarts

admVars == <<banVars, lockVars, score, restarts>>

AdmTypeOK ==
    /\ BanTypeOK /\ LockTypeOK
    /\ score \in [IPs -> Scores]
    /\ restarts \in 0 .. MaxRestarts

\* The servers listen; _loadBans is not awaited.
Listening == loading # "asked" \/ "late" \in Faults

\* ban and the recordBan that goes with a ban imposed, then n more points.
Punish(ip, calls, n) ==
    /\ Ban(ip, calls)
    /\ LET s == IF MayBan(ip) THEN Penalty(score[ip], BanPenalty) ELSE score[ip]
       IN score' = [score EXCEPT ![ip] = Penalty(s, n)]

\* recordInvalidShare: the share of invalid ones in the window is over the limit.
TooManyInvalid(ip, n) == Punish(ip, 1, n)

\* recordViolation: the third duplicate share, and each after it, as nothing ever
\* resets the count.
TooManyViolations(ip) == Punish(ip, 1, 0)

\* An invalid share: it may trip the ban, it costs reputation, and it counts for
\* the lockdown.
InvalidShare(ip) ==
    /\ Listening
    /\ \/ TooManyInvalid(ip, SharePenalty)
       \/ /\ score' = [score EXCEPT ![ip] = Penalty(@, SharePenalty)]
          /\ UNCHANGED banVars
    /\ Alarm \/ UNCHANGED lockVars
    /\ UNCHANGED restarts

\* A stale or a duplicate share that trips the ban; a login that the security
\* engine bans has the same effect.
Offend(ip) ==
    /\ Listening
    /\ TooManyInvalid(ip, 0) \/ TooManyViolations(ip)
    /\ UNCHANGED <<lockVars, restarts>>

\* A share the security engine bans for: _handle bans, and handleShare bans again.
SecurityBan(ip) ==
    /\ Listening
    /\ Punish(ip, 2, 0)
    /\ UNCHANGED <<lockVars, restarts>>

\* A cluster of connections raises an alert.
Cluster ==
    /\ Listening
    /\ Alarm
    /\ UNCHANGED <<banVars, score, restarts>>

BlockFound(ip) ==
    /\ Listening
    /\ score' = [score EXCEPT ![ip] = Bonus(@, BlockBonus)]
    /\ UNCHANGED <<banVars, lockVars, restarts>>

\* The three checks of the subscribe handler.
Admits(ip) == LetsIn(Trusts(score[ip])) /\ ~Rejects(score[ip]) /\ ~IsBanned(ip)

\* mining.subscribe is refused; the miner will try again.
Reject(ip) ==
    /\ Listening
    /\ ~Admits(ip)
    /\ RecordRejected
    /\ UNCHANGED <<banVars, score, restarts>>

\* A connection is one too many within the minute.  isBanned has dropped a record
\* whose time is over.  The solo port asks for nothing else and counts no rejection.
Flood(ip) ==
    /\ Listening
    /\ bannedIps[ip] = None
    /\ Punish(ip, 1, 0)
    /\ (Admits(ip) /\ RecordRejected) \/ UNCHANGED lockVars
    /\ UNCHANGED restarts

DecayScores ==
    /\ score' = [ip \in IPs |-> Decay(score[ip])]
    /\ UNCHANGED <<banVars, lockVars, restarts>>

\* The process stops and starts: the level is gone, scores are those written some
\* time ago.
AdmRestart ==
    /\ "crash" \in Faults
    /\ restarts < MaxRestarts
    /\ restarts' = restarts + 1
    /\ BanRestart /\ LockRestart
    /\ score' \in [IPs -> Reloaded]

Offence ==
    \/ \E ip \in IPs : InvalidShare(ip) \/ Offend(ip) \/ SecurityBan(ip) \/ Flood(ip)
    \/ Cluster

Operator == \E l \in LEVELS : SetLevel(l) /\ UNCHANGED <<banVars, score, restarts>>

BanClock ==
    /\ HourPasses \/ LoadBans \/ \E ip \in IPs : WriteBan(ip) \/ DropExpired(ip)
    /\ UNCHANGED <<lockVars, score, restarts>>

LockClock ==
    /\ MinutePasses \/ DelayPasses \/ CheckThreats
    /\ UNCHANGED <<banVars, score, restarts>>

AdmInit ==
    /\ BanInit /\ LockInit
    /\ score = [ip \in IPs |-> Neutral]
    /\ restarts = 0

AdmNext ==
    \/ Offence \/ Operator
    \/ BanClock \/ LockClock \/ DecayScores
    \/ \E ip \in IPs : BlockFound(ip) \/ Reject(ip)
    \/ AdmRestart

AdmSpec == AdmInit /\ [][AdmNext]_admVars

\* Time passes, timers fire and statements are answered.
AdmFair ==
    /\ AdmSpec
    /\ WF_admVars(HourPasses /\ UNCHANGED <<lockVars, score, restarts>>)
    /\ WF_admVars(LoadBans /\ UNCHANGED <<lockVars, score, restarts>>)
    /\ \A ip \in IPs : WF_admVars(WriteBan(ip) /\ UNCHANGED <<lockVars, score, restarts>>)
    /\ WF_admVars(DecayScores)
    /\ WF_admVars(MinutePasses /\ UNCHANGED <<banVars, score, restarts>>)
    /\ WF_admVars(DelayPasses /\ UNCHANGED <<banVars, score, restarts>>)
    /\ WF_admVars(CheckThreats /\ UNCHANGED <<banVars, score, restarts>>)

----------------------------------------------------------------------------

\* "bans survive via DB load on startup" (ENGINEERING_REVIEW.md:122): a ban in
\* the table is in force, for at least as long as the table says, whatever was
\* written, lost or restarted.
StoredBansHold ==
    loading = "done" => \A ip \in IPs : Live(bannedRows[ip]) => bannedIps[ip] >= bannedRows[ip]

\* A permanent ban in the table stays permanent: no later ban, with a new process's
\* shorter term, replaces it, unless the bans could not be read at startup.
PermanentStays ==
    [][\A ip \in IPs :
          bannedRows[ip] = Forever /\ loading # "failed" => bannedRows'[ip] = Forever]_admVars

\* A level the operator has set is never lowered by the checks, also not after an
\* attack has raised it further (emergencyLockdown.js:304).
OverrideHolds == level >= ordered

\* From some time on nobody offends, and what is rejected stays within the threshold.
Calm == <>[][~Offence /\ rejected' <= RejectedPerMin]_admVars

\* When it is calm everybody gets in again and stays welcome: bans end, scores
\* recover, the level falls; except who is banned for ever, or when the
\* operator has set the level.
AccessReturns ==
    Calm => <>[](\A ip \in IPs : Admits(ip) \/ bannedIps[ip] = Forever \/ manualOverride)
=============================================================================
