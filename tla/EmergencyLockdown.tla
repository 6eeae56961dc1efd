------------------------- MODULE EmergencyLockdown -------------------------
(***************************************************************************)
(* The lockdown level (emergencyLockdown.js): raised and lowered by a      *)
(* check every 30 seconds, or set by the operator.                         *)
(*                                                                         *)
(* Of the four threat metrics, rejected connections are counted here,      *)
(* since it is the level itself that makes them; the other three are one   *)
(* flag.  Rows of lockdown_history are left out: nothing reads them back.  *)
(***************************************************************************)
EXTENDS Naturals

CONSTANTS
    RejectedPerMin,  \* thresholds.rejectedPerMin: 100
    MaxRejected      \* bound of the exploration: rejected connections in a minute

ASSUME LockdownAssumption == RejectedPerMin \in Nat /\ MaxRejected \in Nat

VARIABLES
    level,
    manualOverride,
    settled,    \* deescalationDelayMs have passed since the last change
    rejected,   \* connections rejected within the last minute
    alarm,      \* another metric is above its threshold
    ordered     \* history: the level the operator set last, NORMAL before the first

lockVars == <<level, manualOverride, settled, rejected, alarm, ordered>>

NORMAL == 0
ELEVATED == 1
RESTRICTED == 2
MAINTENANCE == 3
LEVELS == NORMAL .. MAINTENANCE

LockTypeOK ==
    /\ level \in LEVELS /\ ordered \in LEVELS
    /\ manualOverride \in BOOLEAN /\ settled \in BOOLEAN /\ alarm \in BOOLEAN
    /\ rejected \in 0 .. MaxRejected

\* checkConnection for an address outside the fleet.
LetsIn(trusted) == level <= ELEVATED \/ (level = RESTRICTED /\ trusted)

\* recordRejectedConnection, up to the bound.
RecordRejected ==
    /\ rejected' = IF rejected < MaxRejected THEN rejected + 1 ELSE rejected
    /\ UNCHANGED <<level, manualOverride, settled, alarm, ordered>>

\* The other metrics pass their thresholds: invalid shares, clusters of connections.
Alarm ==
    /\ alarm' = TRUE
    /\ UNCHANGED <<level, manualOverride, settled, rejected, ordered>>

\* The entries of the windows grow too old.
MinutePasses ==
    /\ rejected' = 0 /\ alarm' = FALSE
    /\ UNCHANGED <<level, manualOverride, settled, ordered>>

DelayPasses ==
    /\ settled' = TRUE
    /\ UNCHANGED <<level, manualOverride, rejected, alarm, ordered>>

Threat == rejected > RejectedPerMin \/ alarm

\* Wrong on purpose: escalation takes the level out of the operator's hands.
OverrideCleared == FALSE

\* _autoEscalate leaves manualOverride as it is.
OverrideAfterEscalation == manualOverride

MayLower == level > NORMAL /\ ~manualOverride /\ settled

\* _checkThreats: one level up, or one down, or nothing.
CheckThreats ==
    /\ \/ /\ Threat /\ level < MAINTENANCE
          /\ level' = level + 1
          /\ manualOverride' = OverrideAfterEscalation
       \/ /\ ~Threat /\ MayLower
          /\ level' = level - 1
          /\ UNCHANGED manualOverride
    /\ settled' = FALSE
    /\ UNCHANGED <<rejected, alarm, ordered>>

\* The operator sets a level; nothing ever takes the override back.
SetLevel(l) ==
    /\ level' = l /\ ordered' = l
    /\ manualOverride' = TRUE
    /\ settled' = FALSE
    /\ UNCHANGED <<rejected, alarm>>

\* The level is kept in memory only; lastEscalation = 0 is long ago.
LockInit ==
    /\ level = NORMAL /\ ordered = NORMAL /\ manualOverride = FALSE
    /\ settled = TRUE /\ rejected = 0 /\ alarm = FALSE

LockRestart ==
    /\ level' = NORMAL /\ ordered' = NORMAL /\ manualOverride' = FALSE
    /\ settled' = TRUE /\ rejected' = 0 /\ alarm' = FALSE
=============================================================================
