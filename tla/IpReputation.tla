---------------------------- MODULE IpReputation ----------------------------
(***************************************************************************)
(* The reputation of an IP address (ipReputation.js): a score that falls   *)
(* with offences and drifts back to neutral.  An entry that is removed     *)
(* counts as neutral.                                                      *)
(***************************************************************************)
EXTENDS Integers

CONSTANTS
    MaxScore, Neutral,          \* 100 and 50
    RejectBelow,                \* rejectThreshold: 10
    TrustFrom,                  \* reputationThresholdRestricted: 70
    SharePenalty, BanPenalty,   \* 5 and 15
    BlockBonus                  \* 5

ASSUME ScoreAssumption ==
    /\ MaxScore \in Nat /\ Neutral \in 0 .. MaxScore
    /\ RejectBelow \in 0 .. Neutral /\ TrustFrom \in Nat
    /\ SharePenalty \in Nat /\ BanPenalty \in Nat /\ BlockBonus \in Nat

Scores == 0 .. MaxScore

\* recordInvalidShares, recordBan
Penalty(s, n) == IF s < n THEN 0 ELSE s - n

\* recordBlockFound
Bonus(s, n) == IF s + n > MaxScore THEN MaxScore ELSE s + n

\* Wrong on purpose: only good scores drift.
DecayDown(s) == IF s > Neutral THEN s - 1 ELSE s

\* _decay, once an hour
Decay(s) == IF s > Neutral THEN s - 1 ELSE IF s < Neutral THEN s + 1 ELSE s

\* _load reads what a _persist has written some time ago, or failed to write:
\* the addresses it takes are no longer marked, whatever becomes of the writes.
Reloaded == Scores

\* checkReputation
Rejects(s) == s < RejectBelow
Trusts(s) == s >= TrustFrom
=============================================================================
