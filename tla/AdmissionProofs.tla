--------------------------- MODULE AdmissionProofs ---------------------------
(* Proofs about Admission: bans survive restarts, the operator's level holds. *)
EXTENDS Admission, TLAPS

\* What a step does to the bans.
BanStep ==
    \/ \E ip \in IPs : \E n \in {1, 2} : Listening /\ Ban(ip, n)
    \/ \E ip \in IPs : WriteBan(ip) \/ DropExpired(ip)
    \/ HourPasses
    \/ LoadBans
    \/ BanRestart
    \/ UNCHANGED banVars

LEMMA StepOfBans == [AdmNext]_admVars => BanStep
<1> SUFFICES ASSUME [AdmNext]_admVars PROVE BanStep
  OBVIOUS
<1>1. CASE Offence
  BY <1>1 DEF Offence, InvalidShare, TooManyInvalid,
         TooManyViolations, Offend, SecurityBan, Flood, Cluster, Punish, BanStep
<1>2. CASE BanClock
  BY <1>2 DEF BanClock, BanStep
<1>3. CASE Operator \/ LockClock \/ DecayScores \/ UNCHANGED admVars
  BY <1>3 DEF Operator, LockClock, DecayScores, admVars, BanStep
<1>4. ASSUME NEW ip \in IPs, BlockFound(ip) \/ Reject(ip) PROVE BanStep
  BY <1>4 DEF BlockFound, Reject, BanStep
<1>5. CASE AdmRestart
  BY <1>5 DEF AdmRestart, BanStep
<1>6. QED BY <1>1, <1>2, <1>3, <1>4, <1>5 DEF AdmNext

----------------------------------------------------------------------------
(* Bans                                                                      *)

LEMMA ProgressiveType == \A n \in Nat : Progressive(n) \in Terms /\ Live(Progressive(n))
BY BanAssumption DEF Progressive, Terms, None, Forever, Live

LEMMA OlderType ==
    \A t \in Terms : /\ Older(t) \in Terms
                     /\ Older(Forever) = Forever
                     /\ \A u \in Terms : t >= u => Older(t) >= Older(u)
                     /\ Live(Older(t)) => Live(t)
BY BanAssumption DEF Older, Terms, None, Forever, Live

LEMMA BanType == BanTypeOK /\ BanStep => BanTypeOK'
<1> SUFFICES ASSUME BanTypeOK, BanStep PROVE BanTypeOK'
  OBVIOUS
<1> USE DEF BanTypeOK
<1>1. ASSUME NEW ip \in IPs, NEW n \in {1, 2}, Ban(ip, n) PROVE BanTypeOK'
  <2>1. Progressive(banHistory[ip] + 1) \in Terms
    BY ProgressiveType
  <2>2. banHistory' \in [IPs -> 0 .. 2]
    BY <1>1 DEF Ban
  <2>3. bannedIps' \in [IPs -> Terms] /\ inserting' \in [IPs -> Terms]
    BY <1>1, <2>1 DEF Ban
  <2>4. QED BY <1>1, <2>2, <2>3 DEF Ban
<1>2. ASSUME NEW ip \in IPs, WriteBan(ip) \/ DropExpired(ip) PROVE BanTypeOK'
  BY <1>2, BanAssumption DEF WriteBan, DropExpired, Terms, None, Forever
<1>3. CASE HourPasses
  BY <1>3, OlderType DEF HourPasses
<1>4. CASE LoadBans
  BY <1>4 DEF LoadBans, Loaded
<1>5. CASE BanRestart
  BY <1>5, BanAssumption DEF BanRestart, Terms, None, Forever
<1>6. CASE UNCHANGED banVars
  BY <1>6 DEF banVars
<1>7. QED BY <1>1, <1>2, <1>3, <1>4, <1>5, <1>6 DEF BanStep

\* While the bans are being read nobody is banned, and an INSERT under way says
\* what memory says.
MemoryLeads ==
    \A ip \in IPs :
        /\ loading = "asked" => bannedIps[ip] = None
        /\ inserting[ip] # None => /\ inserting[ip] = bannedIps[ip] /\ Live(inserting[ip])
                                   /\ loading # "asked"

BanInv == BanTypeOK /\ MemoryLeads /\ StoredBansHold

LEMMA BanInvInit == AdmInit => BanInv
BY BanAssumption
DEF AdmInit, BanInit, BanInv, BanTypeOK, MemoryLeads, StoredBansHold, Terms, None, Forever, Live

LEMMA BanInvStep == "late" \notin Faults /\ BanInv /\ BanStep => BanInv'
<1> SUFFICES ASSUME "late" \notin Faults, BanInv, BanStep
             PROVE MemoryLeads' /\ StoredBansHold'
  BY BanType DEF BanInv
<1> USE DEF BanInv, BanTypeOK, MemoryLeads, StoredBansHold
<1>1. ASSUME NEW ip \in IPs, NEW n \in {1, 2}, Listening, Ban(ip, n)
      PROVE MemoryLeads' /\ StoredBansHold'
  <2> DEFINE term == Progressive(banHistory[ip] + 1)
  <2>1. term \in Terms /\ Live(term)
    BY ProgressiveType
  <2>2. loading # "asked" /\ UNCHANGED <<bannedRows, loading>>
    BY <1>1 DEF Listening, Ban
  <2>3. CASE MayBan(ip)
    <3>1. /\ bannedIps' = [bannedIps EXCEPT ![ip] = term]
          /\ inserting' = [inserting EXCEPT ![ip] = term]
      BY <1>1, <2>3 DEF Ban
    <3>2. loading = "done" => ~Live(bannedRows[ip])
      BY <2>3 DEF MayBan, Live, None, Terms
    <3>3. QED BY <2>1, <2>2, <3>1, <3>2 DEF Live, Terms, None
  <2>4. CASE ~MayBan(ip)
    BY <1>1, <2>2, <2>4 DEF Ban
  <2>5. QED BY <2>3, <2>4
<1>2. ASSUME NEW ip \in IPs, WriteBan(ip) PROVE MemoryLeads' /\ StoredBansHold'
  BY <1>2 DEF WriteBan, Terms, None, Live
<1>3. ASSUME NEW ip \in IPs, DropExpired(ip) PROVE MemoryLeads' /\ StoredBansHold'
  BY <1>3 DEF DropExpired, Terms, None, Live
<1>4. CASE HourPasses
  <2>1. MemoryLeads'
    BY <1>4 DEF HourPasses, Older, Live, None
  <2>2. ASSUME loading' = "done", NEW ip \in IPs, Live(bannedRows'[ip])
        PROVE bannedIps'[ip] >= bannedRows'[ip]
    <3>1. /\ bannedRows'[ip] = Older(bannedRows[ip]) /\ bannedIps'[ip] = Older(bannedIps[ip])
          /\ loading = "done"
      BY <1>4, <2>2 DEF HourPasses
    <3>2. Live(bannedRows[ip])
      BY <2>2, <3>1, OlderType
    <3>3. QED BY <3>1, <3>2, OlderType
  <2>3. QED BY <2>1, <2>2
<1>5. CASE LoadBans
  BY <1>5 DEF LoadBans, Loaded, Terms, None, Live
<1>6. CASE BanRestart
  BY <1>6 DEF BanRestart
<1>7. CASE UNCHANGED banVars
  BY <1>7 DEF banVars
<1>8. QED BY <1>1, <1>2, <1>3, <1>4, <1>5, <1>6, <1>7 DEF BanStep

\* Bans survive restarts, for any number of addresses and any lengths of the terms,
\* when nobody connects before they are read.
THEOREM BansSurvive == ASSUME "late" \notin Faults PROVE AdmSpec => []StoredBansHold
<1>1. BanInv /\ [AdmNext]_admVars => BanInv'
  BY BanInvStep, StepOfBans
<1>2. BanInv => StoredBansHold
  BY DEF BanInv
<1>3. QED BY BanInvInit, <1>1, <1>2, PTL DEF AdmSpec

LEMMA PermanentStep ==
    ASSUME BanInv, BanStep, NEW ip \in IPs, bannedRows[ip] = Forever, loading # "failed"
    PROVE  bannedRows'[ip] = Forever
<1> USE DEF BanInv, BanTypeOK, MemoryLeads, StoredBansHold
<1>1. Live(Forever) /\ Forever # None
  BY BanAssumption DEF Live, Forever, None
<1>2. inserting[ip] # None => inserting[ip] = Forever
  <2>1. SUFFICES ASSUME inserting[ip] # None PROVE inserting[ip] = Forever
    OBVIOUS
  <2>2. loading = "done" /\ inserting[ip] = bannedIps[ip]
    BY <2>1
  <2>3. bannedIps[ip] >= Forever
    BY <1>1, <2>2
  <2>4. QED BY <2>2, <2>3, BanAssumption DEF Terms, None, Forever
<1>3. CASE \E x \in IPs : (\E n \in {1, 2} : Ban(x, n)) \/ DropExpired(x)
  BY <1>3 DEF Ban, DropExpired
<1>4. ASSUME NEW x \in IPs, WriteBan(x) PROVE bannedRows'[ip] = Forever
  BY <1>2, <1>4 DEF WriteBan
<1>5. CASE HourPasses
  BY <1>5 DEF HourPasses, Older
<1>6. CASE LoadBans \/ UNCHANGED banVars
  BY <1>6 DEF LoadBans, banVars
<1>7. CASE BanRestart
  BY <1>2, <1>7 DEF BanRestart
<1>8. QED BY <1>3, <1>4, <1>5, <1>6, <1>7 DEF BanStep

\* A permanent ban in the table is never replaced by a shorter one.
THEOREM PermanentBansStay == ASSUME "late" \notin Faults PROVE AdmSpec => PermanentStays
<1>1. BanInv /\ [AdmNext]_admVars => BanInv'
  BY BanInvStep, StepOfBans
<1>2. BanInv /\ [AdmNext]_admVars
        => [\A ip \in IPs :
              bannedRows[ip] = Forever /\ loading # "failed" => bannedRows'[ip] = Forever]_admVars
  BY StepOfBans, PermanentStep
<1>3. QED BY BanInvInit, <1>1, <1>2, PTL DEF AdmSpec, PermanentStays

----------------------------------------------------------------------------
(* Types                                                                     *)

LEMMA LockType == ASSUME LockTypeOK, [AdmNext]_admVars PROVE LockTypeOK'
<1> USE DEF LockTypeOK, LEVELS, NORMAL, MAINTENANCE
<1>1. CASE UNCHANGED lockVars
  BY <1>1 DEF lockVars
<1>2. CASE Alarm
  BY <1>2 DEF Alarm
<1>3. CASE RecordRejected
  BY <1>3, LockdownAssumption DEF RecordRejected
<1>4. CASE MinutePasses \/ DelayPasses
  <2>1. UNCHANGED <<level, ordered, manualOverride>> /\ rejected' \in 0 .. MaxRejected
    BY <1>4, LockdownAssumption DEF MinutePasses, DelayPasses
  <2>2. settled' \in BOOLEAN /\ alarm' \in BOOLEAN
    BY <1>4 DEF MinutePasses, DelayPasses
  <2>3. QED BY <2>1, <2>2
<1>5. CASE CheckThreats
  <2>1. level' \in LEVELS /\ UNCHANGED <<ordered, rejected, alarm>>
    BY <1>5 DEF CheckThreats, MayLower
  <2>2. manualOverride' \in BOOLEAN /\ settled' \in BOOLEAN
    BY <1>5 DEF CheckThreats, OverrideAfterEscalation
  <2>3. QED BY <2>1, <2>2
<1>6. ASSUME NEW l \in LEVELS, SetLevel(l) PROVE LockTypeOK'
  BY <1>6 DEF SetLevel
<1>7. CASE AdmRestart
  <2>1. level' = 0 /\ ordered' = 0 /\ rejected' = 0
    BY <1>7 DEF AdmRestart, LockRestart
  <2>2. manualOverride' \in BOOLEAN /\ settled' \in BOOLEAN /\ alarm' \in BOOLEAN
    BY <1>7 DEF AdmRestart, LockRestart
  <2>3. QED BY <2>1, <2>2, LockdownAssumption
<1>8. CASE Offence
  BY <1>1, <1>2, <1>3, <1>8 DEF Offence, InvalidShare, TooManyInvalid,
         TooManyViolations, Offend, SecurityBan, Flood, Cluster
<1>9. CASE Operator \/ LockClock
  BY <1>4, <1>5, <1>6, <1>9 DEF Operator, LockClock
<1>10. CASE BanClock \/ DecayScores \/ UNCHANGED admVars
  BY <1>1, <1>10 DEF BanClock, DecayScores, admVars
<1>11. ASSUME NEW ip \in IPs, BlockFound(ip) \/ Reject(ip) PROVE LockTypeOK'
  BY <1>1, <1>3, <1>11 DEF BlockFound, Reject
<1>12. QED BY <1>7, <1>8, <1>9, <1>10, <1>11 DEF AdmNext

LEMMA ScoreType ==
    \A s \in Scores : /\ \A n \in Nat : Penalty(s, n) \in Scores /\ Bonus(s, n) \in Scores
                      /\ Decay(s) \in Scores
BY ScoreAssumption DEF Scores, Penalty, Bonus, Decay

LEMMA ScoresStay ==
    ASSUME score \in [IPs -> Scores], restarts \in 0 .. MaxRestarts, [AdmNext]_admVars
    PROVE  score' \in [IPs -> Scores] /\ restarts' \in 0 .. MaxRestarts
<1> USE ScoreAssumption, ScoreType
<1>1. ASSUME NEW ip \in IPs, NEW calls \in Nat, NEW n \in Nat, Punish(ip, calls, n)
      PROVE score' \in [IPs -> Scores]
  BY <1>1 DEF Punish
<1>2. CASE Offence
  BY <1>1, <1>2 DEF Offence, InvalidShare, TooManyInvalid,
         TooManyViolations, Offend, SecurityBan, Flood, Cluster
<1>3. ASSUME NEW ip \in IPs, BlockFound(ip) \/ Reject(ip)
      PROVE score' \in [IPs -> Scores] /\ UNCHANGED restarts
  BY <1>3 DEF BlockFound, Reject
<1>4. CASE DecayScores
  BY <1>4 DEF DecayScores
<1>5. CASE AdmRestart
  BY <1>5, AdmissionAssumption DEF AdmRestart, Reloaded
<1>6. CASE Operator \/ BanClock \/ LockClock \/ UNCHANGED admVars
  BY <1>6 DEF Operator, BanClock, LockClock, admVars
<1>7. restarts' \in 0 .. MaxRestarts
  BY <1>2, <1>3, <1>4, <1>5, <1>6, AdmissionAssumption
  DEF AdmNext, Offence, InvalidShare, TooManyInvalid,
         TooManyViolations, Offend, SecurityBan, Flood, Cluster, DecayScores
<1>8. QED BY <1>2, <1>3, <1>4, <1>5, <1>6, <1>7 DEF AdmNext

LEMMA InitTyped == AdmInit => AdmTypeOK
<1> SUFFICES ASSUME AdmInit PROVE AdmTypeOK
  OBVIOUS
<1>1. BanTypeOK
  BY BanInvInit DEF BanInv
<1>2. level = 0 /\ ordered = 0 /\ rejected = 0
  BY DEF AdmInit, LockInit, NORMAL
<1>3. manualOverride \in BOOLEAN /\ settled \in BOOLEAN /\ alarm \in BOOLEAN
  BY DEF AdmInit, LockInit
<1>4. LockTypeOK
  BY <1>2, <1>3, LockdownAssumption DEF LockTypeOK, LEVELS, NORMAL, MAINTENANCE
<1>5. score \in [IPs -> Scores] /\ restarts \in 0 .. MaxRestarts
  BY ScoreAssumption, AdmissionAssumption DEF AdmInit, Scores
<1>6. QED BY <1>1, <1>4, <1>5 DEF AdmTypeOK

\* Every variable keeps its type, under every fault: scores stay within their range
\* whatever sequence of penalties and bonuses comes.
THEOREM AdmissionTyped == AdmSpec => []AdmTypeOK
<1>1. AdmTypeOK /\ [AdmNext]_admVars => AdmTypeOK'
  BY BanType, StepOfBans, LockType, ScoresStay DEF AdmTypeOK
<1>2. QED BY InitTyped, <1>1, PTL DEF AdmSpec

----------------------------------------------------------------------------
(* The lockdown                                                              *)

\* Until the operator sets a level he has ordered nothing.
OverrideInv ==
    /\ level \in LEVELS /\ ordered \in LEVELS /\ manualOverride \in BOOLEAN
    /\ OverrideHolds
    /\ ordered # NORMAL => manualOverride

LEMMA OverrideStep == OverrideInv /\ [AdmNext]_admVars => OverrideInv'
<1> SUFFICES ASSUME OverrideInv, [AdmNext]_admVars PROVE OverrideInv'
  OBVIOUS
<1> USE DEF OverrideInv, OverrideHolds, LEVELS, NORMAL, MAINTENANCE
<1>1. CASE UNCHANGED <<level, ordered, manualOverride>>
  BY <1>1
<1>2. CASE Offence
  BY <1>1, <1>2
  DEF Offence, InvalidShare, TooManyInvalid,
         TooManyViolations, Offend, SecurityBan, Flood, Cluster, Alarm, RecordRejected, lockVars
<1>3. CASE Operator
  BY <1>3 DEF Operator, SetLevel
<1>4. CASE LockClock
  <2>1. CASE CheckThreats
    BY <2>1 DEF CheckThreats, OverrideAfterEscalation, MayLower
  <2>2. CASE MinutePasses \/ DelayPasses
    BY <1>1, <2>2 DEF MinutePasses, DelayPasses
  <2>3. QED BY <1>4, <2>1, <2>2 DEF LockClock
<1>5. CASE BanClock \/ DecayScores \/ UNCHANGED admVars
  BY <1>1, <1>5 DEF BanClock, DecayScores, admVars, lockVars
<1>6. ASSUME NEW ip \in IPs, BlockFound(ip) \/ Reject(ip) PROVE OverrideInv'
  BY <1>1, <1>6 DEF BlockFound, Reject, RecordRejected, lockVars
<1>7. CASE AdmRestart
  <2>1. level' = 0 /\ ordered' = 0
    BY <1>7 DEF AdmRestart, LockRestart
  <2>2. manualOverride' \in BOOLEAN
    BY <1>7 DEF AdmRestart, LockRestart
  <2>3. QED BY <2>1, <2>2
<1>8. QED BY <1>2, <1>3, <1>4, <1>5, <1>6, <1>7 DEF AdmNext

LEMMA OverrideInit == AdmInit => OverrideInv
<1> SUFFICES ASSUME AdmInit PROVE OverrideInv
  OBVIOUS
<1>1. level = 0 /\ ordered = 0
  BY DEF AdmInit, LockInit, NORMAL
<1>2. manualOverride \in BOOLEAN
  BY DEF AdmInit, LockInit
<1>3. QED BY <1>1, <1>2 DEF OverrideInv, OverrideHolds, LEVELS, NORMAL, MAINTENANCE

\* The checks never lower the level below what the operator has set, under every
\* fault and whatever raises it in between.
THEOREM OperatorsLevelHolds == AdmSpec => []OverrideHolds
<1>1. OverrideInv => OverrideHolds
  BY DEF OverrideInv
<1>2. QED BY OverrideInit, OverrideStep, <1>1, PTL DEF AdmSpec
=============================================================================
