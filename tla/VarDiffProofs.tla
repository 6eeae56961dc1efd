---------------------------- MODULE VarDiffProofs ----------------------------
(***************************************************************************)
(* Proofs about VarDiff and MinerRegistry: the floor of every machine that *)
(* the miner named stays in force, for any agents, speeds and bounds of    *)
(* the configuration.                                                      *)
(***************************************************************************)
EXTENDS VarDiff, TLAPS

----------------------------------------------------------------------------
(* Arithmetic                                                              *)

LEMMA PairMax ==
    ASSUME NEW m \in Int, NEW n \in Int
    PROVE  Max({m, n}) = IF m >= n THEN m ELSE n
<1> DEFINE top == IF m >= n THEN m ELSE n
<1>1. top \in {m, n} /\ \A y \in {m, n} : top >= y
  OBVIOUS
<1>2. \A x \in {m, n} : (\A y \in {m, n} : x >= y) => x = top
  OBVIOUS
<1>3. QED BY <1>1, <1>2 DEF Max

LEMMA PairMin ==
    ASSUME NEW m \in Int, NEW n \in Int
    PROVE  Min({m, n}) = IF m <= n THEN m ELSE n
<1> DEFINE low == IF m <= n THEN m ELSE n
<1>1. low \in {m, n} /\ \A y \in {m, n} : low <= y
  OBVIOUS
<1>2. \A x \in {m, n} : (\A y \in {m, n} : x <= y) => x = low
  OBVIOUS
<1>3. QED BY <1>1, <1>2 DEF Min

LEMMA PowersInNat ==
    /\ Highest \in Nat /\ Highest < 33554432
    /\ \A p \in Powers : p \in Nat /\ 1 <= p /\ p <= Highest
BY SMT DEF Powers, Highest

\* Two powers of two differ by a factor of two at least.
LEMMA PowersApart == \A p, q \in Powers : p < q => 2 * p <= q
BY SMT DEF Powers

LEMMA NextPower == \A p \in Powers : p < Highest => 2 * p \in Powers
BY SMT DEF Powers, Highest

LEMMA PowerBelow ==
    ASSUME NEW n \in 1 .. Highest PROVE \E p \in Powers : p <= n /\ n < 2 * p
<1> SUFFICES ASSUME \A p \in Powers : p <= n => 2 * p <= n PROVE FALSE
  BY PowersInNat
<1> HIDE DEF Powers
<1>1. /\ 1 \in Powers /\ 2 \in Powers /\ 4 \in Powers
      /\ 8 \in Powers /\ 16 \in Powers /\ 32 \in Powers
      /\ 64 \in Powers
  BY SMT DEF Powers
<1>2. 128 <= n
  BY <1>1, SMT
<1>3. /\ 128 \in Powers /\ 256 \in Powers /\ 512 \in Powers
      /\ 1024 \in Powers /\ 2048 \in Powers /\ 4096 \in Powers
  BY SMT DEF Powers
<1>4. 8192 <= n
  BY <1>2, <1>3, SMT
<1>5. /\ 8192 \in Powers /\ 16384 \in Powers /\ 32768 \in Powers
      /\ 65536 \in Powers /\ 131072 \in Powers /\ 262144 \in Powers
  BY SMT DEF Powers
<1>6. 524288 <= n
  BY <1>4, <1>5, SMT
<1>7. /\ 524288 \in Powers /\ 1048576 \in Powers /\ 2097152 \in Powers
      /\ 4194304 \in Powers /\ 8388608 \in Powers /\ 16777216 \in Powers
  BY SMT DEF Powers
<1>8. 33554432 <= n
  BY <1>6, <1>7, SMT
<1>9. n \in Int /\ n <= Highest
  BY PowersInNat
<1>10. QED BY <1>8, <1>9, PowersInNat, SMT

\* The snap of a number is a power of two and passes no power of two.
LEMMA SnapBetween ==
    ASSUME NEW n \in 1 .. Highest
    PROVE  /\ Snap(n) \in Powers
           /\ \A p \in Powers : (p <= n => p <= Snap(n)) /\ (n <= p => Snap(n) <= p)
<1> DEFINE lower == CHOOSE p \in Powers : p <= n /\ n < 2 * p
           upper == IF n = lower THEN n ELSE 2 * lower
<1>1. lower \in Powers /\ lower <= n /\ n < 2 * lower
  BY PowerBelow
<1> HIDE DEF lower
<1>2. lower \in Nat
  BY <1>1, PowersInNat
<1>3. upper \in Powers /\ upper >= n
  BY <1>1, <1>2, NextPower, PowersInNat
<1>4. \A p \in Powers : (p <= n => p <= lower) /\ (n <= p => upper <= p)
  <2> SUFFICES ASSUME NEW p \in Powers
               PROVE  (p <= n => p <= lower) /\ (n <= p => upper <= p)
    OBVIOUS
  <2>1. p \in Nat /\ (lower < p => 2 * lower <= p)
    BY <1>1, PowersInNat, PowersApart
  <2>2. QED BY <1>1, <1>2, <2>1
<1>5. Snap(n) = IF n - lower < upper - n THEN lower ELSE upper
  BY DEF Snap, lower
<1>6. upper \in Nat
  BY <1>3, PowersInNat
<1>7. QED
  <2>1. lower <= upper
    BY <1>1, <1>2, <1>3, <1>6
  <2>2. Snap(n) \in {lower, upper}
    BY <1>5
  <2>3. ASSUME NEW p \in Powers PROVE (p <= n => p <= Snap(n)) /\ (n <= p => Snap(n) <= p)
    <3>1. p \in Nat
      BY PowersInNat
    <3>2. QED BY <1>1, <1>2, <1>3, <1>4, <1>6, <2>1, <2>2, <3>1
  <2>4. QED BY <1>1, <1>3, <2>2, <2>3

\* It is off by less than a third downwards, and by a third at most upwards.
LEMMA SnapNear ==
    ASSUME NEW n \in 1 .. Highest
    PROVE  2 * n < 3 * Snap(n) /\ 3 * Snap(n) <= 4 * n
<1> DEFINE lower == CHOOSE p \in Powers : p <= n /\ n < 2 * p
           upper == IF n = lower THEN n ELSE 2 * lower
<1>1. lower \in Powers /\ lower <= n /\ n < 2 * lower
  BY PowerBelow
<1>2. Snap(n) = IF n - lower < upper - n THEN lower ELSE upper
  BY DEF Snap
<1> HIDE DEF lower
<1>3. lower \in Nat /\ n \in Nat
  BY <1>1, PowersInNat
<1>4. QED BY <1>1, <1>2, <1>3

----------------------------------------------------------------------------
(* The table of models                                                     *)

\* Both difficulties of a model are powers of two, the floor not the higher.
Sound(m) ==
    /\ m.optimalDifficulty \in Powers /\ m.vardiffFloor \in Powers
    /\ m.vardiffFloor <= m.optimalDifficulty

LEMMA ModelsSound == \A m \in Models : Sound(m)
<1>1. \A m \in BitmainModels \cup OlderBitmainModels : Sound(m)
  BY SMT DEF BitmainModels, OlderBitmainModels, Model, Sound, Powers
<1>2. \A m \in ElphapexModels \cup VolcminerModels : Sound(m)
  BY SMT DEF ElphapexModels, VolcminerModels, Model, Sound, Powers
<1>3. \A m \in GoldshellModels \cup OtherModels : Sound(m)
  BY SMT DEF GoldshellModels, OtherModels, Model, Sound, Powers
<1>4. QED BY <1>1, <1>2, <1>3 DEF Models

LEMMA ProfileSound ==
    ASSUME NEW agent, Identified(agent)
    PROVE  /\ getOptimalDifficulty(agent) \in Powers /\ getVardiffFloor(agent) \in Powers
           /\ getVardiffFloor(agent) <= getOptimalDifficulty(agent)
<1>1. Profile(agent) \in Models
  BY DEF Profile, Identified
<1>2. QED BY <1>1, ModelsSound DEF Sound, getOptimalDifficulty, getVardiffFloor

----------------------------------------------------------------------------
(* The invariant                                                           *)

\* The minimum is not below the configured one, nor the floor of a machine named.
MinimumKept ==
    /\ minDiff \in 1 .. Highest /\ MinDiff <= minDiff
    /\ \A a \in presented : Identified(a) /\ getVardiffFloor(a) <= minDiff

\* What VarDiff set lies between the minimum of the time and the ceiling; a
\* floor that would raise the minimum comes with a difficulty not below it.
DifficultyKept ==
    /\ difficulty \in 1 .. Highest /\ speed \in Speeds
    /\ FloorKept

FloorInv == MinimumKept /\ DifficultyKept

\* An adjusted difficulty is not below a power of two that the minimum reaches,
\* and a third at most off the minimum and the ceiling.
LEMMA AdjustedBetween ==
    ASSUME MinimumKept, difficulty \in 1 .. Highest, NEW s \in Speeds
    PROVE  /\ Adjusted(s) \in Powers
           /\ \A p \in Powers : p <= minDiff => p <= Adjusted(s)
           /\ 2 * minDiff < 3 * Adjusted(s) /\ 3 * Adjusted(s) <= 4 * Ceiling
<1>1. /\ minDiff \in 1 .. Highest /\ MaxDiff \in 1 .. Highest
      /\ difficulty \in Nat /\ s \in Nat
  BY PowersInNat, VarDiffAssumption DEF MinimumKept
<1>2. Held(s) \in Int
  BY <1>1, PairMax, PairMin DEF Held
<1> DEFINE capped == Min({MaxDiff, Held(s)})
           n == Max({minDiff, capped})
<1>3. capped \in Int /\ capped <= MaxDiff
  BY <1>1, <1>2, PairMin
<1> HIDE DEF capped
<1>4. n \in Int /\ minDiff <= n /\ (n = minDiff \/ n = capped)
  BY <1>1, <1>3, PairMax
<1>5. Ceiling \in {minDiff, MaxDiff} /\ minDiff <= Ceiling /\ MaxDiff <= Ceiling
  BY <1>1, PairMax DEF Ceiling
<1>6. Ceiling \in 1 .. Highest
  BY <1>1, <1>5
<1>7. n <= Ceiling /\ n \in 1 .. Highest
  BY <1>1, <1>3, <1>4, <1>5, <1>6, PowersInNat
<1>8. Adjusted(s) = Snap(n)
  BY DEF Adjusted, capped
<1> HIDE DEF n
<1>9. Snap(n) \in Powers /\ Snap(n) \in Nat
  BY <1>7, SnapBetween, PowersInNat
<1>10. \A p \in Powers : p <= minDiff => p <= Snap(n)
  <2> SUFFICES ASSUME NEW p \in Powers, p <= minDiff PROVE p <= Snap(n)
    OBVIOUS
  <2>1. p <= n
    BY <1>1, <1>4, PowersInNat
  <2>2. QED BY <1>7, <2>1, SnapBetween
<1>11. 2 * n < 3 * Snap(n) /\ 3 * Snap(n) <= 4 * n
  BY <1>7, SnapNear
<1>12. 2 * minDiff < 3 * Snap(n) /\ 3 * Snap(n) <= 4 * Ceiling
  BY <1>1, <1>4, <1>6, <1>7, <1>9, <1>11
<1>13. QED BY <1>8, <1>9, <1>10, <1>12

\* A subscription raises the minimum to the floor of the machine.
LEMMA SubscribeStep ==
    ASSUME FloorInv, NEW agent, Subscribe(agent) PROVE FloorInv'
<1>1. CASE ~Identified(agent)
  BY <1>1 DEF Subscribe, FloorInv, MinimumKept, DifficultyKept, FloorKept, Ceiling
<1>2. CASE Identified(agent)
  <2> DEFINE floor == getVardiffFloor(agent)
  <2>1. /\ floor \in Powers /\ getOptimalDifficulty(agent) \in Powers
        /\ floor <= getOptimalDifficulty(agent)
    BY <1>2, ProfileSound
  <2>2. /\ difficulty' = getOptimalDifficulty(agent)
        /\ minDiff' = Max({minDiff, floor})
        /\ tuned' = (tuned /\ difficulty' = difficulty)
        /\ presented' = presented \cup {agent} /\ speed' = speed
    BY <1>2 DEF Subscribe, setModelFloor
  <2> HIDE DEF floor
  <2>3. /\ minDiff \in 1 .. Highest /\ floor \in 1 .. Highest /\ MaxDiff \in Int
        /\ MinDiff \in Int /\ getOptimalDifficulty(agent) \in 1 .. Highest
    BY <2>1, PowersInNat, VarDiffAssumption DEF FloorInv, MinimumKept
  <2>4. minDiff' \in {minDiff, floor} /\ minDiff <= minDiff' /\ floor <= minDiff'
    BY <2>2, <2>3, PairMax
  <2>5. \A a \in presented : getVardiffFloor(a) \in Int
    BY ProfileSound, PowersInNat DEF FloorInv, MinimumKept
  <2>6. MinimumKept'
    <3>1. minDiff' \in 1 .. Highest /\ MinDiff <= minDiff'
      BY <2>3, <2>4, PowersInNat DEF FloorInv, MinimumKept
    <3>2. ASSUME NEW a \in presented'
          PROVE  Identified(a) /\ getVardiffFloor(a) <= minDiff'
      <4>1. CASE a = agent
        BY <1>2, <2>4, <4>1 DEF floor
      <4>2. CASE a \in presented
        BY <2>3, <2>4, <2>5, <4>2 DEF FloorInv, MinimumKept
      <4>3. QED BY <2>2, <4>1, <4>2
    <3>3. QED BY <3>1, <3>2 DEF MinimumKept
  <2>7. FloorKept'
    <3> SUFFICES ASSUME tuned'
                 PROVE  /\ difficulty' \in Powers
                        /\ \A a \in presented' : difficulty' >= getVardiffFloor(a)
                        /\ 2 * MinDiff < 3 * difficulty' /\ 3 * difficulty' <= 4 * Ceiling'
      BY DEF FloorKept
    <3>1. tuned /\ difficulty' = difficulty
      BY <2>2
    <3>2. difficulty \in Int
      BY PowersInNat DEF FloorInv, DifficultyKept
    <3>3. Ceiling <= Ceiling' /\ Ceiling \in Int /\ Ceiling' \in Int
      BY <2>3, <2>4, PairMax DEF Ceiling
    <3>4. /\ 2 * MinDiff < 3 * difficulty /\ 3 * difficulty <= 4 * Ceiling
          /\ \A a \in presented : difficulty >= getVardiffFloor(a)
      BY <3>1 DEF FloorInv, DifficultyKept, FloorKept
    <3>5. difficulty' >= floor
      BY <2>1, <2>2, <2>3, <3>1, <3>2
    <3>6. 3 * difficulty' <= 4 * Ceiling'
      <4> DEFINE old == Ceiling
                 new == Ceiling'
      <4>1. /\ old <= new /\ old \in Int /\ new \in Int
            /\ difficulty \in Int /\ 3 * difficulty <= 4 * old
        BY <3>2, <3>3, <3>4
      <4> HIDE DEF old, new
      <4>2. 3 * difficulty <= 4 * new
        BY <4>1
      <4>3. QED BY <3>1, <4>2 DEF new
    <3>7. QED
      BY <2>1, <2>2, <3>1, <3>4, <3>5, <3>6 DEF floor
  <2>8. QED BY <2>2, <2>3, <2>6, <2>7 DEF FloorInv, DifficultyKept
<1>3. QED BY <1>1, <1>2

LEMMA RetargetStep ==
    ASSUME FloorInv, NEW s \in Speeds, Retarget(s) PROVE FloorInv'
<1>1. /\ difficulty' = Adjusted(s)
      /\ minDiff' = minDiff /\ presented' = presented /\ speed' = speed
  BY DEF Retarget
<1>2. /\ Adjusted(s) \in Powers
      /\ \A p \in Powers : p <= minDiff => p <= Adjusted(s)
      /\ 2 * minDiff < 3 * Adjusted(s) /\ 3 * Adjusted(s) <= 4 * Ceiling
  BY AdjustedBetween DEF FloorInv, DifficultyKept
<1>3. MinimumKept'
  BY <1>1 DEF FloorInv, MinimumKept
<1>4. \A a \in presented : Adjusted(s) >= getVardiffFloor(a)
  BY <1>2, ProfileSound, PowersInNat DEF FloorInv, MinimumKept
<1>5. Ceiling' = Ceiling
  BY <1>1 DEF Ceiling
<1>6. Adjusted(s) \in 1 .. Highest /\ 2 * MinDiff < 3 * Adjusted(s)
  BY <1>2, PowersInNat, VarDiffAssumption DEF FloorInv, MinimumKept
<1>7. QED
  BY <1>1, <1>2, <1>3, <1>4, <1>5, <1>6 DEF FloorInv, DifficultyKept, FloorKept

LEMMA FloorStep == FloorInv /\ [Next]_vars => FloorInv'
<1> SUFFICES ASSUME FloorInv, [Next]_vars PROVE FloorInv'
  OBVIOUS
<1>1. CASE \E a \in Agents : Subscribe(a)
  BY <1>1, SubscribeStep
<1>2. CASE \E s \in Speeds : Retarget(s)
  BY <1>2, RetargetStep
<1>3. CASE Count \/ TimePasses \/ ChangeSpeed \/ UNCHANGED vars
  BY <1>3 DEF Count, TimePasses, ChangeSpeed, vars, FloorInv, MinimumKept, DifficultyKept,
       FloorKept, Ceiling
<1>4. QED
  BY <1>1, <1>2, <1>3 DEF Next, ValidShare, MixedWindow, FloorInv, DifficultyKept

\* For any agents and speeds and any positive start, minimum and maximum up to
\* Highest, powers of two or not, in any order: a difficulty VarDiff has set is a
\* power of two, not below the floor of any machine the miner ever named, and at
\* most a third off the configured minimum and the ceiling.
THEOREM FloorHolds == Spec => []FloorKept
<1>1. Init => FloorInv
  BY VarDiffAssumption DEF Init, FloorInv, MinimumKept, DifficultyKept, FloorKept
<1>2. FloorInv => FloorKept
  BY DEF FloorInv, DifficultyKept
<1>3. QED BY <1>1, <1>2, FloorStep, PTL DEF Spec
=============================================================================
