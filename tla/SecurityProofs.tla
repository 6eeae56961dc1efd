--------------------------- MODULE SecurityProofs ---------------------------
(***************************************************************************)
(* What holds of SecurityEngine for any number of addresses, IPs and       *)
(* requests in progress: scores keep their range, and every score there is *)
(* is explained by what was found of its address.                          *)
(***************************************************************************)
EXTENDS SecurityEngine, TLAPS

Hands == Handlers \cup {Timer}

\* The jobs that are in the middle of a score's change.
Tasks ==
    [job : {"reward", "decay"}, addr : Addrs, step : StepType]
    \cup [job : {"layer4", "layer5"}, addr : Addrs, ip : IPs, points : Nat,
          ban : BOOLEAN, step : StepType]

LEMMA JobsAre == Jobs = {Idle} \cup Tasks /\ Idle \notin Tasks
  BY DEF Jobs, Tasks, Idle

----------------------------------------------------------------------------
(* The arithmetic of the scores keeps them in range, and near what explains   *)
(* them: lo is Default minus the penalties, hi is Default plus the rewards.   *)

LEMMA PenalizedBounds ==
  ASSUME NEW v \in Scores, NEW n \in Nat, NEW lo \in Int, NEW hi \in Nat, lo <= v, v <= hi
  PROVE  /\ Penalized(v, n) \in Scores
         /\ lo - n <= Penalized(v, n) /\ Penalized(v, n) <= hi
  BY EngineAssumption DEF Penalized, Scores

LEMMA RewardedBounds ==
  ASSUME NEW v \in Scores, NEW lo \in Int, NEW hi \in Nat, lo <= v, v <= hi
  PROVE  /\ Rewarded(v) \in Scores
         /\ lo <= Rewarded(v) /\ Rewarded(v) <= hi + Reward
  BY EngineAssumption DEF Rewarded, Scores

LEMMA DecayedBounds ==
  ASSUME NEW v \in Scores, NEW lo \in Int, NEW hi \in Nat, lo <= v, v <= hi,
         lo <= Default, Default <= hi
  PROVE  /\ Decayed(v) \in Scores
         /\ lo <= Decayed(v) /\ Decayed(v) <= hi
  BY EngineAssumption DEF Decayed, Scores

----------------------------------------------------------------------------
(* The invariant *)

\* Score v, of an address with these penalties and rewards.
Within(v, p, r) == Default - p <= v /\ v <= Default + r
Explained(a, v) == Within(v, penalties[a], rewards[a])

\* With more findings a score stays explained.
LEMMA WithinGrows ==
  ASSUME NEW v \in Scores, NEW p \in Nat, NEW r \in Nat, NEW q \in Nat, NEW t \in Nat,
         p <= q, r <= t, Within(v, p, r)
  PROVE  Within(v, q, t)
  BY EngineAssumption DEF Within, Scores

\* ScoreExplained, place by place.
StoredExplained ==
    \A a \in Addrs : /\ redis[a] # Absent => Explained(a, redis[a])
                     /\ localCache[a] # Absent => Explained(a, localCache[a])
PendingExplained ==
    \A h \in Hands : hand[h] # Idle /\ hand[h].step # Asking => Explained(hand[h].addr, hand[h].step)

ScoreInv == TypeOK /\ StoredExplained /\ PendingExplained

LEMMA ScoresAreNumbers == Absent \notin Scores /\ Asking \notin Scores /\ Default \in Scores
  BY EngineAssumption DEF Absent, Asking, Scores

LEMMA InvExplains == ScoreInv => ScoreExplained
<1> SUFFICES ASSUME ScoreInv, NEW a \in Addrs, NEW v \in Known(a) PROVE Explained(a, v)
  BY DEF ScoreExplained, Explained, Within
<1>1. CASE v \in {redis[a], localCache[a]} /\ v # Absent
  BY <1>1 DEF ScoreInv, StoredExplained
<1>2. CASE v \in Pending(a)
  BY <1>2 DEF Pending, ScoreInv, PendingExplained, Hands
<1> QED
  BY <1>1, <1>2 DEF Known

LEMMA InvInit == Init => ScoreInv
<1> SUFFICES ASSUME Init PROVE ScoreInv
  OBVIOUS
<1>1. TypeOK
  BY EngineAssumption DEF Init, TypeOK, Jobs, Scores
<1> QED
  BY <1>1 DEF Init, ScoreInv, StoredExplained, PendingExplained, Hands

----------------------------------------------------------------------------
(* The steps, by what they change *)

\* A GET is answered with a score that is explained.
LEMMA AnswersExplained ==
  ASSUME ScoreInv, NEW a \in Addrs, NEW v \in Answers(a)
  PROVE  v \in Scores /\ Explained(a, v)
<1>1. Explained(a, Default)
  BY EngineAssumption DEF ScoreInv, TypeOK, Explained, Within
<1>2. Fallback(a) \in Scores /\ Explained(a, Fallback(a))
  BY <1>1, ScoresAreNumbers DEF Fallback, ScoreInv, TypeOK, StoredExplained
<1>3. GetScore(a) \in Scores /\ Explained(a, GetScore(a))
  BY <1>2 DEF GetScore, ScoreInv, TypeOK, StoredExplained
<1> QED
  BY <1>2, <1>3 DEF Answers

\* A handler takes up a job that has stored nothing yet, or rests.
LEMMA TakesUp ==
  ASSUME ScoreInv, NEW h \in Hands, NEW j \in Jobs, j = Idle \/ j.step = Asking,
         hand' = [hand EXCEPT ![h] = j], UNCHANGED <<penalties, rewards>>
  PROVE  hand' \in [Hands -> Jobs] /\ PendingExplained'
  BY DEF ScoreInv, TypeOK, PendingExplained, Explained, Hands

LEMMA FindingType ==
  ASSUME NEW layer \in {"layer4", "layer5"}, NEW a \in Addrs, NEW ip \in IPs,
         NEW s \in Severities, NEW b \in BOOLEAN
  PROVE  Finding(layer, a, ip, s, b) \in Jobs /\ Finding(layer, a, ip, s, b).step = Asking
  BY EngineAssumption DEF Finding, Jobs, StepType

LEMMA AnalyzeKeeps ==
  ASSUME ScoreInv, NEW h \in Hands, NEW a \in Addrs, NEW ip \in IPs, Analyze(h, a, ip),
         UNCHANGED <<penalties, rewards>>
  PROVE  hand' \in [Hands -> Jobs] /\ PendingExplained'
<1>1. PICK j \in {Idle} \cup {Finding("layer5", a, ip, s, FALSE) : s \in Severities}
                 \cup {Finding("layer5", a, ip, "high", TRUE)} : hand' = [hand EXCEPT ![h] = j]
  BY DEF Analyze
<1>2. j \in Jobs /\ (j = Idle \/ j.step = Asking)
  <2>1. CASE j = Idle
    BY <2>1 DEF Jobs
  <2>2. ASSUME NEW s \in Severities, j = Finding("layer5", a, ip, s, FALSE)
        PROVE  j \in Jobs /\ j.step = Asking
    BY <2>2, FindingType
  <2>3. CASE j = Finding("layer5", a, ip, "high", TRUE)
    BY <2>3, FindingType DEF Severities
  <2> QED
    BY <1>1, <2>1, <2>2, <2>3
<1> QED
  BY <1>1, <1>2, TakesUp

\* Findings only add up.
Adds ==
    /\ penalties' \in [Addrs -> Nat] /\ rewards' \in [Addrs -> Nat]
    /\ \A a \in Addrs : penalties[a] <= penalties'[a] /\ rewards[a] <= rewards'[a]

LEMMA StaysExplained ==
  ASSUME ScoreInv, Adds, NEW a \in Addrs, NEW v \in Scores, Explained(a, v)
  PROVE  Within(v, penalties'[a], rewards'[a])
  BY WithinGrows DEF ScoreInv, TypeOK, Adds, Explained

\* A handler has its score: what it is about to store is explained.
LEMMA Stores ==
  ASSUME ScoreInv, Adds, NEW h \in Hands, hand[h] # Idle, NEW v \in Scores,
         hand' = [hand EXCEPT ![h] = Storing(hand[h], v)],
         Within(v, penalties'[hand[h].addr], rewards'[hand[h].addr])
  PROVE  hand' \in [Hands -> Jobs] /\ PendingExplained'
<1>1. hand[h] \in Tasks /\ hand \in [Hands -> Jobs]
  BY JobsAre DEF ScoreInv, TypeOK, Hands
<1>2. Storing(hand[h], v) \in Tasks /\ Storing(hand[h], v).addr = hand[h].addr
      /\ Storing(hand[h], v).step = v
  BY <1>1 DEF Storing, Tasks, StepType
<1>3. hand' \in [Hands -> Jobs]
  BY <1>1, <1>2, JobsAre
<1>4. ASSUME NEW g \in Hands, hand'[g] # Idle, hand'[g].step # Asking
      PROVE  Within(hand'[g].step, penalties'[hand'[g].addr], rewards'[hand'[g].addr])
  <2>1. CASE g = h
    BY <1>1, <1>2, <2>1
  <2>2. CASE g # h
    <3>1. hand'[g] = hand[g] /\ hand[g] \in Tasks
      BY <1>1, <1>4, <2>2, JobsAre
    <3>2. hand[g].addr \in Addrs /\ hand[g].step \in Scores
      BY <1>4, <3>1 DEF Tasks, StepType
    <3>3. Explained(hand[g].addr, hand[g].step)
      BY <1>4, <3>1 DEF ScoreInv, PendingExplained
    <3> QED
      BY <3>1, <3>2, <3>3, StaysExplained
  <2> QED
    BY <2>1, <2>2
<1> QED
  BY <1>3, <1>4 DEF PendingExplained, Explained

\* A new score in the copy of the process is explained, and the others stay so.
LEMMA Remembers ==
  ASSUME ScoreInv, Adds, NEW b \in Addrs, NEW v \in Scores,
         localCache' = [localCache EXCEPT ![b] = v],
         Within(v, penalties'[b], rewards'[b]),
         UNCHANGED redis
  PROVE  StoredExplained' /\ localCache' \in [Addrs -> Scores \cup {Absent}]
<1>1. ASSUME NEW a \in Addrs, redis[a] # Absent PROVE Within(redis[a], penalties'[a], rewards'[a])
  BY <1>1, StaysExplained DEF ScoreInv, TypeOK, StoredExplained
<1>2. ASSUME NEW a \in Addrs, localCache'[a] # Absent
      PROVE  Within(localCache'[a], penalties'[a], rewards'[a])
  <2>1. CASE a = b
    BY <2>1 DEF ScoreInv, TypeOK
  <2>2. CASE a # b
    BY <1>2, <2>2, StaysExplained DEF ScoreInv, TypeOK, StoredExplained
  <2> QED
    BY <2>1, <2>2
<1> QED
  BY <1>1, <1>2 DEF StoredExplained, Explained, ScoreInv, TypeOK

\* The GET of a finding or of a block is answered.
LEMMA ReadKeeps ==
  ASSUME ScoreInv, NEW h \in Handlers, Read(h)
  PROVE  ScoreInv'
<1>0. h \in Hands /\ hand[h] \in Tasks /\ hand[h] # Idle
  BY JobsAre DEF Read, Hands, ScoreInv, TypeOK
<1> DEFINE j == hand[h]
           a == j.addr
<1>1. a \in Addrs
  BY <1>0 DEF Tasks
<1>2. PICK v \in Answers(a) :
        /\ Answered(a, v)
        /\ \/ j.job \in {"layer4", "layer5"} /\ DecidePenalty(h, v)
           \/ j.job = "reward" /\ DecideReward(h, v)
  BY DEF Read
<1>3. v \in Scores /\ Explained(a, v)
  BY <1>1, <1>2, AnswersExplained
<1>4. faults' \in 0 .. MaxFaults
  BY <1>2, EngineAssumption DEF Answered, Fault, ScoreInv, TypeOK
<1>5. UNCHANGED <<redis, partial, violations, shares>>
  BY DEF Read, memory
<1>6. /\ penalties \in [Addrs -> Nat] /\ rewards \in [Addrs -> Nat]
      /\ Default - penalties[a] \in Int /\ Default + rewards[a] \in Nat
      /\ Default - penalties[a] <= v /\ v <= Default + rewards[a]
  BY <1>1, <1>3, EngineAssumption DEF ScoreInv, TypeOK, Explained, Within
<1>7. ASSUME NEW new \in Scores, Adds, UNCHANGED banned,
             localCache' = [localCache EXCEPT ![a] = new],
             hand' = [hand EXCEPT ![h] = Storing(j, new)],
             Within(new, penalties'[a], rewards'[a])
      PROVE  ScoreInv'
  <2>1. hand' \in [Hands -> Jobs] /\ PendingExplained'
    BY <1>0, <1>7, Stores
  <2>2. StoredExplained' /\ localCache' \in [Addrs -> Scores \cup {Absent}]
    BY <1>1, <1>5, <1>7, Remembers
  <2>3. TypeOK'
    BY <1>4, <1>5, <1>7, <2>1, <2>2 DEF ScoreInv, TypeOK, Adds, Hands
  <2> QED
    BY <2>1, <2>2, <2>3 DEF ScoreInv
<1>8. CASE j.job \in {"layer4", "layer5"} /\ DecidePenalty(h, v)
  <2> DEFINE new == Penalized(v, j.points)
  <2>1. j.points \in Nat
    BY <1>0, <1>8 DEF Tasks
  <2>2. /\ localCache' = [localCache EXCEPT ![a] = new]
        /\ penalties' = [penalties EXCEPT ![a] = @ + j.points]
        /\ hand' = [hand EXCEPT ![h] = Storing(j, new)]
        /\ UNCHANGED <<banned, rewards>>
    BY <1>8 DEF DecidePenalty
  <2>3. /\ new \in Scores
        /\ Default - penalties[a] - j.points <= new
        /\ new <= Default + rewards[a]
    BY <1>3, <1>6, <2>1, PenalizedBounds
  <2> HIDE DEF new, j
  <2>4. Adds
    BY <1>1, <1>6, <2>1, <2>2 DEF Adds
  <2>5. penalties'[a] = penalties[a] + j.points /\ rewards'[a] = rewards[a]
    BY <1>1, <1>6, <2>2
  <2>6. penalties[a] \in Nat /\ rewards[a] \in Nat
    BY <1>1, <1>6
  <2> HIDE DEF a
  <2>7. Within(new, penalties'[a], rewards'[a])
    BY <2>1, <2>3, <2>5, <2>6, EngineAssumption DEF Within, Scores
  <2> QED
    BY <1>7, <2>2, <2>3, <2>4, <2>7
<1>9. CASE DecideReward(h, v)
  <2> DEFINE new == Rewarded(v)
  <2>1. /\ localCache' = [localCache EXCEPT ![a] = new]
        /\ rewards' = [rewards EXCEPT ![a] = @ + Reward]
        /\ hand' = [hand EXCEPT ![h] = Storing(j, new)]
        /\ UNCHANGED <<banned, penalties>>
    BY <1>9 DEF DecideReward
  <2>2. /\ new \in Scores
        /\ Default - penalties[a] <= new
        /\ new <= Default + rewards[a] + Reward
    BY <1>3, <1>6, RewardedBounds
  <2>3. Reward \in Nat
    BY EngineAssumption
  <2> HIDE DEF new, j
  <2>4. Adds
    BY <1>1, <1>6, <2>1, <2>3 DEF Adds
  <2>5. rewards'[a] = rewards[a] + Reward /\ penalties'[a] = penalties[a]
    BY <1>1, <1>6, <2>1
  <2>6. penalties[a] \in Nat /\ rewards[a] \in Nat
    BY <1>1, <1>6
  <2> HIDE DEF a
  <2>7. Within(new, penalties'[a], rewards'[a])
    BY <2>2, <2>3, <2>5, <2>6, EngineAssumption DEF Within, Scores
  <2> QED
    BY <1>7, <2>1, <2>2, <2>4, <2>7
<1> QED
  BY <1>2, <1>8, <1>9
\* The timer's GET is answered: the score moves towards Default.
LEMMA ReadDecayKeeps ==
  ASSUME ScoreInv, ReadDecay
  PROVE  ScoreInv'
<1>0. Timer \in Hands /\ hand[Timer] \in Tasks /\ hand[Timer] # Idle
  BY JobsAre DEF ReadDecay, Hands, ScoreInv, TypeOK
<1> DEFINE j == hand[Timer]
           a == j.addr
           v == IF redis[a] = Absent THEN Default ELSE redis[a]
<1>1. a \in Addrs
  BY <1>0 DEF Tasks
<1>2. UNCHANGED <<redis, localCache, partial, violations, banned, penalties, rewards, shares>>
  BY DEF ReadDecay, memory
<1>3. StoredExplained' /\ Adds
  BY <1>2 DEF ScoreInv, StoredExplained, Explained, Adds, TypeOK
<1>4. ASSUME hand' \in [Hands -> Jobs], PendingExplained', faults' \in 0 .. MaxFaults PROVE ScoreInv'
  BY <1>2, <1>3, <1>4 DEF ScoreInv, TypeOK, Hands
<1>5. CASE hand' = [hand EXCEPT ![Timer] = Storing(j, Decayed(v))] /\ UNCHANGED faults
  <2>1. v \in Scores /\ Explained(a, v) /\ Explained(a, Default)
    BY <1>1, ScoresAreNumbers, EngineAssumption
    DEF ScoreInv, TypeOK, StoredExplained, Explained, Within
  <2>2. Default - penalties[a] \in Int /\ Default + rewards[a] \in Nat
    BY <1>1, EngineAssumption DEF ScoreInv, TypeOK
  <2> HIDE DEF v
  <2>3. /\ Decayed(v) \in Scores
        /\ Default - penalties[a] <= Decayed(v) /\ Decayed(v) <= Default + rewards[a]
    BY <2>1, <2>2, DecayedBounds DEF Explained, Within
  <2>4. Within(Decayed(v), penalties'[a], rewards'[a])
    BY <1>2, <2>3 DEF Within
  <2>5. hand' \in [Hands -> Jobs] /\ PendingExplained'
    BY <1>0, <1>3, <1>5, <2>3, <2>4, Stores
  <2> QED
    BY <1>4, <1>5, <2>5 DEF ScoreInv, TypeOK
<1>6. CASE Fault /\ hand' = [hand EXCEPT ![Timer] = Idle]
  <2>1. faults' \in 0 .. MaxFaults
    BY <1>6, EngineAssumption DEF Fault, ScoreInv, TypeOK
  <2>2. hand' \in [Hands -> Jobs] /\ PendingExplained'
    BY <1>0, <1>2, <1>6, TakesUp DEF Jobs
  <2> QED
    BY <1>4, <2>1, <2>2
<1> QED
  BY <1>5, <1>6 DEF ReadDecay

\* A SETEX is answered: what is stored was explained while it was on its way.
LEMMA WrittenKeeps ==
  ASSUME ScoreInv, NEW h \in Hands, Written(h)
  PROVE  ScoreInv'
<1> DEFINE j == hand[h]
<1>0. j \in Tasks /\ j # Idle /\ j.step \in Scores
  BY JobsAre DEF Written, Hands, ScoreInv, TypeOK
<1>1. j.addr \in Addrs
  BY <1>0 DEF Tasks
<1>2. UNCHANGED <<localCache, partial, violations, penalties, rewards, shares>>
  BY DEF Written
<1>3. /\ \/ redis' = [redis EXCEPT ![j.addr] = j.step] /\ UNCHANGED faults
         \/ Fault /\ UNCHANGED redis
      /\ IF j.job = "layer4" /\ j.step > BanAt
         THEN Analyze(h, j.addr, j.ip) /\ UNCHANGED banned
         ELSE /\ hand' = [hand EXCEPT ![h] = Idle]
              /\ IF j.job = "layer5" /\ j.ban THEN Bans(j.ip) ELSE UNCHANGED banned
  BY DEF Written
<1>4. faults' \in 0 .. MaxFaults
  BY <1>3, EngineAssumption DEF Fault, ScoreInv, TypeOK
<1>5. Explained(j.addr, j.step)
  BY <1>0, ScoresAreNumbers DEF ScoreInv, PendingExplained
<1>6. redis' \in [Addrs -> Scores \cup {Absent}]
  BY <1>0, <1>1, <1>3 DEF ScoreInv, TypeOK
<1>7. StoredExplained'
  <2> HIDE DEF j
  <2>1. \A a \in Addrs : redis'[a] # Absent => Explained(a, redis'[a])
    <3>1. CASE UNCHANGED redis
      BY <3>1 DEF ScoreInv, StoredExplained
    <3>2. CASE redis' = [redis EXCEPT ![j.addr] = j.step]
      BY <1>1, <1>5, <3>2 DEF ScoreInv, StoredExplained, TypeOK
    <3> QED
      BY <1>3, <3>1, <3>2
  <2> QED
    BY <1>2, <2>1 DEF ScoreInv, StoredExplained, Explained
<1>8. (hand' \in [Hands -> Jobs] /\ PendingExplained') /\ banned' \subseteq IPs
  <2>1. CASE j.job = "layer4" /\ j.step > BanAt
    <3>1. j.ip \in IPs
      BY <1>0, <2>1 DEF Tasks
    <3> HIDE DEF j
    <3>2. hand' \in [Hands -> Jobs] /\ PendingExplained'
      BY <1>1, <1>2, <1>3, <2>1, <3>1, AnalyzeKeeps
    <3> QED
      BY <1>3, <2>1, <3>2 DEF ScoreInv, TypeOK
  <2>2. CASE ~(j.job = "layer4" /\ j.step > BanAt)
    <3>1. j.job = "layer5" => j.ip \in IPs
      BY <1>0 DEF Tasks
    <3> HIDE DEF j
    <3>2. hand' \in [Hands -> Jobs] /\ PendingExplained'
      BY <1>2, <1>3, <2>2, TakesUp DEF Jobs
    <3>3. banned' \subseteq IPs
      BY <1>3, <2>2, <3>1 DEF Bans, ScoreInv, TypeOK
    <3> QED
      BY <3>2, <3>3
  <2> QED
    BY <2>1, <2>2
<1> QED
  BY <1>2, <1>4, <1>6, <1>7, <1>8 DEF ScoreInv, TypeOK, Hands

\* Requests that arrive change no score.
LEMMA ArrivalKeeps ==
  ASSUME ScoreInv, NEW h \in Hands, UNCHANGED <<redis, localCache, banned, penalties, rewards, faults>>,
         hand' \in [Hands -> Jobs] /\ PendingExplained',
         partial' \in [Addrs -> 0 .. BwhShares], violations' \in [IPs -> 0 .. Abuse],
         shares' \in 0 .. MaxShares
  PROVE  ScoreInv'
  BY DEF ScoreInv, TypeOK, StoredExplained, Explained, Hands

LEMMA ShareKeeps ==
  ASSUME ScoreInv, NEW h \in Handlers, NEW a \in Addrs, NEW ip \in IPs, Share(h, a, ip)
  PROVE  ScoreInv'
<1>0. h \in Hands
  BY DEF Hands
<1>1. UNCHANGED <<redis, localCache, violations, banned, penalties, rewards, faults>>
  BY DEF Share
<1>2. shares' \in 0 .. MaxShares
  BY EngineAssumption DEF Share, ScoreInv, TypeOK
<1>3. partial' \in [Addrs -> 0 .. BwhShares]
  <2>1. partial[a] \in 0 .. BwhShares /\ (partial[a] # BwhShares => partial[a] + 1 \in 0 .. BwhShares)
    BY EngineAssumption DEF ScoreInv, TypeOK
  <2> QED
    BY <2>1 DEF Share, RecordShare, ScoreInv, TypeOK
<1>4. hand' \in [Hands -> Jobs] /\ PendingExplained'
  <2>1. CASE Analyze(h, a, ip)
    BY <1>0, <1>1, <2>1, AnalyzeKeeps
  <2>2. CASE hand' = [hand EXCEPT ![h] = Finding("layer4", a, ip, "high", FALSE)]
    BY <1>0, <1>1, <2>2, FindingType, TakesUp DEF Severities
  <2> QED
    BY <2>1, <2>2 DEF Share
<1> QED
  BY <1>0, <1>1, <1>2, <1>3, <1>4, ArrivalKeeps DEF ScoreInv, TypeOK

LEMMA InvStep == ScoreInv /\ [Next]_vars => ScoreInv'
<1> SUFFICES ASSUME ScoreInv, [Next]_vars PROVE ScoreInv'
  OBVIOUS
<1>0. Timer \in Hands /\ (\A h \in Handlers : h \in Hands)
  BY DEF Hands
<1>1. ASSUME UNCHANGED <<hand, penalties, rewards>> PROVE hand' \in [Hands -> Jobs] /\ PendingExplained'
  BY <1>1 DEF ScoreInv, TypeOK, PendingExplained, Explained, Hands
<1>2. ASSUME NEW h \in Handlers, NEW a \in Addrs, NEW ip \in IPs, Share(h, a, ip) PROVE ScoreInv'
  BY <1>2, ShareKeeps
<1>3. ASSUME NEW h \in Hands, NEW a \in Addrs, NEW j \in {Block(a), DecayOf(a)},
             hand' = [hand EXCEPT ![h] = j],
             UNCHANGED <<redis, localCache, memory, banned, penalties, rewards, shares, faults>>
      PROVE  ScoreInv'
  <2>1. j \in Jobs /\ j.step = Asking
    BY <1>3 DEF Block, DecayOf, Jobs, StepType
  <2>2. hand' \in [Hands -> Jobs] /\ PendingExplained'
    BY <1>3, <2>1, TakesUp
  <2> QED
    BY <1>3, <2>2, ArrivalKeeps DEF memory, ScoreInv, TypeOK
<1>4. ASSUME NEW h \in Handlers, NEW a \in Addrs, BlockFound(h, a) PROVE ScoreInv'
  BY <1>0, <1>3, <1>4 DEF BlockFound
<1>5. ASSUME NEW h \in Handlers, Answer(h) PROVE ScoreInv'
  BY <1>0, <1>5, ReadKeeps, WrittenKeeps DEF Answer
<1>6. CASE ReadDecay \/ Written(Timer)
  BY <1>0, <1>6, ReadDecayKeeps, WrittenKeeps
<1>7. ASSUME NEW a \in Addrs, DecayKey(a) PROVE ScoreInv'
  BY <1>0, <1>3, <1>7 DEF DecayKey
<1>8. ASSUME NEW a \in Addrs, Evict(a) PROVE ScoreInv'
  <2>1. faults' \in 0 .. MaxFaults
    BY <1>8, EngineAssumption DEF Evict, Fault, ScoreInv, TypeOK
  <2>2. StoredExplained'
    BY <1>8 DEF Evict, ScoreInv, TypeOK, StoredExplained, Explained
  <2>3. hand' \in [Hands -> Jobs] /\ PendingExplained'
    BY <1>1, <1>8 DEF Evict
  <2> QED
    BY <1>8, <2>1, <2>2, <2>3 DEF Evict, memory, ScoreInv, TypeOK, Hands
<1>9. ASSUME NEW ip \in IPs, Violate(ip) PROVE ScoreInv'
  <2>1. violations' \in [IPs -> 0 .. Abuse]
    BY <1>9, EngineAssumption DEF Violate, Heard, ScoreInv, TypeOK
  <2>2. hand' \in [Hands -> Jobs] /\ PendingExplained'
    BY <1>1, <1>9 DEF Violate
  <2> QED
    BY <1>0, <1>9, <2>1, <2>2, ArrivalKeeps DEF Violate, ScoreInv, TypeOK
<1>10. ASSUME NEW ip \in IPs, NEW a \in Addrs, OnAuthorize(a, ip) PROVE ScoreInv'
  <2>1. faults' \in 0 .. MaxFaults
    BY <1>10, EngineAssumption DEF OnAuthorize, CheckOnConnect, Answered, Fault, ScoreInv, TypeOK
  <2>2. banned' \subseteq IPs
    BY <1>10 DEF OnAuthorize, Bans, ScoreInv, TypeOK
  <2>3. UNCHANGED <<redis, localCache, hand, partial, violations, penalties, rewards, shares>>
    BY <1>10 DEF OnAuthorize, memory
  <2>4. PendingExplained'
    BY <1>1, <2>3
  <2> QED
    BY <2>1, <2>2, <2>3, <2>4 DEF ScoreInv, TypeOK, StoredExplained, Explained
<1>11. CASE Clean
  <2>1. partial' \in [Addrs -> 0 .. BwhShares] /\ violations' \in [IPs -> 0 .. Abuse]
    BY <1>11, EngineAssumption DEF Clean, CleanProfiles, CleanViolations, ScoreInv, TypeOK
  <2>2. hand' \in [Hands -> Jobs] /\ PendingExplained'
    BY <1>1, <1>11 DEF Clean
  <2> QED
    BY <1>0, <1>11, <2>1, <2>2, ArrivalKeeps DEF Clean, ScoreInv, TypeOK
<1>12. CASE Restart
  <2>1. faults' \in 0 .. MaxFaults
    BY <1>12, EngineAssumption DEF Restart, Fault, ScoreInv, TypeOK
  <2>2. TypeOK'
    BY <1>12, <2>1, EngineAssumption DEF Restart, ScoreInv, TypeOK, Jobs
  <2> QED
    BY <1>12, <2>2 DEF Restart, ScoreInv, StoredExplained, PendingExplained, Explained, Hands
<1>13. CASE UNCHANGED vars
  BY <1>1, <1>13 DEF vars, ScoreInv, TypeOK, StoredExplained, Explained
<1> QED
  BY <1>2, <1>4, <1>5, <1>6, <1>7, <1>8, <1>9, <1>10, <1>11, <1>12, <1>13 DEF Next

\* Scores stay between 0 and the maximum, in Redis, in the copy and on their way,
\* and every counter keeps its bound.
THEOREM SecurityTypes == Spec => []TypeOK
<1>1. ScoreInv => TypeOK
  BY DEF ScoreInv
<1> QED
  BY <1>1, InvInit, InvStep, PTL DEF Spec

\* No address has a score below what its findings explain, nor above: not after
\* lost updates, stale copies, failed commands, evictions and restarts, with any
\* number of requests in progress.
THEOREM ScoresExplained == Spec => []ScoreExplained
  BY InvInit, InvStep, InvExplains, PTL DEF Spec
=============================================================================
