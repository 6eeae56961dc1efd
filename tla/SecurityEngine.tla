--------------------------- MODULE SecurityEngine ---------------------------
(***************************************************************************)
(* The layers of the security engine (securityEngine.js) that keep a       *)
(* memory of the miners: protocol violations per IP (2), share profiles    *)
(* per address (4) and the reputation of an address (8), which lives in    *)
(* Redis with a copy in the process.  Every change of a score is a GET, a  *)
(* computation and a SETEX, with other handlers running in between.  What  *)
(* layer 5 finds in the timing and the addresses of the shares is left     *)
(* open.                                                                   *)
(*                                                                         *)
(* As index.js wires it: onConnect is never called (layer 1 and the        *)
(* connection limits of layer 6 do nothing), no share carries isFullBlock  *)
(* or isStale (layer 4 counts partial shares only), ntime is a string      *)
(* (its check in layer 5 never applies).  The share rate of layer 6, which *)
(* rejects and remembers nothing, and layers 3 and 7 (IdentityLayer) are   *)
(* left out, and so is the audit ledger of layer 9, which nothing reads.   *)
(***************************************************************************)
EXTENDS Integers, FiniteSets, Functions

CONSTANTS
    Addrs, IPs,
    Handlers,         \* requests that may be in progress at once
    MaxScore, Default, BanAt,  \* 1000, 500 and 100; below 250 layer 9 takes note
    PenaltyOf,        \* severity -> points: 20, 75 and 200
    Reward, Decay,    \* 50 points for a block, 5 an hour towards Default
    BwhShares,        \* shares without a block that make a withholding suspect
    Abuse,            \* protocol violations that end a connection (5)
    MaxShares, MaxBlocks, MaxFaults  \* bounds of what happens in a behaviour

Severities == {"low", "medium", "high"}

ASSUME EngineAssumption ==
    /\ {MaxScore, Default, BanAt} \subseteq Nat
    /\ BanAt < Default /\ Default <= MaxScore
    /\ PenaltyOf \in [Severities -> Nat]
    /\ {Reward, Decay, BwhShares, Abuse} \subseteq Nat \ {0}
    /\ {MaxShares, MaxBlocks, MaxFaults} \subseteq Nat

VARIABLES
    redis,       \* address -> the score stored in Redis, or Absent
    localCache,  \* address -> the score the process remembers, or Absent
    hand,        \* what each handler, and the hourly timer, is in the middle of
    partial,     \* layer 4: address -> shares seen, up to BwhShares
    violations,  \* layer 2: IP -> violations, up to Abuse
    banned,      \* IPs the engine has had banned
    penalties,   \* for the properties: address -> points deducted so far
    rewards,     \* for the properties: address -> points added so far
    shares, faults

vars == <<redis, localCache, hand, partial, violations, banned,
          penalties, rewards, shares, faults>>
memory == <<partial, violations>>

Absent == -1
Asking == -2
Scores == 0 .. MaxScore
Timer == "timer"
Idle == [job |-> "idle"]

Block(a)   == [job |-> "reward", addr |-> a, step |-> Asking]
DecayOf(a) == [job |-> "decay", addr |-> a, step |-> Asking]
Finding(layer, a, ip, sev, ban) ==
    [job |-> layer, addr |-> a, ip |-> ip, points |-> PenaltyOf[sev], ban |-> ban,
     step |-> Asking]

\* The second half of a job: the score that SETEX is to store.
Storing(j, v) == [j EXCEPT !.step = v]
StepType == {Asking} \cup Scores

Jobs ==
    {Idle}
    \cup [job : {"reward", "decay"}, addr : Addrs, step : StepType]
    \cup [job : {"layer4", "layer5"}, addr : Addrs, ip : IPs, points : Nat,
          ban : BOOLEAN, step : StepType]

TypeOK ==
    /\ redis \in [Addrs -> Scores \cup {Absent}]
    /\ localCache \in [Addrs -> Scores \cup {Absent}]
    /\ hand \in [Handlers \cup {Timer} -> Jobs]
    /\ partial \in [Addrs -> 0 .. BwhShares]
    /\ violations \in [IPs -> 0 .. Abuse]
    /\ banned \subseteq IPs
    /\ penalties \in [Addrs -> Nat] /\ rewards \in [Addrs -> Nat]
    /\ shares \in 0 .. MaxShares /\ faults \in 0 .. MaxFaults

Init ==
    /\ redis = [a \in Addrs |-> Absent]
    /\ localCache = [a \in Addrs |-> Absent]
    /\ hand = [h \in Handlers \cup {Timer} |-> Idle]
    /\ partial = [a \in Addrs |-> 0]
    /\ violations = [ip \in IPs |-> 0]
    /\ banned = {}
    /\ penalties = [a \in Addrs |-> 0]
    /\ rewards = [a \in Addrs |-> 0]
    /\ shares = 0 /\ faults = 0

----------------------------------------------------------------------------
(* Arithmetic of the scores.                                               *)

\* Wrong on purpose: without the floor.
PenalizedBelow(v, points) == v - points

\* penalize
Penalized(v, points) == IF v < points THEN 0 ELSE v - points

\* reward
Rewarded(v) == IF v + Reward > MaxScore THEN MaxScore ELSE v + Reward

\* Wrong on purpose: every score loses.
DecayedDown(v) == IF v < Decay THEN 0 ELSE v - Decay

\* Wrong on purpose: only trust decays.
DecayedTrust(v) ==
    IF v <= Default THEN v ELSE IF v - Decay < Default THEN Default ELSE v - Decay

\* decayAll, of one score.
Decayed(v) ==
    IF v > Default
    THEN IF v - Decay < Default THEN Default ELSE v - Decay
    ELSE IF v + Decay > Default THEN Default ELSE v + Decay

\* What getScore falls back on.
Fallback(a) == IF localCache[a] = Absent THEN Default ELSE localCache[a]

GetScore(a) == IF redis[a] = Absent THEN Fallback(a) ELSE redis[a]
----------------------------------------------------------------------------
(* Requests arrive.                                                        *)

\* Layer 2 passes a well-formed message on while the IP is below the limit.
Heard(ip) == violations[ip] < Abuse

\* checkProtocol on a malformed message; the connection goes on.
Violate(ip) ==
    /\ Heard(ip)
    /\ violations' = [violations EXCEPT ![ip] = @ + 1]
    /\ UNCHANGED <<redis, localCache, hand, partial, banned,
                   penalties, rewards, shares, faults>>

\* Layer 5, analyze: a flood, the only finding that bans by itself; more than
\* three addresses from the IP; a swing of the difficulty; a leap of the
\* hashrate; or nothing.
Analyze(h, a, ip) ==
    \E j \in {Idle} \cup { Finding("layer5", a, ip, s, FALSE) : s \in Severities }
              \cup {Finding("layer5", a, ip, "high", TRUE)} :
        hand' = [hand EXCEPT ![h] = j]

\* recordShare of layer 4.
RecordShare(a) == partial' = [partial EXCEPT ![a] = IF @ = BwhShares THEN @ ELSE @ + 1]

\* onShare: the suspicion, once raised, is raised again by every further share.
Share(h, a, ip) ==
    /\ hand[h] = Idle
    /\ Heard(ip)
    /\ shares < MaxShares /\ shares' = shares + 1
    /\ RecordShare(a)
    /\ IF partial'[a] = BwhShares
       THEN hand' = [hand EXCEPT ![h] = Finding("layer4", a, ip, "high", FALSE)]
       ELSE Analyze(h, a, ip)
    /\ UNCHANGED <<redis, localCache, violations, banned, penalties, rewards, faults>>

\* The bound of the exploration: blocks rewarded so far.
BlocksLeft == FoldFunction(+, 0, rewards) < MaxBlocks * Reward

\* onBlockFound
BlockFound(h, a) ==
    /\ hand[h] = Idle
    /\ BlocksLeft
    /\ hand' = [hand EXCEPT ![h] = Block(a)]
    /\ UNCHANGED <<redis, localCache, memory, banned, penalties, rewards, shares, faults>>

\* decayAll, hourly, one key after the other, of the keys there are.
DecayKey(a) ==
    /\ hand[Timer] = Idle
    /\ redis[a] # Absent
    /\ hand' = [hand EXCEPT ![Timer] = DecayOf(a)]
    /\ UNCHANGED <<redis, localCache, memory, banned, penalties, rewards, shares, faults>>
----------------------------------------------------------------------------
(* Redis answers.                                                          *)

Fault == faults < MaxFaults /\ faults' = faults + 1

Answers(a) == {GetScore(a), Fallback(a)}
Answered(a, v) == IF v = GetScore(a) THEN UNCHANGED faults ELSE Fault

\* penalize: the copy in the process changes before the SETEX is answered.
DecidePenalty(h, v) ==
    LET j == hand[h]  new == Penalized(v, j.points)
    IN /\ localCache' = [localCache EXCEPT ![j.addr] = new]
       /\ penalties' = [penalties EXCEPT ![j.addr] = @ + j.points]
       /\ hand' = [hand EXCEPT ![h] = Storing(j, new)]
       /\ UNCHANGED <<banned, rewards>>

DecideReward(h, v) ==
    LET j == hand[h]
    IN /\ localCache' = [localCache EXCEPT ![j.addr] = Rewarded(v)]
       /\ rewards' = [rewards EXCEPT ![j.addr] = @ + Reward]
       /\ hand' = [hand EXCEPT ![h] = Storing(j, Rewarded(v))]
       /\ UNCHANGED <<banned, penalties>>

\* _handle of a finding that is a ban: banningManager bans the IP.
Bans(ip) == banned' = banned \cup {ip}

\* The GET says that the address is at the threshold or below.
CheckOnConnect(a) == \E v \in Answers(a) : Answered(a, v) /\ v <= BanAt

\* onAuthorize, after layer 7: the address is refused, and the login changes no
\* score.
OnAuthorize(a, ip) ==
    /\ Heard(ip)
    /\ CheckOnConnect(a)
    /\ Bans(ip)
    /\ UNCHANGED <<redis, localCache, hand, memory, penalties, rewards, shares>>

\* The GET of a handler is answered, or fails.
Read(h) ==
    /\ hand[h] # Idle /\ hand[h].step = Asking /\ h # Timer
    /\ \E v \in Answers(hand[h].addr) :
         /\ Answered(hand[h].addr, v)
         /\ \/ hand[h].job \in {"layer4", "layer5"} /\ DecidePenalty(h, v)
            \/ hand[h].job = "reward" /\ DecideReward(h, v)
    /\ UNCHANGED <<redis, memory, shares>>

\* The GET of the timer: the key may have gone; an error ends the pass.
ReadDecay ==
    LET j == hand[Timer]
    IN /\ j # Idle /\ j.step = Asking
       /\ \/ /\ LET v == IF redis[j.addr] = Absent THEN Default ELSE redis[j.addr]
                IN hand' = [hand EXCEPT ![Timer] = Storing(j, Decayed(v))]
             /\ UNCHANGED faults
          \/ Fault /\ hand' = [hand EXCEPT ![Timer] = Idle]
       /\ UNCHANGED <<redis, localCache, memory, banned, penalties, rewards, shares>>

\* The SETEX is answered, or fails and is forgotten.  After a finding of layer
\* 4 the share goes on to layer 5, unless the score asks for a ban: that ban is
\* lost, as { result: BAN, ...l4 } takes its result from l4, and so is the one
\* after layer 5, but for floods, which are bans themselves.
Written(h) ==
    /\ hand[h] # Idle /\ hand[h].step \in Scores
    /\ LET j == hand[h]
       IN /\ \/ redis' = [redis EXCEPT ![j.addr] = j.step] /\ UNCHANGED faults
             \/ Fault /\ UNCHANGED redis
          /\ IF j.job = "layer4" /\ j.step > BanAt
             THEN Analyze(h, j.addr, j.ip) /\ UNCHANGED banned
             ELSE /\ hand' = [hand EXCEPT ![h] = Idle]
                  /\ IF j.job = "layer5" /\ j.ban THEN Bans(j.ip) ELSE UNCHANGED banned
    /\ UNCHANGED <<localCache, partial, violations, penalties, rewards, shares>>
----------------------------------------------------------------------------
(* Time and faults.                                                        *)

\* A profile of layer 4 that was not seen for a day.
CleanProfiles(a) == partial[a] > 0 /\ partial' = [partial EXCEPT ![a] = 0]

\* The violations of an IP, an hour after the last.
CleanViolations(ip) == violations[ip] > 0 /\ violations' = [violations EXCEPT ![ip] = 0]

\* _cleanup, every five minutes; an entry it leaves may be due the next time.
Clean ==
    /\ \/ (\E a \in Addrs : CleanProfiles(a)) /\ UNCHANGED violations
       \/ (\E ip \in IPs : CleanViolations(ip)) /\ UNCHANGED partial
    /\ UNCHANGED <<redis, localCache, hand, banned, penalties, rewards,
                   shares, faults>>

\* Redis loses a key.
Evict(a) ==
    /\ redis[a] # Absent
    /\ Fault
    /\ redis' = [redis EXCEPT ![a] = Absent]
    /\ UNCHANGED <<localCache, hand, memory, banned, penalties, rewards, shares>>

\* The process stops and starts again: what is not in Redis is gone.
Restart ==
    /\ Fault
    /\ localCache' = [a \in Addrs |-> Absent]
    /\ hand' = [h \in Handlers \cup {Timer} |-> Idle]
    /\ partial' = [a \in Addrs |-> 0]
    /\ violations' = [ip \in IPs |-> 0]
    /\ UNCHANGED <<redis, banned, penalties, rewards, shares>>

Answer(h) == Read(h) \/ Written(h)

Next ==
    \/ \E h \in Handlers :
         \/ \E a \in Addrs, ip \in IPs : Share(h, a, ip)
         \/ \E a \in Addrs : BlockFound(h, a)
         \/ Answer(h)
    \/ ReadDecay \/ Written(Timer)
    \/ \E a \in Addrs : DecayKey(a) \/ Evict(a)
    \/ \E ip \in IPs : Violate(ip) \/ \E a \in Addrs : OnAuthorize(a, ip)
    \/ Clean
    \/ Restart

Spec == Init /\ [][Next]_vars

\* Redis answers or fails, and the timer of decayAll comes round for every key.
FairSpec ==
    /\ Spec
    /\ \A h \in Handlers : WF_vars(Answer(h))
    /\ WF_vars(ReadDecay \/ Written(Timer))
    /\ \A a \in Addrs : SF_vars(DecayKey(a))
----------------------------------------------------------------------------
(* Properties.                                                             *)

Pending(a) ==
    { hand[h].step : h \in { g \in Handlers \cup {Timer} :
        hand[g] # Idle /\ hand[g].addr = a /\ hand[g].step # Asking } }

Known(a) == (Pending(a) \cup {redis[a], localCache[a]}) \ {Absent}

\* Every score of an address, stored, remembered or about to be stored, is
\* explained by what was found: never lower than Default minus its penalties,
\* never higher than Default plus its rewards, whatever updates were lost,
\* overwritten, decayed or read from a stale copy.  An address without a
\* finding is never refused.  securityEngine.js ReputationLayer.
ScoreExplained ==
    \A a \in Addrs : \A v \in Known(a) :
        Default - penalties[a] <= v /\ v <= Default + rewards[a]

\* A stored score at the ban threshold recovers, given that findings come to an
\* end: the hourly decay is not undone for ever by what runs beside it.
\* securityEngine.js decayAll.
ScoreRecovers ==
    \A a \in Addrs : (redis[a] \in 0 .. BanAt) ~> (redis[a] \notin 0 .. BanAt)
=============================================================================
