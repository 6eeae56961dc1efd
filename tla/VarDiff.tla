------------------------------- MODULE VarDiff -------------------------------
(***************************************************************************)
(* The difficulty of one connection: what a recognised machine starts with *)
(* at mining.subscribe (index.js), and VarDiff (vardiff.js) after every    *)
(* valid share (shareProcessor.js).  The speed of the miner is the         *)
(* difficulty at which its shares would come every targetTime seconds, so  *)
(* that a ratio of times is a ratio of difficulties.                       *)
(***************************************************************************)
EXTENDS MinerRegistry, FiniteSetsExt

CONSTANTS
    Agents, Speeds,
    StartDiff, MinDiff, MaxDiff,  \* by default 512, 64 and 65536, but any integers
                                  \* of the environment (config/index.js)
    Enough,                       \* intervals a retarget needs (3)
    MaxSubscribes, MaxMoods       \* bounds: subscriptions, changes of speed and mixed windows

Powers == { 1, 2, 4, 8, 16, 32, 64, 128, 256, 512, 1024, 2048, 4096, 8192, 16384,
            32768, 65536, 131072, 262144, 524288, 1048576, 2097152, 4194304,
            8388608, 16777216 }

\* Bound of speeds and of configured difficulties, far above those of the models.
Highest == 16777216

ASSUME VarDiffAssumption ==
    /\ {StartDiff, MinDiff, MaxDiff} \subseteq 1 .. Highest
    /\ Speeds \subseteq 1 .. Highest /\ Speeds # {}
    /\ {Enough, MaxSubscribes, MaxMoods} \subseteq Nat

VARIABLES
    difficulty,  \* client.difficulty
    minDiff,     \* VarDiffManager.minDiff, the model's floor included
    gaps,        \* shareTimes.length, up to Enough
    timed,       \* lastShareTime is set
    due,         \* retargetTime has passed since lastRetarget
    speed,       \* of the miner
    tuned,       \* for the properties: VarDiff set the difficulty last, and
    presented,   \* the agents the miner has named
    subscribes, moods

vars == <<difficulty, minDiff, gaps, timed, due, speed, tuned, presented,
          subscribes, moods>>
window == <<gaps, timed, due>>

Init ==
    /\ difficulty = StartDiff /\ minDiff = MinDiff
    /\ gaps = 0 /\ timed = FALSE /\ due = FALSE
    /\ speed \in Speeds
    /\ tuned = FALSE /\ presented = {} /\ subscribes = 0 /\ moods = 0
-----------------------------------------------------------------------------
\* Wrong on purpose: the floor of the last model replaces the one in force.
FloorOfLast(floor) == minDiff' = floor

\* setModelFloor only ever raises the minimum.
setModelFloor(floor) == minDiff' = Max({minDiff, floor})

\* A client may subscribe again at any time, with another user-agent.
Subscribe(agent) ==
    /\ subscribes < MaxSubscribes
    /\ subscribes' = subscribes + 1
    /\ IF Identified(agent)
       THEN /\ difficulty' = getOptimalDifficulty(agent)
            /\ setModelFloor(getVardiffFloor(agent))
            /\ tuned' = (tuned /\ difficulty' = difficulty)
            /\ presented' = presented \cup {agent}
       ELSE UNCHANGED <<difficulty, minDiff, tuned, presented>>
    /\ UNCHANGED <<window, speed, moods>>

\* The nearest power of two, the upper one when both are as near.
Snap(n) ==
    LET lower == CHOOSE p \in Powers : p <= n /\ n < 2 * p
        upper == IF n = lower THEN n ELSE 2 * lower
    IN  IF n - lower < upper - n THEN lower ELSE upper

\* round(difficulty * ratio), the ratio observed/difficulty held between 1/4 and 4.
Held(observed) == Max({(difficulty + 2) \div 4, Min({4 * difficulty, observed})})

\* Wrong on purpose: slow shares raise the difficulty.
AdjustedBackwards(observed) ==
    LET n == IF observed > difficulty THEN difficulty \div 4 ELSE 4 * difficulty
    IN  Snap(Max({minDiff, Min({MaxDiff, n})}))

\* applyAdjustment: the maximum first, so that a floor above it wins.
Adjusted(observed) == Snap(Max({minDiff, Min({MaxDiff, Held(observed)})}))

Retargets == due /\ gaps + (IF timed THEN 1 ELSE 0) >= Enough

\* recordShare after a valid share, without and with a retarget.
Count ==
    /\ ~Retargets
    /\ timed' = TRUE
    /\ gaps' = Min({Enough, gaps + (IF timed THEN 1 ELSE 0)})
    /\ UNCHANGED <<difficulty, minDiff, due, speed, tuned, presented, subscribes, moods>>

Retarget(observed) ==
    /\ Retargets
    /\ difficulty' = Adjusted(observed)
    /\ tuned' = TRUE
    /\ timed' = TRUE /\ gaps' = 0 /\ due' = FALSE
    /\ UNCHANGED <<minDiff, speed, presented, subscribes>>

ValidShare == Count \/ (Retarget(speed) /\ UNCHANGED moods)

\* Shares from before the last change of difficulty or of speed, or luck.
MixedWindow == \E s \in Speeds :
    moods < MaxMoods /\ Retarget(s) /\ moods' = moods + 1

TimePasses == ~due /\ due' = TRUE /\ UNCHANGED
    <<difficulty, minDiff, gaps, timed, speed, tuned, presented, subscribes, moods>>

ChangeSpeed == \E s \in Speeds \ {speed} :
    /\ moods < MaxMoods /\ moods' = moods + 1
    /\ speed' = s
    /\ UNCHANGED <<difficulty, minDiff, window, tuned, presented, subscribes>>

Next ==
    \/ \E a \in Agents : Subscribe(a)
    \/ ValidShare \/ MixedWindow \/ TimePasses \/ ChangeSpeed

\* The miner mines on, and the clock runs.
Spec == Init /\ [][Next]_vars /\ WF_vars(ValidShare) /\ WF_vars(TimePasses)
-----------------------------------------------------------------------------
Ceiling == Max({minDiff, MaxDiff})

\* A difficulty VarDiff has set is a power of two, and not below the floor of any
\* machine the miner ever said it was.  The snap comes after the clamp, so that
\* configured bounds that are no powers of two are only nearly kept: VarDiff goes
\* at most a third below the minimum, and at most a third above the maximum or a
\* floor above it (vardiff.js 32-43, 95-118).
FloorKept ==
    tuned =>
        /\ difficulty \in Powers
        /\ \A a \in presented : difficulty >= getVardiffFloor(a)
        /\ 2 * MinDiff < 3 * difficulty /\ 3 * difficulty <= 4 * Ceiling

\* The shares come between 3/4 and 3/2 as fast as wanted.
OnTarget == 3 * difficulty <= 4 * speed /\ 2 * speed < 3 * difficulty

\* ... or as near to it as the bounds let VarDiff come.
AtBound ==
    \/ difficulty = Snap(minDiff) /\ 4 * speed < 3 * difficulty
    \/ difficulty = Snap(Ceiling) /\ 2 * speed >= 3 * difficulty

Settled == OnTarget \/ AtBound

\* A miner of steady speed ends with its shares at the target rate, or at the
\* bound that keeps them from it, whatever the windows before measured
\* (vardiff.js 71-87, shareProcessor.js 132-153).
SettlesOnTarget == <>[]Settled
=============================================================================
