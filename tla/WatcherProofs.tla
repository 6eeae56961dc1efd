---------------------------- MODULE WatcherProofs ----------------------------
(* Proofs about BlockWatcher on a chain that keeps what is 100 blocks deep. *)
EXTENDS BlockWatcher, TLAPS

LEMMA AnyBlockType == AnyBlock \in Blocks
BY WatcherAssumption DEF AnyBlock

\* Whatever says that a height is not the pool's any more is right about it:
\* the column, the copy of it a check read, and the chain's answer.
OtherIsReplaced ==
    /\ \A b \in Blocks : hash[b] = "other" => chain[b] = "other"
    /\ \A w \in Watchers :
         /\ \A b \in Blocks : snap[w][b] = "other" => chain[b] = "other"
         /\ wpc[w] \in {"write", "flag", "confirm"} /\ heard[w].hash = "other" =>
              chain[at[w]] = "other"
         /\ wpc[w] = "flag" => snap[w][at[w]] # heard[w].hash

OrphanInv == WTypeOK /\ OtherIsReplaced /\ NoFalseOrphan

LEMMA WatcherType == WTypeOK /\ [AloneNext]_awvars => WTypeOK'
<1> SUFFICES ASSUME WTypeOK, [AloneNext]_awvars PROVE WTypeOK'
  OBVIOUS
<1> USE DEF WTypeOK, Hashes, world, table, local, wvars, WGoto, NextBlock
<1>1. ASSUME NEW b \in Blocks, Deepen(b) \/ Replace(b) PROVE WTypeOK'
  BY <1>1 DEF Deepen, Replace
<1>2. ASSUME NEW w \in Watchers, Watch(w) PROVE WTypeOK'
  <2>1. CASE CheckBlocks(w)
    BY <2>1 DEF CheckBlocks
  <2>2. CASE AskChain(w)
    <3>1. \A b \in Blocks : Answer(b) \in [hash : Hashes, mature : BOOLEAN]
      BY DEF Answer
    <3>2. PICK b \in Blocks :
            /\ queue' = [queue EXCEPT ![w] = @ \ {b}]
            /\ at' = [at EXCEPT ![w] = b]
            /\ heard' = [heard EXCEPT ![w] = Answer(b)] \/ UNCHANGED heard
      BY <2>2 DEF AskChain
    <3>3. queue' \in [Watchers -> SUBSET Blocks] /\ at' \in [Watchers -> Blocks]
      BY <3>2
    <3>4. heard' \in [Watchers -> [hash : Hashes, mature : BOOLEAN]]
      BY <3>1, <3>2
    <3>5. QED BY <2>2, <3>3, <3>4 DEF AskChain
  <2>3. CASE WriteHash(w)
    BY <2>3 DEF WriteHash, Decided
  <2>4. CASE FlagOrphan(w) \/ ConfirmMature(w)
    BY <2>4 DEF FlagOrphan, ConfirmMature
  <2>5. QED BY <1>2, <2>1, <2>2, <2>3, <2>4 DEF Watch
<1>3. CASE Restart
  BY <1>3, AnyBlockType DEF Restart, WForget, Unasked
<1>4. CASE UNCHANGED awvars
  BY <1>4 DEF awvars
<1>5. QED BY <1>1, <1>2, <1>3, <1>4 DEF AloneNext

LEMMA WatcherInitType == AloneInit => WTypeOK
BY AnyBlockType DEF AloneInit, WInit, WTypeOK, Hashes, Unasked

\* Type correctness of the watcher.
THEOREM WatcherTypeCorrect == AloneSpec => []WTypeOK
BY WatcherInitType, WatcherType, PTL DEF AloneSpec

----------------------------------------------------------------------------
(* No block the chain has kept is ever flagged.                              *)

LEMMA OtherStep == WTypeOK /\ OtherIsReplaced /\ [AloneNext]_awvars => OtherIsReplaced'
<1> SUFFICES ASSUME WTypeOK, OtherIsReplaced, [AloneNext]_awvars PROVE OtherIsReplaced'
  OBVIOUS
<1> USE DEF WTypeOK, OtherIsReplaced, Hashes, world, table, local, wvars, WGoto, NextBlock
<1>1. ASSUME NEW b \in Blocks, Deepen(b) \/ Replace(b) PROVE OtherIsReplaced'
  BY <1>1 DEF Deepen, Replace
<1>2. ASSUME NEW w \in Watchers, Watch(w) PROVE OtherIsReplaced'
  <2>1. CASE CheckBlocks(w)
    BY <2>1 DEF CheckBlocks
  <2>2. CASE AskChain(w)
    BY <2>2 DEF AskChain, Answer
  <2>3. CASE WriteHash(w)
    BY <2>3 DEF WriteHash, Decided
  <2>4. CASE FlagOrphan(w) \/ ConfirmMature(w)
    BY <2>4 DEF FlagOrphan, ConfirmMature
  <2>5. QED BY <1>2, <2>1, <2>2, <2>3, <2>4 DEF Watch
<1>3. CASE Restart
  BY <1>3 DEF Restart, WForget, Unasked
<1>4. CASE UNCHANGED awvars
  BY <1>4 DEF awvars
<1>5. QED BY <1>1, <1>2, <1>3, <1>4 DEF AloneNext

LEMMA OrphanStep == OrphanInv /\ [AloneNext]_awvars => NoFalseOrphan'
<1> SUFFICES ASSUME OrphanInv, [AloneNext]_awvars PROVE NoFalseOrphan'
  OBVIOUS
<1> USE DEF OrphanInv, NoFalseOrphan, world, table, local, wvars
<1>1. \A b \in Blocks : chain[b] = "other" => chain'[b] = "other"
  BY DEF WTypeOK, AloneNext, awvars, Deepen, Replace, Restart, Watch, CheckBlocks, AskChain,
         WriteHash, FlagOrphan, ConfirmMature
<1>2. ASSUME NEW w \in Watchers, FlagOrphan(w) PROVE chain[at[w]] = "other"
  BY <1>2 DEF FlagOrphan, OtherIsReplaced, WTypeOK, Hashes
<1>3. orphaned' = orphaned \/ \E w \in Watchers : FlagOrphan(w) /\ orphaned' = orphaned \cup {at[w]}
  BY DEF AloneNext, awvars, Deepen, Replace, Restart, Watch, CheckBlocks, AskChain, WriteHash,
         FlagOrphan, ConfirmMature
<1>4. QED BY <1>1, <1>2, <1>3 DEF WTypeOK

\* However many checks overlap, and whatever fails or restarts between what the
\* watcher read, wrote and decided, it never flags a block the chain has kept.
THEOREM OrphansAreReplaced == AloneSpec => []NoFalseOrphan
<1>1. AloneInit => OrphanInv
  BY WatcherInitType DEF AloneInit, WInit, OrphanInv, OtherIsReplaced, NoFalseOrphan
<1>2. OrphanInv /\ [AloneNext]_awvars => OrphanInv'
  BY WatcherType, OtherStep, OrphanStep DEF OrphanInv
<1>3. OrphanInv => NoFalseOrphan
  BY DEF OrphanInv
<1>4. QED BY <1>1, <1>2, <1>3, PTL DEF AloneSpec

----------------------------------------------------------------------------
(* What is offered for payout shows the chain's hash, when checks do not     *)
(* overlap: a check that takes longer than the interval breaks it.           *)

OneWatcher == \A v, w \in Watchers : v = w

\* A block is confirmed on an answer that was final, and not looked at again.
ConfirmedIsFinal ==
    /\ \A b \in confirmed \ orphaned : b \in deep /\ hash[b] = chain[b]
    /\ \A w \in Watchers :
         /\ queue[w] \cap confirmed = {}
         /\ wpc[w] \in {"write", "flag", "confirm"} =>
              /\ at[w] \notin confirmed \cup queue[w]
              /\ heard[w].mature => at[w] \in deep /\ heard[w].hash = chain[at[w]]
         /\ wpc[w] = "confirm" => heard[w].mature /\ hash[at[w]] = heard[w].hash

LEMMA FinalStep ==
    ASSUME OneWatcher, WTypeOK, ConfirmedIsFinal, [AloneNext]_awvars
    PROVE  ConfirmedIsFinal'
<1> USE DEF WTypeOK, ConfirmedIsFinal, Hashes, world, table, local, wvars, WGoto, NextBlock
<1>1. ASSUME NEW b \in Blocks, Deepen(b) \/ Replace(b) PROVE ConfirmedIsFinal'
  BY <1>1 DEF Deepen, Replace
<1>2. ASSUME NEW w \in Watchers, Watch(w) PROVE ConfirmedIsFinal'
  <2>1. CASE CheckBlocks(w)
    BY <2>1 DEF CheckBlocks
  <2>2. CASE AskChain(w)
    <3>1. PICK b \in queue[w] :
            /\ queue' = [queue EXCEPT ![w] = @ \ {b}]
            /\ at' = [at EXCEPT ![w] = b]
            /\ \/ /\ heard' = [heard EXCEPT ![w] = Answer(b)]
                  /\ WGoto(w, "write")
               \/ WGoto(w, IF queue[w] = {b} THEN "idle" ELSE "ask")
      BY <2>2 DEF AskChain
    <3>2. UNCHANGED <<world, table>>
      BY <2>2 DEF AskChain
    <3>3. queue'[w] = queue[w] \ {b} /\ at'[w] = b /\ b \notin confirmed
      BY <3>1
    <3>4. CASE /\ heard' = [heard EXCEPT ![w] = Answer(b)]
               /\ WGoto(w, "write")
      <4>1. /\ heard'[w].mature => b \in deep
            /\ heard'[w].hash = chain[b]
            /\ wpc'[w] = "write"
        BY <3>4 DEF Answer
      <4>2. QED BY <3>2, <3>3, <4>1, OneWatcher DEF OneWatcher
    <3>5. CASE WGoto(w, IF queue[w] = {b} THEN "idle" ELSE "ask")
      <4>1. wpc'[w] \in {"idle", "ask"}
        BY <3>5
      <4>2. QED BY <3>2, <3>3, <4>1, OneWatcher DEF OneWatcher
    <3>6. QED BY <3>1, <3>4, <3>5
  <2>3. CASE WriteHash(w)
    <3>1. wpc[w] = "write" /\ UNCHANGED <<world, confirmed, orphaned, queue, snap, at, heard>>
      BY <2>3 DEF WriteHash, Decided
    <3>2. hash' = hash \/ hash' = [hash EXCEPT ![at[w]] = heard[w].hash]
      BY <2>3 DEF WriteHash, Decided
    <3>3. /\ wpc'[w] \in {"idle", "ask", "flag", "confirm"}
          /\ wpc'[w] = "confirm" => heard[w].mature /\ hash'[at[w]] = heard[w].hash
      BY <2>3 DEF WriteHash, Decided
    <3>4. \A b \in confirmed : hash'[b] = hash[b]
      BY <3>1, <3>2
    <3>5. QED BY <3>1, <3>3, <3>4, OneWatcher DEF OneWatcher
  <2>4. CASE FlagOrphan(w)
    BY <2>4 DEF FlagOrphan
  <2>5. CASE ConfirmMature(w)
    BY <2>5 DEF ConfirmMature, OneWatcher
  <2>6. QED BY <1>2, <2>1, <2>2, <2>3, <2>4, <2>5 DEF Watch
<1>3. CASE Restart
  BY <1>3 DEF Restart, WForget, Unasked
<1>4. CASE UNCHANGED awvars
  BY <1>4 DEF awvars
<1>5. QED BY <1>1, <1>2, <1>3, <1>4 DEF AloneNext

\* With one check at a time, the hash shown for a block offered for payout is
\* the one the chain has at its height, in every state.
THEOREM PayableIsOnChain == ASSUME OneWatcher PROVE AloneSpec => []PayableShowsChainHash
<1>1. AloneInit => WTypeOK /\ ConfirmedIsFinal
  BY WatcherInitType DEF AloneInit, WInit, ConfirmedIsFinal
<1>2. WTypeOK /\ ConfirmedIsFinal /\ [AloneNext]_awvars => (WTypeOK /\ ConfirmedIsFinal)'
  BY OneWatcher, WatcherType, FinalStep
<1>3. WTypeOK /\ ConfirmedIsFinal => PayableShowsChainHash
  BY DEF ConfirmedIsFinal, PayableShowsChainHash
<1>4. QED BY <1>1, <1>2, <1>3, PTL DEF AloneSpec
=============================================================================
