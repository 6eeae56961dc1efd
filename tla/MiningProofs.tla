---------------------------- MODULE MiningProofs ----------------------------
(***************************************************************************)
(* What holds of MergedMining for any number of clients, slots, chains and *)
(* jobs.  Whatever fails: the types; a recorded block was accepted, a      *)
(* credited share meets its difficulty, a block has the header its share   *)
(* was found for.  Where Redis answers and keeps its keys: a share is      *)
(* credited once.  Where no answer, row or process is lost: an accepted    *)
(* block is recorded.  Where no lock expires under its holder: one         *)
(* submission at a time goes to an aux chain.                              *)
(***************************************************************************)
EXTENDS MergedMining, FiniteSetTheorems, SequenceTheorems, TLAPS

\* Where a slot can be.
Places == {"idle", "security", "dedup", "hash", "row", "submit", "record",
           "aux", "auxAnswer", "auxRefresh"}
Submitting == {"auxAnswer", "auxRefresh"}

\* The types a proof needs, without the bounds of the exploration.
Credit == [key : [client : Clients, job : Nat, nonce : Nonces], diff : Diffs]

SlotShape ==
    /\ difficulty \in [Clients -> Diffs]
    /\ spc \in [Slots -> Places]
    /\ DOMAIN share = Slots
    /\ \A s \in Slots : spc[s] # "idle" => share[s] \in Credit
    /\ shares \in Seq(Credit)

\* A share about to be credited has passed the comparison with its difficulty.
JudgedShares == \A s \in Slots : spc[s] = "row" => share[s].diff <= Work[share[s].key.nonce]

\* A block about to be recorded is on the chain.
AnsweredBlocks == \A s \in Slots : spc[s] = "record" => share[s].key \in onChain

\* Who submits to a chain has its lock.
LockHeld ==
    /\ lock \in [Aux -> BOOLEAN]
    /\ DOMAIN proof = Slots
    /\ \A s \in Slots : spc[s] \in Submitting => proof[s].chain \in Aux /\ lock[proof[s].chain]

----------------------------------------------------------------------------
(* What a step does to the slots and to what is recorded *)

\* Slot s goes on with its share, or gives it up.
Goes(s, to) ==
    /\ spc[s] # "idle"
    /\ \/ \E l \in to : Move(s, l) /\ UNCHANGED share
       \/ Done(s)

Submitted(s) ==
    /\ \E c \in Clients, j \in 1 .. made, n \in Nonces : Submit(s, c, j, n)
    /\ UNCHANGED <<difficulty, shares, blocks, onChain>>
Forwarded(s) ==
    /\ Goes(s, Places \ {"idle", "row", "record"})
    /\ UNCHANGED <<difficulty, shares, blocks>> /\ onChain \subseteq onChain'
Judged(s) ==
    /\ spc[s] = "hash"
    /\ \/ Done(s) /\ UNCHANGED difficulty
       \/ /\ Move(s, "row") /\ UNCHANGED share
          /\ Work[share[s].key.nonce] >= share[s].diff
          /\ \E d \in Diffs : difficulty' = [difficulty EXCEPT ![share[s].key.client] = d]
    /\ UNCHANGED <<shares, blocks, onChain>>
Credited(s) ==
    /\ spc[s] = "row" /\ Goes(s, {"submit", "aux"})
    /\ shares' \in {shares, Append(shares, share[s])}
    /\ UNCHANGED <<difficulty, blocks, onChain>>
Won(s) ==
    /\ Goes(s, {"record"})
    /\ share[s].key \in onChain' /\ onChain \subseteq onChain'
    /\ UNCHANGED <<difficulty, shares, blocks>>
Recorded(s) ==
    /\ spc[s] = "record" /\ Goes(s, {"aux"})
    /\ blocks' \in {blocks, blocks \cup {share[s].key}}
    /\ UNCHANGED <<difficulty, shares, onChain>>
Waits == UNCHANGED <<spc, share, difficulty, shares, blocks, onChain>>
Restarted ==
    /\ difficulty' \in [Clients -> Diffs]
    /\ spc' = [s \in Slots |-> "idle"] /\ share' = [s \in Slots |-> Idle]
    /\ UNCHANGED <<shares, blocks, onChain>>

SlotStep(s) ==
    Submitted(s) \/ Forwarded(s) \/ Judged(s) \/ Credited(s) \/ Won(s) \/ Recorded(s)

\* Whatever EmitShare decides, the slot looks at the aux chains or is idle.
LEMMA EmitShareGoes ==
  ASSUME NEW s \in Slots, EmitShare(s), spc[s] # "idle"
  PROVE  Goes(s, {"aux"})
  BY DEF EmitShare, Goes

\* Every step of processShare is one of the kinds above.
LEMMA ProcessShareSteps ==
  ASSUME SlotShape, NEW s \in Slots, ProcessShare(s)
  PROVE  SlotStep(s)
<1>1. ASSUME NEW c \in Clients, NEW j \in 1 .. made, NEW n \in Nonces, Submit(s, c, j, n)
      PROVE  SlotStep(s)
  BY <1>1 DEF Submit, SlotStep, Submitted, chainVars
<1>2. CASE CheckJob(s)
  BY <1>2 DEF CheckJob, SlotStep, Forwarded, Goes, chainVars, Places
<1>3. CASE CheckDuplicate(s)
  BY <1>3 DEF CheckDuplicate, BuildsHeader, SlotStep, Forwarded, Goes, chainVars, Places
<1>4. CASE Judge(s)
  BY <1>4 DEF Judge, AcceptedDiff, SlotStep, Judged, chainVars
<1>5. CASE RecordShare(s)
  <2>1. Goes(s, {"submit", "aux"})
    BY <1>5, EmitShareGoes DEF RecordShare, ShareRow, Goes
  <2> QED
    BY <1>5, <2>1 DEF RecordShare, ShareRow, SlotStep, Credited
<1>6. CASE SubmitBlock(s)
  <2>1. CASE NullAnswer(s) /\ Move(s, "record") /\ UNCHANGED share
    BY <1>6, <2>1 DEF SubmitBlock, SlotStep, Won, Goes, NullAnswer, Accepted
  <2>2. CASE Refused(s) /\ EmitShare(s)
    BY <1>6, <2>2, EmitShareGoes DEF SubmitBlock, SlotStep, Forwarded, Goes, Refused, Places
  <2>3. CASE AttemptFails(s) /\ onChain \subseteq onChain'
    <3>1. CASE EmitShare(s)
      BY <1>6, <2>3, <3>1, EmitShareGoes DEF SubmitBlock, SlotStep, Forwarded, Goes, Places
    <3>2. CASE UNCHANGED <<spc, share>>
      <4>1. Move(s, "submit")
        BY <1>6, <3>2 DEF SubmitBlock, Move, SlotShape
      <4> QED
        BY <1>6, <2>3, <3>2, <4>1 DEF SubmitBlock, SlotStep, Forwarded, Goes, Places
    <3> QED
      BY <2>3, <3>1, <3>2 DEF AttemptFails
  <2> QED
    BY <1>6, <2>1, <2>2, <2>3 DEF SubmitBlock, Accepted, Refused
<1>7. CASE RecordBlock(s)
  <2>1. Goes(s, {"aux"})
    BY <1>7, EmitShareGoes DEF RecordBlock
  <2> QED
    BY <1>7, <2>1 DEF RecordBlock, BlockRow, SlotStep, Recorded, chainVars
<1> QED
  BY <1>1, <1>2, <1>3, <1>4, <1>5, <1>6, <1>7 DEF ProcessShare

\* The look at the aux chains moves its slot only.
LEMMA CheckAuxSteps ==
  ASSUME SlotShape, NEW s \in Slots, CheckAux(s)
  PROVE  Forwarded(s)
<1>1. ASSUME NEW a \in Aux, SkipAux(s, a) PROVE Forwarded(s)
  <2>1. Move(s, "aux")
    BY <1>1 DEF SkipAux, slotVars, Move, SlotShape
  <2> QED
    BY <1>1, <2>1 DEF SkipAux, Forwarded, Goes, Places, slotVars, chainVars
<1>2. ASSUME NEW a \in Aux, SubmitAux(s, a) PROVE Forwarded(s)
  BY <1>2 DEF SubmitAux, Forwarded, Goes, Places, chainVars
<1>3. CASE AuxAnswer(s)
  BY <1>3 DEF AuxAnswer, Release, Forwarded, Goes, Places, chainVars
<1>4. CASE AuxRefreshed(s)
  BY <1>4 DEF AuxRefreshed, Release, Forwarded, Goes, Places, chainVars
<1>5. CASE AuxDone(s)
  BY <1>5 DEF AuxDone, Forwarded, Goes, chainVars
<1> QED
  BY <1>1, <1>2, <1>3, <1>4, <1>5 DEF CheckAux

\* So is every step of the system, or it leaves the slots alone.
LEMMA MiningSteps ==
  ASSUME SlotShape, [MiningNext]_miningVars
  PROVE  Waits \/ Restarted \/ \E s \in Slots : SlotStep(s)
<1>0. CASE MiningRestart
  BY <1>0 DEF MiningRestart, ShareRestart, Restarted, chainVars
<1>1. CASE JobStep /\ UNCHANGED <<shareVars, lock, proof>>
  BY <1>1 DEF Waits, shareVars, slotVars, chainVars
<1>2. ASSUME NEW s \in Slots, ProcessShare(s) PROVE SlotStep(s)
  BY <1>2, ProcessShareSteps
<1>3. ASSUME NEW s \in Slots, CheckAux(s) PROVE SlotStep(s)
  BY <1>3, CheckAuxSteps DEF SlotStep
<1>4. ASSUME NEW k \in seen, KeyExpires(k) PROVE Waits
  BY <1>4 DEF KeyExpires, Waits, slotVars, chainVars
<1>5. ASSUME NEW a \in Aux, LockExpires(a) PROVE Waits
  BY <1>5 DEF LockExpires, Waits, shareVars, slotVars, chainVars
<1>6. CASE UNCHANGED miningVars
  BY <1>6 DEF miningVars, Waits, shareVars, slotVars, chainVars
<1> QED
  BY <1>0, <1>1, <1>2, <1>3, <1>4, <1>5, <1>6 DEF MiningNext

----------------------------------------------------------------------------
(* The invariants *)

LEMMA ShapeInit == MiningInit => SlotShape
  BY DEF MiningInit, ShareInit, SlotShape, Places

\* A slot that goes on keeps its share, one that gives it up holds none.
KeepsShape(s, to) ==
    /\ spc' \in [Slots -> Places]
    /\ DOMAIN share' = Slots
    /\ \A t \in Slots : spc'[t] # "idle" => share'[t] = share[t] /\ share[t] \in Credit
    /\ spc'[s] \in to \cup {"idle"}
    /\ \A t \in Slots \ {s} : spc'[t] = spc[t]

LEMMA GoesKeepsShape ==
  ASSUME SlotShape, NEW s \in Slots, NEW to \in SUBSET Places, Goes(s, to)
  PROVE  KeepsShape(s, to)
<1>1. CASE Done(s)
  BY <1>1 DEF KeepsShape, SlotShape, Done, Move, Places
<1>2. ASSUME NEW l \in to, Move(s, l), UNCHANGED share PROVE KeepsShape(s, to)
  BY <1>2 DEF KeepsShape, SlotShape, Goes, Move
<1> QED
  BY <1>1, <1>2 DEF Goes

\* The shape survives every step.
LEMMA ShapeStep == SlotShape /\ [MiningNext]_miningVars => SlotShape'
<1> SUFFICES ASSUME SlotShape, [MiningNext]_miningVars PROVE SlotShape'
  OBVIOUS
<1>1. CASE Waits
  BY <1>1 DEF Waits, SlotShape
<1>0. CASE Restarted
  BY <1>0 DEF Restarted, SlotShape, Places
<1>2. ASSUME NEW s \in Slots, SlotStep(s) PROVE SlotShape'
  <2>1. CASE Submitted(s)
    <3>1. PICK c \in Clients, j \in 1 .. made, n \in Nonces : Submit(s, c, j, n)
      BY <2>1 DEF Submitted
    <3> DEFINE new == [key |-> [client |-> c, job |-> j, nonce |-> n], diff |-> difficulty[c]]
    <3>2. new \in Credit
      BY DEF SlotShape, Credit
    <3>3. share' = [share EXCEPT ![s] = new] /\ spc' = [spc EXCEPT ![s] = "security"]
      BY <3>1 DEF Submit, Move
    <3> QED
      BY <2>1, <3>2, <3>3 DEF Submitted, SlotShape, Places
  <2>2. CASE Forwarded(s)
    <3>1. Goes(s, Places \ {"idle", "row", "record"})
      BY <2>2 DEF Forwarded
    <3> QED
      BY <2>2, <3>1, GoesKeepsShape DEF KeepsShape, Forwarded, SlotShape
  <2>3. CASE Judged(s)
    <3>1. Goes(s, {"row"})
      BY <2>3 DEF Judged, Goes
    <3>2. difficulty' \in [Clients -> Diffs]
      BY <2>3 DEF Judged, SlotShape
    <3> QED
      BY <2>3, <3>1, <3>2, GoesKeepsShape DEF KeepsShape, Judged, SlotShape, Places
  <2>4. CASE Credited(s)
    <3>1. share[s] \in Credit
      BY <2>4 DEF Credited, SlotShape
    <3>2. shares' \in Seq(Credit)
      BY <2>4, <3>1 DEF Credited, SlotShape
    <3> QED
      BY <2>4, <3>2, GoesKeepsShape DEF KeepsShape, Credited, SlotShape, Places
  <2>5. CASE Won(s)
    BY <2>5, GoesKeepsShape DEF KeepsShape, Won, SlotShape, Places
  <2>6. CASE Recorded(s)
    BY <2>6, GoesKeepsShape DEF KeepsShape, Recorded, SlotShape, Places
  <2> QED
    BY <1>2, <2>1, <2>2, <2>3, <2>4, <2>5, <2>6 DEF SlotStep
<1> QED
  BY <1>0, <1>1, <1>2, MiningSteps

----------------------------------------------------------------------------
(* Recorded blocks *)

\* A block is on the chain from the null answer to its row, and stays there.
RecordInv == AnsweredBlocks /\ RecordedIsAccepted

LEMMA RecordInit == MiningInit => RecordInv
  BY DEF MiningInit, ShareInit, RecordInv, AnsweredBlocks, RecordedIsAccepted

\* Only a won block moves a slot to "record", only there is a row written.
LEMMA RecordStep == SlotShape /\ RecordInv /\ [MiningNext]_miningVars => RecordInv'
<1> SUFFICES ASSUME SlotShape, RecordInv, [MiningNext]_miningVars PROVE RecordInv'
  OBVIOUS
<1> USE DEF RecordInv, AnsweredBlocks, RecordedIsAccepted
<1>1. CASE Waits
  BY <1>1 DEF Waits
<1>0. CASE Restarted
  BY <1>0 DEF Restarted
<1>2. ASSUME NEW s \in Slots, SlotStep(s) PROVE RecordInv'
  <2>1. CASE Submitted(s)
    <3>1. \A t \in Slots : spc'[t] = "record" => spc[t] = "record" /\ share'[t] = share[t]
      BY <2>1 DEF Submitted, Submit, Move, SlotShape
    <3> QED
      BY <2>1, <3>1 DEF Submitted
  <2>2. CASE Forwarded(s)
    BY <2>2, GoesKeepsShape DEF Forwarded, KeepsShape, Places
  <2>3. CASE Judged(s)
    <3>1. Goes(s, {"row"})
      BY <2>3 DEF Judged, Goes
    <3> QED
      BY <2>3, <3>1, GoesKeepsShape DEF Judged, KeepsShape, Places
  <2>4. CASE Credited(s)
    BY <2>4, GoesKeepsShape DEF Credited, KeepsShape, Places
  <2>5. CASE Won(s)
    BY <2>5, GoesKeepsShape DEF Won, KeepsShape, Places
  <2>6. CASE Recorded(s)
    BY <2>6, GoesKeepsShape DEF Recorded, KeepsShape, Places
  <2> QED
    BY <1>2, <2>1, <2>2, <2>3, <2>4, <2>5, <2>6 DEF SlotStep
<1> QED
  BY <1>0, <1>1, <1>2, MiningSteps

\* Whatever fails, the blocks table holds only blocks litecoind has accepted:
\* _recordBlock runs after a null answer and not otherwise.
THEOREM RecordedAccepted == MiningSpec => []RecordedIsAccepted
<1>1. MiningInit => SlotShape /\ RecordInv
  BY ShapeInit, RecordInit
<1>2. SlotShape /\ RecordInv /\ [MiningNext]_miningVars => (SlotShape /\ RecordInv)'
  BY ShapeStep, RecordStep
<1>3. RecordInv => RecordedIsAccepted
  BY DEF RecordInv
<1> QED
  BY <1>1, <1>2, <1>3, PTL DEF MiningSpec

----------------------------------------------------------------------------
(* Credited shares *)

\* What Judge has compared is what the row will say.
CreditInv == JudgedShares /\ CreditIsEarned

LEMMA CreditInit == MiningInit => CreditInv
  BY DEF MiningInit, ShareInit, CreditInv, JudgedShares, CreditIsEarned

\* Judge lets a share through that meets its difficulty, the row is that share.
LEMMA CreditStep == SlotShape /\ CreditInv /\ [MiningNext]_miningVars => CreditInv'
<1> SUFFICES ASSUME SlotShape, CreditInv, [MiningNext]_miningVars PROVE CreditInv'
  OBVIOUS
<1> USE DEF CreditInv, JudgedShares, CreditIsEarned
<1>1. CASE Waits
  BY <1>1 DEF Waits
<1>0. CASE Restarted
  BY <1>0 DEF Restarted
<1>2. ASSUME NEW s \in Slots, SlotStep(s) PROVE CreditInv'
  <2>1. CASE Submitted(s)
    <3>1. \A t \in Slots : spc'[t] = "row" => spc[t] = "row" /\ share'[t] = share[t]
      BY <2>1 DEF Submitted, Submit, Move, SlotShape
    <3> QED
      BY <2>1, <3>1 DEF Submitted
  <2>2. CASE Forwarded(s)
    BY <2>2, GoesKeepsShape DEF Forwarded, KeepsShape, Places
  <2>3. CASE Judged(s)
    <3>1. Goes(s, {"row"})
      BY <2>3 DEF Judged, Goes
    <3>2. spc'[s] = "row" => share[s].diff <= Work[share[s].key.nonce]
      <4>1. share[s] \in Credit
        BY <2>3 DEF Judged, SlotShape
      <4>2. share[s].diff \in Nat /\ Work[share[s].key.nonce] \in Nat
        BY <4>1, ShareAssumption DEF Credit
      <4> QED
        BY <2>3, <4>2 DEF Judged, Done, Move, SlotShape
    <3> QED
      BY <2>3, <3>1, <3>2, GoesKeepsShape DEF Judged, KeepsShape, Places
  <2>4. CASE Credited(s)
    <3>1. \A t \in Slots : spc'[t] = "row" => spc[t] = "row" /\ share'[t] = share[t]
      BY <2>4, GoesKeepsShape DEF Credited, KeepsShape, Places
    <3>2. share[s].diff <= Work[share[s].key.nonce]
      BY <2>4 DEF Credited
    <3>3. share[s] \in Credit
      BY <2>4 DEF Credited, SlotShape
    <3>4. CreditIsEarned'
      BY <2>4, <3>2, <3>3 DEF Credited, SlotShape
    <3> QED
      BY <3>1, <3>4
  <2>5. CASE Won(s)
    BY <2>5, GoesKeepsShape DEF Won, KeepsShape, Places
  <2>6. CASE Recorded(s)
    BY <2>6, GoesKeepsShape DEF Recorded, KeepsShape, Places
  <2> QED
    BY <1>2, <2>1, <2>2, <2>3, <2>4, <2>5, <2>6 DEF SlotStep
<1> QED
  BY <1>0, <1>1, <1>2, MiningSteps

\* No share is credited with more than it solved, although VarDiff retargets the
\* client while its hash is computed and its row is written.
THEOREM CreditEarned == MiningSpec => []CreditIsEarned
<1>1. MiningInit => SlotShape /\ CreditInv
  BY ShapeInit, CreditInit
<1>2. SlotShape /\ CreditInv /\ [MiningNext]_miningVars => (SlotShape /\ CreditInv)'
  BY ShapeStep, CreditStep
<1>3. CreditInv => CreditIsEarned
  BY DEF CreditInv
<1> QED
  BY <1>1, <1>2, <1>3, PTL DEF MiningSpec

----------------------------------------------------------------------------
(* The lock of an aux chain *)

\* The holder of a chain's lock is the only slot between SET NX and DEL.
LockInv == LockHeld /\ OneSubmission

LEMMA LockInit == MiningInit => LockInv
  BY DEF MiningInit, ShareInit, LockInv, LockHeld, OneSubmission, Submitting

\* processShare has nothing to do with the locks.
LEMMA ProcessShareSubmitsNothing ==
  ASSUME SlotShape, NEW s \in Slots, ProcessShare(s)
  PROVE  \A t \in Slots : spc'[t] \in Submitting => spc'[t] = spc[t]
<1>1. \/ \E l \in Places \ Submitting : Move(s, l)
      \/ UNCHANGED spc
  <2>1. EmitShare(s) => \E l \in Places \ Submitting : Move(s, l)
    BY DEF EmitShare, Done, Places, Submitting
  <2>2. Done(s) => \E l \in Places \ Submitting : Move(s, l)
    BY DEF Done, Places, Submitting
  <2>3. ASSUME NEW c \in Clients, NEW j \in 1 .. made, NEW n \in Nonces, Submit(s, c, j, n)
        PROVE  \E l \in Places \ Submitting : Move(s, l)
    BY <2>3 DEF Submit, Places, Submitting
  <2>4. CASE CheckJob(s)
    BY <2>2, <2>4 DEF CheckJob, Places, Submitting
  <2>5. CASE CheckDuplicate(s)
    BY <2>2, <2>5 DEF CheckDuplicate, BuildsHeader, Places, Submitting
  <2>6. CASE Judge(s)
    BY <2>2, <2>6 DEF Judge, Places, Submitting
  <2>7. CASE RecordShare(s)
    BY <2>1, <2>7 DEF RecordShare, ShareRow, Places, Submitting
  <2>8. CASE SubmitBlock(s)
    BY <2>1, <2>8 DEF SubmitBlock, AttemptFails, Places, Submitting
  <2>9. CASE RecordBlock(s)
    BY <2>1, <2>9 DEF RecordBlock
  <2> QED
    BY <2>3, <2>4, <2>5, <2>6, <2>7, <2>8, <2>9 DEF ProcessShare
<1> QED
  BY <1>1 DEF Move, SlotShape

\* A slot that lets go of its chain's lock leaves no other submission behind.
LEMMA ReleaseKeepsLocks ==
  ASSUME SlotShape, LockInv, NEW s \in Slots, spc[s] \in Submitting, Release(s)
  PROVE  LockInv'
<1>1. /\ lock' = [lock EXCEPT ![proof[s].chain] = FALSE]
      /\ proof' = [proof EXCEPT ![s] = NoProof]
      /\ spc' = [spc EXCEPT ![s] = "aux"]
  BY DEF Release, Move
<1>2. \A t \in Slots : spc'[t] \in Submitting =>
         /\ t # s /\ spc[t] \in Submitting
         /\ proof'[t] = proof[t] /\ proof[t].chain # proof[s].chain
  BY <1>1 DEF SlotShape, LockInv, LockHeld, OneSubmission, Submitting
<1> QED
  BY <1>1, <1>2 DEF LockInv, LockHeld, OneSubmission, Submitting

\* Each step of the look at the aux chains takes a free lock, lets its own go, or
\* leaves the locks alone.
LEMMA CheckAuxKeepsLocks ==
  ASSUME SlotShape, LockInv, NEW s \in Slots, CheckAux(s)
  PROVE  LockInv'
<1>1. ASSUME NEW a \in Aux, SkipAux(s, a) PROVE LockInv'
  BY <1>1 DEF SkipAux, slotVars, LockInv, LockHeld, OneSubmission
<1>2. ASSUME NEW a \in Aux, SubmitAux(s, a) PROVE LockInv'
  <2> DEFINE p == [chain |-> a, hash |-> auxBlocks[a], tree |-> tree[s], commit |-> parts[s].coinbase.aux]
  <2>1. /\ ~lock[a]
        /\ lock' = [lock EXCEPT ![a] = TRUE]
        /\ proof' = [proof EXCEPT ![s] = p]
        /\ spc' = [spc EXCEPT ![s] = "auxAnswer"]
    BY <1>2 DEF SubmitAux, LockFree, Move
  <2>2. p.chain = a
    OBVIOUS
  <2>3. proof'[s].chain = a /\ lock'[a]
    BY <2>1, <2>2 DEF LockInv, LockHeld
  <2>4. \A t \in Slots \ {s} : spc'[t] \in Submitting =>
           /\ spc[t] \in Submitting /\ proof'[t] = proof[t]
           /\ proof[t].chain # a /\ lock'[proof[t].chain]
    BY <2>1 DEF SlotShape, LockInv, LockHeld
  <2>5. LockHeld'
    BY <2>1, <2>3, <2>4 DEF LockInv, LockHeld
  <2>6. OneSubmission'
    BY <2>1, <2>3, <2>4 DEF LockInv, OneSubmission, Submitting, SlotShape
  <2> QED
    BY <2>5, <2>6 DEF LockInv
<1>3. CASE AuxAnswer(s)
  <2>1. CASE Move(s, "auxRefresh") /\ UNCHANGED <<lock, proof>>
    BY <1>3, <2>1 DEF AuxAnswer, Move, SlotShape, LockInv, LockHeld, OneSubmission, Submitting
  <2>2. CASE Release(s)
    BY <1>3, <2>2, ReleaseKeepsLocks DEF AuxAnswer, Submitting
  <2> QED
    BY <1>3, <2>1, <2>2 DEF AuxAnswer
<1>4. CASE AuxRefreshed(s)
  BY <1>4, ReleaseKeepsLocks DEF AuxRefreshed, Submitting
<1>5. CASE AuxDone(s)
  BY <1>5 DEF AuxDone, Done, Move, SlotShape, LockInv, LockHeld, OneSubmission, Submitting
<1> QED
  BY <1>1, <1>2, <1>3, <1>4, <1>5 DEF CheckAux

\* As long as no lock expires, every step keeps the locks and their holders.
LEMMA LockStep ==
  ("expire" \notin Faults) /\ SlotShape /\ LockInv /\ [MiningNext]_miningVars => LockInv'
<1> SUFFICES ASSUME "expire" \notin Faults, SlotShape, LockInv, [MiningNext]_miningVars
             PROVE  LockInv'
  OBVIOUS
<1>0. CASE MiningRestart
  BY <1>0 DEF MiningRestart, ShareRestart, LockInv, LockHeld, OneSubmission, Submitting
<1>1. CASE UNCHANGED <<spc, lock, proof>>
  BY <1>1 DEF LockInv, LockHeld, OneSubmission
<1>2. ASSUME NEW s \in Slots, ProcessShare(s), UNCHANGED <<lock, proof>> PROVE LockInv'
  <2>1. \A t \in Slots : spc'[t] \in Submitting => spc[t] = spc'[t]
    BY <1>2, ProcessShareSubmitsNothing
  <2> QED
    BY <1>2, <2>1 DEF LockInv, LockHeld, OneSubmission, Submitting
<1>3. ASSUME NEW s \in Slots, CheckAux(s) PROVE LockInv'
  BY <1>3, CheckAuxKeepsLocks
<1>4. CASE JobStep /\ UNCHANGED <<shareVars, lock, proof>>
  BY <1>1, <1>4 DEF shareVars, slotVars
<1>5. ASSUME NEW k \in seen, KeyExpires(k), UNCHANGED <<lock, proof>> PROVE LockInv'
  BY <1>1, <1>5 DEF KeyExpires, slotVars
<1>6. ASSUME NEW a \in Aux, LockExpires(a) PROVE LockInv'
  BY <1>6 DEF LockExpires
<1>7. CASE UNCHANGED miningVars
  BY <1>1, <1>7 DEF miningVars, shareVars, slotVars
<1> QED
  BY <1>0, <1>2, <1>3, <1>4, <1>5, <1>6, <1>7 DEF MiningNext

\* Never two submissions to an aux chain at a time, as long as no lock reaches its
\* five seconds while its holder waits for the daemon.
THEOREM SingleSubmission ==
  ASSUME "expire" \notin Faults
  PROVE  MiningSpec => []OneSubmission
<1>1. MiningInit => SlotShape /\ LockInv
  BY ShapeInit, LockInit
<1>2. SlotShape /\ LockInv /\ [MiningNext]_miningVars => (SlotShape /\ LockInv)'
  BY ShapeStep, LockStep
<1>3. LockInv => OneSubmission
  BY DEF LockInv
<1> QED
  BY <1>1, <1>2, <1>3, PTL DEF MiningSpec
----------------------------------------------------------------------------
(* The types with their bounds *)

\* The bound of the exploration leaves room for the answers on their way, and an
\* answer is a height.
FetchBounds ==
    /\ made + Cardinality(Waiting) <= MaxMade
    /\ \A u \in Updaters : upd[u] = "answered" => got[u] \in 1 .. MaxTip

\* A slot has attempts left, and its job was made.
SlotBounds ==
    \A s \in Slots : tries[s] < MaxRetries /\ (spc[s] # "idle" => JobOf(s) \in 1 .. made)

\* The part of the types that is the template manager, jobs's.
ManagerTyped ==
    /\ upd \in [Updaters -> {"idle", "asked", "answered"}]
    /\ got \in [Updaters -> 0 .. MaxTip]
    /\ made \in Jobs /\ jobId \in Jobs
    /\ currentTemplate \in 0 .. MaxTip
    /\ stored \in [Jobs -> Job]
    /\ validJobs \in Seq(Jobs) /\ Len(validJobs) <= MaxJobs
    /\ FetchBounds

\* The part that is the daemons', the engine's and the triggers', and the clients'.
ChainsTyped ==
    /\ tip \in 1 .. MaxTip
    /\ auxTip \in [Aux -> 1 .. MaxAux]
    /\ auxBlocks \in [Aux -> 0 .. MaxAux]
    /\ auxTimer \in BOOLEAN
    /\ lastHeight \in 0 .. MaxTip /\ lastBest \in 0 .. MaxTip
ClientsTyped == authorized \subseteq Clients /\ work \in [Clients -> Jobs]

\* The value for no job is one.
LEMMA NoJobTyped == NoJob \in Job
  BY JobAssumption DEF NoJob, Job, Jobs

\* Counting the waiting calls.
LEMMA WaitingCounts == IsFiniteSet(Waiting) /\ Cardinality(Waiting) \in Nat
<1>1. Waiting \subseteq Updaters
  BY DEF Waiting
<1> QED
  BY <1>1, JobAssumption, FS_Subset, FS_CardinalityType

LEMMA ManagerOf ==
  ASSUME JobTypeOK, FetchBounds
  PROVE  ManagerTyped /\ IsFiniteSet(Waiting) /\ Cardinality(Waiting) \in Nat
  BY WaitingCounts DEF JobTypeOK, ManagerTyped

\* One more call waits.
LEMMA StartKeepsManager ==
  ASSUME ManagerTyped, StartUpdate, UNCHANGED <<got, jobs>>
  PROVE  ManagerTyped'
<1>1. PICK u \in Updaters \ Waiting : upd' = [upd EXCEPT ![u] = "asked"]
  BY DEF StartUpdate
<1>2. Waiting' = Waiting \cup {u} /\ u \notin Waiting
  BY <1>1 DEF Waiting, ManagerTyped
<1>3. Cardinality(Waiting') = Cardinality(Waiting) + 1
  BY <1>2, WaitingCounts, FS_AddElement
<1>4. made \in Nat /\ MaxMade \in Nat /\ Cardinality(Waiting) \in Nat
  BY WaitingCounts, JobAssumption DEF ManagerTyped
<1>5. made + (Cardinality(Waiting) + 1) <= MaxMade
  BY <1>4 DEF StartUpdate, CanUpdate
<1>6. (made + Cardinality(Waiting) <= MaxMade)'
  BY <1>3, <1>5 DEF jobs
<1>7. \A v \in Updaters : upd'[v] = "answered" => upd[v] = "answered"
  BY <1>1 DEF ManagerTyped
<1> QED
  BY <1>1, <1>6, <1>7 DEF ManagerTyped, FetchBounds, jobs

\* One call less waits.
LEMMA StopCounts ==
  ASSUME ManagerTyped, NEW u \in Updaters, upd[u] # "idle", upd' = [upd EXCEPT ![u] = "idle"]
  PROVE  /\ Cardinality(Waiting') = Cardinality(Waiting) - 1
         /\ Cardinality(Waiting) \in Nat \ {0}
<1>1. Waiting' = Waiting \ {u} /\ u \in Waiting
  BY DEF Waiting, ManagerTyped
<1>2. Waiting # {} /\ IsFiniteSet(Waiting) /\ Cardinality(Waiting) \in Nat
  BY <1>1, WaitingCounts
<1>3. Cardinality(Waiting) # 0
  BY <1>2, FS_EmptySet
<1> QED
  BY <1>1, <1>2, <1>3, FS_RemoveElement

\* The rest of an update: an answer, a failure, a new job.
LEMMA UpdateKeepsManager ==
  ASSUME ManagerTyped, NEW u \in Updaters, Update(u), tip \in 1 .. MaxTip,
         auxBlocks \in [Aux -> 0 .. MaxAux]
  PROVE  ManagerTyped'
<1> USE DEF ManagerTyped, FetchBounds
<1>0. made \in Nat /\ MaxMade \in Nat /\ MaxTip \in Nat /\ MaxJobs \in Nat \ {0}
  BY JobAssumption DEF Jobs
<1>1. CASE DaemonAnswers(u)
  <2>1. Waiting' = Waiting
    BY <1>1 DEF DaemonAnswers, Waiting
  <2> QED
    BY <1>1, <2>1, <1>0 DEF DaemonAnswers, jobs
<1>2. CASE UpdateFails(u)
  <2>1. upd[u] # "idle" /\ upd' = [upd EXCEPT ![u] = "idle"] /\ UNCHANGED <<got, jobs>>
    BY <1>2 DEF UpdateFails
  <2>2. (made + Cardinality(Waiting) <= MaxMade)'
    <3>1. /\ Cardinality(Waiting') = Cardinality(Waiting) - 1
          /\ Cardinality(Waiting) \in Nat \ {0}
      BY <2>1, StopCounts
    <3>2. made + Cardinality(Waiting) <= MaxMade
      OBVIOUS
    <3> QED
      BY <3>1, <3>2, <2>1, <1>0 DEF jobs
  <2> QED
    BY <2>1, <2>2 DEF jobs
<1>3. CASE Install(u)
  <2> DEFINE new == [fetch |-> made', on |-> got[u], aux |-> auxBlocks]
  <2>1. /\ upd[u] # "idle" /\ upd' = [upd EXCEPT ![u] = "idle"]
        /\ got' = [got EXCEPT ![u] = 0]
        /\ made' = made + 1 /\ jobId' = made'
        /\ currentTemplate' = got[u] /\ got[u] \in 1 .. MaxTip
        /\ stored' = stored \/ stored' = [stored EXCEPT ![jobId'] = new]
    BY <1>3 DEF Install
  <2>2. made \in Nat
    BY <1>0
  <2>3. (made + Cardinality(Waiting) <= MaxMade)' /\ made' <= MaxMade
    <3>1. /\ Cardinality(Waiting') = Cardinality(Waiting) - 1
          /\ Cardinality(Waiting) \in Nat \ {0}
      BY <2>1, StopCounts
    <3>2. made + Cardinality(Waiting) <= MaxMade
      OBVIOUS
    <3> QED
      BY <3>1, <3>2, <2>1, <2>2, <1>0
  <2>4. made' \in Jobs /\ jobId' \in Jobs
    BY <2>1, <2>2, <2>3, <1>0 DEF Jobs
  <2>6. stored' \in [Jobs -> Job]
    <3>1. new \in Job
      BY <2>1, <2>4, <1>0 DEF Job
    <3> HIDE DEF new
    <3> QED
      BY <2>1, <2>4, <3>1
  <2>5. validJobs' \in Seq(Jobs) /\ Len(validJobs') <= MaxJobs
    <3>1. CASE validJobs' = validJobs
      BY <3>1
    <3>2. CASE validJobs' = KeepNewJob(Append(validJobs, jobId'))
      <4> DEFINE ids == Append(validJobs, jobId')
      <4>1. ids \in Seq(Jobs) /\ Len(ids) = Len(validJobs) + 1
        BY <2>4
      <4>2. Len(validJobs) \in Nat /\ Len(ids) # 0
        BY <4>1, LenProperties
      <4>3. ids # <<>>
        BY <4>1, <4>2, EmptySeq
      <4>4. Tail(ids) \in Seq(Jobs) /\ Len(Tail(ids)) = Len(ids) - 1
        BY <4>1, <4>3, HeadTailProperties
      <4> QED
        BY <3>2, <4>1, <4>2, <4>4, <1>0 DEF KeepNewJob
    <3> QED
      BY <1>3, <3>1, <3>2 DEF Install
  <2> QED
    BY <2>1, <2>2, <2>3, <2>4, <2>5, <2>6, <1>0
<1> QED
  BY <1>1, <1>2, <1>3 DEF Update

\* The process starts anew.
LEMMA RestartKeepsManager ==
  ASSUME ManagerTyped, Restart
  PROVE  ManagerTyped'
<1>1. Waiting' = {}
  BY DEF Restart, Waiting
<1>2. Cardinality(Waiting') = 0
  BY <1>1, FS_EmptySet
<1>3. made \in Nat /\ MaxMade \in Nat /\ MaxTip \in Nat /\ MaxJobs \in Nat \ {0} /\ Cardinality(Waiting) \in Nat
  BY JobAssumption, WaitingCounts DEF ManagerTyped
<1>4. (made + Cardinality(Waiting) <= MaxMade)'
  BY <1>2, <1>3 DEF Restart, ManagerTyped, FetchBounds
<1> QED
  BY <1>3, <1>4, NoJobTyped DEF Restart, ManagerTyped, FetchBounds, Jobs

\* The environment, the triggers and the clients keep their types.
LEMMA JobStepTypes ==
  ASSUME JobTypeOK, FetchBounds, JobStep
  PROVE  JobTypeOK' /\ FetchBounds'
<1>0. /\ ManagerTyped
      /\ MaxTip \in Nat \ {0} /\ MaxAux \in Nat \ {0}
      /\ tip \in 1 .. MaxTip /\ lastHeight \in 0 .. MaxTip
  BY ManagerOf, JobAssumption DEF JobTypeOK
<1>1. ManagerTyped'
  <2>1. CASE StartUpdate /\ UNCHANGED <<got, jobs>>
    BY <1>0, <2>1, StartKeepsManager
  <2>2. CASE UNCHANGED <<upd, got, jobs>>
    <3>1. Waiting' = Waiting
      BY <2>2 DEF Waiting
    <3> QED
      BY <1>0, <2>2, <3>1 DEF ManagerTyped, FetchBounds, jobs
  <2>3. ASSUME NEW u \in Updaters, Update(u) PROVE ManagerTyped'
    BY <1>0, <2>3, UpdateKeepsManager DEF JobTypeOK
  <2>4. CASE NewTip \/ \E a \in Aux : NewAuxTip(a)
    BY <2>2, <2>4 DEF NewTip, NewAuxTip, manager, jobs
  <2>5. CASE Trigger
    BY <2>1, <2>2, <2>5 DEF Trigger, NotifierPoll, Poll, AuxTimerFires, RefreshAux, manager, jobs
  <2>6. ASSUME NEW c \in Clients, Authorize(c) \/ AuthorizeInVain(c) \/ Disconnect(c)
        PROVE  ManagerTyped'
    BY <2>2, <2>6 DEF Authorize, AuthorizeInVain, Disconnect, manager, jobs
  <2> QED
    BY <2>3, <2>4, <2>5, <2>6 DEF JobStep
<1>2. ChainsTyped'
  <2> USE DEF JobTypeOK, ChainsTyped
  <2>1. CASE NewTip
    BY <2>1, <1>0 DEF NewTip, engine, triggers
  <2>2. ASSUME NEW a \in Aux, NewAuxTip(a) PROVE ChainsTyped'
    BY <2>2, <1>0 DEF NewAuxTip, engine, triggers
  <2>3. CASE NotifierPoll
    BY <2>3, <1>0 DEF NotifierPoll, daemons, engine
  <2>4. CASE Poll
    BY <2>4, <1>0 DEF Poll, daemons, engine
  <2>5. CASE AuxTimerFires
    BY <2>5, <1>0 DEF AuxTimerFires, daemons, triggers
  <2>6. ASSUME NEW a \in Aux, RefreshAux(a) PROVE ChainsTyped'
    BY <2>6, <1>0 DEF RefreshAux, daemons, triggers
  <2>7. ASSUME NEW u \in Updaters, Update(u) PROVE ChainsTyped'
    BY <2>7 DEF Update, DaemonAnswers, UpdateFails, Install, daemons, engine, triggers
  <2>8. ASSUME NEW c \in Clients, Authorize(c) \/ AuthorizeInVain(c) \/ Disconnect(c)
        PROVE  ChainsTyped'
    BY <2>8 DEF Authorize, AuthorizeInVain, Disconnect, daemons, engine, triggers
  <2> QED
    BY <2>1, <2>2, <2>3, <2>4, <2>5, <2>6, <2>7, <2>8 DEF JobStep, Trigger
<1>3. ClientsTyped'
  <2> USE DEF JobTypeOK, ClientsTyped
  <2>1. CASE UNCHANGED clients
    BY <2>1 DEF clients
  <2>2. ASSUME NEW u \in Updaters, Update(u) PROVE ClientsTyped'
    <3>1. CASE Install(u)
      <4>1. jobId' \in Jobs /\ UNCHANGED authorized
        BY <1>1, <3>1 DEF ManagerTyped, Install
      <4>2. work' = work \/ work' = [c \in Clients |-> IF c \in authorized THEN jobId' ELSE work[c]]
        BY <3>1 DEF Install
      <4> QED
        BY <4>1, <4>2
    <3> QED
      BY <2>1, <2>2, <3>1 DEF Update, DaemonAnswers, UpdateFails
  <2>3. ASSUME NEW c \in Clients, Authorize(c) \/ AuthorizeInVain(c) \/ Disconnect(c)
        PROVE  ClientsTyped'
    <3>1. 0 \in Jobs
      BY JobAssumption DEF Jobs
    <3> QED
      BY <2>3, <3>1 DEF Authorize, AuthorizeInVain, Disconnect
  <2>4. CASE NewTip \/ (\E a \in Aux : NewAuxTip(a)) \/ Trigger
    BY <2>1, <2>4 DEF NewTip, NewAuxTip, Trigger, NotifierPoll, Poll, AuxTimerFires, RefreshAux
  <2> QED
    BY <2>2, <2>3, <2>4 DEF JobStep
<1> QED
  BY <1>1, <1>2, <1>3 DEF JobTypeOK, ManagerTyped, ChainsTyped, ClientsTyped

\* So does a restart.
LEMMA ExitTypes ==
  ASSUME JobTypeOK, FetchBounds, Exit
  PROVE  JobTypeOK' /\ FetchBounds'
<1>1. Restart
  BY DEF Exit, AuthorizeThrows
<1>2. ManagerTyped /\ ManagerTyped'
  BY <1>1, ManagerOf, RestartKeepsManager
<1>3. ChainsTyped' /\ ClientsTyped'
  <2>1. auxBlocks' \in [Aux -> 0 .. MaxAux]
    <3>1. PICK up \in SUBSET Aux : auxBlocks' = [a \in Aux |-> IF a \in up THEN auxTip[a] ELSE 0]
      BY <1>1 DEF Restart
    <3>2. \A a \in Aux : auxTip[a] \in 0 .. MaxAux
      BY JobAssumption DEF JobTypeOK
    <3> QED
      BY <3>1, <3>2, JobAssumption
  <2>2. 0 \in Jobs /\ 0 \in 0 .. MaxTip
    BY JobAssumption DEF Jobs
  <2> QED
    BY <1>1, <2>1, <2>2 DEF Restart, JobTypeOK, ChainsTyped, ClientsTyped, daemons
<1> QED
  BY <1>2, <1>3 DEF JobTypeOK, ManagerTyped, ChainsTyped, ClientsTyped

\* What the share processor changes of the jobs' state: the chain grows by a found
\* block, and an update may begin.
LEMMA ProcessShareJobTypes ==
  ASSUME JobTypeOK, FetchBounds, NEW s \in Slots, ProcessShare(s)
  PROVE  JobTypeOK' /\ FetchBounds'
<1>1. CASE UNCHANGED jobVars
  <2>1. Waiting' = Waiting
    BY <1>1 DEF jobVars, manager, jobs, Waiting
  <2> QED
    BY <1>1, <2>1 DEF jobVars, daemons, engine, triggers, manager, jobs, clients, JobTypeOK, FetchBounds
<1>2. CASE SubmitBlock(s)
  <2>1. UNCHANGED <<auxTip, engine, triggers, manager, clients>> /\ (tip' = tip \/ (tip < MaxTip /\ tip' = tip + 1))
    BY <1>2 DEF SubmitBlock, NullAnswer, Accepted, Refused, Extends
  <2>2. Waiting' = Waiting
    BY <2>1 DEF manager, jobs, Waiting
  <2>3. tip' \in 1 .. MaxTip
    BY <2>1, JobAssumption DEF JobTypeOK
  <2> QED
    BY <2>1, <2>2, <2>3 DEF engine, triggers, manager, jobs, clients, JobTypeOK, FetchBounds
<1>3. CASE RecordBlock(s)
  <2>1. /\ UNCHANGED <<daemons, engine, triggers, got, jobs, clients>>
        /\ StartUpdate \/ UNCHANGED upd
    BY <1>3 DEF RecordBlock
  <2>2. CASE UNCHANGED upd
    BY <1>1, <2>1, <2>2 DEF jobVars, manager, jobs
  <2>3. CASE StartUpdate
    <3>1. ManagerTyped'
      BY <2>1, <2>3, ManagerOf, StartKeepsManager
    <3> QED
      BY <2>1, <3>1 DEF daemons, engine, triggers, clients, JobTypeOK, ManagerTyped
  <2> QED
    BY <2>1, <2>2, <2>3
<1> QED
  BY <1>1, <1>2, <1>3 DEF ProcessShare, Submit, CheckJob, CheckDuplicate, Judge, RecordShare

\* The aux daemons' answers.
LEMMA CheckAuxJobTypes ==
  ASSUME JobTypeOK, FetchBounds, NEW s \in Slots, CheckAux(s), proof[s].chain \in Aux
  PROVE  JobTypeOK' /\ FetchBounds'
<1>1. UNCHANGED <<tip, triggers, manager, clients>>
  BY DEF CheckAux, SkipAux, SubmitAux, AuxAnswer, AuxRefreshed, AuxDone, jobVars, daemons
<1>2. /\ auxTip' \in [Aux -> 1 .. MaxAux]
      /\ auxBlocks' \in [Aux -> 0 .. MaxAux]
      /\ auxTimer' \in BOOLEAN
  <2> USE JobAssumption DEF JobTypeOK
  <2>1. CASE UNCHANGED <<daemons, engine>>
    BY <2>1 DEF daemons, engine
  <2>2. CASE AuxAnswer(s)
    <3>1. \/ UNCHANGED auxTip
          \/ /\ auxTip[proof[s].chain] < MaxAux
             /\ auxTip' = [auxTip EXCEPT ![proof[s].chain] = @ + 1]
      BY <2>2 DEF AuxAnswer
    <3>2. auxTip[proof[s].chain] < MaxAux => auxTip[proof[s].chain] + 1 \in 1 .. MaxAux
      OBVIOUS
    <3>3. auxTip' \in [Aux -> 1 .. MaxAux]
      BY <3>1, <3>2
    <3>4. UNCHANGED engine
      BY <2>2 DEF AuxAnswer
    <3> QED
      BY <3>3, <3>4 DEF engine
  <2>3. CASE AuxRefreshed(s)
    <3>1. UNCHANGED auxTip
      BY <2>3 DEF AuxRefreshed, daemons
    <3>2. \/ UNCHANGED engine
          \/ /\ auxBlocks' = [auxBlocks EXCEPT ![proof[s].chain] = auxTip[proof[s].chain]]
             /\ auxTimer' = TRUE
      BY <2>3 DEF AuxRefreshed
    <3>3. auxTip[proof[s].chain] \in 0 .. MaxAux
      OBVIOUS
    <3> QED
      BY <3>1, <3>2, <3>3 DEF engine
  <2> QED
    BY <2>1, <2>2, <2>3 DEF CheckAux, SkipAux, SubmitAux, AuxDone, jobVars
<1>3. Waiting' = Waiting
  BY <1>1 DEF manager, jobs, Waiting
<1> QED
  BY <1>1, <1>2, <1>3 DEF triggers, manager, jobs, clients, JobTypeOK, FetchBounds
\* The part of the types that is the slots'.
SlotsTyped ==
    /\ spc \in [Slots -> Places]
    /\ share \in [Slots -> Shares]
    /\ tries \in [Slots -> 0 .. MaxRetries]
    /\ parts \in [Slots -> Parts]
    /\ tree \in [Slots -> Trees]
    /\ left \in [Slots -> SUBSET Aux]
    /\ SlotBounds

\* And the rest of the share processor's.
RowsTyped ==
    /\ difficulty \in [Clients -> Diffs]
    /\ sent \in 0 .. MaxShares
    /\ seen \subseteq Keys /\ fallback \subseteq Keys
    /\ shares \in Seq(Shares)
    /\ blocks \subseteq Keys /\ onChain \subseteq Keys
    /\ offered \subseteq Blocks

AuxTyped == lock \in [Aux -> BOOLEAN] /\ proof \in [Slots -> Proofs]

TypeInv == JobTypeOK /\ FetchBounds /\ SlotsTyped /\ RowsTyped /\ AuxTyped

LEMMA TypesOfAll == TypeInv => MiningTypeOK
  BY DEF TypeInv, MiningTypeOK, ShareTypeOK, SlotsTyped, RowsTyped, AuxTyped, Trees, Places

LEMMA IdleShare == Idle \in Shares
<1>1. 0 \in Jobs
  BY JobAssumption DEF Jobs
<1>2. \E k \in Keys : TRUE
  <2>1. PICK c \in Clients, n \in Nonces : TRUE
    BY ShareAssumption
  <2>2. [client |-> c, job |-> 0, nonce |-> n] \in Keys
    BY <1>1 DEF Keys
  <2> QED
    BY <2>2
<1>3. \E d \in Diffs : TRUE
  BY ShareAssumption
<1>4. (CHOOSE k \in Keys : TRUE) \in Keys
  BY <1>2
<1>5. (CHOOSE d \in Diffs : TRUE) \in Diffs
  BY <1>3
<1> QED
  BY <1>4, <1>5 DEF Idle, Shares

LEMMA NoPartsTyped == NoParts \in Parts
  BY NoJobTyped DEF NoParts, Parts

\* A slot that gives up its share, one that goes on, one that reaches the aux chains.
LEMMA DoneTyped ==
  ASSUME SlotsTyped, NEW s \in Slots, Done(s), UNCHANGED <<made, left>>,
         tree' \in [Slots -> Trees]
  PROVE  SlotsTyped'
<1>1. 0 \in 0 .. MaxRetries /\ 0 < MaxRetries
  BY ShareAssumption
<1> QED
  BY <1>1, IdleShare, NoPartsTyped DEF SlotsTyped, SlotBounds, Done, Move, Places, JobOf

LEMMA MoveTyped ==
  ASSUME SlotsTyped, NEW s \in Slots, spc[s] # "idle", NEW l \in Places, Move(s, l),
         UNCHANGED <<made, share, tries>>, parts' \in [Slots -> Parts],
         tree' \in [Slots -> Trees], left' \in [Slots -> SUBSET Aux]
  PROVE  SlotsTyped'
  BY DEF SlotsTyped, SlotBounds, Move, JobOf

LEMMA EmitTyped ==
  ASSUME SlotsTyped, NEW s \in Slots, spc[s] # "idle", auxBlocks \in Trees, EmitShare(s),
         UNCHANGED made, stored \in [Jobs -> Job]
  PROVE  SlotsTyped'
<1>1. CASE Done(s) /\ UNCHANGED proofVars
  BY <1>1, DoneTyped DEF proofVars, SlotsTyped
<1>2. CASE HasJob(JobOf(s))
  <2>1. 0 \in 0 .. MaxRetries /\ 0 < MaxRetries
    BY ShareAssumption
  <2>2. parts' \in [Slots -> Parts]
    <3>1. stored[JobOf(s)] \in Job
      BY DEF SlotsTyped, Shares, Keys, JobOf
    <3> QED
      BY <1>2, <3>1 DEF EmitShare, CoinbaseForJob, SlotsTyped, Parts
  <2> QED
    BY <1>2, <2>1, <2>2 DEF EmitShare, SlotsTyped, SlotBounds, Move, Places, JobOf
<1> QED
  BY <1>1, <1>2 DEF EmitShare

\* processShare keeps the slots.
LEMMA ProcessShareSlots ==
  ASSUME JobTypeOK, SlotsTyped, RowsTyped, NEW s \in Slots, ProcessShare(s)
  PROVE  SlotsTyped'
<1>0. auxBlocks \in Trees /\ UNCHANGED made
  BY DEF JobTypeOK, Trees, ProcessShare, Submit, CheckJob, CheckDuplicate, Judge, RecordShare,
         SubmitBlock, RecordBlock, jobVars, manager, jobs
<1>1. ASSUME UNCHANGED proofVars PROVE tree' \in [Slots -> Trees] /\ left' \in [Slots -> SUBSET Aux]
  BY <1>1 DEF proofVars, SlotsTyped
<1>2. ASSUME Done(s), UNCHANGED proofVars PROVE SlotsTyped'
  BY <1>0, <1>1, <1>2, DoneTyped DEF proofVars
<1>3. ASSUME NEW l \in Places, spc[s] # "idle", Move(s, l), UNCHANGED <<share, tries, proofVars>>,
             parts' \in [Slots -> Parts]
      PROVE  SlotsTyped'
  BY <1>0, <1>1, <1>3, MoveTyped DEF proofVars
<1>4. ASSUME spc[s] # "idle", EmitShare(s) PROVE SlotsTyped'
  BY <1>0, <1>4, EmitTyped DEF JobTypeOK
<1>5. ASSUME NEW c \in Clients, NEW j \in 1 .. made, NEW n \in Nonces, Submit(s, c, j, n)
      PROVE  SlotsTyped'
  <2> DEFINE new == [key |-> [client |-> c, job |-> j, nonce |-> n], diff |-> difficulty[c]]
  <2>1. j \in Jobs
    BY JobAssumption DEF JobTypeOK, Jobs
  <2>2. new \in Shares
    BY <2>1 DEF RowsTyped, Shares, Keys
  <2>3. new.key.job = j
    OBVIOUS
  <2>4. share' = [share EXCEPT ![s] = new] /\ spc' = [spc EXCEPT ![s] = "security"]
        /\ UNCHANGED <<tries, parts, proofVars>>
    BY <1>5 DEF Submit, Move
  <2> HIDE DEF new
  <2> QED
    BY <1>0, <2>2, <2>3, <2>4 DEF SlotsTyped, SlotBounds, Places, JobOf, proofVars
<1>12. parts \in [Slots -> Parts] /\ stored[JobOf(s)] \in Job
  BY DEF JobTypeOK, SlotsTyped, Shares, Keys, JobOf
<1>6. CASE CheckJob(s)
  <2>1. CASE parts' = [parts EXCEPT ![s].template = stored[JobOf(s)]]
    <3>1. parts' \in [Slots -> Parts]
      BY <1>12, <2>1 DEF Parts
    <3> QED
      BY <1>2, <1>3, <1>6, <3>1 DEF CheckJob, Places
  <2> QED
    BY <1>2, <1>6, <2>1 DEF CheckJob
<1>7. CASE CheckDuplicate(s)
  <2>1. CASE parts' = [parts EXCEPT ![s].header = stored[JobOf(s)]]
    <3>1. parts' \in [Slots -> Parts]
      BY <1>12, <2>1 DEF Parts
    <3> QED
      BY <1>2, <1>3, <1>7, <3>1 DEF CheckDuplicate, Places
  <2> QED
    BY <1>2, <1>7, <2>1 DEF CheckDuplicate, BuildsHeader
<1>8. CASE Judge(s)
  BY <1>2, <1>3, <1>8, <1>12 DEF Judge, Places
<1>9. CASE RecordShare(s)
  BY <1>3, <1>4, <1>9, <1>12 DEF RecordShare, Places
<1>10. CASE SubmitBlock(s)
  <2>0. spc[s] = "submit"
    BY <1>10 DEF SubmitBlock
  <2>1. CASE NullAnswer(s) /\ Move(s, "record") /\ UNCHANGED <<share, tries, parts, proofVars>>
    BY <1>3, <1>12, <2>0, <2>1 DEF Places
  <2>2. CASE EmitShare(s)
    BY <1>4, <2>0, <2>2
  <2>3. CASE AttemptFails(s)
    <3>1. CASE tries[s] + 1 # MaxRetries
      <4>1. tries' = [tries EXCEPT ![s] = @ + 1] /\ UNCHANGED <<spc, share, parts, proofVars>>
        BY <2>3, <3>1 DEF AttemptFails
      <4>2. tries[s] + 1 \in 0 .. MaxRetries /\ tries[s] + 1 < MaxRetries
        BY <3>1, ShareAssumption DEF SlotsTyped, SlotBounds
      <4> QED
        BY <1>0, <4>1, <4>2 DEF SlotsTyped, SlotBounds, proofVars, JobOf
    <3> QED
      BY <2>2, <2>3, <3>1 DEF AttemptFails
  <2> QED
    BY <1>10, <2>1, <2>2, <2>3 DEF SubmitBlock
<1>11. CASE RecordBlock(s)
  BY <1>4, <1>11 DEF RecordBlock
<1> QED
  BY <1>5, <1>6, <1>7, <1>8, <1>9, <1>10, <1>11 DEF ProcessShare

\* And the keys, the rows and the blocks.
LEMMA ProcessShareRows ==
  ASSUME JobTypeOK, SlotsTyped, RowsTyped, NEW s \in Slots, ProcessShare(s)
  PROVE  RowsTyped'
<1>0. share[s] \in Shares /\ share[s].key \in Keys /\ JobOf(s) \in Jobs
  BY DEF SlotsTyped, Shares, Keys, JobOf
<1> USE DEF RowsTyped
<1>1. ASSUME NEW c \in Clients, NEW j \in 1 .. made, NEW n \in Nonces, Submit(s, c, j, n)
      PROVE  RowsTyped'
  <2>1. sent' \in 0 .. MaxShares
    BY <1>1, ShareAssumption DEF Submit
  <2> QED
    BY <1>1, <2>1 DEF Submit, dedupVars, chainVars
<1>2. CASE CheckJob(s)
  BY <1>2 DEF CheckJob, dedupVars, chainVars
<1>3. CASE CheckDuplicate(s)
  BY <1>0, <1>3 DEF CheckDuplicate, IsNew, RedisNew, FallbackNew, IsDuplicate, dedupVars, chainVars
<1>4. CASE Judge(s)
  <2>1. difficulty' \in [Clients -> Diffs]
    BY <1>4 DEF Judge
  <2> QED
    BY <1>4, <2>1 DEF Judge, dedupVars, chainVars
<1>5. CASE RecordShare(s)
  <2>1. shares' \in Seq(Shares)
    BY <1>0, <1>5 DEF RecordShare, ShareRow
  <2>2. BlockOf(s) \in Blocks
    BY <1>0 DEF BlockOf, Blocks, CoinbaseForJob, JobTypeOK, SlotsTyped, Parts
  <2>3. offered' \subseteq Blocks
    BY <1>5, <2>2 DEF RecordShare
  <2> QED
    BY <1>5, <2>1, <2>3 DEF RecordShare, dedupVars
<1>6. CASE SubmitBlock(s)
  <2>1. onChain' \subseteq Keys
    BY <1>0, <1>6 DEF SubmitBlock, NullAnswer, Accepted, Refused
  <2> QED
    BY <1>6, <2>1 DEF SubmitBlock, dedupVars
<1>7. CASE RecordBlock(s)
  BY <1>0, <1>7 DEF RecordBlock, BlockRow, dedupVars, chainVars
<1> QED
  BY <1>1, <1>2, <1>3, <1>4, <1>5, <1>6, <1>7 DEF ProcessShare
LEMMA NoProofTyped == NoProof \in Proofs
<1>1. (CHOOSE a \in Aux : TRUE) \in Aux
  BY AuxAssumption
<1>2. [a \in Aux |-> 0] \in Trees /\ 0 \in 0 .. MaxAux
  BY JobAssumption DEF Trees
<1> QED
  BY <1>1, <1>2 DEF NoProof, Proofs

\* The look at the aux chains keeps the slots, the locks and the proofs.
LEMMA CheckAuxTyped ==
  ASSUME JobTypeOK, SlotsTyped, AuxTyped,
         NEW s \in Slots, CheckAux(s)
  PROVE  SlotsTyped' /\ AuxTyped'
<1> USE DEF AuxTyped
<1>0. UNCHANGED made /\ proof[s].chain \in Aux
  BY DEF Proofs, CheckAux, SkipAux, SubmitAux, AuxAnswer, AuxRefreshed, AuxDone, jobVars, manager, jobs
<1>7. parts \in [Slots -> Parts]
  BY DEF SlotsTyped
<1>1. ASSUME Release(s), spc[s] # "idle", UNCHANGED <<share, tries, parts, proofVars>>
      PROVE  SlotsTyped' /\ AuxTyped'
  <2>1. lock' \in [Aux -> BOOLEAN] /\ proof' \in [Slots -> Proofs]
    BY <1>1, <1>0, NoProofTyped DEF Release
  <2>2. Move(s, "aux") /\ "aux" \in Places
    BY <1>1 DEF Release, Places
  <2>3. tree' \in [Slots -> Trees] /\ left' \in [Slots -> SUBSET Aux]
    BY <1>1 DEF proofVars, SlotsTyped
  <2> QED
    BY <1>0, <1>1, <1>7, <2>1, <2>2, <2>3, MoveTyped
<1>2. ASSUME NEW a \in Aux, SkipAux(s, a)
      PROVE  SlotsTyped' /\ UNCHANGED <<lock, proof>>
  BY <1>0, <1>2 DEF SkipAux, Looked, slotVars, SlotsTyped, SlotBounds, JobOf
<1>3. ASSUME NEW a \in Aux, SubmitAux(s, a)
      PROVE  SlotsTyped' /\ AuxTyped'
  <2>2. parts[s].coinbase.aux \in Trees /\ auxBlocks[a] \in 0 .. MaxAux /\ tree[s] \in Trees
    BY <1>7 DEF JobTypeOK, Job, Parts, Trees, SlotsTyped
  <2>3. [chain |-> a, hash |-> auxBlocks[a], tree |-> tree[s], commit |-> parts[s].coinbase.aux] \in Proofs
    BY <2>2 DEF Proofs
  <2>4. proof' \in [Slots -> Proofs] /\ lock' \in [Aux -> BOOLEAN]
    BY <1>3, <2>3 DEF SubmitAux
  <2>5. left' \in [Slots -> SUBSET Aux] /\ tree' \in [Slots -> Trees]
    BY <1>3 DEF SubmitAux, Looked, SlotsTyped
  <2>6. spc[s] # "idle" /\ Move(s, "auxAnswer") /\ "auxAnswer" \in Places
        /\ UNCHANGED <<share, tries, parts>>
    BY <1>3 DEF SubmitAux, Places
  <2> QED
    BY <1>0, <1>7, <2>4, <2>5, <2>6, MoveTyped
<1>4. CASE AuxAnswer(s)
  <2>1. CASE Release(s)
    BY <1>1, <1>4, <2>1 DEF AuxAnswer
  <2>2. CASE Move(s, "auxRefresh") /\ UNCHANGED <<lock, proof>>
    <3>1. tree' \in [Slots -> Trees] /\ left' \in [Slots -> SUBSET Aux]
      BY <1>4 DEF AuxAnswer, proofVars, SlotsTyped
    <3> QED
      BY <1>0, <1>4, <1>7, <2>2, <3>1, MoveTyped DEF AuxAnswer, Places
  <2> QED
    BY <1>4, <2>1, <2>2 DEF AuxAnswer
<1>5. CASE AuxRefreshed(s)
  BY <1>1, <1>5 DEF AuxRefreshed
<1>6. CASE AuxDone(s)
  <2>1. [a \in Aux |-> 0] \in Trees
    BY JobAssumption DEF Trees
  <2>2. tree' \in [Slots -> Trees]
    BY <1>6, <2>1 DEF AuxDone, SlotsTyped
  <2> QED
    BY <1>0, <1>6, <2>2, DoneTyped DEF AuxDone
<1> QED
  BY <1>2, <1>3, <1>4, <1>5, <1>6 DEF CheckAux

LEMMA TypeInit == MiningInit => TypeInv
<1> SUFFICES ASSUME MiningInit PROVE TypeInv
  OBVIOUS
<1>0. /\ 0 \in Jobs /\ 0 \in 0 .. MaxTip /\ 1 \in 1 .. MaxTip /\ 0 \in 0 .. MaxAux /\ 1 \in 1 .. MaxAux
      /\ {0, 1} \subseteq 0 .. MaxAux
  BY JobAssumption DEF Jobs
<1>1. Waiting = {}
  BY DEF MiningInit, JobInit, Waiting
<1>2. Cardinality(Waiting) = 0
  BY <1>1, FS_EmptySet
<1>3. FetchBounds
  BY <1>2, JobAssumption DEF MiningInit, JobInit, FetchBounds
<1>4. JobTypeOK
  <2>1. auxBlocks \in [Aux -> 0 .. MaxAux]
    BY <1>0 DEF MiningInit, JobInit
  <2> QED
    <3>1. validJobs \in Seq(Jobs) /\ Len(validJobs) <= MaxJobs
      BY JobAssumption DEF MiningInit, JobInit
    <3>2. stored \in [Jobs -> Job]
      BY NoJobTyped DEF MiningInit, JobInit
    <3> QED
      BY <1>0, <2>1, <3>1, <3>2 DEF MiningInit, JobInit, JobTypeOK
<1>5. SlotsTyped /\ RowsTyped
  <2>1. 0 \in 0 .. MaxRetries /\ 0 < MaxRetries /\ 0 \in 0 .. MaxShares
    BY ShareAssumption
  <2>2. [a \in Aux |-> 0] \in Trees
    BY <1>0 DEF Trees
  <2> QED
    BY <2>1, <2>2, IdleShare, NoPartsTyped
    DEF MiningInit, ShareInit, SlotsTyped, SlotBounds, RowsTyped, Places
<1>6. AuxTyped
  BY NoProofTyped DEF MiningInit, AuxTyped
<1> QED
  BY <1>3, <1>4, <1>5, <1>6 DEF TypeInv

LEMMA TypeStep == TypeInv /\ [MiningNext]_miningVars => TypeInv'
<1> SUFFICES ASSUME TypeInv, [MiningNext]_miningVars PROVE TypeInv'
  OBVIOUS
<1>0. JobTypeOK /\ FetchBounds /\ SlotsTyped /\ RowsTyped /\ AuxTyped
  BY DEF TypeInv
<1>1. ASSUME UNCHANGED <<lock, proof>> PROVE AuxTyped'
  BY <1>0, <1>1 DEF AuxTyped
<1>2. ASSUME UNCHANGED <<jobVars>> PROVE JobTypeOK' /\ FetchBounds' /\ UNCHANGED made
  <2>1. Waiting' = Waiting
    BY <1>2 DEF jobVars, manager, jobs, Waiting
  <2> QED
    BY <1>0, <1>2, <2>1 DEF jobVars, daemons, engine, triggers, manager, jobs, clients, JobTypeOK, FetchBounds
<1>3. ASSUME UNCHANGED shareVars, \A j \in 1 .. made : j \in 1 .. made'
      PROVE  SlotsTyped' /\ RowsTyped'
  BY <1>0, <1>3 DEF shareVars, slotVars, dedupVars, chainVars, proofVars, SlotsTyped, SlotBounds,
                    RowsTyped, JobOf
<1>4. CASE JobStep /\ UNCHANGED <<shareVars, lock, proof>>
  <2>1. made' = made \/ made' = made + 1
    BY <1>4 DEF JobStep, NewTip, NewAuxTip, Trigger, NotifierPoll, Poll, AuxTimerFires, RefreshAux,
           Update, DaemonAnswers, UpdateFails, Install, Authorize, AuthorizeInVain, Disconnect,
           manager, jobs
  <2>2. made \in Nat
    BY <1>0, JobAssumption DEF JobTypeOK, Jobs
  <2>3. \A j \in 1 .. made : j \in 1 .. made'
    BY <2>1, <2>2
  <2> QED
    BY <1>0, <1>1, <1>3, <1>4, <2>3, JobStepTypes DEF TypeInv
<1>5. CASE MiningRestart
  <2>1. JobTypeOK' /\ FetchBounds'
    BY <1>0, <1>5, ExitTypes DEF MiningRestart
  <2>2. SlotsTyped'
    <3>1. 0 \in 0 .. MaxRetries /\ 0 < MaxRetries
      BY ShareAssumption
    <3>2. [a \in Aux |-> 0] \in Trees
      BY JobAssumption DEF Trees
    <3> QED
      BY <1>5, <3>1, <3>2, IdleShare, NoPartsTyped
      DEF MiningRestart, ShareRestart, SlotsTyped, SlotBounds, Places
  <2>3. RowsTyped'
    BY <1>0, <1>5 DEF MiningRestart, ShareRestart, RowsTyped, chainVars
  <2> QED
    BY <1>0, <1>5, <2>1, <2>2, <2>3, NoProofTyped DEF MiningRestart, AuxTyped, TypeInv
<1>6. ASSUME NEW s \in Slots, ProcessShare(s), UNCHANGED <<lock, proof>> PROVE TypeInv'
  BY <1>0, <1>1, <1>6, ProcessShareJobTypes, ProcessShareSlots, ProcessShareRows DEF TypeInv
<1>7. ASSUME NEW s \in Slots, CheckAux(s) PROVE TypeInv'
  <2>1. proof[s].chain \in Aux
    BY <1>0 DEF AuxTyped, Proofs
  <2>2. RowsTyped'
    BY <1>0, <1>7 DEF CheckAux, SkipAux, SubmitAux, AuxAnswer, AuxRefreshed, AuxDone,
                      RowsTyped, dedupVars, chainVars
  <2> QED
    BY <1>0, <1>7, <2>1, <2>2, CheckAuxJobTypes, CheckAuxTyped DEF TypeInv
<1>8. ASSUME NEW k \in seen, KeyExpires(k), UNCHANGED <<lock, proof>> PROVE TypeInv'
  <2>1. JobTypeOK' /\ FetchBounds' /\ UNCHANGED made
    BY <1>2, <1>8 DEF KeyExpires
  <2>2. SlotsTyped' /\ RowsTyped'
    BY <1>0, <1>8, <2>1 DEF KeyExpires, SlotsTyped, SlotBounds, RowsTyped, slotVars, chainVars,
                            proofVars, JobOf
  <2> QED
    BY <1>1, <1>8, <2>1, <2>2 DEF TypeInv
<1>9. ASSUME NEW a \in Aux, LockExpires(a) PROVE TypeInv'
  <2>1. JobTypeOK' /\ FetchBounds' /\ SlotsTyped' /\ RowsTyped'
    BY <1>2, <1>3, <1>9 DEF LockExpires
  <2>2. AuxTyped'
    BY <1>0, <1>9 DEF LockExpires, AuxTyped
  <2> QED
    BY <2>1, <2>2 DEF TypeInv
<1>10. CASE UNCHANGED miningVars
  BY <1>1, <1>2, <1>3, <1>10 DEF miningVars, TypeInv
<1> QED
  BY <1>4, <1>5, <1>6, <1>7, <1>8, <1>9, <1>10 DEF MiningNext

\* Every variable keeps its type and its bound, whatever fails: no height, count of
\* attempts or job id leaves its range, and a share in a slot names a job that was
\* made.
THEOREM MiningTypes == MiningSpec => []MiningTypeOK
  BY TypesOfAll, TypeInit, TypeStep, PTL DEF MiningSpec
----------------------------------------------------------------------------
(* Blocks and their headers *)

Hashed == {"hash", "row", "submit", "record"}
Emitted == {"aux", "auxAnswer", "auxRefresh"}

\* What a slot has read of its job is what is stored under the job's id, as long as
\* it may still look there; the coinbase it read for the aux chains is the header's.
ReadsStored(s) ==
    /\ spc[s] \in {"dedup", "hash", "row"} => parts[s].template = stored[JobOf(s)]
    /\ spc[s] \in Hashed => parts[s].header = stored[JobOf(s)]
    /\ spc[s] \in Emitted => parts[s].coinbase = parts[s].header
BlocksFit == \A b \in offered : b.coinbase = b.header /\ b.txs = b.header
HeaderInv == BlocksFit /\ \A s \in Slots : ReadsStored(s)

\* A job, once stored, is not written again: ids are not used twice.
LEMMA StoredOnce ==
  ASSUME TypeInv, JobStep
  PROVE  \A j \in 1 .. made : stored'[j] = stored[j]
<1>1. CASE UNCHANGED stored
  BY <1>1
<1>2. ASSUME NEW u \in Updaters, Install(u) PROVE \A j \in 1 .. made : stored'[j] = stored[j]
  <2>1. made \in Nat /\ 1 .. made \subseteq Jobs /\ stored \in [Jobs -> Job]
    BY JobAssumption DEF TypeInv, JobTypeOK, Jobs
  <2> QED
    BY <1>2, <2>1 DEF Install
<1> QED
  BY <1>1, <1>2
  DEF JobStep, NewTip, NewAuxTip, Trigger, NotifierPoll, Poll, AuxTimerFires, RefreshAux, Update,
      DaemonAnswers, UpdateFails, Authorize, AuthorizeInVain, Disconnect, manager, jobs

\* Slots that read nothing, and stay or go where they need not have read more.
LEMMA ReadKept ==
  ASSUME NEW s \in Slots, ReadsStored(s), parts'[s] = parts[s], share'[s] = share[s],
         stored'[JobOf(s)] = stored[JobOf(s)],
         \/ spc'[s] = spc[s]
         \/ spc[s] = "hash" /\ spc'[s] = "row"
         \/ spc[s] \in Hashed /\ spc'[s] \in {"submit", "record"}
         \/ spc[s] \in Emitted /\ spc'[s] \in Emitted
  PROVE  ReadsStored(s)'
  BY DEF ReadsStored, Hashed, Emitted, JobOf

LEMMA IdleReads ==
  ASSUME NEW s \in Slots, spc'[s] \in {"idle", "security"}
  PROVE  ReadsStored(s)'
  BY DEF ReadsStored, Hashed, Emitted

\* Step 9 reads the coinbase where the header was read.
LEMMA EmitReads ==
  ASSUME SlotShape, SlotsTyped, NEW s \in Slots, ReadsStored(s), spc[s] \in Hashed, EmitShare(s)
  PROVE  ReadsStored(s)'
<1>1. CASE Done(s)
  BY <1>1, IdleReads DEF Done, Move, SlotShape
<1>2. CASE Move(s, "aux") /\ parts' = [parts EXCEPT ![s].coinbase = CoinbaseForJob(JobOf(s))]
  <2>1. parts'[s].coinbase = stored[JobOf(s)] /\ parts'[s].header = parts[s].header
    BY <1>2 DEF CoinbaseForJob, SlotsTyped, Parts
  <2>2. spc'[s] = "aux" /\ parts[s].header = stored[JobOf(s)]
    BY <1>2 DEF Move, SlotShape, ReadsStored
  <2> QED
    BY <2>1, <2>2 DEF ReadsStored, Hashed, Emitted
<1> QED
  BY <1>1, <1>2 DEF EmitShare

\* A step of processShare reads for its own slot, where jobs are stored.
LEMMA ProcessShareReads ==
  ASSUME SlotShape, TypeInv, HeaderInv, NEW s \in Slots, ProcessShare(s)
  PROVE  HeaderInv'
<1>0. /\ SlotsTyped /\ ReadsStored(s) /\ UNCHANGED stored
      /\ \A t \in Slots \ {s} : spc'[t] = spc[t] /\ share'[t] = share[t] /\ parts'[t] = parts[t]
  <2>1. SlotsTyped /\ ReadsStored(s)
    BY DEF TypeInv, HeaderInv
  <2> USE DEF SlotsTyped, Move, Done
  <2>2. ASSUME EmitShare(s)
        PROVE  \A t \in Slots \ {s} : spc'[t] = spc[t] /\ share'[t] = share[t] /\ parts'[t] = parts[t]
    BY <2>1, <2>2 DEF EmitShare
  <2>3. \A t \in Slots \ {s} : spc'[t] = spc[t] /\ share'[t] = share[t] /\ parts'[t] = parts[t]
    BY <2>1, <2>2 DEF ProcessShare, Submit, CheckJob, CheckDuplicate, BuildsHeader, Judge, RecordShare,
                      SubmitBlock, AttemptFails, RecordBlock
  <2>4. UNCHANGED stored
    BY DEF ProcessShare, Submit, CheckJob, CheckDuplicate, Judge, RecordShare, SubmitBlock,
           RecordBlock, jobVars, manager, jobs
  <2> QED
    BY <2>1, <2>3, <2>4
<1>1. \A t \in Slots \ {s} : ReadsStored(t)'
  BY <1>0, ReadKept DEF HeaderInv
<1>2. ASSUME Done(s) PROVE ReadsStored(s)'
  BY <1>2, IdleReads DEF Done, Move, SlotShape
<1>3. ASSUME NEW l \in Places, Move(s, l), UNCHANGED <<share, parts>>,
             \/ spc[s] = "hash" /\ l = "row"
             \/ spc[s] \in Hashed /\ l \in {"submit", "record"}
      PROVE  ReadsStored(s)'
  <2>1. spc'[s] = l
    BY <1>3 DEF Move, SlotShape
  <2> QED
    BY <1>0, <1>3, <2>1, ReadKept
<1>4. ASSUME spc[s] \in Hashed, EmitShare(s) PROVE ReadsStored(s)'
  BY <1>0, <1>4, EmitReads
<1>5. ASSUME UNCHANGED <<spc, share, parts>> PROVE ReadsStored(s)'
  BY <1>0, <1>5, ReadKept
<1>6. ASSUME UNCHANGED offered, ReadsStored(s)' PROVE HeaderInv'
  BY <1>1, <1>6 DEF HeaderInv, BlocksFit
<1>7. ASSUME NEW c \in Clients, NEW j \in 1 .. made, NEW n \in Nonces, Submit(s, c, j, n)
      PROVE  HeaderInv'
  <2>1. ReadsStored(s)'
    BY <1>7, IdleReads DEF Submit, Move, SlotShape
  <2> QED
    BY <1>6, <1>7, <2>1 DEF Submit, chainVars
<1>8. CASE CheckJob(s)
  <2>1. ASSUME Move(s, "dedup"), UNCHANGED share, parts' = [parts EXCEPT ![s].template = stored[JobOf(s)]]
        PROVE  ReadsStored(s)'
    <3>1. spc'[s] = "dedup" /\ parts'[s].template = stored[JobOf(s)]
      BY <1>0, <2>1 DEF Move, SlotsTyped, Parts
    <3> QED
      BY <1>0, <2>1, <3>1 DEF ReadsStored, Hashed, Emitted, JobOf
  <2> QED
    BY <1>2, <1>6, <1>8, <2>1 DEF CheckJob, chainVars
<1>9. CASE CheckDuplicate(s)
  <2>1. ASSUME spc[s] = "dedup", BuildsHeader(s), Move(s, "hash"), UNCHANGED share PROVE ReadsStored(s)'
    <3>1. /\ spc'[s] = "hash" /\ parts'[s].header = stored[JobOf(s)]
          /\ parts'[s].template = parts[s].template
      BY <1>0, <2>1 DEF Move, SlotsTyped, Parts, BuildsHeader
    <3> QED
      BY <1>0, <2>1, <3>1 DEF ReadsStored, Hashed, Emitted, JobOf
  <2> QED
    BY <1>2, <1>6, <1>9, <2>1 DEF CheckDuplicate, chainVars
<1>10. CASE Judge(s)
  BY <1>2, <1>3, <1>6, <1>10 DEF Judge, Places, chainVars
<1>11. CASE RecordShare(s)
  <2>0. spc[s] = "row"
    BY <1>11 DEF RecordShare
  <2>1. ReadsStored(s)'
    BY <1>3, <1>4, <1>11, <2>0 DEF RecordShare, Hashed, Places
  <2>2. BlockOf(s).coinbase = BlockOf(s).header /\ BlockOf(s).txs = BlockOf(s).header
    BY <1>0, <2>0 DEF BlockOf, CoinbaseForJob, ReadsStored, Hashed
  <2>3. offered' \subseteq offered \cup {BlockOf(s)}
    BY <1>11 DEF RecordShare
  <2>4. BlocksFit'
    BY <2>2, <2>3 DEF HeaderInv, BlocksFit
  <2> QED
    BY <1>1, <2>1, <2>4 DEF HeaderInv
<1>12. CASE SubmitBlock(s)
  <2>0. spc[s] = "submit" /\ UNCHANGED offered
    BY <1>12 DEF SubmitBlock
  <2> QED
    BY <1>3, <1>4, <1>5, <1>6, <1>12, <2>0 DEF SubmitBlock, AttemptFails, Hashed, Places
<1>13. CASE RecordBlock(s)
  BY <1>4, <1>6, <1>13 DEF RecordBlock, Hashed, chainVars
<1> QED
  BY <1>7, <1>8, <1>9, <1>10, <1>11, <1>12, <1>13 DEF ProcessShare

\* The look at the aux chains reads no job any more.
LEMMA CheckAuxReads ==
  ASSUME SlotShape, HeaderInv, NEW s \in Slots, CheckAux(s)
  PROVE  HeaderInv'
<1>0. UNCHANGED <<stored, offered>> /\ spc[s] \in Emitted
  BY DEF CheckAux, SkipAux, SubmitAux, AuxAnswer, AuxRefreshed, AuxDone, jobVars, manager, jobs,
         chainVars, Emitted
<1>1. ASSUME NEW l \in Emitted, Move(s, l), UNCHANGED <<share, parts>> PROVE HeaderInv'
  <2>1. spc'[s] = l /\ \A t \in Slots \ {s} : spc'[t] = spc[t]
    BY <1>1 DEF Move, SlotShape
  <2> QED
    BY <1>0, <1>1, <2>1, ReadKept DEF HeaderInv, BlocksFit
<1>2. ASSUME NEW a \in Aux, SkipAux(s, a) PROVE HeaderInv'
  BY <1>0, <1>2, ReadKept DEF SkipAux, slotVars, HeaderInv, BlocksFit
<1>3. ASSUME NEW a \in Aux, SubmitAux(s, a) PROVE HeaderInv'
  BY <1>1, <1>3 DEF SubmitAux, Emitted
<1>4. CASE AuxAnswer(s)
  BY <1>1, <1>4 DEF AuxAnswer, Release, Emitted
<1>5. CASE AuxRefreshed(s)
  BY <1>1, <1>5 DEF AuxRefreshed, Release, Emitted
<1>6. CASE AuxDone(s)
  <2>1. spc' = [spc EXCEPT ![s] = "idle"] /\ share' = [share EXCEPT ![s] = Idle]
        /\ parts' = [parts EXCEPT ![s] = NoParts]
    BY <1>6 DEF AuxDone, Done, Move
  <2>2. ReadsStored(s)'
    BY <2>1, IdleReads DEF SlotShape
  <2>3. \A t \in Slots \ {s} : spc'[t] = spc[t] /\ share'[t] = share[t] /\ parts'[t] = parts[t]
    BY <2>1
  <2> QED
    BY <1>0, <2>2, <2>3, ReadKept DEF HeaderInv, BlocksFit
<1> QED
  BY <1>2, <1>3, <1>4, <1>5, <1>6 DEF CheckAux

LEMMA HeaderStep == SlotShape /\ TypeInv /\ HeaderInv /\ [MiningNext]_miningVars => HeaderInv'
<1> SUFFICES ASSUME SlotShape, TypeInv, HeaderInv, [MiningNext]_miningVars PROVE HeaderInv'
  OBVIOUS
<1>1. CASE JobStep /\ UNCHANGED <<shareVars, lock, proof>>
  <2>1. UNCHANGED <<spc, share, parts, offered>>
    BY <1>1 DEF shareVars, slotVars, chainVars
  <2>2. \A s \in Slots : spc[s] # "idle" => stored'[JobOf(s)] = stored[JobOf(s)]
    BY <1>1, StoredOnce DEF TypeInv, SlotsTyped, SlotBounds
  <2>3. ASSUME NEW s \in Slots PROVE ReadsStored(s)'
    <3>1. CASE spc[s] = "idle"
      BY <2>1, <3>1, IdleReads
    <3> QED
      BY <2>1, <2>2, <3>1, ReadKept DEF HeaderInv
  <2> QED
    BY <2>1, <2>3 DEF HeaderInv, BlocksFit
<1>2. CASE MiningRestart
  <2>1. \A s \in Slots : spc'[s] = "idle"
    BY <1>2 DEF MiningRestart, ShareRestart
  <2>2. \A s \in Slots : ReadsStored(s)'
    BY <2>1, IdleReads
  <2> QED
    BY <1>2, <2>2 DEF MiningRestart, ShareRestart, chainVars, HeaderInv, BlocksFit
<1>3. CASE UNCHANGED <<spc, share, parts, offered, stored>>
  BY <1>3, ReadKept DEF HeaderInv, BlocksFit
<1>4. ASSUME NEW k \in seen, KeyExpires(k) PROVE HeaderInv'
  BY <1>3, <1>4 DEF KeyExpires, slotVars, chainVars, jobVars, manager, jobs
<1>5. ASSUME NEW a \in Aux, LockExpires(a) PROVE HeaderInv'
  BY <1>3, <1>5 DEF LockExpires, shareVars, slotVars, chainVars, jobVars, manager, jobs
<1>6. CASE UNCHANGED miningVars
  BY <1>3, <1>6 DEF miningVars, shareVars, slotVars, chainVars, jobVars, manager, jobs
<1> QED
  BY <1>1, <1>2, <1>4, <1>5, <1>6, ProcessShareReads, CheckAuxReads DEF MiningNext

\* Whatever fails, and whatever jobs are installed and evicted while the hash is
\* computed and the row is written: the header, the coinbase and the transactions
\* of a block that goes out, read from the store at three moments, are of one job;
\* so are header and coinbase of the parent block in an aux proof.
THEOREM HeaderMatches == MiningSpec => []BlockMatchesHeader
<1>1. MiningInit => SlotShape /\ TypeInv /\ HeaderInv
  <2>1. MiningInit => HeaderInv
    BY DEF MiningInit, ShareInit, HeaderInv, BlocksFit, ReadsStored, Hashed, Emitted
  <2> QED
    BY <2>1, ShapeInit, TypeInit
<1>2. SlotShape /\ TypeInv /\ HeaderInv /\ [MiningNext]_miningVars
      => (SlotShape /\ TypeInv /\ HeaderInv)'
  BY ShapeStep, TypeStep, HeaderStep
<1>3. HeaderInv => BlockMatchesHeader
  BY DEF HeaderInv, BlocksFit, ReadsStored, Emitted, BlockMatchesHeader
<1> QED
  BY <1>1, <1>2, <1>3, PTL DEF MiningSpec

----------------------------------------------------------------------------
(* Credited once *)

\* Between SET NX and the row.
Taken == {"hash", "row"}

\* The key of a share on its way to its row, and of every row, is in Redis, and no
\* other share on its way and no other row has it.
DedupInv ==
    /\ \A s \in Slots : spc[s] \in Taken => share[s].key \in seen
    /\ \A i \in DOMAIN shares : shares[i].key \in seen
    /\ \A s, t \in Slots : spc[s] \in Taken /\ spc[t] \in Taken /\ share[s].key = share[t].key => s = t
    /\ \A s \in Slots, i \in DOMAIN shares : spc[s] \in Taken => share[s].key # shares[i].key
    /\ CreditedOnce

\* What a step does to them: it leaves them alone, takes a fresh key, or writes a row.
NoneTaken ==
    /\ UNCHANGED <<seen, shares>>
    /\ \A s \in Slots : spc'[s] \in Taken => spc[s] \in Taken /\ share'[s] = share[s]
TakesKey(s) ==
    /\ share[s].key \notin seen /\ seen' = seen \cup {share[s].key} /\ UNCHANGED shares
    /\ \A t \in Slots : spc'[t] \in Taken => share'[t] = share[t] /\ (t = s \/ spc[t] \in Taken)
WritesRow(s) ==
    /\ spc[s] = "row" /\ spc'[s] \notin Taken
    /\ shares' \in {shares, Append(shares, share[s])} /\ UNCHANGED seen
    /\ \A t \in Slots : spc'[t] \in Taken => spc[t] \in Taken /\ share'[t] = share[t]

LEMMA DedupInit == MiningInit => DedupInv
  BY DEF MiningInit, ShareInit, DedupInv, CreditedOnce, Taken

\* Slots that go on outside SET NX.
LEMMA GoesTakesNone ==
  ASSUME SlotShape, NEW s \in Slots, Goes(s, Places \ Taken)
  PROVE  /\ spc'[s] \notin Taken
         /\ \A t \in Slots : spc'[t] \in Taken => spc[t] \in Taken /\ share'[t] = share[t]
  BY GoesKeepsShape DEF KeepsShape, Places, Taken

\* As long as Redis answers, only CheckDuplicate takes a key.
LEMMA ProcessShareDedup ==
  ASSUME "redis" \notin Faults, SlotShape, NEW s \in Slots, ProcessShare(s)
  PROVE  NoneTaken \/ TakesKey(s) \/ WritesRow(s)
<1>1. ASSUME UNCHANGED <<seen, shares>>, Goes(s, Places \ Taken) PROVE NoneTaken
  BY <1>1, GoesTakesNone DEF NoneTaken
<1>2. ASSUME NEW c \in Clients, NEW j \in 1 .. made, NEW n \in Nonces, Submit(s, c, j, n)
      PROVE  NoneTaken
  BY <1>2 DEF Submit, Move, SlotShape, NoneTaken, Taken, dedupVars
<1>3. CASE CheckJob(s)
  <2>1. Goes(s, Places \ Taken)
    BY <1>3 DEF CheckJob, Goes, Places, Taken
  <2> QED
    BY <1>1, <1>3, <2>1 DEF CheckJob, dedupVars
<1>4. CASE CheckDuplicate(s)
  <2>1. CASE IsDuplicate(share[s].key) /\ Done(s)
    <3>1. Goes(s, Places \ Taken)
      BY <1>4, <2>1 DEF CheckDuplicate, Goes
    <3> QED
      BY <1>1, <1>4, <2>1, <3>1 DEF CheckDuplicate, IsDuplicate, dedupVars
  <2>2. CASE RedisNew(share[s].key)
    <3>1. Goes(s, {"hash"})
      BY <1>4, <2>2 DEF CheckDuplicate, Goes
    <3>2. \A t \in Slots : spc'[t] \in Taken => share'[t] = share[t] /\ (t = s \/ spc[t] \in Taken)
      BY <3>1, GoesKeepsShape DEF KeepsShape, Places, Taken
    <3> QED
      BY <1>4, <2>2, <3>2 DEF CheckDuplicate, RedisNew, TakesKey
  <2> QED
    BY <1>4, <2>1, <2>2 DEF CheckDuplicate, IsNew, FallbackNew
<1>5. CASE Judge(s)
  <2>1. spc[s] \in Taken /\ Goes(s, {"row"}) /\ UNCHANGED <<seen, shares>>
    BY <1>5 DEF Judge, Goes, Taken, dedupVars
  <2> QED
    BY <2>1, GoesKeepsShape DEF KeepsShape, Places, NoneTaken, Taken
<1>6. CASE RecordShare(s)
  <2>1. Goes(s, Places \ Taken)
    BY <1>6, EmitShareGoes DEF RecordShare, Goes, Places, Taken
  <2> QED
    BY <1>6, <2>1, GoesTakesNone DEF RecordShare, ShareRow, WritesRow, dedupVars
<1>7. CASE SubmitBlock(s)
  <2>1. spc[s] = "submit" /\ UNCHANGED <<seen, shares>>
    BY <1>7 DEF SubmitBlock, dedupVars
  <2>2. CASE UNCHANGED <<spc, share>>
    BY <2>1, <2>2 DEF NoneTaken
  <2>3. CASE Move(s, "record") /\ UNCHANGED share
    BY <1>1, <2>1, <2>3 DEF Goes, Places, Taken
  <2>4. CASE EmitShare(s)
    BY <1>1, <2>1, <2>4, EmitShareGoes DEF Goes, Places, Taken
  <2> QED
    BY <1>7, <2>2, <2>3, <2>4 DEF SubmitBlock, AttemptFails
<1>8. CASE RecordBlock(s)
  <2>1. spc[s] = "record" /\ UNCHANGED <<seen, shares>> /\ EmitShare(s)
    BY <1>8 DEF RecordBlock, dedupVars
  <2> QED
    BY <1>1, <2>1, EmitShareGoes DEF Goes, Places, Taken
<1> QED
  BY <1>2, <1>3, <1>4, <1>5, <1>6, <1>7, <1>8 DEF ProcessShare

LEMMA CheckAuxDedup ==
  ASSUME SlotShape, NEW s \in Slots, CheckAux(s)
  PROVE  NoneTaken
<1>1. UNCHANGED <<seen, shares>> /\ spc[s] \notin Taken
  BY DEF CheckAux, SkipAux, SubmitAux, AuxAnswer, AuxRefreshed, AuxDone, dedupVars, Taken
<1>2. ASSUME NEW l \in Places \ Taken, Move(s, l), UNCHANGED share PROVE NoneTaken
  BY <1>1, <1>2 DEF Move, SlotShape, NoneTaken
<1>3. ASSUME NEW a \in Aux, SkipAux(s, a) PROVE NoneTaken
  BY <1>1, <1>3 DEF SkipAux, slotVars, NoneTaken
<1>4. ASSUME NEW a \in Aux, SubmitAux(s, a) PROVE NoneTaken
  BY <1>2, <1>4 DEF SubmitAux, Places, Taken
<1>5. CASE AuxAnswer(s)
  BY <1>2, <1>5 DEF AuxAnswer, Release, Places, Taken
<1>6. CASE AuxRefreshed(s)
  BY <1>2, <1>6 DEF AuxRefreshed, Release, Places, Taken
<1>7. CASE AuxDone(s)
  <2>1. \A t \in Slots : spc'[t] \in Taken => spc[t] \in Taken /\ share'[t] = share[t]
    BY <1>7 DEF AuxDone, Done, Move, SlotShape, Taken
  <2> QED
    BY <1>1, <2>1 DEF NoneTaken
<1> QED
  BY <1>3, <1>4, <1>5, <1>6, <1>7 DEF CheckAux

\* While Redis answers and no key expires, keys are never taken twice.
LEMMA DedupStep ==
  ("redis" \notin Faults /\ "expire" \notin Faults) /\ SlotShape /\ DedupInv
     /\ [MiningNext]_miningVars => DedupInv'
<1> SUFFICES ASSUME "redis" \notin Faults, "expire" \notin Faults, SlotShape, DedupInv,
                    [MiningNext]_miningVars
             PROVE  DedupInv'
  OBVIOUS
<1>1. CASE NoneTaken
  BY <1>1 DEF NoneTaken, DedupInv, CreditedOnce
<1>2. ASSUME NEW s \in Slots, TakesKey(s) PROVE DedupInv'
  BY <1>2 DEF TakesKey, DedupInv, CreditedOnce
<1>3. ASSUME NEW s \in Slots, WritesRow(s) PROVE DedupInv'
  <2>1. CASE UNCHANGED shares
    BY <1>3, <2>1 DEF WritesRow, DedupInv, CreditedOnce
  <2>2. CASE shares' = Append(shares, share[s])
    <3>1. /\ spc[s] \in Taken
          /\ \A t \in Slots : spc'[t] \in Taken => t # s /\ spc[t] \in Taken /\ share'[t] = share[t]
      BY <1>3 DEF WritesRow, Taken
    <3>2. share[s] \in Credit /\ shares \in Seq(Credit)
      BY <1>3 DEF WritesRow, SlotShape
    <3>3. \A i \in DOMAIN shares' :
             \/ i \in DOMAIN shares /\ shares'[i] = shares[i]
             \/ i = Len(shares) + 1 /\ i \notin DOMAIN shares /\ shares'[i] = share[s]
      BY <2>2, <3>2
    <3>4. CreditedOnce'
      BY <3>1, <3>3 DEF DedupInv, CreditedOnce
    <3>5. \A i \in DOMAIN shares' : shares'[i].key \in seen'
      BY <1>3, <3>1, <3>3 DEF DedupInv, WritesRow
    <3>6. \A t \in Slots, i \in DOMAIN shares' : spc'[t] \in Taken => share'[t].key # shares'[i].key
      BY <3>1, <3>3 DEF DedupInv
    <3> QED
      BY <1>3, <3>1, <3>4, <3>5, <3>6 DEF DedupInv, WritesRow
  <2> QED
    BY <1>3, <2>1, <2>2 DEF WritesRow
<1>4. CASE MiningRestart
  BY <1>1, <1>4 DEF MiningRestart, ShareRestart, NoneTaken, Taken
<1>5. CASE UNCHANGED shareVars
  BY <1>1, <1>5 DEF shareVars, slotVars, dedupVars, NoneTaken
<1>6. ASSUME NEW s \in Slots, ProcessShare(s) PROVE DedupInv'
  BY <1>1, <1>2, <1>3, <1>6, ProcessShareDedup
<1>7. ASSUME NEW s \in Slots, CheckAux(s) PROVE DedupInv'
  BY <1>1, <1>7, CheckAuxDedup
<1> QED
  BY <1>4, <1>5, <1>6, <1>7 DEF MiningNext, KeyExpires, LockExpires, miningVars

\* A solution is credited once, in whatever order the slots' awaits end, as long as
\* Redis answers and keeps its keys.
THEOREM OneCredit ==
  ASSUME "redis" \notin Faults, "expire" \notin Faults
  PROVE  MiningSpec => []CreditedOnce
<1>1. MiningInit => SlotShape /\ DedupInv
  BY ShapeInit, DedupInit
<1>2. SlotShape /\ DedupInv /\ [MiningNext]_miningVars => (SlotShape /\ DedupInv)'
  BY ShapeStep, DedupStep
<1>3. DedupInv => CreditedOnce
  BY DEF DedupInv
<1> QED
  BY <1>1, <1>2, <1>3, PTL DEF MiningSpec

----------------------------------------------------------------------------
(* Accepted blocks *)

\* The current job can be looked up, and without one there is no block in hand.
JobKept ==
    /\ jobId # 0 => HasJob(jobId)
    /\ jobId = 0 => validJobs = <<>>
    /\ \A s \in Slots : spc[s] \in {"submit", "record"} => jobId # 0

\* A block on the chain that has no row yet is in the hands of the slot that heard
\* the null answer.
WonBlocks == \A k \in onChain \ blocks : \E s \in Slots : spc[s] = "record" /\ share[s].key = k

LEMMA WonInit == MiningInit => JobKept /\ WonBlocks
  BY DEF MiningInit, JobInit, ShareInit, JobKept, WonBlocks

\* A job, once current, stays known: the newest is never the one that is evicted.
LEMMA InstallKeepsJob ==
  ASSUME TypeInv, RewardConfigured = TRUE, NEW u \in Updaters, Install(u)
  PROVE  jobId' # 0 /\ HasJob(jobId)'
<1>1. made \in Nat /\ validJobs \in Seq(Jobs) /\ Len(validJobs) \in Nat /\ Len(validJobs) <= MaxJobs
  BY JobAssumption DEF TypeInv, JobTypeOK, Jobs
<1>2. jobId' # 0
  BY <1>1 DEF Install
<1>3. jobId' \in Jobs
  <2>1. TypeInv => tip \in 1 .. MaxTip /\ auxBlocks \in [Aux -> 0 .. MaxAux]
    BY DEF TypeInv, JobTypeOK
  <2> QED
    BY <2>1, ManagerOf, UpdateKeepsManager DEF TypeInv, Update, ManagerTyped
<1> DEFINE ids == Append(validJobs, jobId')
<1>4. ids \in Seq(Jobs) /\ Len(ids) = Len(validJobs) + 1 /\ ids[Len(ids)] = jobId'
  BY <1>1, <1>3
<1>5. CASE validJobs' = ids
  <2>1. Len(ids) \in DOMAIN validJobs' /\ validJobs'[Len(ids)] = jobId'
    BY <1>1, <1>4, <1>5
  <2> QED
    BY <1>2, <2>1 DEF HasJob
<1>6. CASE validJobs' = Tail(ids) /\ Len(ids) > MaxJobs
  <2>1. Len(validJobs) \in Nat \ {0} /\ Len(ids) # 0
    BY <1>1, <1>4, <1>6, JobAssumption
  <2>2. ids # <<>>
    BY <1>4, <2>1, EmptySeq
  <2>3. Tail(ids) \in Seq(Jobs) /\ Len(Tail(ids)) = Len(validJobs)
        /\ \A i \in 1 .. Len(Tail(ids)) : Tail(ids)[i] = ids[i + 1]
    BY <1>4, <2>2, HeadTailProperties
  <2> HIDE DEF ids
  <2>4. Len(validJobs) \in DOMAIN validJobs' /\ validJobs'[Len(validJobs)] = jobId'
    BY <1>4, <1>6, <2>1, <2>3
  <2> QED
    BY <1>2, <2>4 DEF HasJob
<1> QED
  BY <1>5, <1>6 DEF Install, KeepNewJob
\* As long as no answer is lost, no INSERT fails and the process runs, a slot takes
\* a block on the chain to its row.
LEMMA WonStep ==
  (RewardConfigured = TRUE /\ "lost" \notin Faults /\ "db" \notin Faults /\ "crash" \notin Faults)
     /\ SlotShape /\ TypeInv /\ JobKept /\ WonBlocks /\ [MiningNext]_miningVars
  => JobKept' /\ WonBlocks'
<1> SUFFICES ASSUME RewardConfigured = TRUE, "lost" \notin Faults, "db" \notin Faults,
                    "crash" \notin Faults,
                    SlotShape, TypeInv, JobKept, WonBlocks, [MiningNext]_miningVars
             PROVE  JobKept' /\ WonBlocks'
  OBVIOUS
<1>1. ASSUME UNCHANGED <<jobId, validJobs>>,
             \A s \in Slots : spc'[s] \in {"submit", "record"} => jobId # 0
      PROVE  JobKept'
  BY <1>1 DEF JobKept, HasJob
<1>2. ASSUME UNCHANGED <<onChain, blocks>>,
             \A s \in Slots : spc[s] = "record" => spc'[s] = "record" /\ share'[s] = share[s]
      PROVE  WonBlocks'
  BY <1>2 DEF WonBlocks
<1>3. ASSUME UNCHANGED <<jobId, validJobs>>,
             \A s \in Slots : spc'[s] \in {"submit", "record"} => spc[s] \in {"submit", "record"}
      PROVE  JobKept'
  BY <1>1, <1>3 DEF JobKept
<1>4. CASE JobStep /\ UNCHANGED <<shareVars, lock, proof>>
  <2>1. UNCHANGED <<spc, share, onChain, blocks>>
    BY <1>4 DEF shareVars, slotVars, chainVars
  <2>2. WonBlocks'
    BY <1>2, <2>1
  <2>3. CASE UNCHANGED <<jobId, validJobs>>
    BY <1>3, <2>1, <2>2, <2>3
  <2>4. ASSUME NEW u \in Updaters, Install(u) PROVE JobKept'
    BY <2>1, <2>4, InstallKeepsJob DEF JobKept
  <2> QED
    BY <1>4, <2>2, <2>3, <2>4
    DEF JobStep, NewTip, NewAuxTip, Trigger, NotifierPoll, Poll, AuxTimerFires, RefreshAux, Update,
        DaemonAnswers, UpdateFails, Authorize, AuthorizeInVain, Disconnect, manager, jobs
<1>5. CASE MiningRestart
  <2>1. PICK c \in Clients : AuthorizeThrows(c)
    BY <1>5 DEF MiningRestart, Exit
  <2>2. jobId = 0
    BY <2>1 DEF AuthorizeThrows, NoJobToSend, JobKept
  <2>3. \A s \in Slots : spc[s] # "record"
    BY <2>2 DEF JobKept
  <2>4. onChain \subseteq blocks
    BY <2>3 DEF WonBlocks
  <2>5. WonBlocks'
    BY <1>5, <2>4 DEF MiningRestart, ShareRestart, chainVars, WonBlocks
  <2>6. JobKept'
    BY <1>5, <2>1 DEF AuthorizeThrows, Restart, MiningRestart, ShareRestart, JobKept
  <2> QED
    BY <2>5, <2>6
<1>6. ASSUME NEW s \in Slots, ProcessShare(s) PROVE JobKept' /\ WonBlocks'
  <2>0. UNCHANGED <<jobId, validJobs>>
    BY <1>6 DEF ProcessShare, Submit, CheckJob, CheckDuplicate, Judge, RecordShare, SubmitBlock,
                RecordBlock, jobVars, manager, jobs
  <2>1. ASSUME Goes(s, Places \ {"submit", "record"}), spc[s] # "record", UNCHANGED <<onChain, blocks>>
        PROVE  JobKept' /\ WonBlocks'
    <3>1. KeepsShape(s, Places \ {"submit", "record"})
      BY <2>1, GoesKeepsShape DEF Places
    <3>2. \A t \in Slots : spc[t] = "record" => spc'[t] = "record" /\ share'[t] = share[t]
      BY <2>1, <3>1 DEF KeepsShape
    <3>3. \A t \in Slots : spc'[t] \in {"submit", "record"} => spc[t] \in {"submit", "record"}
      BY <3>1 DEF KeepsShape
    <3> QED
      BY <1>2, <1>3, <2>0, <2>1, <3>2, <3>3
  <2>2. ASSUME NEW c \in Clients, NEW j \in 1 .. made, NEW n \in Nonces, Submit(s, c, j, n)
        PROVE  JobKept' /\ WonBlocks'
    <3>1. \A t \in Slots : spc[t] = "record" => spc'[t] = "record" /\ share'[t] = share[t]
      BY <2>2 DEF Submit, Move, SlotShape
    <3>2. \A t \in Slots : spc'[t] \in {"submit", "record"} => spc[t] \in {"submit", "record"}
      BY <2>2 DEF Submit, Move, SlotShape
    <3> QED
      BY <1>2, <1>3, <2>0, <2>2, <3>1, <3>2 DEF Submit, chainVars
  <2>3. CASE CheckJob(s)
    BY <2>1, <2>3 DEF CheckJob, Goes, Places, chainVars
  <2>4. CASE CheckDuplicate(s)
    BY <2>1, <2>4 DEF CheckDuplicate, Goes, Places, chainVars
  <2>5. CASE Judge(s)
    BY <2>1, <2>5 DEF Judge, Goes, Places, chainVars
  <2>6. CASE RecordShare(s)
    <3>1. spc[s] = "row" /\ UNCHANGED <<onChain, blocks>>
      BY <2>6 DEF RecordShare
    <3>2. CASE EmitShare(s)
      BY <2>1, <3>1, <3>2, EmitShareGoes DEF Goes, Places
    <3>3. CASE HasJob(JobOf(s)) /\ Move(s, "submit") /\ UNCHANGED share
      <4>1. jobId # 0
        BY <3>3 DEF HasJob, JobKept
      <4>2. \A t \in Slots : spc[t] = "record" => spc'[t] = "record" /\ share'[t] = share[t]
        BY <3>1, <3>3 DEF Move, SlotShape
      <4> QED
        BY <1>1, <1>2, <2>0, <3>1, <4>1, <4>2
    <3> QED
      BY <2>6, <3>2, <3>3 DEF RecordShare
  <2>7. CASE SubmitBlock(s)
    <3>1. spc[s] = "submit" /\ UNCHANGED blocks
      BY <2>7 DEF SubmitBlock
    <3>2. CASE Accepted(s) /\ Move(s, "record") /\ UNCHANGED share
      <4>1. onChain' = onChain \cup {share[s].key} /\ spc'[s] = "record" /\ share' = share
        BY <3>2 DEF Accepted, Move, SlotShape
      <4>2. \A t \in Slots \ {s} : spc'[t] = spc[t]
        BY <3>2 DEF Move, SlotShape
      <4>3. WonBlocks'
        BY <3>1, <4>1, <4>2 DEF WonBlocks
      <4>4. JobKept'
        BY <1>1, <2>0, <3>1, <4>2 DEF JobKept
      <4> QED
        BY <4>3, <4>4
    <3>3. CASE UNCHANGED onChain /\ EmitShare(s)
      BY <2>1, <3>1, <3>3, EmitShareGoes DEF Goes, Places
    <3>4. CASE UNCHANGED onChain /\ UNCHANGED <<spc, share>>
      BY <1>2, <1>3, <2>0, <3>1, <3>4
    <3> QED
      BY <2>7, <3>2, <3>3, <3>4 DEF SubmitBlock, NullAnswer, Refused, AttemptFails
  <2>8. CASE RecordBlock(s)
    <3>1. /\ spc[s] = "record" /\ EmitShare(s)
          /\ blocks' = blocks \cup {share[s].key} /\ UNCHANGED onChain
      BY <2>8 DEF RecordBlock, BlockRow, chainVars
    <3>2. KeepsShape(s, {"aux"})
      BY <3>1, EmitShareGoes, GoesKeepsShape DEF Places
    <3>3. WonBlocks'
      BY <3>1, <3>2 DEF WonBlocks, KeepsShape
    <3>4. \A t \in Slots : spc'[t] \in {"submit", "record"} => spc[t] \in {"submit", "record"}
      BY <3>1, <3>2 DEF KeepsShape
    <3> QED
      BY <1>3, <2>0, <3>3, <3>4
  <2> QED
    BY <1>6, <2>2, <2>3, <2>4, <2>5, <2>6, <2>7, <2>8 DEF ProcessShare
<1>7. ASSUME NEW s \in Slots, CheckAux(s) PROVE JobKept' /\ WonBlocks'
  <2>1. UNCHANGED <<jobId, validJobs, onChain, blocks>> /\ spc[s] \notin {"submit", "record"}
    BY <1>7 DEF CheckAux, SkipAux, SubmitAux, AuxAnswer, AuxRefreshed, AuxDone, jobVars, manager, jobs, chainVars
  <2>2. ASSUME NEW l \in Places \ {"submit", "record"}, Move(s, l),
               \A t \in Slots \ {s} : share'[t] = share[t]
        PROVE  JobKept' /\ WonBlocks'
    <3>1. \A t \in Slots : spc[t] = "record" => spc'[t] = "record" /\ share'[t] = share[t]
      BY <2>1, <2>2 DEF Move, SlotShape
    <3>2. \A t \in Slots : spc'[t] \in {"submit", "record"} => spc[t] \in {"submit", "record"}
      BY <2>2 DEF Move, SlotShape
    <3> QED
      BY <1>2, <1>3, <2>1, <3>1, <3>2
  <2>3. ASSUME NEW a \in Aux, SkipAux(s, a) PROVE UNCHANGED <<spc, share>>
    BY <2>3 DEF SkipAux, slotVars
  <2>4. ASSUME NEW a \in Aux, SubmitAux(s, a) PROVE JobKept' /\ WonBlocks'
    BY <2>2, <2>4 DEF SubmitAux, Places
  <2>5. CASE AuxAnswer(s) \/ AuxRefreshed(s)
    BY <2>2, <2>5 DEF AuxAnswer, AuxRefreshed, Release, Places
  <2>6. CASE AuxDone(s)
    BY <2>2, <2>6 DEF AuxDone, Done, Places, SlotShape
  <2> QED
    BY <1>2, <1>3, <1>7, <2>1, <2>3, <2>4, <2>5, <2>6 DEF CheckAux
<1>8. CASE UNCHANGED <<jobId, validJobs, spc, share, onChain, blocks>>
  BY <1>2, <1>3, <1>8
<1> QED
  BY <1>4, <1>5, <1>6, <1>7, <1>8
  DEF MiningNext, KeyExpires, LockExpires, miningVars, jobVars, manager, jobs, shareVars, slotVars, chainVars

\* What litecoind has accepted gets its row, or is on its way to it: an accepted
\* block is never forgotten, neither by a retry nor by an exit of the process for
\* want of a job, as long as no answer is lost, no INSERT fails, and the process
\* is not stopped.
THEOREM AcceptedRecorded ==
  ASSUME RewardConfigured = TRUE, "lost" \notin Faults, "db" \notin Faults, "crash" \notin Faults
  PROVE  MiningSpec => []AcceptedIsRecorded
<1> DEFINE Inv == SlotShape /\ TypeInv /\ JobKept /\ WonBlocks
<1>1. MiningInit => Inv
  BY ShapeInit, TypeInit, WonInit
<1>2. Inv /\ [MiningNext]_miningVars => Inv'
  BY ShapeStep, TypeStep, WonStep
<1>3. Inv => AcceptedIsRecorded
  BY DEF WonBlocks, AcceptedIsRecorded
<1> QED
  BY <1>1, <1>2, <1>3, PTL DEF MiningSpec
=============================================================================
