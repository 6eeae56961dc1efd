---------------------------- MODULE PaymentProofs ----------------------------
(***************************************************************************)
(* Proofs about PaymentProcessor, in five parts: the types; the fee ledger *)
(* and the miners' totals; that no address is paid twice and nothing is    *)
(* forgotten (RecoveryInv of PaymentInvariant); and that the engine        *)
(* implements Settlement.                                                  *)
(***************************************************************************)
EXTENDS PaymentInvariant, PayoutPipeline, FiniteSetTheorems, TLAPS

----------------------------------------------------------------------------
(* Types *)

LEMMA NoBlockType == NoBlock \in Blocks
BY PaymentAssumption DEF NoBlock

\* An UPDATE over a height keeps the table a table.
LEMMA RestatusType ==
    ASSUME TypeOK, NEW b, NEW s, NEW t \in Statuses
    PROVE  Restatus(b, s, t) \in [Keys -> Statuses]
BY DEF TypeOK, Restatus

LEMMA RowOfType ==
    ASSUME TypeOK, NEW c \in Cycles, NEW a \in Addrs, NEW kind \in {"batch", "catch"}
    PROVE  RowOf(c, a, kind) \in Keys
BY DEF TypeOK, RowOf, Keys

\* A sendmany that the daemon executes extends the wallet by one transaction.
LEMMA AcceptedType ==
    ASSUME TypeOK, NEW b \in Blocks, NEW S \in SUBSET Addrs,
           Accepted(b, S) \/ Refused \/ TimedOut(b, S)
    PROVE  wallet' \in Seq(Txs) /\ inflight' \subseteq Txs
<1> DEFINE tx == [blk |-> b, addrs |-> S]
<1>1. tx \in Txs
  BY DEF Txs
<1>2. wallet \in Seq(Txs) /\ inflight \subseteq Txs
  BY DEF TypeOK
<1>3. CASE Accepted(b, S)
  BY <1>1, <1>2, <1>3 DEF Accepted
<1>4. CASE Refused
  BY <1>2, <1>4 DEF Refused, money
<1>5. CASE TimedOut(b, S)
  BY <1>1, <1>2, <1>5 DEF TimedOut
<1> QED BY <1>3, <1>4, <1>5

LEMMA OwedType == ASSUME NEW b \in Blocks PROVE Owed(b) \subseteq Addrs /\ Dust(b) \subseteq Addrs
BY DEF Owed, Dust

LEMMA InitType == Init => TypeOK
<1> SUFFICES ASSUME Init PROVE TypeOK
  OBVIOUS
<1>1. NoBlock \in Blocks
  BY NoBlockType
<1>2. wallet \in Seq(Txs) /\ seen \in Nat
  BY DEF Init
<1>3. /\ chain \in [Blocks -> {"ours", "other"}] /\ deep \subseteq Blocks
      /\ confirmed \subseteq Blocks /\ orphaned \subseteq Blocks
      /\ row \in [Keys -> Statuses] /\ ledger \in [Blocks -> SUBSET Addrs]
      /\ credited \subseteq Cycles \X Blocks \X Addrs
      /\ accumulated \subseteq Cycles \X Blocks \X Addrs
      /\ inflight \subseteq Txs /\ groups \subseteq Keys
  BY DEF Init, Statuses
<1>4. /\ boot \in {"down", "query", "list", "match", "running"}
      /\ processing \in BOOLEAN /\ timer \in [Cycles -> BOOLEAN]
      /\ pc \in [Cycles -> Labels] /\ blk \in [Cycles -> Blocks]
  BY <1>1 DEF Init, Labels
<1>5. /\ retry \in [Cycles -> [Blocks -> SUBSET Addrs]]
      /\ todo \in [Cycles -> SUBSET Blocks] /\ payable \in [Cycles -> SUBSET Blocks]
      /\ rest \in [Cycles -> SUBSET Addrs] /\ batch \in [Cycles -> SUBSET Addrs]
      /\ togo \in [Cycles -> SUBSET Addrs]
  BY DEF Init, NoRetry, Nothing
<1> QED BY <1>2, <1>3, <1>4, <1>5 DEF TypeOK

(* One step per action, for any cycle c *)

LEMMA EnvironmentType == ASSUME TypeOK, Environment PROVE TypeOK'
<1> USE DEF TypeOK, steady, chainVars, entries, money, bootVars, flags, plan, work, cycleVars
<1>1. ASSUME NEW b \in Blocks, Mature(b) PROVE TypeOK'
  BY <1>1 DEF Mature
<1>2. ASSUME NEW b \in Blocks, Reorg(b) PROVE TypeOK'
  <2>1. chain' \in [Blocks -> {"ours", "other"}] /\ deep' \subseteq Blocks
    BY <1>2 DEF Reorg
  <2>2. UNCHANGED <<confirmed, orphaned, row, entries, money, bootVars, flags, cycleVars>>
    BY <1>2 DEF Reorg
  <2>3. QED BY <2>1, <2>2
<1>3. ASSUME NEW tx \in inflight, LateSend(tx) PROVE TypeOK'
  BY <1>3 DEF LateSend
<1>4. CASE Crash
  <2>1. NoBlock \in Blocks
    BY NoBlockType
  <2>2. inflight' \subseteq Txs
    BY <1>4 DEF Crash, Awaited, Txs
  <2>3. QED BY <1>4, <2>1, <2>2 DEF Crash, Nothing, NoRetry, Labels
<1>5. ASSUME NEW c \in Cycles, TimerFires(c) PROVE TypeOK'
  BY <1>5 DEF TimerFires, ClearFlag
<1>6. QED BY <1>1, <1>2, <1>3, <1>4, <1>5 DEF Environment

LEMMA BootType == ASSUME TypeOK, Boot PROVE TypeOK'
<1> USE DEF TypeOK, steady, chainVars, entries, money, bootVars, flags, plan, work, cycleVars
<1>1. CASE Start
  BY <1>1 DEF Start
<1>2. CASE SelectPending
  BY <1>2 DEF SelectPending
<1>3. CASE ListTransactions
  BY <1>3 DEF ListTransactions, Statuses
<1>4. ASSUME NEW b \in Blocks, ReconcileGroup(b) PROVE TypeOK'
  BY <1>4 DEF ReconcileGroup, Statuses
<1>5. QED BY <1>1, <1>2, <1>3, <1>4 DEF Boot

LEMMA RetryingType == ASSUME TypeOK, NEW c \in Cycles, Retrying(c) PROVE TypeOK'
<1> USE DEF TypeOK, steady, chainVars, entries, money, bootVars, flags, plan, work, cycleVars,
            Goto, AfterRetry, Labels
<1>1. CASE RetrySelect(c)
  <2>1. CASE Goto(c, "select") /\ UNCHANGED retry
    BY <1>1, <2>1 DEF RetrySelect
  <2>2. ASSUME NEW S \in SUBSET FailedRows,
               LET perBlock == [b \in Blocks |-> {k.addr : k \in {l \in S : l.blk = b}}]
               IN  retry' = [retry EXCEPT ![c] = perBlock] /\ AfterRetry(c, perBlock)
        PROVE  TypeOK'
    <3> DEFINE perBlock == [b \in Blocks |-> {k.addr : k \in {l \in S : l.blk = b}}]
    <3>1. perBlock \in [Blocks -> SUBSET Addrs]
      BY DEF FailedRows, Keys
    <3> HIDE DEF perBlock
    <3>2. retry' = [retry EXCEPT ![c] = perBlock] /\ AfterRetry(c, perBlock)
      BY <2>2 DEF perBlock
    <3>3. UNCHANGED <<steady, row, entries, money, todo, payable, work>>
      BY <1>1 DEF RetrySelect
    <3>4. QED BY <3>1, <3>2, <3>3
  <2>3. QED BY <1>1, <2>1, <2>2 DEF RetrySelect
<1>2. CASE RetryMark(c)
  <2>1. UNCHANGED <<steady, entries, money, todo, payable, rest, togo>>
    BY <1>2 DEF RetryMark
  <2>2. ASSUME NEW b \in Blocks,
               row' = Restatus(b, "failed", "pending"),
               blk' = [blk EXCEPT ![c] = b],
               batch' = [batch EXCEPT ![c] = retry[c][b]],
               retry' = [retry EXCEPT ![c][b] = {}],
               Goto(c, "retrySend")
        PROVE  TypeOK'
    <3>1. row' \in [Keys -> Statuses]
      BY <2>2, RestatusType DEF Statuses
    <3>2. batch' \in [Cycles -> SUBSET Addrs] /\ retry' \in [Cycles -> [Blocks -> SUBSET Addrs]]
      BY <2>2
    <3>3. pc' \in [Cycles -> Labels] /\ blk' \in [Cycles -> Blocks]
      BY <2>2
    <3>4. QED BY <2>1, <3>1, <3>2, <3>3
  <2>3. CASE /\ retry' = [retry EXCEPT ![c] = [h \in Blocks |-> {}]]
             /\ Goto(c, "select")
             /\ UNCHANGED <<row, blk, batch>>
    BY <2>1, <2>3
  <2>4. QED BY <1>2, <2>2, <2>3 DEF RetryMark
<1>3. CASE RetrySend(c)
  BY <1>3, AcceptedType DEF RetrySend, Refused, TimedOut, Accepted
<1>4. CASE RetrySettle(c)
  <2>1. pc' \in [Cycles -> Labels] /\ batch' \in [Cycles -> SUBSET Addrs]
    BY <1>4 DEF RetrySettle
  <2>2. row' \in [Keys -> Statuses]
    BY <1>4, RestatusType DEF RetrySettle, Statuses
  <2>3. UNCHANGED <<steady, entries, money, plan, blk, rest, togo>>
    BY <1>4 DEF RetrySettle
  <2>4. QED BY <2>1, <2>2, <2>3
<1>5. CASE RetryRevert(c)
  <2>1. pc' \in [Cycles -> Labels] /\ batch' \in [Cycles -> SUBSET Addrs]
    BY <1>5 DEF RetryRevert
  <2>2. retry' \in [Cycles -> [Blocks -> SUBSET Addrs]]
    BY <1>5 DEF RetryRevert
  <2>3. row' \in [Keys -> Statuses]
    BY <1>5, RestatusType DEF RetryRevert, Statuses
  <2>4. UNCHANGED <<steady, entries, money, todo, payable, blk, rest, togo>>
    BY <1>5 DEF RetryRevert
  <2>5. QED BY <2>1, <2>2, <2>3, <2>4
<1>6. QED BY <1>1, <1>2, <1>3, <1>4, <1>5 DEF Retrying

LEMMA ConfirmingType == ASSUME TypeOK, NEW c \in Cycles, Confirming(c) PROVE TypeOK'
<1> USE DEF TypeOK, steady, chainVars, entries, money, bootVars, flags, plan, work, cycleVars,
            Goto, AfterVerify, Labels
<1>1. CASE SelectBlocks(c)
  <2>1. pc' \in [Cycles -> Labels]
    BY <1>1 DEF SelectBlocks
  <2>2. todo' \in [Cycles -> SUBSET Blocks]
    BY <1>1 DEF SelectBlocks
  <2>3. UNCHANGED <<steady, row, entries, money, retry, payable, work>>
    BY <1>1 DEF SelectBlocks
  <2>4. QED BY <2>1, <2>2, <2>3
<1>2. CASE VerifyBlock(c)
  <2>1. pc' \in [Cycles -> Labels]
    BY <1>2 DEF VerifyBlock
  <2>2. blk' \in [Cycles -> Blocks] /\ todo' \in [Cycles -> SUBSET Blocks]
    BY <1>2 DEF VerifyBlock
  <2>3. UNCHANGED <<steady, row, entries, money, retry, payable, rest, batch, togo>>
    BY <1>2 DEF VerifyBlock
  <2>4. QED BY <2>1, <2>2, <2>3
<1>3. CASE ConfirmBlock(c)
  BY <1>3 DEF ConfirmBlock
<1>4. CASE OrphanBlock(c)
  BY <1>4 DEF OrphanBlock
<1>5. QED BY <1>1, <1>2, <1>3, <1>4 DEF Confirming

LEMMA PayingType == ASSUME TypeOK, NEW c \in Cycles, Paying(c) PROVE TypeOK'
<1> USE DEF TypeOK, steady, chainVars, entries, money, bootVars, flags, plan, work, cycleVars,
            Goto, AfterBlock, ToCatch, Labels
<1>1. CASE CalculateShares(c)
  <2>1. UNCHANGED <<steady, row, entries, money, retry, todo, batch>>
    BY <1>1 DEF CalculateShares
  <2>2. PICK b \in Blocks :
          /\ blk' = [blk EXCEPT ![c] = b]
          /\ \/ /\ togo' = [togo EXCEPT ![c] = Dust(b)]
                /\ rest' = [rest EXCEPT ![c] = Owed(b)]
                /\ Goto(c, IF Dust(b) = {} THEN "batch" ELSE "accumulate")
                /\ UNCHANGED payable
             \/ /\ payable' = [payable EXCEPT ![c] = @ \ {b}]
                /\ Goto(c, IF payable[c] = {b} THEN "end" ELSE "shares")
                /\ UNCHANGED <<togo, rest>>
    BY <1>1 DEF CalculateShares
  <2>3. pc' \in [Cycles -> Labels] /\ blk' \in [Cycles -> Blocks]
    BY <2>2
  <2>4. Owed(b) \in SUBSET Addrs /\ Dust(b) \in SUBSET Addrs
    BY OwedType
  <2>5. rest' \in [Cycles -> SUBSET Addrs] /\ togo' \in [Cycles -> SUBSET Addrs]
    <3>1. CASE UNCHANGED <<togo, rest>>
      BY <3>1
    <3>2. CASE togo' = [togo EXCEPT ![c] = Dust(b)] /\ rest' = [rest EXCEPT ![c] = Owed(b)]
      BY <2>4, <3>2
    <3>3. QED BY <2>2, <3>1, <3>2
  <2>6. payable' \in [Cycles -> SUBSET Blocks]
    BY <2>2
  <2>7. QED BY <2>1, <2>3, <2>5, <2>6
<1>2. CASE Accumulate(c)
  BY <1>2 DEF Accumulate
<1>3. CASE NextBatch(c)
  <2>1. UNCHANGED <<steady, row, entries, money, retry, todo, blk>>
    BY <1>3 DEF NextBatch
  <2>2. CASE /\ AfterBlock(c)
             /\ batch' = [batch EXCEPT ![c] = {}]
             /\ UNCHANGED <<rest, togo>>
    BY <2>1, <2>2
  <2>3. ASSUME NEW S \in SUBSET rest[c],
               batch' = [batch EXCEPT ![c] = S],
               rest' = [rest EXCEPT ![c] = @ \ S],
               togo' = [togo EXCEPT ![c] = S],
               Goto(c, "insert") /\ UNCHANGED payable
        PROVE  TypeOK'
    <3>1. S \in SUBSET Addrs /\ rest[c] \ S \in SUBSET Addrs
      OBVIOUS
    <3>2. QED BY <2>1, <2>3, <3>1
  <2>4. QED BY <1>3, <2>2, <2>3 DEF NextBatch
<1>4. CASE InsertPending(c)
  <2>1. pc' \in [Cycles -> Labels]
    BY <1>4 DEF InsertPending
  <2>2. togo' \in [Cycles -> SUBSET Addrs]
    BY <1>4, OwedType DEF InsertPending
  <2>3. row' \in [Keys -> Statuses]
    BY <1>4, RowOfType DEF InsertPending, Statuses
  <2>4. UNCHANGED <<steady, entries, money, plan, blk, rest, batch>>
    BY <1>4 DEF InsertPending
  <2>5. QED BY <2>1, <2>2, <2>3, <2>4
<1>5. CASE SendBatch(c)
  <2>1. pc' \in [Cycles -> Labels]
    BY <1>5 DEF SendBatch
  <2>2. togo' = [togo EXCEPT ![c] = batch[c]] \/ togo' = [togo EXCEPT ![c] = Owed(blk[c])]
    BY <1>5 DEF SendBatch
  <2>3. togo' \in [Cycles -> SUBSET Addrs]
    <3>1. batch[c] \in SUBSET Addrs /\ Owed(blk[c]) \in SUBSET Addrs
      BY OwedType
    <3>2. QED BY <2>2, <3>1
  <2>4. wallet' \in Seq(Txs) /\ inflight' \subseteq Txs
    BY <1>5, AcceptedType DEF SendBatch
  <2>5. UNCHANGED <<steady, row, entries, plan, blk, rest, batch>>
    BY <1>5 DEF SendBatch
  <2>6. QED BY <2>1, <2>3, <2>4, <2>5
<1>6. CASE MarkSent(c)
  <2>1. pc' \in [Cycles -> Labels]
    BY <1>6 DEF MarkSent
  <2>2. togo' \in [Cycles -> SUBSET Addrs]
    BY <1>6, OwedType DEF MarkSent
  <2>3. row' \in [Keys -> Statuses]
    BY <1>6, RowOfType DEF MarkSent, Statuses
  <2>4. UNCHANGED <<steady, entries, money, plan, blk, rest, batch>>
    BY <1>6 DEF MarkSent
  <2>5. QED BY <2>1, <2>2, <2>3, <2>4
<1>7. CASE CreditMiner(c)
  <2>1. pc' \in [Cycles -> Labels]
    BY <1>7 DEF CreditMiner
  <2>2. togo' \in [Cycles -> SUBSET Addrs]
    BY <1>7, OwedType DEF CreditMiner
  <2>3. credited' \subseteq Cycles \X Blocks \X Addrs
    BY <1>7 DEF CreditMiner
  <2>4. UNCHANGED <<steady, row, ledger, accumulated, money, plan, blk, rest, batch>>
    BY <1>7 DEF CreditMiner
  <2>5. QED BY <2>1, <2>2, <2>3, <2>4
<1>8. CASE RecordLedger(c)
  BY <1>8 DEF RecordLedger
<1>9. CASE InsertFailed(c)
  <2>1. UNCHANGED <<steady, entries, money, retry, todo, blk, rest, batch>>
    BY <1>9 DEF InsertFailed
  <2>2. CASE Goto(c, "end") /\ UNCHANGED <<row, togo, payable>>
    BY <2>1, <2>2
  <2>3. ASSUME NEW a \in Addrs,
               row' = [row EXCEPT ![RowOf(c, a, "catch")] = "failed"],
               togo' = [togo EXCEPT ![c] = @ \ {a}],
               AfterBlock(c) \/ UNCHANGED <<pc, payable>>
        PROVE  TypeOK'
    <3>1. row' \in [Keys -> Statuses]
      BY <2>3, RowOfType DEF Statuses
    <3>2. togo' \in [Cycles -> SUBSET Addrs]
      BY <2>3
    <3>3. pc' \in [Cycles -> Labels]
      BY <2>3
    <3>4. payable' \in [Cycles -> SUBSET Blocks]
      <4>1. payable' = [payable EXCEPT ![c] = @ \ {blk[c]}] \/ payable' = payable
        BY <2>3
      <4>2. payable[c] \ {blk[c]} \in SUBSET Blocks
        OBVIOUS
      <4>3. QED BY <4>1, <4>2
    <3>5. QED BY <2>1, <3>1, <3>2, <3>3, <3>4
  <2>4. QED BY <1>9, <2>2, <2>3 DEF InsertFailed
<1>10. QED BY <1>1, <1>2, <1>3, <1>4, <1>5, <1>6, <1>7, <1>8, <1>9 DEF Paying

LEMMA BracketType == ASSUME TypeOK, NEW c \in Cycles, StartCycle(c) \/ EndCycle(c) PROVE TypeOK'
<1> USE DEF TypeOK, steady, chainVars, entries, money, bootVars, flags, plan, work, cycleVars,
            Goto, Labels, ClearFlag
<1>1. CASE StartCycle(c)
  BY <1>1 DEF StartCycle
<1>2. CASE EndCycle(c)
  BY <1>2, NoBlockType DEF EndCycle
<1>3. QED BY <1>1, <1>2

LEMMA TypeStep == TypeOK /\ [Next]_vars => TypeOK'
<1> SUFFICES ASSUME TypeOK, [Next]_vars PROVE TypeOK'
  OBVIOUS
<1>1. CASE Environment
  BY <1>1, EnvironmentType
<1>2. CASE Boot
  BY <1>2, BootType
<1>3. ASSUME NEW c \in Cycles, Cycle(c) PROVE TypeOK'
  BY <1>3, RetryingType, ConfirmingType, PayingType, BracketType DEF Cycle
<1>4. CASE UNCHANGED vars
  BY <1>4 DEF TypeOK, vars, chainVars, entries, money, bootVars, flags, plan, work, cycleVars
<1>5. QED BY <1>1, <1>2, <1>3, <1>4 DEF Next

\* Every reachable state is well typed, under every choice of faults.
THEOREM TypeCorrect == Spec => []TypeOK
BY InitType, TypeStep, PTL DEF Spec

----------------------------------------------------------------------------
(* The fee ledger.  A cycle writes the ledger row long after sendmany         *)
(* answered; the invariant carries the transaction from there to here.        *)

\* From sendmany's answer to the next batch, a cycle's batch is in the wallet.
WorkingIsPaid ==
    \A c \in Cycles : pc[c] \in {"mark", "credit", "ledger"} =>
        \E i \in DOMAIN wallet : wallet[i] = [blk |-> blk[c], addrs |-> batch[c]]

LedgerInv == TypeOK /\ WorkingIsPaid /\ LedgerMeansPaid

\* Transactions are never taken back: the wallet only grows.
LEMMA WalletGrows ==
    ASSUME TypeOK, [Next]_vars
    PROVE  \A i \in DOMAIN wallet : i \in DOMAIN wallet' /\ wallet'[i] = wallet[i]
<1> USE DEF TypeOK
<1>1. ASSUME NEW tx, wallet' = Append(wallet, tx)
      PROVE  \A i \in DOMAIN wallet : i \in DOMAIN wallet' /\ wallet'[i] = wallet[i]
  BY <1>1
<1>2. ASSUME NEW b, NEW S, Accepted(b, S) \/ Refused \/ TimedOut(b, S)
      PROVE  UNCHANGED wallet \/ \E tx : wallet' = Append(wallet, tx)
  BY <1>2 DEF Accepted, Refused, TimedOut, money
<1> DEFINE Kept == UNCHANGED wallet \/ \E tx : wallet' = Append(wallet, tx)
<1>3. CASE Environment
  <2>1. CASE \E tx \in inflight : LateSend(tx)
    BY <2>1 DEF LateSend
  <2>2. CASE Environment /\ UNCHANGED wallet
    BY <2>2
  <2>3. QED BY <1>3, <2>1, <2>2 DEF Environment, Mature, Reorg, Crash, TimerFires, money
<1>4. CASE Boot
  BY <1>4 DEF Boot, Start, SelectPending, ListTransactions, ReconcileGroup, money
<1>5. ASSUME NEW c \in Cycles, Retrying(c) PROVE Kept
  <2>1. CASE RetrySend(c)
    BY <1>2, <2>1 DEF RetrySend
  <2>2. CASE RetrySelect(c) \/ RetryMark(c) \/ RetrySettle(c) \/ RetryRevert(c)
    BY <2>2 DEF RetrySelect, RetryMark, RetrySettle, RetryRevert, money
  <2>3. QED BY <1>5, <2>1, <2>2 DEF Retrying
<1>6. ASSUME NEW c \in Cycles, Confirming(c) PROVE Kept
  BY <1>6 DEF Confirming, SelectBlocks, VerifyBlock, ConfirmBlock, OrphanBlock, money
<1>7. ASSUME NEW c \in Cycles, Paying(c) PROVE Kept
  <2>1. CASE SendBatch(c)
    BY <1>2, <2>1 DEF SendBatch
  <2>2. CASE \/ CalculateShares(c) \/ Accumulate(c) \/ NextBatch(c) \/ InsertPending(c)
             \/ MarkSent(c) \/ CreditMiner(c) \/ RecordLedger(c) \/ InsertFailed(c)
    BY <2>2 DEF CalculateShares, Accumulate, NextBatch, InsertPending, MarkSent, CreditMiner,
                RecordLedger, InsertFailed, money
  <2>3. QED BY <1>7, <2>1, <2>2 DEF Paying
<1>8. ASSUME NEW c \in Cycles, Cycle(c) PROVE Kept
  <2>1. CASE StartCycle(c) \/ EndCycle(c)
    BY <2>1 DEF StartCycle, EndCycle, money
  <2>2. QED BY <1>5, <1>6, <1>7, <1>8, <2>1 DEF Cycle
<1>9. CASE UNCHANGED vars
  BY <1>9 DEF vars, money
<1>10. QED BY <1>1, <1>3, <1>4, <1>8, <1>9 DEF Next

\* What a cycle holds in its local variables no other cycle touches.
LEMMA OthersUntouched ==
    ASSUME TypeOK, NEW c \in Cycles, Cycle(c), NEW d \in Cycles \ {c}
    PROVE  /\ pc'[d] = pc[d] /\ blk'[d] = blk[d] /\ batch'[d] = batch[d]
           /\ rest'[d] = rest[d] /\ togo'[d] = togo[d]
           /\ retry'[d] = retry[d] /\ todo'[d] = todo[d] /\ payable'[d] = payable[d]
<1> USE DEF TypeOK, plan, work, Goto
<1> DEFINE Same == /\ pc'[d] = pc[d] /\ blk'[d] = blk[d] /\ batch'[d] = batch[d]
                   /\ rest'[d] = rest[d] /\ togo'[d] = togo[d]
                   /\ retry'[d] = retry[d] /\ todo'[d] = todo[d] /\ payable'[d] = payable[d]
<1>1. CASE StartCycle(c)
  BY <1>1 DEF StartCycle
<1>2. CASE EndCycle(c)
  BY <1>2 DEF EndCycle
<1>3. CASE RetrySelect(c)
  BY <1>3 DEF RetrySelect, AfterRetry
<1>4. CASE RetryMark(c)
  BY <1>4 DEF RetryMark
<1>5. CASE RetrySend(c) \/ RetrySettle(c) \/ RetryRevert(c)
  BY <1>5 DEF RetrySend, RetrySettle, RetryRevert, AfterRetry
<1>6. CASE Confirming(c)
  BY <1>6 DEF Confirming, SelectBlocks, VerifyBlock, ConfirmBlock, OrphanBlock, AfterVerify
<1>7. CASE CalculateShares(c)
  BY <1>7 DEF CalculateShares
<1>8. CASE Accumulate(c) \/ RecordLedger(c)
  BY <1>8 DEF Accumulate, RecordLedger
<1>9. CASE NextBatch(c)
  BY <1>9 DEF NextBatch, AfterBlock
<1>10. CASE InsertPending(c)
  BY <1>10 DEF InsertPending, ToCatch
<1>11. CASE SendBatch(c)
  BY <1>11 DEF SendBatch, ToCatch
<1>12. CASE MarkSent(c)
  BY <1>12 DEF MarkSent, ToCatch
<1>13. CASE CreditMiner(c)
  BY <1>13 DEF CreditMiner, ToCatch
<1>14. CASE InsertFailed(c)
  BY <1>14 DEF InsertFailed, AfterBlock
<1>15. QED BY <1>1, <1>2, <1>3, <1>4, <1>5, <1>6, <1>7, <1>8, <1>9, <1>10, <1>11, <1>12,
             <1>13, <1>14 DEF Cycle, Retrying, Paying

\* A cycle reaches the statements that follow sendmany through sendmany alone.
LEMMA WorkingStep ==
    ASSUME TypeOK, WorkingIsPaid, NEW c \in Cycles, Cycle(c),
           pc'[c] \in {"mark", "credit", "ledger"}
    PROVE  \E i \in DOMAIN wallet' : wallet'[i] = [blk |-> blk'[c], addrs |-> batch'[c]]
<1> USE DEF TypeOK, Goto
<1>1. CASE SendBatch(c)
  <2>1. wallet' = Append(wallet, [blk |-> blk[c], addrs |-> batch[c]])
    BY <1>1 DEF SendBatch, Accepted, ToCatch
  <2>2. UNCHANGED <<blk, batch>>
    BY <1>1 DEF SendBatch
  <2>3. QED BY <2>1, <2>2
<1>2. CASE MarkSent(c) \/ CreditMiner(c)
  <2>1. pc[c] \in {"mark", "credit"} /\ UNCHANGED <<wallet, blk, batch>>
    BY <1>2 DEF MarkSent, CreditMiner, money, steady
  <2>2. QED BY <2>1 DEF WorkingIsPaid
<1>3. CASE StartCycle(c) \/ EndCycle(c)
  BY <1>3 DEF StartCycle, EndCycle
<1>4. CASE Retrying(c)
  BY <1>4 DEF Retrying, RetrySelect, RetryMark, RetrySend, RetrySettle, RetryRevert, AfterRetry
<1>5. CASE Confirming(c)
  BY <1>5 DEF Confirming, SelectBlocks, VerifyBlock, ConfirmBlock, OrphanBlock, AfterVerify
<1>6. CASE \/ CalculateShares(c) \/ Accumulate(c) \/ NextBatch(c) \/ InsertPending(c)
           \/ RecordLedger(c)
  BY <1>6 DEF CalculateShares, Accumulate, NextBatch, InsertPending, RecordLedger, AfterBlock,
              ToCatch
<1>7. CASE InsertFailed(c)
  BY <1>7 DEF InsertFailed, AfterBlock
<1>8. QED BY <1>1, <1>2, <1>3, <1>4, <1>5, <1>6, <1>7 DEF Cycle, Paying

LEMMA WorkingKept == TypeOK /\ WorkingIsPaid /\ [Next]_vars => WorkingIsPaid'
<1> SUFFICES ASSUME TypeOK, WorkingIsPaid, [Next]_vars,
                    NEW d \in Cycles, pc'[d] \in {"mark", "credit", "ledger"}
             PROVE  \E i \in DOMAIN wallet' : wallet'[i] = [blk |-> blk'[d], addrs |-> batch'[d]]
  BY DEF WorkingIsPaid
<1>1. CASE UNCHANGED <<pc, blk, batch>>
  BY <1>1, WalletGrows DEF WorkingIsPaid
<1>2. ASSUME NEW c \in Cycles, Cycle(c)
      PROVE  \E i \in DOMAIN wallet' : wallet'[i] = [blk |-> blk'[d], addrs |-> batch'[d]]
  <2>1. CASE c = d
    BY <1>2, <2>1, WorkingStep
  <2>2. CASE c # d
    <3>1. pc'[d] = pc[d] /\ blk'[d] = blk[d] /\ batch'[d] = batch[d]
      BY <1>2, <2>2, OthersUntouched
    <3>2. QED BY <3>1, WalletGrows DEF WorkingIsPaid
  <2>3. QED BY <2>1, <2>2
<1>3. CASE Crash
  BY <1>3 DEF Crash
<1>4. CASE Boot \/ (Environment /\ ~Crash) \/ UNCHANGED vars
  BY <1>1, <1>4 DEF Boot, Start, SelectPending, ListTransactions, ReconcileGroup, Environment,
                    Mature, Reorg, LateSend, TimerFires, vars, cycleVars, work
<1>5. QED BY <1>2, <1>3, <1>4 DEF Next

\* The ledger row of a block is written from a batch the wallet has paid.
LEMMA LedgerStep == TypeOK /\ WorkingIsPaid /\ LedgerMeansPaid /\ [Next]_vars => LedgerMeansPaid'
<1> SUFFICES ASSUME TypeOK, WorkingIsPaid, LedgerMeansPaid, [Next]_vars,
                    NEW b \in Blocks, ledger'[b] # {}
             PROVE  \E i \in DOMAIN wallet' : wallet'[i].blk = b /\ wallet'[i].addrs = ledger'[b]
  BY DEF LedgerMeansPaid
<1>1. CASE ledger'[b] = ledger[b]
  BY <1>1, WalletGrows DEF LedgerMeansPaid
<1>2. ASSUME NEW c \in Cycles, RecordLedger(c), ledger'[b] # ledger[b]
      PROVE  \E i \in DOMAIN wallet' : wallet'[i].blk = b /\ wallet'[i].addrs = ledger'[b]
  <2>1. b = blk[c] /\ ledger'[b] = batch[c] /\ pc[c] = "ledger" /\ UNCHANGED wallet
    BY <1>2 DEF RecordLedger, TypeOK, money
  <2>2. PICK i \in DOMAIN wallet : wallet[i] = [blk |-> blk[c], addrs |-> batch[c]]
    BY <2>1 DEF WorkingIsPaid
  <2>3. QED BY <2>1, <2>2
<1>3. ASSUME ~ \E c \in Cycles : RecordLedger(c) PROVE UNCHANGED ledger
  <2> USE DEF entries
  <2>1. CASE Environment \/ Boot \/ UNCHANGED vars
    BY <2>1 DEF Boot, Start, SelectPending, ListTransactions, ReconcileGroup, Environment,
                Mature, Reorg, LateSend, Crash, TimerFires, vars
  <2>2. ASSUME NEW c \in Cycles, Cycle(c) PROVE UNCHANGED ledger
    <3>1. CASE StartCycle(c) \/ EndCycle(c) \/ Retrying(c)
      BY <3>1 DEF StartCycle, EndCycle, Retrying, RetrySelect, RetryMark, RetrySend, RetrySettle,
                  RetryRevert
    <3>2. CASE Confirming(c)
      BY <3>2 DEF Confirming, SelectBlocks, VerifyBlock, ConfirmBlock, OrphanBlock
    <3>3. CASE Paying(c)
      BY <1>3, <3>3 DEF Paying, CalculateShares, Accumulate, NextBatch, InsertPending, SendBatch,
                        MarkSent, CreditMiner, InsertFailed
    <3>4. QED BY <2>2, <3>1, <3>2, <3>3 DEF Cycle
  <2>3. QED BY <2>1, <2>2 DEF Next
<1>4. QED BY <1>1, <1>2, <1>3

\* Under every fault the model knows, the public ledger's row of a block names a
\* transaction that exists and paid exactly the recipients it counts.
THEOREM LedgerIsHonest == Spec => []LedgerMeansPaid
<1>1. Init => LedgerInv
  BY InitType DEF Init, LedgerInv, WorkingIsPaid, LedgerMeansPaid
<1>2. LedgerInv /\ [Next]_vars => LedgerInv'
  BY TypeStep, WorkingKept, LedgerStep DEF LedgerInv
<1>3. LedgerInv => LedgerMeansPaid
  BY DEF LedgerInv
<1>4. QED BY <1>1, <1>2, <1>3, PTL DEF Spec
----------------------------------------------------------------------------
(* The miners' totals.  A cycle counts against a payment of an address from   *)
(* sendmany's answer on, long before it credits the miner.                    *)

Crediting(b, a) ==
    {c \in Cycles : \/ <<c, b, a>> \in credited
                    \/ pc[c] \in {"mark", "credit"} /\ blk[c] = b /\ a \in batch[c]}

\* The statements after sendmany go over the addresses of the batch.
TogoInBatch == \A c \in Cycles : pc[c] \in {"mark", "credit"} => togo[c] \subseteq batch[c]

\* The cycles that have credited an address or are about to never outnumber the
\* transactions that pay it.
CreditBound ==
    \A b \in Blocks, a \in Addrs :
        /\ IsFiniteSet(Crediting(b, a))
        /\ Cardinality(Crediting(b, a)) <= Cardinality(PaidBy(b, a))

\* How a cycle comes to stand between sendmany and the credit, or stays there.
LEMMA CycleCredits ==
    ASSUME TypeOK, NEW c \in Cycles, Cycle(c), pc'[c] \in {"mark", "credit"}
    PROVE  \/ /\ pc[c] \in {"mark", "credit"}
              /\ blk'[c] = blk[c] /\ batch'[c] = batch[c]
              /\ togo[c] \subseteq batch[c] => togo'[c] \subseteq batch[c]
           \/ /\ wallet' = Append(wallet, [blk |-> blk[c], addrs |-> batch[c]])
              /\ UNCHANGED <<credited, blk, batch>>
              /\ togo'[c] = batch[c]
<1> USE DEF TypeOK, Goto
<1>1. CASE SendBatch(c)
  BY <1>1 DEF SendBatch, Accepted, ToCatch, entries
<1>2. CASE MarkSent(c) \/ CreditMiner(c)
  BY <1>2 DEF MarkSent, CreditMiner, ToCatch
<1>3. CASE StartCycle(c) \/ EndCycle(c)
  BY <1>3 DEF StartCycle, EndCycle
<1>4. CASE Retrying(c)
  BY <1>4 DEF Retrying, RetrySelect, RetryMark, RetrySend, RetrySettle, RetryRevert, AfterRetry
<1>5. CASE Confirming(c)
  BY <1>5 DEF Confirming, SelectBlocks, VerifyBlock, ConfirmBlock, OrphanBlock, AfterVerify
<1>6. CASE \/ CalculateShares(c) \/ Accumulate(c) \/ NextBatch(c) \/ InsertPending(c)
           \/ RecordLedger(c)
  BY <1>6 DEF CalculateShares, Accumulate, NextBatch, InsertPending, RecordLedger, AfterBlock,
              ToCatch
<1>7. CASE InsertFailed(c)
  BY <1>7 DEF InsertFailed, AfterBlock
<1>8. QED BY <1>1, <1>2, <1>3, <1>4, <1>5, <1>6, <1>7 DEF Cycle, Paying

\* A credit is made by a cycle that stands there, for an address of its batch.
LEMMA CreditsMade ==
    ASSUME TypeOK, TogoInBatch, [Next]_vars, NEW x \in credited' \ credited
    PROVE  \E c \in Cycles : /\ pc[c] = "credit"
                             /\ \E a \in batch[c] : x = <<c, blk[c], a>>
<1>1. ASSUME NEW c \in Cycles, CreditMiner(c)
      PROVE  pc[c] = "credit" /\ \E a \in batch[c] : x = <<c, blk[c], a>>
  BY <1>1 DEF CreditMiner, TogoInBatch
<1>2. ASSUME ~ \E c \in Cycles : CreditMiner(c) PROVE UNCHANGED credited
  <2> USE DEF entries
  <2>1. CASE Environment \/ Boot \/ UNCHANGED vars
    BY <2>1 DEF Boot, Start, SelectPending, ListTransactions, ReconcileGroup, Environment,
                Mature, Reorg, LateSend, Crash, TimerFires, vars
  <2>2. ASSUME NEW c \in Cycles, Cycle(c) PROVE UNCHANGED credited
    <3>1. CASE StartCycle(c) \/ EndCycle(c) \/ Retrying(c)
      BY <3>1 DEF StartCycle, EndCycle, Retrying, RetrySelect, RetryMark, RetrySend, RetrySettle,
                  RetryRevert
    <3>2. CASE Confirming(c)
      BY <3>2 DEF Confirming, SelectBlocks, VerifyBlock, ConfirmBlock, OrphanBlock
    <3>3. CASE Paying(c)
      BY <1>2, <3>3 DEF Paying, CalculateShares, Accumulate, NextBatch, InsertPending, SendBatch,
                        MarkSent, RecordLedger, InsertFailed
    <3>4. QED BY <2>2, <3>1, <3>2, <3>3 DEF Cycle
  <2>3. QED BY <2>1, <2>2 DEF Next
<1>3. QED BY <1>1, <1>2

\* Everything but a cycle leaves the cycles where they are, or at rest.
LEMMA ElsewhereNoneStarts ==
    ASSUME TypeOK, [Next]_vars, ~ \E c \in Cycles : Cycle(c), NEW d \in Cycles,
           pc'[d] \in {"mark", "credit"}
    PROVE  pc'[d] = pc[d] /\ blk'[d] = blk[d] /\ batch'[d] = batch[d] /\ togo'[d] = togo[d]
<1>1. ~Crash
  BY DEF Crash
<1>2. QED
  BY <1>1 DEF Next, Boot, Start, SelectPending, ListTransactions, ReconcileGroup, Environment,
              Mature, Reorg, LateSend, TimerFires, vars, cycleVars, work

LEMMA TogoKept == TypeOK /\ TogoInBatch /\ [Next]_vars => TogoInBatch'
<1> SUFFICES ASSUME TypeOK, TogoInBatch, [Next]_vars, NEW d \in Cycles, pc'[d] \in {"mark", "credit"}
             PROVE  togo'[d] \subseteq batch'[d]
  BY DEF TogoInBatch
<1>1. CASE Cycle(d)
  BY <1>1, CycleCredits DEF TogoInBatch
<1>2. ASSUME NEW c \in Cycles \ {d}, Cycle(c) PROVE togo'[d] \subseteq batch'[d]
  BY <1>2, OthersUntouched DEF TogoInBatch
<1>3. CASE ~ \E c \in Cycles : Cycle(c)
  BY <1>3, ElsewhereNoneStarts DEF TogoInBatch
<1>4. QED BY <1>1, <1>2, <1>3

\* One step adds at most one cycle, together with a transaction that pays.
LEMMA CreditingStep ==
    ASSUME TypeOK, TogoInBatch, [Next]_vars, NEW b \in Blocks, NEW a \in Addrs
    PROVE  \/ Crediting(b, a)' \subseteq Crediting(b, a)
           \/ \E c \in Cycles : /\ Crediting(b, a)' \subseteq Crediting(b, a) \cup {c}
                                /\ a \in batch[c]
                                /\ wallet' = Append(wallet, [blk |-> b, addrs |-> batch[c]])
<1> DEFINE Stands(d) == pc[d] \in {"mark", "credit"} /\ blk[d] = b /\ a \in batch[d]
           Stood(d) == pc'[d] \in {"mark", "credit"} /\ blk'[d] = b /\ a \in batch'[d]
<1>1. ASSUME NEW d \in Cycles, <<d, b, a>> \in credited' PROVE d \in Crediting(b, a)
  <2>1. CASE <<d, b, a>> \in credited
    BY <2>1 DEF Crediting
  <2>2. CASE <<d, b, a>> \notin credited
    <3>1. PICK c \in Cycles : pc[c] = "credit" /\ \E e \in batch[c] : <<d, b, a>> = <<c, blk[c], e>>
      BY <1>1, <2>2, CreditsMade
    <3>2. QED BY <3>1 DEF Crediting
  <2>3. QED BY <2>1, <2>2
<1>2. CASE \A d \in Cycles : Stood(d) => Stands(d)
  BY <1>1, <1>2 DEF Crediting
<1>3. ASSUME NEW d \in Cycles, Stood(d), ~Stands(d)
      PROVE  /\ Crediting(b, a)' \subseteq Crediting(b, a) \cup {d}
             /\ a \in batch[d]
             /\ wallet' = Append(wallet, [blk |-> b, addrs |-> batch[d]])
  <2>1. Cycle(d)
    <3>1. ASSUME NEW c \in Cycles \ {d}, Cycle(c) PROVE FALSE
      BY <1>3, <3>1, OthersUntouched
    <3>2. CASE ~ \E c \in Cycles : Cycle(c)
      BY <1>3, <3>2, ElsewhereNoneStarts
    <3>3. QED BY <3>1, <3>2
  <2>2. /\ wallet' = Append(wallet, [blk |-> b, addrs |-> batch[d]])
        /\ a \in batch[d]
    BY <1>3, <2>1, CycleCredits
  <2>3. \A e \in Cycles \ {d} : Stood(e) => Stands(e)
    BY <2>1, OthersUntouched
  <2>4. QED BY <1>1, <2>2, <2>3 DEF Crediting
<1>4. QED BY <1>2, <1>3

\* The transactions that pay an address are finitely many, and stay.
LEMMA PaidByGrows ==
    ASSUME TypeOK, [Next]_vars, NEW b \in Blocks, NEW a \in Addrs
    PROVE  /\ IsFiniteSet(PaidBy(b, a)) /\ IsFiniteSet(PaidBy(b, a)')
           /\ PaidBy(b, a) \subseteq PaidBy(b, a)'
<1>1. IsFiniteSet(DOMAIN wallet)
  <2>1. DOMAIN wallet = 1 .. Len(wallet) /\ Len(wallet) \in Nat
    BY DEF TypeOK
  <2>2. QED BY <2>1, FS_Interval
<1>2. IsFiniteSet(DOMAIN wallet')
  <2>1. TypeOK'
    BY TypeStep
  <2>2. DOMAIN wallet' = 1 .. Len(wallet') /\ Len(wallet') \in Nat
    BY <2>1 DEF TypeOK
  <2>3. QED BY <2>2, FS_Interval
<1>3. PaidBy(b, a) \subseteq DOMAIN wallet /\ PaidBy(b, a)' \subseteq DOMAIN wallet'
  BY DEF PaidBy
<1>4. PaidBy(b, a) \subseteq PaidBy(b, a)'
  BY WalletGrows DEF PaidBy
<1>5. QED BY <1>1, <1>2, <1>3, <1>4, FS_Subset

LEMMA CreditStep == TypeOK /\ TogoInBatch /\ CreditBound /\ [Next]_vars => CreditBound'
<1> SUFFICES ASSUME TypeOK, TogoInBatch, CreditBound, [Next]_vars, NEW b \in Blocks, NEW a \in Addrs
             PROVE  /\ IsFiniteSet(Crediting(b, a)')
                    /\ Cardinality(Crediting(b, a)') <= Cardinality(PaidBy(b, a)')
  BY DEF CreditBound
<1> DEFINE C == Crediting(b, a)
           D == Crediting(b, a)'
           P == PaidBy(b, a)
           Q == PaidBy(b, a)'
<1>1. IsFiniteSet(C) /\ Cardinality(C) <= Cardinality(P)
  BY DEF CreditBound
<1>2. IsFiniteSet(P) /\ IsFiniteSet(Q) /\ P \subseteq Q
  BY PaidByGrows
<1>3. CASE D \subseteq C
  <2> HIDE DEF C, D, P, Q
  <2>1. IsFiniteSet(D) /\ Cardinality(D) <= Cardinality(C)
    BY <1>1, <1>3, FS_Subset
  <2>2. Cardinality(P) <= Cardinality(Q)
    BY <1>2, FS_Subset
  <2>3. QED
    BY <1>1, <1>2, <2>1, <2>2, FS_CardinalityType DEF C, D, P, Q
<1>4. ASSUME NEW c \in Cycles, D \subseteq C \cup {c}, a \in batch[c],
             wallet' = Append(wallet, [blk |-> b, addrs |-> batch[c]])
      PROVE  IsFiniteSet(D) /\ Cardinality(D) <= Cardinality(Q)
  <2> DEFINE i == Len(wallet) + 1
  <2>1. i \notin P /\ i \in Q
    <3>1. wallet \in Seq(Txs)
      BY DEF TypeOK
    <3>2. i \notin DOMAIN wallet /\ i \in DOMAIN wallet' /\ wallet'[i] = [blk |-> b, addrs |-> batch[c]]
      BY <1>4, <3>1
    <3>3. QED BY <1>4, <3>2 DEF PaidBy
  <2> HIDE DEF C, D, P, Q, i
  <2>2. P \cup {i} \subseteq Q
    BY <1>2, <2>1
  <2>3. IsFiniteSet(P \cup {i}) /\ Cardinality(P \cup {i}) = Cardinality(P) + 1
    BY <1>2, <2>1, FS_AddElement
  <2>4. Cardinality(P \cup {i}) <= Cardinality(Q)
    BY <1>2, <2>2, FS_Subset
  <2>5. IsFiniteSet(C \cup {c}) /\ Cardinality(C \cup {c}) <= Cardinality(C) + 1
    <3>1. CASE c \in C
      <4>1. C \cup {c} = C
        BY <3>1
      <4>2. Cardinality(C) \in Nat
        BY <1>1, FS_CardinalityType
      <4>3. Cardinality(C) <= Cardinality(C) + 1
        BY <4>2
      <4>4. QED BY <1>1, <4>1, <4>3
    <3>2. CASE c \notin C
      <4>1. IsFiniteSet(C \cup {c}) /\ Cardinality(C \cup {c}) = Cardinality(C) + 1
        BY <1>1, <3>2, FS_AddElement
      <4>2. QED BY <1>1, <4>1, FS_CardinalityType
    <3>3. QED BY <3>1, <3>2
  <2>6. IsFiniteSet(D) /\ Cardinality(D) <= Cardinality(C \cup {c})
    BY <1>4, <2>5, FS_Subset
  <2>7. /\ Cardinality(C) \in Nat /\ Cardinality(D) \in Nat /\ Cardinality(P) \in Nat
        /\ Cardinality(Q) \in Nat /\ Cardinality(C \cup {c}) \in Nat
    BY <1>1, <1>2, <2>5, <2>6, FS_CardinalityType
  <2>8. QED BY <1>1, <2>3, <2>4, <2>5, <2>6, <2>7
<1>5. QED BY <1>3, <1>4, CreditingStep

\* miners.total_paid never counts more for a block than the wallet paid, under
\* every fault: a cycle credits its batch only after the transaction of its own
\* that paid it, and a batch that ends in the catch clause is not credited again.
THEOREM CreditIsPaid == Spec => []CreditMeansPaid
<1> DEFINE Inv == TypeOK /\ TogoInBatch /\ CreditBound
<1>1. Init => Inv
  <2> SUFFICES ASSUME Init PROVE Inv
    OBVIOUS
  <2>1. TypeOK
    BY InitType
  <2>2. TogoInBatch
    BY DEF Init, TogoInBatch
  <2>3. ASSUME NEW b \in Blocks, NEW a \in Addrs
        PROVE  IsFiniteSet(Crediting(b, a)) /\ Cardinality(Crediting(b, a)) <= Cardinality(PaidBy(b, a))
    <3>1. Crediting(b, a) = {} /\ PaidBy(b, a) = {}
      BY DEF Init, Crediting, PaidBy
    <3>2. QED BY <3>1, FS_EmptySet
  <2>4. QED BY <2>1, <2>2, <2>3 DEF CreditBound
<1>2. Inv /\ [Next]_vars => Inv'
  BY TypeStep, TogoKept, CreditStep
<1>3. Inv => CreditMeansPaid
  <2> SUFFICES ASSUME Inv, NEW b \in Blocks, NEW a \in Addrs
               PROVE  Cardinality({c \in Cycles : <<c, b, a>> \in credited}) <= Cardinality(PaidBy(b, a))
    BY DEF CreditMeansPaid
  <2> DEFINE K == {c \in Cycles : <<c, b, a>> \in credited}
  <2>1. K \subseteq Crediting(b, a)
    BY DEF Crediting
  <2>2. IsFiniteSet(Crediting(b, a)) /\ Cardinality(Crediting(b, a)) <= Cardinality(PaidBy(b, a))
    BY DEF CreditBound
  <2>3. IsFiniteSet(PaidBy(b, a))
    <3>1. DOMAIN wallet = 1 .. Len(wallet) /\ Len(wallet) \in Nat
      BY DEF TypeOK
    <3>2. PaidBy(b, a) \subseteq 1 .. Len(wallet)
      BY <3>1 DEF PaidBy
    <3>3. IsFiniteSet(1 .. Len(wallet))
      BY <3>1, FS_Interval
    <3>4. QED BY <3>2, <3>3, FS_Subset
  <2> HIDE DEF K
  <2>4. IsFiniteSet(K) /\ Cardinality(K) <= Cardinality(Crediting(b, a))
    BY <2>1, <2>2, FS_Subset
  <2>5. Cardinality(K) <= Cardinality(PaidBy(b, a))
    BY <2>2, <2>3, <2>4, FS_CardinalityType
  <2>6. QED BY <2>5 DEF K
<1>4. QED BY <1>1, <1>2, <1>3, PTL DEF Spec

----------------------------------------------------------------------------
(***************************************************************************)
(* No address is paid twice.  RecoveryInv is inductive: each action keeps  *)
(* the lock, the books and the phase of the cycle that takes it.           *)
(***************************************************************************)

Working == {"insert", "send", "mark", "catch", "retrySend", "retrySettle", "retryRevert"}

----------------------------------------------------------------------------
(* What every step of a cycle shares *)

\* While a cycle runs, the others are idle and hold nothing to pay.
LEMMA OthersIdle ==
    ASSUME RecoveryInv, NEW c \in Cycles, pc[c] # "idle", NEW d \in Cycles \ {c}
    PROVE  pc[d] = "idle" /\ payable[d] = {}
BY DEF RecoveryInv, Locked, OneCycleAtATime, Phase, ConfirmPhase

\* An idle cycle that holds nothing satisfies every phase.
LEMMA IdlePhase ==
    ASSUME NEW d \in Cycles, pc[d] = "idle", payable[d] = {} PROVE Phase(d)
BY DEF Phase, RetryPhase, ConfirmPhase, PayPhase

\* It is enough to look at the books and at the cycle that steps.
LEMMA CycleStep ==
    ASSUME RecoveryInv, TypeOK', NEW c \in Cycles, Cycle(c), pc[c] # "idle",
           boot' = boot, inflight' = inflight, pc'[c] # "idle" => processing' = processing,
           Books', Phase(c)'
    PROVE  RecoveryInv'
<1>1. TypeOK /\ Locked
  BY DEF RecoveryInv
<1>2. \A d \in Cycles \ {c} : pc'[d] = "idle" /\ payable'[d] = {}
  BY <1>1, OthersIdle, OthersUntouched
<1>3. \A d \in Cycles \ {c} : Phase(d)'
  BY <1>2 DEF Phase, RetryPhase, ConfirmPhase, PayPhase
<1>4. Locked'
  BY <1>1, <1>2 DEF Locked, OneCycleAtATime
<1>5. QED BY <1>3, <1>4 DEF RecoveryInv

\* Outside the working phases every pending row is unpaid and has its twin.
LEMMA CalmBooks ==
    ASSUME RecoveryInv, boot = "running", \A c \in Cycles : pc[c] \notin Working,
           NEW k \in Keys, row[k] = "pending"
    PROVE  ~Paid(k.blk, k.addr) /\ \E l \in Rows(k.blk, "failed") : l.addr = k.addr
BY DEF RecoveryInv, Books, PendingPaidLast, PendingIsWatched, Working

\* A step that leaves the tables and the wallet alone, outside the working
\* phases, leaves the books in order.
LEMMA QuietBooks ==
    ASSUME RecoveryInv, boot = "running", \A c \in Cycles : pc[c] \notin Working,
           UNCHANGED <<row, wallet, bootVars>>, confirmed \subseteq confirmed'
    PROVE  Books'
<1>1. \A k \in Keys : row[k] = "pending" =>
         ~Paid(k.blk, k.addr) /\ \E l \in Rows(k.blk, "failed") : l.addr = k.addr
  BY CalmBooks
<1>2. \A b, a : Paid(b, a)' <=> Paid(b, a)
  BY DEF Paid
<1>3. \A b, s : Rows(b, s)' = Rows(b, s)
  BY DEF Rows
<1>4. PaidAtMostOnce' /\ FailedIsUnpaid' /\ Reconciles' /\ TouchedIsConfirmed'
  BY <1>2 DEF RecoveryInv, Books, PaidAtMostOnce, FailedIsUnpaid, Reconciles, TouchedIsConfirmed,
              Untouched, bootVars
<1>5. PendingPaidLast' /\ PendingIsWatched'
  BY <1>1, <1>2, <1>3 DEF PendingPaidLast, PendingIsWatched
<1>6. QED BY <1>4, <1>5 DEF Books

\* A cycle that runs holds the lock, alone.
LEMMA Alone ==
    ASSUME RecoveryInv, NEW c \in Cycles, pc[c] # "idle"
    PROVE  /\ boot = "running" /\ processing /\ inflight = {}
           /\ \A d \in Cycles : pc[d] # "idle" => d = c
           /\ Books /\ Phase(c) /\ TypeOK
BY DEF RecoveryInv, Locked, OneCycleAtATime

\* What the tables and the wallet say does not change when they do not.
LEMMA SameBooks ==
    ASSUME UNCHANGED <<row, wallet>>
    PROVE  /\ \A b, a : Paid(b, a)' <=> Paid(b, a)
           /\ \A b, s : Rows(b, s)' = Rows(b, s)
           /\ \A b : Untouched(b)' <=> Untouched(b)
           /\ \A b, S : LastPays(b, S)' <=> LastPays(b, S)
BY DEF Paid, Rows, Untouched, LastPays

----------------------------------------------------------------------------
(* The steps that leave the tables and the wallet alone *)

\* It is enough to look at the phase of the cycle that steps.
LEMMA QuietStep ==
    ASSUME RecoveryInv, TypeOK', NEW c \in Cycles, Cycle(c), pc[c] # "idle", pc[c] \notin Working,
           UNCHANGED <<row, wallet, inflight, bootVars>>, confirmed \subseteq confirmed',
           pc'[c] # "idle" => processing' = processing, Phase(c)'
    PROVE  RecoveryInv'
<1>1. boot = "running" /\ \A d \in Cycles : pc[d] \notin Working
  BY Alone DEF Working
<1>2. Books'
  BY <1>1, QuietBooks
<1>3. QED BY <1>2, CycleStep DEF bootVars

LEMMA StartCycleKeeps ==
    ASSUME RecoveryInv, TypeOK', NEW c \in Cycles, StartCycle(c) PROVE RecoveryInv'
<1> USE DEF StartCycle, Goto
<1>1. \A d \in Cycles : pc[d] = "idle" /\ payable[d] = {}
  BY DEF RecoveryInv, Locked, MayStart, Phase, ConfirmPhase
<1>2. Books'
  BY <1>1, QuietBooks DEF Working, money, steady, chainVars
<1>3. pc' = [pc EXCEPT ![c] = "retrySelect"] /\ payable' = payable /\ processing' /\ boot' = "running"
  BY DEF plan, bootVars
<1>4. Locked'
  BY <1>1, <1>3 DEF RecoveryInv, TypeOK, Locked, OneCycleAtATime, money
<1>5. \A d \in Cycles : Phase(d)'
  BY <1>1, <1>3 DEF RecoveryInv, TypeOK, Phase, RetryPhase, ConfirmPhase, PayPhase
<1>6. QED BY <1>2, <1>4, <1>5 DEF RecoveryInv

LEMMA EndCycleKeeps ==
    ASSUME RecoveryInv, TypeOK', NEW c \in Cycles, EndCycle(c) PROVE RecoveryInv'
<1>1. pc[c] = "end" /\ pc'[c] = "idle" /\ payable'[c] = {}
  BY Alone DEF EndCycle, Goto, TypeOK
<1>2. Phase(c)'
  BY <1>1 DEF Phase, RetryPhase, ConfirmPhase, PayPhase
<1>3. UNCHANGED <<row, wallet, inflight, confirmed, bootVars>>
  BY DEF EndCycle, money, chainVars
<1>4. QED BY <1>1, <1>2, <1>3, QuietStep DEF Working, Cycle

LEMMA RetrySelectKeeps ==
    ASSUME Recovers, RecoveryInv, TypeOK', NEW c \in Cycles, RetrySelect(c) PROVE RecoveryInv'
<1>1. pc[c] = "retrySelect" /\ TypeOK /\ Books /\ Phase(c)
  BY Alone DEF RetrySelect
<1>2. UNCHANGED <<row, wallet, inflight, confirmed, bootVars, processing, payable>>
  BY DEF RetrySelect, money, steady, chainVars, flags
<1>3. PICK S \in SUBSET FailedRows :
         /\ FirstFailed(S)
         /\ retry' = [retry EXCEPT ![c] = [b \in Blocks |-> {k.addr : k \in {l \in S : l.blk = b}}]]
         /\ AfterRetry(c, [b \in Blocks |-> {k.addr : k \in {l \in S : l.blk = b}}])
  BY DEF RetrySelect, Recovers
<1>4. S = FailedRows
  BY <1>3, <1>1 DEF FirstFailed, Recovers, FailedRows
<1>5. pc'[c] \in {"retryMark", "select"}
  BY <1>1, <1>3 DEF AfterRetry, Goto, TypeOK
<1>6. \A h \in Blocks : retry'[c][h] = {k.addr : k \in {l \in FailedRows : l.blk = h}}
  BY <1>1, <1>3, <1>4 DEF TypeOK
<1>7. RetryPlan(c)'
  <2> SUFFICES ASSUME NEW h \in Blocks, retry'[c][h] # {}
               PROVE  /\ h \in confirmed
                      /\ \A a \in retry'[c][h] : ~Paid(h, a)
                      /\ \A k \in Rows(h, "failed") : k.addr \in retry'[c][h]
    BY <1>2, SameBooks DEF RetryPlan
  <2>1. \A a \in retry'[c][h] : \E k \in Keys : k.blk = h /\ k.addr = a /\ row[k] = "failed"
    BY <1>6 DEF FailedRows
  <2>2. \A a \in retry'[c][h] : ~Paid(h, a)
    BY <1>1, <2>1 DEF Books, FailedIsUnpaid
  <2>3. h \in confirmed
    BY <1>1, <2>1 DEF Books, TouchedIsConfirmed, Untouched
  <2>4. \A k \in Rows(h, "failed") : k.addr \in retry'[c][h]
    BY <1>6 DEF FailedRows, Rows
  <2>5. QED BY <2>2, <2>3, <2>4
<1>8. Phase(c)'
  BY <1>1, <1>2, <1>5, <1>7 DEF Phase, RetryPhase, ConfirmPhase, PayPhase
<1>9. QED BY <1>1, <1>2, <1>5, <1>8, QuietStep DEF Working, Cycle, Retrying

LEMMA SelectBlocksKeeps ==
    ASSUME Recovers, RecoveryInv, TypeOK', NEW c \in Cycles, SelectBlocks(c) PROVE RecoveryInv'
<1>1. pc[c] = "select" /\ TypeOK /\ Phase(c)
  BY Alone DEF SelectBlocks
<1>2. UNCHANGED <<row, wallet, inflight, confirmed, bootVars, processing, payable>>
  BY DEF SelectBlocks, money, steady, chainVars, flags
<1>3. todo'[c] = deep \ (confirmed \cup orphaned) /\ pc'[c] \in {"end", "verify"}
  BY <1>1 DEF SelectBlocks, Recovers, Goto, TypeOK
<1>4. \A b \in todo'[c] : Untouched(b)
  BY <1>1, <1>3, Alone DEF Books, TouchedIsConfirmed, TypeOK
<1>5. Phase(c)'
  BY <1>1, <1>2, <1>3, <1>4, SameBooks DEF Phase, RetryPhase, ConfirmPhase, PayPhase
<1>6. QED BY <1>1, <1>2, <1>3, <1>5, QuietStep DEF Working, Cycle, Confirming

LEMMA VerifyBlockKeeps ==
    ASSUME Recovers, RecoveryInv, TypeOK', NEW c \in Cycles, VerifyBlock(c) PROVE RecoveryInv'
<1>1. pc[c] = "verify" /\ TypeOK /\ Phase(c)
  BY Alone DEF VerifyBlock
<1>2. UNCHANGED <<row, wallet, inflight, confirmed, bootVars, processing, payable>>
  BY DEF VerifyBlock, money, steady, chainVars, flags
<1>3. PICK b \in todo[c] :
         /\ blk' = [blk EXCEPT ![c] = b] /\ todo' = [todo EXCEPT ![c] = @ \ {b}]
         /\ Goto(c, IF b \in deep THEN "confirm" ELSE "orphan")
  BY DEF VerifyBlock, Recovers, IsLowest
<1>4. blk'[c] = b /\ todo'[c] = todo[c] \ {b} /\ pc'[c] \in {"confirm", "orphan"}
  BY <1>1, <1>3 DEF Goto, TypeOK
<1>5. Phase(c)'
  BY <1>1, <1>2, <1>4, SameBooks DEF Phase, RetryPhase, ConfirmPhase, PayPhase
<1>6. QED BY <1>1, <1>2, <1>4, <1>5, QuietStep DEF Working, Cycle, Confirming

LEMMA OrphanBlockKeeps ==
    ASSUME Recovers, RecoveryInv, TypeOK', NEW c \in Cycles, OrphanBlock(c) PROVE RecoveryInv'
<1>1. pc[c] = "orphan" /\ TypeOK /\ Phase(c)
  BY Alone DEF OrphanBlock
<1>2. UNCHANGED <<row, wallet, inflight, confirmed, bootVars, processing, payable, todo>>
  BY DEF OrphanBlock, money, chainVars, flags, plan
<1>3. pc'[c] \in {"verify", "shares", "end"}
  BY <1>1 DEF OrphanBlock, AfterVerify, Goto, TypeOK
<1>4. Phase(c)'
  BY <1>1, <1>2, <1>3, SameBooks DEF Phase, RetryPhase, ConfirmPhase, PayPhase
<1>5. QED BY <1>1, <1>2, <1>3, <1>4, QuietStep DEF Working, Cycle, Confirming

\* The block goes on the list, and into the table, untouched.
LEMMA ConfirmBlockKeeps ==
    ASSUME Recovers, RecoveryInv, TypeOK', NEW c \in Cycles, ConfirmBlock(c) PROVE RecoveryInv'
<1>1. pc[c] = "confirm" /\ TypeOK /\ Phase(c) /\ Books
  BY Alone DEF ConfirmBlock
<1>2. UNCHANGED <<row, wallet, inflight, bootVars, processing, todo, blk>>
  BY DEF ConfirmBlock, money, chainVars, flags, work
<1>3. /\ confirmed' = confirmed \cup {blk[c]} /\ payable'[c] = payable[c] \cup {blk[c]}
      /\ pc'[c] \in {"verify", "shares", "end"}
  BY <1>1 DEF ConfirmBlock, Recovers, AfterVerify, Goto, TypeOK
<1>4. Untouched(blk[c])
  BY <1>1 DEF Phase, ConfirmPhase
<1>5. Phase(c)'
  <2>1. \A b \in payable'[c] : b \in confirmed' /\ Untouched(b)'
    BY <1>1, <1>2, <1>3, <1>4, SameBooks DEF Phase, ConfirmPhase
  <2>2. pc'[c] = "verify" => \A b \in todo'[c] : Untouched(b)'
    BY <1>1, <1>2, SameBooks DEF Phase, ConfirmPhase
  <2>3. QED BY <1>3, <2>1, <2>2 DEF Phase, RetryPhase, ConfirmPhase, PayPhase
<1>6. QED BY <1>1, <1>2, <1>3, <1>5, QuietStep DEF Working, Cycle, Confirming

LEMMA CalculateSharesKeeps ==
    ASSUME Recovers, RecoveryInv, TypeOK', NEW c \in Cycles, CalculateShares(c) PROVE RecoveryInv'
<1>1. pc[c] = "shares" /\ TypeOK /\ Phase(c)
  BY Alone DEF CalculateShares
<1>2. UNCHANGED <<row, wallet, inflight, confirmed, bootVars, processing>>
  BY DEF CalculateShares, money, steady, chainVars, flags
<1>3. PICK b \in payable[c] :
         /\ blk' = [blk EXCEPT ![c] = b]
         /\ \/ /\ rest' = [rest EXCEPT ![c] = Owed(b)]
               /\ Goto(c, IF Dust(b) = {} THEN "batch" ELSE "accumulate")
               /\ UNCHANGED payable
            \/ /\ payable' = [payable EXCEPT ![c] = @ \ {b}]
               /\ Goto(c, IF payable[c] = {b} THEN "end" ELSE "shares")
  BY DEF CalculateShares, IsLowest
<1>4. blk'[c] = b /\ \A x \in payable[c] : x \in confirmed /\ Untouched(x)
  BY <1>1, <1>3 DEF TypeOK, Phase, ConfirmPhase
<1>5. \/ pc'[c] \in {"batch", "accumulate"} /\ payable'[c] = payable[c] /\ rest'[c] = Owed(b)
      \/ pc'[c] \in {"end", "shares"} /\ payable'[c] \subseteq payable[c]
  BY <1>1, <1>3 DEF Goto, TypeOK
<1>6. Owed(blk[c])' = Owed(b)
  BY <1>4 DEF Owed
<1>7. Phase(c)'
  BY <1>2, <1>4, <1>5, <1>6, SameBooks DEF Phase, RetryPhase, ConfirmPhase, PayPhase
<1>8. QED BY <1>1, <1>2, <1>5, <1>7, QuietStep DEF Working, Cycle, Paying

LEMMA AccumulateKeeps ==
    ASSUME Recovers, RecoveryInv, TypeOK', NEW c \in Cycles, Accumulate(c) PROVE RecoveryInv'
<1>1. pc[c] = "accumulate" /\ TypeOK /\ Phase(c)
  BY Alone DEF Accumulate
<1>2. UNCHANGED <<row, wallet, inflight, confirmed, bootVars, processing, payable, blk, rest>>
  BY DEF Accumulate, money, steady, chainVars, flags, plan
<1>3. pc'[c] \in {"batch", "accumulate"}
  BY <1>1 DEF Accumulate, Goto, TypeOK
<1>4. Owed(blk[c])' = Owed(blk[c])
  BY <1>2 DEF Owed
<1>5. Phase(c)'
  BY <1>1, <1>2, <1>3, <1>4, SameBooks DEF Phase, RetryPhase, ConfirmPhase, PayPhase
<1>6. QED BY <1>1, <1>2, <1>3, <1>5, QuietStep DEF Working, Cycle, Paying

\* Under Recovers the first batch is the whole block.
LEMMA NextBatchKeeps ==
    ASSUME Recovers, RecoveryInv, TypeOK', NEW c \in Cycles, NextBatch(c) PROVE RecoveryInv'
<1>1. pc[c] = "batch" /\ TypeOK /\ Phase(c)
  BY Alone DEF NextBatch
<1>2. UNCHANGED <<row, wallet, inflight, confirmed, bootVars, processing, blk>>
  BY DEF NextBatch, money, steady, chainVars, flags
<1>3. CASE rest[c] = {} /\ AfterBlock(c)
  <2>1. pc'[c] \in {"end", "shares"} /\ payable'[c] = payable[c] \ {blk[c]}
    BY <1>1, <1>3 DEF AfterBlock, Goto, TypeOK
  <2>2. Phase(c)'
    BY <1>1, <1>2, <2>1, SameBooks DEF Phase, RetryPhase, ConfirmPhase, PayPhase
  <2>3. QED BY <1>1, <1>2, <2>1, <2>2, QuietStep DEF Working, Cycle, Paying
<1>4. ASSUME NEW S \in SUBSET rest[c], S # {}, S = rest[c] \/ Cardinality(S) = MaxBatch,
             batch' = [batch EXCEPT ![c] = S], rest' = [rest EXCEPT ![c] = @ \ S],
             togo' = [togo EXCEPT ![c] = S], Goto(c, "insert"), UNCHANGED payable
      PROVE  RecoveryInv'
  <2>1. rest[c] \subseteq Addrs /\ Untouched(blk[c]) /\ rest[c] = Owed(blk[c])
    BY <1>1, <1>4 DEF TypeOK, Phase, PayPhase
  <2>2. S = Owed(blk[c])
    <3>1. Cardinality(S) = MaxBatch => S = Addrs
      BY <2>1 DEF Recovers
    <3>2. QED BY <1>4, <2>1, <3>1
  <2>3. pc'[c] = "insert" /\ batch'[c] = S /\ togo'[c] = S /\ rest'[c] = {}
    BY <1>1, <1>4, <2>1, <2>2 DEF Goto, TypeOK
  <2>4. Rows(blk[c], "failed") = {} /\ Rows(blk[c], "pending") = {}
        /\ \A i \in DOMAIN wallet : wallet[i].blk # blk[c]
    BY <2>1 DEF Untouched, Rows
  <2>5. Owed(blk[c])' = Owed(blk[c])
    BY <1>2 DEF Owed
  <2>6. PayPhase(c)'
    BY <1>1, <1>2, <1>4, <2>2, <2>3, <2>4, <2>5, SameBooks DEF Phase, PayPhase
  <2>7. Phase(c)'
    BY <2>3, <2>6 DEF Phase, RetryPhase, ConfirmPhase
  <2>8. QED BY <1>1, <1>2, <2>7, QuietStep DEF Working, Cycle, Paying
<1>5. QED BY <1>3, <1>4 DEF NextBatch

\* The statements after the batch is marked sent: balances and the fee ledger.
LEMMA EntriesKeep ==
    ASSUME Recovers, RecoveryInv, TypeOK', NEW c \in Cycles, CreditMiner(c) \/ RecordLedger(c)
    PROVE  RecoveryInv'
<1>1. pc[c] \in {"credit", "ledger"} /\ TypeOK /\ Phase(c)
  BY Alone DEF CreditMiner, RecordLedger
<1>2. UNCHANGED <<row, wallet, inflight, confirmed, bootVars, processing, payable, blk, rest, batch>>
  BY DEF CreditMiner, RecordLedger, money, steady, chainVars, flags, plan, work
<1>3. pc'[c] \in {"credit", "ledger", "batch"}
  BY <1>1 DEF CreditMiner, RecordLedger, Recovers, Goto, TypeOK
<1>4. Owed(blk[c])' = Owed(blk[c])
  BY <1>2 DEF Owed
<1>5. Phase(c)'
  BY <1>1, <1>2, <1>3, <1>4, SameBooks DEF Phase, RetryPhase, ConfirmPhase, PayPhase
<1>6. QED BY <1>1, <1>2, <1>3, <1>5, QuietStep DEF Working, Cycle, Paying

----------------------------------------------------------------------------
(* The steps that change the rows or the wallet: they touch one block *)

\* What the books say about one block.
BooksOf(b) ==
    \A k \in Keys : k.blk = b =>
        /\ row[k] = "failed" => ~Paid(b, k.addr)
        /\ row[k] = "pending" /\ Paid(b, k.addr) =>
              /\ wallet # <<>> /\ wallet[Len(wallet)].blk = b
              /\ \A l \in Rows(b, "pending") : l.addr \in wallet[Len(wallet)].addrs
              /\ \E c \in Cycles : blk[c] = b /\ pc[c] \in {"mark", "retrySettle"}
        /\ row[k] = "pending" =>
              \/ \E l \in Rows(b, "failed") : l.addr = k.addr
              \/ \E c \in Cycles : blk[c] = b /\ pc[c] \in Working

\* No other block is about to be settled, so its pending rows wait for a retry.
LEMMA ElsewhereUnpaid ==
    ASSUME RecoveryInv, NEW c \in Cycles, pc[c] # "idle", NEW k \in Keys, row[k] = "pending",
           pc[c] \notin Working \/ k.blk # blk[c]
    PROVE  ~Paid(k.blk, k.addr) /\ \E l \in Rows(k.blk, "failed") : l.addr = k.addr
<1>1. boot = "running" /\ PendingPaidLast /\ PendingIsWatched
      /\ \A d \in Cycles : pc[d] # "idle" => d = c
  BY Alone DEF Books
<1>2. \A d \in Cycles : blk[d] = k.blk => pc[d] \notin Working
  BY <1>1 DEF Working
<1>3. QED BY <1>1, <1>2 DEF PendingPaidLast, PendingIsWatched, Working

\* The wallet after a sendmany.
LEMMA SentTo ==
    ASSUME TypeOK, NEW b \in Blocks, NEW S \in SUBSET Addrs, Accepted(b, S)
    PROVE  /\ Len(wallet') = Len(wallet) + 1 /\ DOMAIN wallet' = 1 .. Len(wallet) + 1
           /\ \A i \in DOMAIN wallet : wallet'[i] = wallet[i]
           /\ LastPays(b, S)'
           /\ \A x, a : Paid(x, a)' <=> Paid(x, a) \/ (x = b /\ a \in S)
<1>1. wallet' = Append(wallet, [blk |-> b, addrs |-> S]) /\ [blk |-> b, addrs |-> S] \in Txs
  BY DEF Accepted, Txs
<1>2. wallet \in Seq(Txs)
  BY DEF TypeOK
<1>3. /\ Len(wallet') = Len(wallet) + 1 /\ DOMAIN wallet' = 1 .. Len(wallet) + 1
      /\ DOMAIN wallet = 1 .. Len(wallet) /\ Len(wallet) \in Nat
      /\ \A i \in DOMAIN wallet : wallet'[i] = wallet[i]
      /\ wallet'[Len(wallet) + 1] = [blk |-> b, addrs |-> S]
  BY <1>1, <1>2
<1>4. LastPays(b, S)'
  <2>1. wallet' # <<>>
    BY <1>3, <1>1, <1>2
  <2>2. QED BY <2>1, <1>3 DEF LastPays
<1>5. \A x, a : Paid(x, a)' <=> Paid(x, a) \/ (x = b /\ a \in S)
  <2> TAKE x, a
  <2>1. Paid(x, a)' => Paid(x, a) \/ (x = b /\ a \in S)
    <3> HAVE Paid(x, a)'
    <3>1. PICK i \in DOMAIN wallet' : wallet'[i].blk = x /\ a \in wallet'[i].addrs
      BY DEF Paid
    <3>2. i \in DOMAIN wallet \/ i = Len(wallet) + 1
      BY <1>3, <3>1
    <3>3. QED BY <1>3, <3>1, <3>2 DEF Paid
  <2>2. Paid(x, a) => Paid(x, a)'
    <3> HAVE Paid(x, a)
    <3>1. PICK i \in DOMAIN wallet : wallet[i].blk = x /\ a \in wallet[i].addrs
      BY DEF Paid
    <3>2. i \in DOMAIN wallet' /\ wallet'[i] = wallet[i]
      BY <1>3, <3>1
    <3>3. QED BY <3>1, <3>2 DEF Paid
  <2>3. x = b /\ a \in S => Paid(x, a)'
    <3>1. Len(wallet) + 1 \in DOMAIN wallet'
      BY <1>3
    <3>2. QED BY <1>3, <3>1 DEF Paid
  <2>4. QED BY <2>1, <2>2, <2>3
<1>6. QED BY <1>3, <1>4, <1>5

\* A transaction for addresses the block has not paid pays nobody twice.
LEMMA SentOnce ==
    ASSUME TypeOK, PaidAtMostOnce, NEW b \in Blocks, NEW S \in SUBSET Addrs, Accepted(b, S),
           \A a \in S : ~Paid(b, a)
    PROVE  PaidAtMostOnce'
<1>1. /\ DOMAIN wallet' = 1 .. Len(wallet) + 1 /\ Len(wallet') = Len(wallet) + 1
      /\ \A i \in DOMAIN wallet : wallet'[i] = wallet[i]
      /\ wallet'[Len(wallet')] = [blk |-> b, addrs |-> S]
  BY SentTo DEF LastPays
<1>2. DOMAIN wallet = 1 .. Len(wallet) /\ Len(wallet) \in Nat
  BY DEF TypeOK
<1>3. \A i \in DOMAIN wallet' : i \in DOMAIN wallet \/ i = Len(wallet')
  BY <1>1, <1>2
<1>4. \A i \in DOMAIN wallet : wallet[i].blk = b => wallet[i].addrs \cap S = {}
  BY DEF Paid
<1>5. QED
  <2> SUFFICES ASSUME NEW i \in DOMAIN wallet', NEW j \in DOMAIN wallet',
                      wallet'[i].blk = wallet'[j].blk, wallet'[i].addrs \cap wallet'[j].addrs # {}
               PROVE  i = j
    BY DEF PaidAtMostOnce
  <2>1. CASE i \in DOMAIN wallet /\ j \in DOMAIN wallet
    BY <1>1, <2>1 DEF PaidAtMostOnce
  <2>2. CASE i = Len(wallet') /\ j \in DOMAIN wallet
    BY <1>1, <1>4, <2>2
  <2>3. CASE j = Len(wallet') /\ i \in DOMAIN wallet
    BY <1>1, <1>4, <2>3
  <2>4. QED BY <1>3, <2>1, <2>2, <2>3

\* It is enough to look at the block, and at the phase of the cycle.
LEMMA OneBlockStep ==
    ASSUME RecoveryInv, TypeOK', NEW c \in Cycles, Cycle(c), pc[c] # "idle", pc'[c] # "idle",
           UNCHANGED <<inflight, confirmed, bootVars, processing>>,
           NEW b \in confirmed, pc[c] \notin Working \/ blk[c] = b,
           \A k \in Keys : k.blk # b => row'[k] = row[k],
           UNCHANGED wallet \/ \E S \in SUBSET Addrs : Accepted(b, S),
           PaidAtMostOnce', BooksOf(b)', Phase(c)'
    PROVE  RecoveryInv'
<1>1. TypeOK /\ Books /\ boot = "running"
  BY Alone
<1>2. b \in Blocks
  BY <1>1 DEF TypeOK
<1>3. \A x : x # b => \A a : Paid(x, a)' <=> Paid(x, a)
  <2>1. CASE UNCHANGED wallet
    BY <2>1 DEF Paid
  <2>2. CASE \E S \in SUBSET Addrs : Accepted(b, S)
    BY <1>1, <1>2, <2>2, SentTo
  <2>3. QED BY <2>1, <2>2
<1>4. \A k \in Keys : k.blk # b /\ row'[k] = "pending" =>
         ~Paid(k.blk, k.addr)' /\ \E l \in Rows(k.blk, "failed")' : l.addr = k.addr
  <2> SUFFICES ASSUME NEW k \in Keys, k.blk # b, row'[k] = "pending"
               PROVE  ~Paid(k.blk, k.addr)' /\ \E l \in Rows(k.blk, "failed")' : l.addr = k.addr
    OBVIOUS
  <2>1. ~Paid(k.blk, k.addr) /\ \E l \in Rows(k.blk, "failed") : l.addr = k.addr
    BY ElsewhereUnpaid
  <2>2. Rows(k.blk, "failed")' = Rows(k.blk, "failed")
    BY DEF Rows
  <2>3. QED BY <1>3, <2>1, <2>2
<1>5. FailedIsUnpaid'
  BY <1>1, <1>3 DEF FailedIsUnpaid, Books, BooksOf
<1>6. PendingPaidLast'
  BY <1>4 DEF PendingPaidLast, BooksOf
<1>7. PendingIsWatched'
  BY <1>4 DEF PendingIsWatched, BooksOf, Working
<1>8. Reconciles'
  BY <1>1 DEF Reconciles, bootVars
<1>9. TouchedIsConfirmed'
  <2> SUFFICES ASSUME NEW x \in Blocks, x # b, Untouched(x) PROVE Untouched(x)'
    BY <1>1 DEF TouchedIsConfirmed, Books
  <2>1. \A i \in DOMAIN wallet' : wallet'[i].blk # x
    <3>1. CASE UNCHANGED wallet
      BY <3>1 DEF Untouched
    <3>2. ASSUME NEW S \in SUBSET Addrs, Accepted(b, S)
          PROVE  \A i \in DOMAIN wallet' : wallet'[i].blk # x
      <4>1. DOMAIN wallet' = 1 .. Len(wallet) + 1 /\ LastPays(b, S)' /\ Len(wallet') = Len(wallet) + 1
            /\ \A i \in DOMAIN wallet : wallet'[i] = wallet[i]
        BY <1>1, <1>2, <3>2, SentTo
      <4>2. DOMAIN wallet = 1 .. Len(wallet) /\ Len(wallet) \in Nat
        BY <1>1 DEF TypeOK
      <4>3. \A i \in DOMAIN wallet' : i \in DOMAIN wallet \/ i = Len(wallet')
        BY <4>1, <4>2
      <4>4. QED BY <4>1, <4>3 DEF LastPays, Untouched
    <3>3. QED BY <3>1, <3>2
  <2>2. QED BY <2>1 DEF Untouched
<1>10. Books'
  BY <1>5, <1>6, <1>7, <1>8, <1>9 DEF Books
<1>11. QED BY <1>10, CycleStep DEF bootVars

\* The rows of a height become pending: failed rows, and the twins beside them.
LEMMA RetryMarkKeeps ==
    ASSUME Recovers, RecoveryInv, TypeOK', NEW c \in Cycles, RetryMark(c) PROVE RecoveryInv'
<1>1. pc[c] = "retryMark" /\ TypeOK /\ Books /\ Phase(c)
  BY Alone DEF RetryMark
<1>2. UNCHANGED <<wallet, inflight, confirmed, bootVars, processing, payable>>
  BY DEF RetryMark, money, steady, chainVars, flags
<1>3. PICK b \in Blocks :
         /\ retry[c][b] # {} /\ row' = Restatus(b, "failed", "pending")
         /\ blk' = [blk EXCEPT ![c] = b] /\ batch' = [batch EXCEPT ![c] = retry[c][b]]
         /\ retry' = [retry EXCEPT ![c][b] = {}] /\ Goto(c, "retrySend")
  BY DEF RetryMark, Recovers, IsLowest
<1>4. /\ blk'[c] = b /\ batch'[c] = retry[c][b] /\ pc'[c] = "retrySend"
      /\ retry'[c][b] = {} /\ \A h \in Blocks : h # b => retry'[c][h] = retry[c][h]
  BY <1>1, <1>3 DEF Goto, TypeOK
<1>5. \A k \in Keys : row'[k] = IF k.blk = b /\ row[k] = "failed" THEN "pending" ELSE row[k]
  BY <1>3 DEF Restatus
<1>6. RetryPlan(c)
  BY <1>1 DEF Phase, RetryPhase
<1>7. /\ b \in confirmed /\ \A a \in retry[c][b] : ~Paid(b, a)
      /\ \A k \in Rows(b, "failed") : k.addr \in retry[c][b]
  BY <1>3, <1>6 DEF RetryPlan
<1>8. \A k \in Keys : k.blk = b /\ row'[k] = "pending" => k.addr \in retry[c][b]
  <2> SUFFICES ASSUME NEW k \in Keys, k.blk = b, row'[k] = "pending" PROVE k.addr \in retry[c][b]
    OBVIOUS
  <2>1. CASE row[k] = "failed"
    BY <1>7, <2>1 DEF Rows
  <2>2. CASE row[k] = "pending"
    <3>1. \E l \in Rows(b, "failed") : l.addr = k.addr
      BY <1>1, <2>2, ElsewhereUnpaid DEF Working
    <3>2. QED BY <1>7, <3>1
  <2>3. QED BY <1>5, <2>1, <2>2
<1>9. \A x, a : Paid(x, a)' <=> Paid(x, a)
  BY <1>2 DEF Paid
<1>10. BooksOf(b)'
  <2>1. \A k \in Keys : k.blk = b => row'[k] # "failed"
    BY <1>5
  <2>2. \A k \in Keys : k.blk = b /\ row'[k] = "pending" => ~Paid(b, k.addr)'
    BY <1>7, <1>8, <1>9
  <2>3. QED BY <1>4, <2>1, <2>2 DEF BooksOf, Working
<1>11. Phase(c)'
  <2>1. RetryPlan(c)'
    <3> SUFFICES ASSUME NEW h \in Blocks, retry'[c][h] # {}
                 PROVE  /\ h \in confirmed'
                        /\ \A a \in retry'[c][h] : ~Paid(h, a)'
                        /\ \A k \in Rows(h, "failed")' : k.addr \in retry'[c][h]
      BY DEF RetryPlan
    <3>1. h # b /\ retry'[c][h] = retry[c][h]
      BY <1>4
    <3>2. \A k \in Rows(h, "failed")' : k \in Rows(h, "failed")
      BY <1>5, <3>1 DEF Rows
    <3>3. QED BY <1>2, <1>6, <1>9, <3>1, <3>2 DEF RetryPlan
  <2>2. Rows(b, "failed")' = {}
    BY <1>5 DEF Rows
  <2>3. \A k \in Rows(b, "pending")' : k.addr \in batch'[c]
    BY <1>4, <1>8 DEF Rows
  <2>4. RetryPhase(c)'
    BY <1>2, <1>4, <1>7, <1>9, <2>1, <2>2, <2>3 DEF RetryPhase
  <2>5. QED BY <1>1, <1>2, <1>4, <2>4 DEF Phase, ConfirmPhase, PayPhase
<1>12. PaidAtMostOnce'
  BY <1>1, <1>2 DEF Books, PaidAtMostOnce
<1>13. \A k \in Keys : k.blk # b => row'[k] = row[k]
  BY <1>5
<1>14. QED BY <1>1, <1>2, <1>4, <1>7, <1>10, <1>11, <1>12, <1>13, OneBlockStep DEF Working, Cycle, Retrying

\* What is sent again was not sent before.
LEMMA RetrySendKeeps ==
    ASSUME Recovers, RecoveryInv, TypeOK', NEW c \in Cycles, RetrySend(c) PROVE RecoveryInv'
<1>1. pc[c] = "retrySend" /\ TypeOK /\ Books /\ Phase(c)
  BY Alone DEF RetrySend
<1>2. UNCHANGED <<row, confirmed, bootVars, processing, payable, retry, blk, batch>>
  BY DEF RetrySend, steady, chainVars, flags, plan, work
<1>3. /\ blk[c] \in confirmed /\ blk[c] \in Blocks /\ batch[c] \in SUBSET Addrs
      /\ retry[c][blk[c]] = {} /\ Rows(blk[c], "failed") = {} /\ RetryPlan(c)
      /\ \A k \in Rows(blk[c], "pending") : k.addr \in batch[c]
      /\ \A a \in batch[c] : ~Paid(blk[c], a)
  BY <1>1 DEF TypeOK, Phase, RetryPhase
<1>4. \A s, b : Rows(b, s)' = Rows(b, s)
  BY <1>2 DEF Rows
<1>5. CASE Accepted(blk[c], batch[c]) /\ Goto(c, "retrySettle")
  <2>1. pc'[c] = "retrySettle" /\ inflight' = inflight
    BY <1>1, <1>5 DEF Goto, TypeOK, Accepted
  <2>2. /\ DOMAIN wallet' = 1 .. Len(wallet) + 1 /\ Len(wallet') = Len(wallet) + 1
        /\ \A i \in DOMAIN wallet : wallet'[i] = wallet[i]
        /\ LastPays(blk[c], batch[c])'
        /\ \A x, a : Paid(x, a)' <=> Paid(x, a) \/ (x = blk[c] /\ a \in batch[c])
    BY <1>1, <1>2, <1>3, <1>5, SentTo
  <2>3. PaidAtMostOnce'
    BY <1>1, <1>3, <1>5, SentOnce DEF Books
  <2>4. BooksOf(blk[c])'
    <3>1. wallet' # <<>> /\ wallet'[Len(wallet')] = [blk |-> blk[c], addrs |-> batch[c]]
      BY <1>2, <2>2 DEF LastPays
    <3>2. QED BY <1>2, <1>3, <1>4, <2>1, <3>1 DEF BooksOf, Rows, Working
  <2>5. RetryPlan(c)'
    BY <1>2, <1>3, <1>4, <2>2 DEF RetryPlan
  <2>6. Phase(c)'
    BY <1>1, <1>2, <1>3, <1>4, <2>1, <2>2, <2>5 DEF Phase, RetryPhase, ConfirmPhase, PayPhase
  <2>7. QED BY <1>1, <1>2, <1>3, <1>5, <2>1, <2>3, <2>4, <2>6, OneBlockStep DEF Cycle, Retrying
<1>6. CASE Refused /\ Goto(c, "retryRevert")
  <2>1. pc'[c] = "retryRevert" /\ inflight' = inflight /\ wallet' = wallet
    BY <1>1, <1>6 DEF Goto, TypeOK, Refused, money
  <2>2. \A x, a : Paid(x, a)' <=> Paid(x, a)
    BY <2>1 DEF Paid
  <2>3. PaidAtMostOnce'
    BY <1>1, <2>1 DEF Books, PaidAtMostOnce
  <2>4. BooksOf(blk[c])'
    BY <1>2, <1>3, <1>4, <2>1, <2>2 DEF BooksOf, Rows, Working
  <2>5. RetryPlan(c)'
    BY <1>2, <1>3, <1>4, <2>2 DEF RetryPlan
  <2>6. Phase(c)'
    BY <1>1, <1>2, <1>3, <1>4, <2>1, <2>5 DEF Phase, RetryPhase, ConfirmPhase, PayPhase
  <2>7. QED BY <1>1, <1>2, <1>3, <2>1, <2>3, <2>4, <2>6, OneBlockStep DEF Cycle, Retrying
<1>7. QED BY <1>5, <1>6 DEF RetrySend, TimedOut, Recovers

\* The transaction pays the pending rows, and only they become sent.
LEMMA RetrySettleKeeps ==
    ASSUME Recovers, RecoveryInv, TypeOK', NEW c \in Cycles, RetrySettle(c) PROVE RecoveryInv'
<1>1. pc[c] = "retrySettle" /\ TypeOK /\ Books /\ Phase(c)
  BY Alone DEF RetrySettle
<1>2. UNCHANGED <<wallet, inflight, confirmed, bootVars, processing, payable, retry, blk>>
  BY DEF RetrySettle, money, steady, chainVars, flags, plan
<1>3. /\ row' = Restatus(blk[c], "pending", "sent") /\ pc'[c] \in {"retryMark", "select"}
  BY <1>1 DEF RetrySettle, Recovers, AfterRetry, Goto, TypeOK
<1>4. \A k \in Keys : row'[k] = IF k.blk = blk[c] /\ row[k] = "pending" THEN "sent" ELSE row[k]
  BY <1>3 DEF Restatus
<1>5. blk[c] \in confirmed /\ RetryPlan(c)
  BY <1>1 DEF Phase, RetryPhase
<1>6. \A x, a : Paid(x, a)' <=> Paid(x, a)
  BY <1>2 DEF Paid
<1>7. BooksOf(blk[c])'
  BY <1>1, <1>2, <1>4, <1>6 DEF BooksOf, Books, FailedIsUnpaid
<1>8. PaidAtMostOnce'
  BY <1>1, <1>2 DEF Books, PaidAtMostOnce
<1>9. RetryPlan(c)'
  <2>1. \A h \in Blocks : Rows(h, "failed")' \subseteq Rows(h, "failed")
    BY <1>4 DEF Rows
  <2>2. QED BY <1>2, <1>5, <1>6, <2>1 DEF RetryPlan
<1>10. Phase(c)'
  BY <1>1, <1>2, <1>3, <1>9 DEF Phase, RetryPhase, ConfirmPhase, PayPhase
<1>11. QED BY <1>1, <1>2, <1>3, <1>4, <1>5, <1>7, <1>8, <1>10, OneBlockStep DEF Cycle, Retrying

\* What goes back to failed was not paid: only a cycle about to settle it was.
LEMMA RetryRevertKeeps ==
    ASSUME Recovers, RecoveryInv, TypeOK', NEW c \in Cycles, RetryRevert(c) PROVE RecoveryInv'
<1>1. /\ pc[c] = "retryRevert" /\ TypeOK /\ Books /\ Phase(c) /\ boot = "running"
      /\ \A d \in Cycles : pc[d] # "idle" => d = c
  BY Alone DEF RetryRevert
<1>2. UNCHANGED <<wallet, inflight, confirmed, bootVars, processing, payable, blk>>
  BY DEF RetryRevert, money, steady, chainVars, flags
<1>3. /\ row' = Restatus(blk[c], "pending", "failed") /\ pc'[c] \in {"retryMark", "select"}
      /\ retry' = retry
  BY <1>1 DEF RetryRevert, Recovers, AfterRetry, Goto, TypeOK
<1>4. \A k \in Keys : row'[k] = IF k.blk = blk[c] /\ row[k] = "pending" THEN "failed" ELSE row[k]
  BY <1>3 DEF Restatus
<1>5. blk[c] \in confirmed /\ RetryPlan(c) /\ retry[c][blk[c]] = {}
  BY <1>1 DEF Phase, RetryPhase
<1>6. \A x, a : Paid(x, a)' <=> Paid(x, a)
  BY <1>2 DEF Paid
<1>7. \A k \in Keys : k.blk = blk[c] /\ row[k] = "pending" => ~Paid(k.blk, k.addr)
  BY <1>1 DEF Books, PendingPaidLast
<1>8. BooksOf(blk[c])'
  BY <1>1, <1>2, <1>4, <1>6, <1>7 DEF BooksOf, Books, FailedIsUnpaid
<1>9. PaidAtMostOnce'
  BY <1>1, <1>2 DEF Books, PaidAtMostOnce
<1>10. RetryPlan(c)'
  <2>1. \A h \in Blocks : h # blk[c] => Rows(h, "failed")' = Rows(h, "failed")
    BY <1>4 DEF Rows
  <2>2. QED BY <1>2, <1>3, <1>5, <1>6, <2>1 DEF RetryPlan
<1>11. Phase(c)'
  BY <1>1, <1>2, <1>3, <1>10 DEF Phase, RetryPhase, ConfirmPhase, PayPhase
<1>12. QED BY <1>1, <1>2, <1>3, <1>4, <1>5, <1>8, <1>9, <1>11, OneBlockStep DEF Cycle, Retrying

\* A pending row of the batch, for a block the wallet has not paid.
LEMMA InsertPendingKeeps ==
    ASSUME Recovers, RecoveryInv, TypeOK', NEW c \in Cycles, InsertPending(c) PROVE RecoveryInv'
<1>1. pc[c] = "insert" /\ TypeOK /\ Books /\ Phase(c)
  BY Alone DEF InsertPending
<1>2. UNCHANGED <<wallet, inflight, confirmed, bootVars, processing, payable, blk, batch, rest>>
  BY DEF InsertPending, money, steady, chainVars, flags, plan
<1>3. PICK a \in togo[c] :
         /\ row' = [row EXCEPT ![RowOf(c, a, "batch")] = "pending"]
         /\ togo' = [togo EXCEPT ![c] = @ \ {a}]
         /\ Goto(c, IF togo[c] = {a} THEN "send" ELSE "insert")
  BY DEF InsertPending, Recovers
<1>4. pc'[c] \in {"insert", "send"} /\ togo'[c] \subseteq togo[c]
  BY <1>1, <1>3 DEF Goto, TypeOK
<1>5. /\ blk[c] \in confirmed /\ Rows(blk[c], "failed") = {}
      /\ \A i \in DOMAIN wallet : wallet[i].blk # blk[c]
      /\ togo[c] \subseteq batch[c]
      /\ \A k \in Rows(blk[c], "pending") : k.by = c /\ k.kind = "batch" /\ k.addr \in batch[c]
  BY <1>1 DEF Phase, PayPhase
<1>6. \A k \in Keys : row'[k] = IF k = RowOf(c, a, "batch") THEN "pending" ELSE row[k]
  BY <1>1, <1>3 DEF TypeOK
<1>7. \A k \in Keys : k = RowOf(c, a, "batch") =>
         k.blk = blk[c] /\ k.by = c /\ k.kind = "batch" /\ k.addr = a
  BY DEF RowOf
<1>8. \A x, y : Paid(x, y)' <=> Paid(x, y)
  BY <1>2 DEF Paid
<1>9. \A y : ~Paid(blk[c], y)
  BY <1>5 DEF Paid
<1>10. \A k \in Keys : k.blk = blk[c] => row'[k] # "failed"
  BY <1>5, <1>6 DEF Rows
<1>11. BooksOf(blk[c])'
  BY <1>2, <1>4, <1>8, <1>9, <1>10 DEF BooksOf, Working
<1>12. PaidAtMostOnce'
  BY <1>1, <1>2 DEF Books, PaidAtMostOnce
<1>13. \A k \in Keys : k.blk # blk[c] => row'[k] = row[k]
  BY <1>6, <1>7
<1>14. \A x \in Blocks : x # blk[c] => (Untouched(x) => Untouched(x)')
  BY <1>2, <1>13 DEF Untouched
<1>15. Phase(c)'
  <2>1. Rows(blk[c], "failed")' = {}
    BY <1>2, <1>10 DEF Rows
  <2>2. \A k \in Rows(blk[c], "pending")' : k.by = c /\ k.kind = "batch" /\ k.addr \in batch[c]
    BY <1>2, <1>3, <1>5, <1>6, <1>7 DEF Rows
  <2>3. Owed(blk[c])' = Owed(blk[c])
    BY <1>2 DEF Owed
  <2>4. payable[c] \subseteq Blocks
    BY <1>1 DEF TypeOK
  <2>5. QED BY <1>1, <1>2, <1>4, <1>5, <1>14, <2>1, <2>2, <2>3, <2>4
           DEF Phase, RetryPhase, ConfirmPhase, PayPhase
<1>16. QED BY <1>1, <1>2, <1>4, <1>5, <1>11, <1>12, <1>13, <1>15, OneBlockStep DEF Cycle, Paying

\* The first transaction of a block pays all it owes.
LEMMA SendBatchKeeps ==
    ASSUME Recovers, RecoveryInv, TypeOK', NEW c \in Cycles, SendBatch(c) PROVE RecoveryInv'
<1>1. pc[c] = "send" /\ TypeOK /\ Books /\ Phase(c)
  BY Alone DEF SendBatch
<1>2. UNCHANGED <<row, confirmed, bootVars, processing, payable, retry, blk, batch, rest>>
  BY DEF SendBatch, steady, chainVars, flags, plan
<1>3. /\ blk[c] \in confirmed /\ blk[c] \in Blocks /\ batch[c] \in SUBSET Addrs
      /\ Rows(blk[c], "failed") = {} /\ batch[c] = Owed(blk[c]) /\ rest[c] = {}
      /\ \A k \in Rows(blk[c], "pending") : k.by = c /\ k.kind = "batch" /\ k.addr \in batch[c]
      /\ \A i \in DOMAIN wallet : wallet[i].blk # blk[c]
      /\ \A x \in payable[c] \ {blk[c]} : x \in confirmed /\ Untouched(x)
  BY <1>1 DEF TypeOK, Phase, PayPhase
<1>4. \A s, b : Rows(b, s)' = Rows(b, s)
  BY <1>2 DEF Rows
<1>5. \A a : ~Paid(blk[c], a)
  BY <1>3 DEF Paid
<1>6. Owed(blk[c])' = Owed(blk[c])
  BY <1>2 DEF Owed
<1>7. CASE /\ Accepted(blk[c], batch[c]) /\ Goto(c, "mark")
           /\ togo' = [togo EXCEPT ![c] = batch[c]]
  <2>1. pc'[c] = "mark" /\ inflight' = inflight /\ togo'[c] = batch[c]
    BY <1>1, <1>7 DEF Goto, TypeOK, Accepted
  <2>2. /\ DOMAIN wallet' = 1 .. Len(wallet) + 1 /\ Len(wallet') = Len(wallet) + 1
        /\ \A i \in DOMAIN wallet : wallet'[i] = wallet[i]
        /\ LastPays(blk[c], batch[c])'
    BY <1>1, <1>2, <1>3, <1>7, SentTo
  <2>3. PaidAtMostOnce'
    BY <1>1, <1>3, <1>5, <1>7, SentOnce DEF Books
  <2>4. wallet' # <<>> /\ wallet'[Len(wallet')] = [blk |-> blk[c], addrs |-> batch[c]]
    BY <1>2, <2>2 DEF LastPays
  <2>5. BooksOf(blk[c])'
    BY <1>2, <1>3, <1>4, <2>1, <2>4 DEF BooksOf, Rows, Working
  <2>6. \A x \in payable[c] \ {blk[c]} : Untouched(x)'
    <3> SUFFICES ASSUME NEW x \in payable[c] \ {blk[c]} PROVE Untouched(x)'
      OBVIOUS
    <3>1. DOMAIN wallet = 1 .. Len(wallet) /\ Len(wallet) \in Nat
      BY <1>1 DEF TypeOK
    <3>2. \A i \in DOMAIN wallet' : i \in DOMAIN wallet \/ i = Len(wallet')
      BY <2>2, <3>1
    <3>3. \A i \in DOMAIN wallet' : wallet'[i].blk # x
      BY <1>3, <2>2, <2>4, <3>2 DEF Untouched
    <3>4. QED BY <1>2, <1>3, <3>3 DEF Untouched
  <2>7. PayPhase(c)'
    BY <1>2, <1>3, <1>4, <1>6, <2>1, <2>2, <2>6 DEF PayPhase
  <2>8. Phase(c)'
    BY <2>1, <2>7 DEF Phase, RetryPhase, ConfirmPhase
  <2>9. QED BY <1>1, <1>2, <1>3, <1>7, <2>1, <2>3, <2>5, <2>8, OneBlockStep DEF Cycle, Paying
<1>8. CASE Refused /\ ToCatch(c)
  <2>1. pc'[c] = "catch" /\ inflight' = inflight /\ wallet' = wallet /\ togo'[c] = Owed(blk[c])
    BY <1>1, <1>8 DEF Goto, TypeOK, Refused, money, ToCatch
  <2>2. \A x, a : Paid(x, a)' <=> Paid(x, a)
    BY <2>1 DEF Paid
  <2>3. PaidAtMostOnce'
    BY <1>1, <2>1 DEF Books, PaidAtMostOnce
  <2>4. BooksOf(blk[c])'
    BY <1>2, <1>3, <1>5, <2>1, <2>2, <1>4 DEF BooksOf, Rows, Working
  <2>5. \A x : Untouched(x)' <=> Untouched(x)
    BY <1>2, <2>1 DEF Untouched
  <2>6. PayPhase(c)'
    BY <1>2, <1>3, <1>4, <1>6, <2>1, <2>5 DEF PayPhase
  <2>7. Phase(c)'
    BY <2>1, <2>6 DEF Phase, RetryPhase, ConfirmPhase
  <2>8. QED BY <1>1, <1>2, <1>3, <2>1, <2>3, <2>4, <2>7, OneBlockStep DEF Cycle, Paying
<1>9. QED BY <1>7, <1>8 DEF SendBatch, TimedOut, Recovers

\* Row by row, and the rows not yet marked are those the loop has left.
LEMMA MarkSentKeeps ==
    ASSUME Recovers, RecoveryInv, TypeOK', NEW c \in Cycles, MarkSent(c) PROVE RecoveryInv'
<1>1. pc[c] = "mark" /\ TypeOK /\ Books /\ Phase(c)
  BY Alone DEF MarkSent
<1>2. UNCHANGED <<wallet, inflight, confirmed, bootVars, processing, payable, blk, batch, rest>>
  BY DEF MarkSent, money, steady, chainVars, flags, plan
<1>3. PICK a \in togo[c] :
         /\ row' = [row EXCEPT ![RowOf(c, a, "batch")] = "sent"]
         /\ togo' = [togo EXCEPT ![c] = IF @ = {a} THEN batch[c] ELSE @ \ {a}]
         /\ Goto(c, IF togo[c] = {a} THEN "credit" ELSE "mark")
  BY DEF MarkSent, Recovers
<1>4. \/ pc'[c] = "credit" /\ togo[c] = {a}
      \/ pc'[c] = "mark" /\ togo'[c] = togo[c] \ {a}
  BY <1>1, <1>3 DEF Goto, TypeOK
<1>5. /\ blk[c] \in confirmed /\ Rows(blk[c], "failed") = {} /\ LastPays(blk[c], batch[c])
      /\ \A k \in Rows(blk[c], "pending") :
            k.by = c /\ k.kind = "batch" /\ k.addr \in batch[c] /\ k.addr \in togo[c]
  BY <1>1 DEF Phase, PayPhase
<1>6. \A k \in Keys : row'[k] = IF k = RowOf(c, a, "batch") THEN "sent" ELSE row[k]
  BY <1>1, <1>3 DEF TypeOK
<1>7. \A k \in Keys :
         k = RowOf(c, a, "batch") <=> k.blk = blk[c] /\ k.by = c /\ k.kind = "batch" /\ k.addr = a
  BY DEF RowOf, Keys
<1>8. \A k \in Keys : k.blk = blk[c] /\ row'[k] = "pending" =>
         /\ k.by = c /\ k.kind = "batch" /\ k.addr \in batch[c] /\ k.addr \in togo[c] \ {a}
  BY <1>5, <1>6, <1>7 DEF Rows
<1>9. \A x, y : Paid(x, y)' <=> Paid(x, y)
  BY <1>2 DEF Paid
<1>10. \A k \in Keys : k.blk = blk[c] => row'[k] # "failed"
  BY <1>5, <1>6 DEF Rows
<1>11. \A k \in Keys : k.blk = blk[c] /\ row'[k] = "pending" => pc'[c] = "mark"
  BY <1>4, <1>8
<1>12. BooksOf(blk[c])'
  BY <1>2, <1>5, <1>8, <1>10, <1>11 DEF BooksOf, Working, LastPays, Rows
<1>13. PaidAtMostOnce'
  BY <1>1, <1>2 DEF Books, PaidAtMostOnce
<1>14. \A k \in Keys : k.blk # blk[c] => row'[k] = row[k]
  BY <1>6, <1>7
<1>15. \A x \in Blocks : x # blk[c] => (Untouched(x) => Untouched(x)')
  BY <1>2, <1>14 DEF Untouched
<1>16. Phase(c)'
  <2>1. Rows(blk[c], "failed")' = {}
    BY <1>2, <1>10 DEF Rows
  <2>2. pc'[c] = "credit" => Rows(blk[c], "pending")' = {}
    BY <1>2, <1>4, <1>8, <1>11 DEF Rows
  <2>3. \A k \in Rows(blk[c], "pending")' :
           k.by = c /\ k.kind = "batch" /\ k.addr \in batch[c] /\ k.addr \in togo'[c]
    BY <1>2, <1>4, <1>8, <1>11 DEF Rows
  <2>4. Owed(blk[c])' = Owed(blk[c]) /\ (LastPays(blk[c], batch[c]) => LastPays(blk[c], batch[c])')
    BY <1>2 DEF Owed, LastPays
  <2>5. payable[c] \subseteq Blocks
    BY <1>1 DEF TypeOK
  <2>6. QED BY <1>1, <1>2, <1>4, <1>5, <1>15, <2>1, <2>2, <2>3, <2>4, <2>5
           DEF Phase, RetryPhase, ConfirmPhase, PayPhase
<1>17. QED BY <1>1, <1>2, <1>4, <1>5, <1>12, <1>13, <1>14, <1>16, OneBlockStep DEF Cycle, Paying

\* Nothing of the block was paid, so every recipient may be retried.
LEMMA InsertFailedKeeps ==
    ASSUME Recovers, RecoveryInv, TypeOK', NEW c \in Cycles, InsertFailed(c) PROVE RecoveryInv'
<1>1. pc[c] = "catch" /\ TypeOK /\ Books /\ Phase(c)
  BY Alone DEF InsertFailed
<1>2. UNCHANGED <<wallet, inflight, confirmed, bootVars, processing, blk, batch, rest>>
  BY DEF InsertFailed, money, steady, chainVars, flags
<1>3. PICK a \in togo[c] :
         /\ row' = [row EXCEPT ![RowOf(c, a, "catch")] = "failed"]
         /\ togo' = [togo EXCEPT ![c] = @ \ {a}]
         /\ IF togo[c] = {a} THEN AfterBlock(c) ELSE UNCHANGED <<pc, payable>>
  BY DEF InsertFailed, Recovers
<1>4. \/ /\ togo[c] = {a} /\ pc'[c] \in {"end", "shares"} /\ payable'[c] = payable[c] \ {blk[c]}
      \/ /\ pc'[c] = "catch" /\ togo'[c] = togo[c] \ {a} /\ payable'[c] = payable[c]
  BY <1>1, <1>3 DEF Goto, AfterBlock, TypeOK
<1>5. /\ blk[c] \in confirmed /\ \A i \in DOMAIN wallet : wallet[i].blk # blk[c]
      /\ \A k \in Rows(blk[c], "pending") :
            k.addr \in togo[c] \/ \E l \in Rows(blk[c], "failed") : l.addr = k.addr
  BY <1>1 DEF Phase, PayPhase
<1>6. RowOf(c, a, "catch") \in Keys
  BY <1>1, RowOfType DEF TypeOK
<1>7. /\ \A k \in Keys : row'[k] = IF k = RowOf(c, a, "catch") THEN "failed" ELSE row[k]
      /\ RowOf(c, a, "catch").blk = blk[c] /\ RowOf(c, a, "catch").addr = a
  BY <1>1, <1>3 DEF TypeOK, RowOf
<1>8. \A x, y : Paid(x, y)' <=> Paid(x, y)
  BY <1>2 DEF Paid
<1>9. \A y : ~Paid(blk[c], y)
  BY <1>5 DEF Paid
<1>10. \A k \in Keys : k.blk = blk[c] /\ row'[k] = "pending" =>
          k.addr \in togo[c] \ {a} \/ \E l \in Keys : l.blk = blk[c] /\ row'[l] = "failed" /\ l.addr = k.addr
  <2> SUFFICES ASSUME NEW k \in Keys, k.blk = blk[c], row'[k] = "pending", k.addr \notin togo[c] \ {a}
               PROVE  \E l \in Keys : l.blk = blk[c] /\ row'[l] = "failed" /\ l.addr = k.addr
    OBVIOUS
  <2>1. k \in Rows(blk[c], "pending")
    BY <1>7 DEF Rows
  <2>2. CASE k.addr = a
    BY <1>6, <1>7, <2>2
  <2>3. CASE \E l \in Rows(blk[c], "failed") : l.addr = k.addr
    BY <1>7, <2>3 DEF Rows
  <2>4. QED BY <1>5, <2>1, <2>2, <2>3
<1>11. BooksOf(blk[c])'
  <2>1. \A k \in Keys : k.blk = blk[c] /\ row'[k] = "pending" =>
           (\E l \in Rows(blk[c], "failed")' : l.addr = k.addr) \/ pc'[c] = "catch"
    BY <1>2, <1>4, <1>10 DEF Rows
  <2>2. QED BY <1>2, <1>8, <1>9, <2>1 DEF BooksOf, Working
<1>12. PaidAtMostOnce'
  BY <1>1, <1>2 DEF Books, PaidAtMostOnce
<1>13. \A k \in Keys : k.blk # blk[c] => row'[k] = row[k]
  BY <1>7
<1>14. \A x \in Blocks : x # blk[c] => (Untouched(x) => Untouched(x)')
  BY <1>2, <1>13 DEF Untouched
<1>15. Phase(c)'
  <2>1. \A x \in payable[c] \ {blk[c]} : x \in confirmed /\ Untouched(x)'
    BY <1>1, <1>14 DEF TypeOK, Phase, PayPhase
  <2>2. CASE pc'[c] \in {"end", "shares"} /\ payable'[c] = payable[c] \ {blk[c]}
    BY <1>2, <2>1, <2>2 DEF Phase, RetryPhase, ConfirmPhase, PayPhase
  <2>3. CASE pc'[c] = "catch" /\ togo'[c] = togo[c] \ {a} /\ payable'[c] = payable[c]
    <3>1. \A k \in Rows(blk[c], "pending")' :
             k.addr \in togo'[c] \/ \E l \in Rows(blk[c], "failed")' : l.addr = k.addr
      BY <1>2, <1>10, <2>3 DEF Rows
    <3>2. rest[c] = {} /\ batch[c] = Owed(blk[c]) /\ Owed(blk[c])' = Owed(blk[c])
      BY <1>1, <1>2 DEF Phase, PayPhase, Owed
    <3>3. QED BY <1>2, <1>5, <2>1, <2>3, <3>1, <3>2 DEF Phase, RetryPhase, ConfirmPhase, PayPhase
  <2>4. QED BY <1>4, <2>2, <2>3
<1>16. QED BY <1>1, <1>2, <1>4, <1>5, <1>11, <1>12, <1>13, <1>15, OneBlockStep DEF Cycle, Paying

LEMMA CycleKeeps ==
    ASSUME Recovers, RecoveryInv, TypeOK', NEW c \in Cycles, Cycle(c) PROVE RecoveryInv'
BY StartCycleKeeps, RetrySelectKeeps, RetryMarkKeeps, RetrySendKeeps, RetrySettleKeeps,
   RetryRevertKeeps, SelectBlocksKeeps, VerifyBlockKeeps, ConfirmBlockKeeps, OrphanBlockKeeps,
   CalculateSharesKeeps, AccumulateKeeps, NextBatchKeeps, InsertPendingKeeps, SendBatchKeeps,
   MarkSentKeeps, EntriesKeep, InsertFailedKeeps, EndCycleKeeps
DEF Cycle, Retrying, Confirming, Paying

----------------------------------------------------------------------------
(* The environment and the start *)

\* The chain moves, or nothing does: the invariant does not look at the chain.
LEMMA ChainKeeps ==
    ASSUME RecoveryInv, TypeOK',
           UNCHANGED <<confirmed, row, money, bootVars, processing, cycleVars>>
    PROVE  RecoveryInv'
<1>1. UNCHANGED <<row, wallet, inflight, confirmed, boot, groups, seen, processing, pc, retry, todo,
                  payable, blk, rest, batch, togo>>
  BY DEF money, bootVars, cycleVars, plan, work
<1>2. /\ \A b, a : Paid(b, a)' <=> Paid(b, a)
      /\ \A b, s : Rows(b, s)' = Rows(b, s)
      /\ \A b : Untouched(b)' <=> Untouched(b)
      /\ \A b, S : LastPays(b, S)' <=> LastPays(b, S)
  BY <1>1, SameBooks
<1>3. Locked' /\ PaidAtMostOnce' /\ FailedIsUnpaid' /\ Reconciles' /\ TouchedIsConfirmed'
  BY <1>1, <1>2 DEF RecoveryInv, Locked, OneCycleAtATime, Books, PaidAtMostOnce, FailedIsUnpaid,
                    Reconciles, TouchedIsConfirmed
<1>4. PendingPaidLast' /\ PendingIsWatched'
  BY <1>1, <1>2 DEF RecoveryInv, Books, PendingPaidLast, PendingIsWatched
<1>5. ASSUME NEW c \in Cycles PROVE Phase(c)'
  <2>1. Phase(c) /\ Owed(blk[c])' = Owed(blk[c])
    BY <1>1 DEF RecoveryInv, Owed
  <2>2. RetryPhase(c)'
    BY <1>1, <1>2, <2>1 DEF Phase, RetryPhase, RetryPlan
  <2>3. ConfirmPhase(c)'
    BY <1>1, <1>2, <2>1 DEF Phase, ConfirmPhase
  <2>4. PayPhase(c)'
    BY <1>1, <1>2, <2>1 DEF Phase, PayPhase
  <2>5. QED BY <2>2, <2>3, <2>4 DEF Phase
<1>6. QED BY <1>3, <1>4, <1>5 DEF RecoveryInv, Books

\* The process dies: what is left is in the tables and the wallet.
LEMMA CrashKeeps == ASSUME Recovers, RecoveryInv, TypeOK', Crash PROVE RecoveryInv'
<1>1. /\ boot' = "down" /\ UNCHANGED <<row, wallet, confirmed>>
      /\ pc' = [c \in Cycles |-> "idle"] /\ payable' = Nothing
  BY DEF Crash, chainVars
<1>2. inflight' = {}
  BY DEF Crash, Recovers, RecoveryInv, Locked
<1>3. \A c \in Cycles : pc'[c] = "idle" /\ payable'[c] = {}
  BY <1>1 DEF Nothing
<1>4. Locked'
  BY <1>2, <1>3 DEF Locked, OneCycleAtATime
<1>5. /\ \A b, a : Paid(b, a)' <=> Paid(b, a)
      /\ \A b, s : Rows(b, s)' = Rows(b, s)
      /\ \A b : Untouched(b)' <=> Untouched(b)
  BY <1>1, SameBooks
<1>6. PaidAtMostOnce' /\ FailedIsUnpaid' /\ TouchedIsConfirmed'
  BY <1>1, <1>5 DEF RecoveryInv, Books, PaidAtMostOnce, FailedIsUnpaid, TouchedIsConfirmed
<1>7. PendingPaidLast' /\ PendingIsWatched' /\ Reconciles'
  BY <1>1, <1>5 DEF RecoveryInv, Books, PendingPaidLast, PendingIsWatched, Reconciles
<1>8. \A c \in Cycles : Phase(c)'
  BY <1>3 DEF Phase, RetryPhase, ConfirmPhase, PayPhase
<1>9. QED BY <1>4, <1>6, <1>7, <1>8 DEF RecoveryInv, Books

\* Until the process runs no cycle does.
LEMMA Stopped ==
    ASSUME RecoveryInv, boot # "running"
    PROVE  /\ TypeOK /\ Books /\ inflight = {}
           /\ \A c \in Cycles : pc[c] = "idle" /\ payable[c] = {}
BY DEF RecoveryInv, Locked, Phase, ConfirmPhase

\* It is enough to look at the books.
LEMMA BootStep ==
    ASSUME RecoveryInv, TypeOK', boot # "running",
           UNCHANGED <<chainVars, money, flags, cycleVars>>, Books'
    PROVE  RecoveryInv'
<1>1. \A c \in Cycles : pc'[c] = "idle" /\ payable'[c] = {}
  BY Stopped DEF cycleVars, plan
<1>2. \A c \in Cycles : Phase(c)'
  BY <1>1 DEF Phase, RetryPhase, ConfirmPhase, PayPhase
<1>3. Locked'
  BY <1>1, Stopped DEF Locked, OneCycleAtATime, money
<1>4. QED BY <1>2, <1>3 DEF RecoveryInv

\* Selecting the pending rows and listing the history only reads.
LEMMA ReadsKeep ==
    ASSUME Recovers, RecoveryInv, TypeOK', Start \/ SelectPending \/ ListTransactions
    PROVE  RecoveryInv'
<1>1. boot \in {"down", "query", "list"} /\ UNCHANGED <<chainVars, money, flags, cycleVars, row>>
  BY DEF Start, SelectPending, ListTransactions, Recovers
<1>2. Books /\ Reconciles
  BY <1>1, Stopped DEF Books
<1>3. Reconciles'
  BY <1>1, <1>2 DEF Start, SelectPending, ListTransactions, Recovers, Reconciles, money
<1>4. boot' = "running" => \A k \in Keys : row'[k] # "pending"
  BY <1>1 DEF Start, SelectPending, ListTransactions, Recovers
<1>5. /\ \A b, a : Paid(b, a)' <=> Paid(b, a)
      /\ \A b, s : Rows(b, s)' = Rows(b, s)
      /\ \A b : Untouched(b)' <=> Untouched(b)
      /\ UNCHANGED <<row, wallet, confirmed>>
  BY <1>1, SameBooks DEF money, chainVars
<1>6. PaidAtMostOnce' /\ FailedIsUnpaid' /\ TouchedIsConfirmed'
  BY <1>2, <1>5 DEF Books, PaidAtMostOnce, FailedIsUnpaid, TouchedIsConfirmed
<1>7. PendingPaidLast' /\ PendingIsWatched'
  BY <1>2, <1>4, <1>5 DEF Books, PendingPaidLast, PendingIsWatched
<1>8. QED BY <1>1, <1>3, <1>6, <1>7, BootStep DEF Books

\* A group nobody paid finds no transaction, or the newest one that paid it.
LEMMA ReconcileKeeps ==
    ASSUME RecoveryInv, TypeOK', NEW b \in Blocks, ReconcileGroup(b) PROVE RecoveryInv'
<1> DEFINE S == {k.addr : k \in {l \in groups : l.blk = b}}
<1>1. boot = "match" /\ UNCHANGED <<chainVars, money, flags, cycleVars>>
  BY DEF ReconcileGroup
<1>2. /\ TypeOK /\ PaidAtMostOnce /\ FailedIsUnpaid /\ PendingPaidLast /\ TouchedIsConfirmed
      /\ seen = Len(wallet) /\ groups = {k \in Keys : row[k] = "pending"}
  BY <1>1, Stopped DEF Books, Reconciles
<1>3. /\ \A k \in Keys : k.blk # b \/ row[k] # "pending" => row'[k] = row[k]
      /\ \A k \in Keys : k.blk = b /\ row[k] = "pending" => row'[k] \in {"sent", "failed"}
      /\ (\E i \in DOMAIN wallet : Matches(i, b, S)) =>
            \A k \in Keys : k.blk = b /\ row[k] = "pending" => row'[k] = "sent"
      /\ groups' = {k \in groups : k.blk # b}
      /\ \/ boot' = "running" /\ \A k \in groups : k.blk = b
         \/ boot' = "match" /\ seen' = seen
  BY <1>1, <1>2 DEF ReconcileGroup
<1>4. \A k \in Keys : row'[k] = "pending" <=> row[k] = "pending" /\ k.blk # b
  BY <1>3
<1>5. \A x, a : Paid(x, a)' <=> Paid(x, a)
  BY <1>1 DEF Paid, money
<1>6. \A k \in Keys : k.blk = b /\ row[k] = "pending" /\ Paid(b, k.addr) => row'[k] = "sent"
  <2> SUFFICES ASSUME NEW k \in Keys, k.blk = b, row[k] = "pending", Paid(b, k.addr)
               PROVE  row'[k] = "sent"
    OBVIOUS
  <2>1. /\ wallet # <<>> /\ wallet[Len(wallet)].blk = b
        /\ \A l \in Rows(b, "pending") : l.addr \in wallet[Len(wallet)].addrs
    BY <1>2 DEF PendingPaidLast
  <2>2. S \subseteq wallet[Len(wallet)].addrs
    BY <1>2, <2>1 DEF Rows
  <2>3. Len(wallet) \in DOMAIN wallet /\ Len(wallet) \in Nat
    BY <1>2, <2>1 DEF TypeOK
  <2>4. Matches(Len(wallet), b, S)
    BY <1>2, <2>1, <2>2, <2>3, PaymentAssumption DEF Matches
  <2>5. QED BY <1>3, <2>3, <2>4
<1>7. FailedIsUnpaid'
  BY <1>2, <1>3, <1>5, <1>6 DEF FailedIsUnpaid
<1>8. boot' = "running" => \A k \in Keys : row'[k] # "pending"
  BY <1>2, <1>3, <1>4
<1>9. \A x : x # b => Rows(x, "pending")' = Rows(x, "pending")
  BY <1>4 DEF Rows
<1>10. PendingPaidLast'
  BY <1>1, <1>2, <1>4, <1>5, <1>8, <1>9 DEF PendingPaidLast, money
<1>11. PendingIsWatched'
  BY <1>8 DEF PendingIsWatched
<1>12. Reconciles'
  BY <1>1, <1>2, <1>3, <1>4 DEF Reconciles, money
<1>13. TouchedIsConfirmed'
  BY <1>1, <1>2, <1>3 DEF TouchedIsConfirmed, Untouched, money, chainVars
<1>14. PaidAtMostOnce'
  BY <1>1, <1>2 DEF PaidAtMostOnce, money
<1>15. QED BY <1>1, <1>7, <1>10, <1>11, <1>12, <1>13, <1>14, BootStep DEF Books

----------------------------------------------------------------------------
(* Together *)

LEMMA RecoveryInit == Init => RecoveryInv
<1> SUFFICES ASSUME Init PROVE RecoveryInv
  OBVIOUS
<1>1. TypeOK
  BY InitType
<1>2. \A c \in Cycles : pc[c] = "idle" /\ payable[c] = {}
  BY DEF Init, Nothing
<1>3. (\A k \in Keys : row[k] = "none") /\ inflight = {} /\ boot = "down"
  BY DEF Init
<1>4. DOMAIN wallet = {}
  BY DEF Init
<1>5. Locked
  BY <1>2, <1>3 DEF Locked, OneCycleAtATime
<1>6. Books
  <2>1. PaidAtMostOnce
    BY <1>4 DEF PaidAtMostOnce
  <2>2. FailedIsUnpaid /\ PendingPaidLast /\ PendingIsWatched
    BY <1>3 DEF FailedIsUnpaid, PendingPaidLast, PendingIsWatched
  <2>3. Reconciles /\ TouchedIsConfirmed
    BY <1>3, <1>4 DEF Reconciles, TouchedIsConfirmed, Untouched
  <2>4. QED BY <2>1, <2>2, <2>3 DEF Books
<1>7. \A c \in Cycles : Phase(c)
  BY <1>2, IdlePhase
<1>8. QED BY <1>1, <1>5, <1>6, <1>7 DEF RecoveryInv

LEMMA RecoveryStep == ASSUME Recovers PROVE RecoveryInv /\ [Next]_vars => RecoveryInv'
<1> SUFFICES ASSUME RecoveryInv, [Next]_vars PROVE RecoveryInv'
  OBVIOUS
<1>1. TypeOK'
  BY TypeStep DEF RecoveryInv
<1>2. ASSUME NEW b \in Blocks, Mature(b) \/ Reorg(b) PROVE RecoveryInv'
  BY <1>1, <1>2, ChainKeeps DEF Mature, Reorg, flags
<1>3. ASSUME NEW tx \in inflight PROVE RecoveryInv'
  BY <1>3 DEF RecoveryInv, Locked
<1>4. CASE Crash
  BY <1>1, <1>4, CrashKeeps
<1>5. ASSUME NEW c \in Cycles, TimerFires(c) PROVE RecoveryInv'
  BY <1>5 DEF TimerFires, Recovers
<1>6. CASE Boot
  BY <1>1, <1>6, ReadsKeep, ReconcileKeeps DEF Boot
<1>7. ASSUME NEW c \in Cycles, Cycle(c) PROVE RecoveryInv'
  BY <1>1, <1>7, CycleKeeps
<1>8. CASE UNCHANGED vars
  BY <1>1, <1>8, ChainKeeps DEF vars, chainVars, flags
<1>9. QED BY <1>2, <1>3, <1>4, <1>5, <1>6, <1>7, <1>8 DEF Next, Environment

\* Whatever sequence of refusals, crashes, restarts and forks the engine goes
\* through, with any number of blocks, addresses and restarts, no address is
\* paid twice for a block: _executeBatchPayment, _retryFailedPayments and
\* _reconcilePending keep one another from repeating a payment.  The condition
\* Recovers is needed: with more recipients than one batch, a lost answer, a
\* failed statement or a cycle longer than its timer, TLC pays someone twice.
THEOREM NoDoublePayment == ASSUME Recovers PROVE Spec => []PaidAtMostOnce
<1>1. Init => RecoveryInv
  BY RecoveryInit
<1>2. RecoveryInv /\ [Next]_vars => RecoveryInv'
  BY RecoveryStep
<1>3. RecoveryInv => PaidAtMostOnce
  BY DEF RecoveryInv, Books
<1>4. QED BY <1>1, <1>2, <1>3, PTL DEF Spec

\* While no cycle works, a pending row has its failed twin.
LEMMA CalmIsRetried == RecoveryInv => PendingIsRetried
<1> SUFFICES ASSUME RecoveryInv, boot = "running", \A c \in Cycles : pc[c] = "idle",
                    NEW k \in Keys, row[k] = "pending"
             PROVE  \E l \in Keys : l.blk = k.blk /\ l.addr = k.addr /\ row[l] = "failed"
  BY DEF PendingIsRetried
<1>1. \E l \in Rows(k.blk, "failed") : l.addr = k.addr
  BY CalmBooks DEF Working
<1>2. QED BY <1>1 DEF Rows

\* Under the same faults no payment is forgotten: when no cycle runs, a pending
\* row has the failed twin that _retryFailedPayments looks for.
THEOREM NothingForgotten == ASSUME Recovers PROVE Spec => []PendingIsRetried
<1>1. Init => RecoveryInv
  BY RecoveryInit
<1>2. RecoveryInv /\ [Next]_vars => RecoveryInv'
  BY RecoveryStep
<1>3. RecoveryInv => PendingIsRetried
  BY CalmIsRetried
<1>4. QED BY <1>1, <1>2, <1>3, PTL DEF Spec

----------------------------------------------------------------------------
(***************************************************************************)
(* The payout engine implements Settlement, for the faults it recovers     *)
(* from and where no two blocks owe an address the same amount: the match  *)
(* at startup tells blocks apart by amounts alone.                         *)
(***************************************************************************)

Distinct ==
    \A b, d \in Blocks, a \in Addrs :
        a \in Owed(b) /\ Amount[d][a] = Amount[b][a] => b = d

\* Rows are for addresses that are owed, and those called sent were paid.
RowsHonest ==
    \A k \in Keys :
        /\ row[k] = "sent" => Paid(k.blk, k.addr)
        /\ row[k] # "none" => k.addr \in Owed(k.blk)

\* What a cycle is about to send or to write down is owed.
PlanHonest(c) ==
    /\ \A h \in Blocks : retry[c][h] \subseteq Owed(h)
    /\ pc[c] = "retrySend" => batch[c] # {} /\ batch[c] \subseteq Owed(blk[c])
    /\ pc[c] \in {"insert", "send"} => batch[c] # {}
    /\ pc[c] = "catch" => togo[c] \subseteq Owed(blk[c])
    /\ pc[c] = "mark" => togo[c] \subseteq batch[c]

HonestInv == RecoveryInv /\ RowsHonest /\ \A c \in Cycles : PlanHonest(c)

SentStays == \A k \in Keys : row[k] = "sent" => row'[k] = "sent"

----------------------------------------------------------------------------
(* A cycle's plan *)

\* A step to a label that promises nothing, with the retries unchanged.
LEMMA PlanIdle ==
    ASSUME NEW c \in Cycles, PlanHonest(c), \A h \in Blocks : retry'[c][h] \subseteq retry[c][h],
           pc'[c] \notin {"retrySend", "insert", "send", "catch", "mark"}
    PROVE  PlanHonest(c)'
BY DEF PlanHonest, Owed

LEMMA RetryPlanned ==
    ASSUME Recovers, HonestInv, TypeOK', NEW c \in Cycles, Retrying(c) PROVE PlanHonest(c)'
<1>1. TypeOK /\ PlanHonest(c) /\ RowsHonest
  BY DEF HonestInv, RecoveryInv
<1>2. CASE RetrySelect(c)
  <2>1. PICK S \in SUBSET FailedRows :
           /\ retry' = [retry EXCEPT ![c] = [b \in Blocks |-> {k.addr : k \in {l \in S : l.blk = b}}]]
           /\ AfterRetry(c, [b \in Blocks |-> {k.addr : k \in {l \in S : l.blk = b}}])
    BY <1>2 DEF RetrySelect, Recovers
  <2>2. pc'[c] \in {"retryMark", "select"}
    BY <1>1, <2>1 DEF AfterRetry, Goto, TypeOK
  <2>3. \A h \in Blocks : retry'[c][h] = {k.addr : k \in {l \in S : l.blk = h}}
    BY <1>1, <2>1 DEF TypeOK
  <2>4. \A h \in Blocks : retry'[c][h] \subseteq Owed(h)
    BY <1>1, <2>3 DEF RowsHonest, FailedRows
  <2>5. QED BY <2>2, <2>4 DEF PlanHonest, Owed
<1>3. CASE RetryMark(c)
  <2>1. PICK b \in Blocks :
           /\ retry[c][b] # {} /\ blk' = [blk EXCEPT ![c] = b]
           /\ batch' = [batch EXCEPT ![c] = retry[c][b]]
           /\ retry' = [retry EXCEPT ![c][b] = {}] /\ Goto(c, "retrySend")
    BY <1>3 DEF RetryMark, Recovers, IsLowest
  <2>2. /\ pc'[c] = "retrySend" /\ blk'[c] = b /\ batch'[c] = retry[c][b]
        /\ \A h \in Blocks : retry'[c][h] \subseteq retry[c][h]
    BY <1>1, <2>1 DEF Goto, TypeOK
  <2>3. QED BY <1>1, <2>1, <2>2 DEF PlanHonest, Owed
<1>4. CASE RetrySend(c) \/ RetrySettle(c) \/ RetryRevert(c)
  <2>1. retry' = retry
    BY <1>4 DEF RetrySend, RetrySettle, RetryRevert, Recovers, plan
  <2>2. pc'[c] \in {"retryMark", "retrySettle", "retryRevert", "select"}
    BY <1>1, <1>4 DEF RetrySend, RetrySettle, RetryRevert, AfterRetry, Goto, TypeOK
  <2>3. QED BY <1>1, <2>1, <2>2, PlanIdle
<1>5. QED BY <1>2, <1>3, <1>4 DEF Retrying

LEMMA PayPlanned ==
    ASSUME Recovers, HonestInv, TypeOK', NEW c \in Cycles, Paying(c) PROVE PlanHonest(c)'
<1>1. TypeOK /\ PlanHonest(c)
  BY DEF HonestInv, RecoveryInv
<1>2. retry' = retry
  BY DEF Paying, CalculateShares, Accumulate, NextBatch, InsertPending, SendBatch, MarkSent,
         CreditMiner, RecordLedger, InsertFailed, plan
<1>3. CASE CalculateShares(c) \/ Accumulate(c) \/ CreditMiner(c) \/ RecordLedger(c)
  <2>1. pc'[c] \notin {"retrySend", "insert", "send", "catch", "mark"}
    BY <1>1, <1>3 DEF CalculateShares, Accumulate, CreditMiner, RecordLedger, Goto, TypeOK, Recovers
  <2>2. QED BY <1>1, <1>2, <2>1, PlanIdle
<1>4. CASE NextBatch(c)
  <2>1. CASE AfterBlock(c)
    <3>1. pc'[c] \in {"end", "shares"}
      BY <1>1, <2>1 DEF AfterBlock, Goto, TypeOK
    <3>2. QED BY <1>1, <1>2, <3>1, PlanIdle
  <2>2. ASSUME NEW S \in SUBSET rest[c], S # {}, batch' = [batch EXCEPT ![c] = S], Goto(c, "insert")
        PROVE  PlanHonest(c)'
    <3>1. pc'[c] = "insert" /\ batch'[c] = S
      BY <1>1, <2>2 DEF Goto, TypeOK
    <3>2. QED BY <1>1, <1>2, <2>2, <3>1 DEF PlanHonest, Owed
  <2>3. QED BY <1>4, <2>1, <2>2 DEF NextBatch
<1>5. CASE InsertPending(c)
  <2>1. pc'[c] \in {"insert", "send"} /\ pc[c] = "insert" /\ batch' = batch
    BY <1>1, <1>5 DEF InsertPending, Goto, TypeOK, Recovers
  <2>2. QED BY <1>1, <1>2, <2>1 DEF PlanHonest, Owed
<1>6. CASE SendBatch(c)
  <2>1. UNCHANGED <<blk, batch>>
    BY <1>6 DEF SendBatch
  <2>2. CASE Goto(c, "mark") /\ togo' = [togo EXCEPT ![c] = batch[c]]
    <3>1. pc'[c] = "mark" /\ togo'[c] = batch[c]
      BY <1>1, <2>2 DEF Goto, TypeOK
    <3>2. QED BY <1>1, <1>2, <2>1, <3>1 DEF PlanHonest, Owed
  <2>3. CASE ToCatch(c)
    <3>1. pc'[c] = "catch" /\ togo'[c] = Owed(blk[c])
      BY <1>1, <2>3 DEF Goto, TypeOK, ToCatch
    <3>2. QED BY <1>1, <1>2, <2>1, <3>1 DEF PlanHonest, Owed
  <2>4. QED BY <1>6, <2>2, <2>3 DEF SendBatch
<1>7. CASE MarkSent(c)
  <2>1. PICK a \in togo[c] :
           /\ togo' = [togo EXCEPT ![c] = IF @ = {a} THEN batch[c] ELSE @ \ {a}]
           /\ Goto(c, IF togo[c] = {a} THEN "credit" ELSE "mark")
    BY <1>7 DEF MarkSent, Recovers
  <2>2. pc[c] = "mark" /\ batch' = batch /\ pc'[c] \in {"credit", "mark"}
        /\ (togo'[c] = batch[c] \/ togo'[c] \subseteq togo[c])
    BY <1>1, <1>7, <2>1 DEF MarkSent, Goto, TypeOK
  <2>3. QED BY <1>1, <1>2, <2>2 DEF PlanHonest, Owed
<1>8. CASE InsertFailed(c)
  <2>1. PICK a \in togo[c] :
           /\ togo' = [togo EXCEPT ![c] = @ \ {a}]
           /\ IF togo[c] = {a} THEN AfterBlock(c) ELSE UNCHANGED <<pc, payable>>
    BY <1>8 DEF InsertFailed, Recovers
  <2>2. pc[c] = "catch" /\ blk' = blk /\ pc'[c] \in {"end", "shares", "catch"} /\ togo'[c] \subseteq togo[c]
    BY <1>1, <1>8, <2>1 DEF InsertFailed, AfterBlock, Goto, TypeOK
  <2>3. QED BY <1>1, <1>2, <2>2 DEF PlanHonest, Owed
<1>9. QED BY <1>3, <1>4, <1>5, <1>6, <1>7, <1>8 DEF Paying

LEMMA PlansKept ==
    ASSUME Recovers, HonestInv, [Next]_vars, NEW c \in Cycles PROVE PlanHonest(c)'
<1>1. TypeOK /\ TypeOK' /\ PlanHonest(c)
  BY TypeStep DEF HonestInv, RecoveryInv
<1>2. CASE UNCHANGED <<pc, retry, batch, blk, togo>>
  BY <1>1, <1>2 DEF PlanHonest, Owed
<1>3. CASE Crash
  <2>1. pc'[c] = "idle" /\ \A h \in Blocks : retry'[c][h] = {}
    BY <1>3 DEF Crash, NoRetry
  <2>2. QED BY <1>1, <2>1, PlanIdle
<1>4. ASSUME NEW d \in Cycles, Cycle(d) PROVE PlanHonest(c)'
  <2>1. CASE d # c
    <3>1. pc'[c] = pc[c] /\ retry'[c] = retry[c] /\ batch'[c] = batch[c] /\ blk'[c] = blk[c]
          /\ togo'[c] = togo[c]
      BY <1>1, <1>4, <2>1, OthersUntouched
    <3>2. QED BY <1>1, <3>1 DEF PlanHonest, Owed
  <2>2. CASE StartCycle(c) \/ EndCycle(c) \/ Confirming(c)
    <3>1. retry' = retry
      BY <2>2 DEF StartCycle, EndCycle, Confirming, SelectBlocks, VerifyBlock, ConfirmBlock,
                  OrphanBlock, plan
    <3>2. pc'[c] \in {"retrySelect", "idle", "verify", "confirm", "orphan", "shares", "end"}
      BY <1>1, <2>2 DEF StartCycle, EndCycle, Confirming, SelectBlocks, VerifyBlock, ConfirmBlock,
                        OrphanBlock, AfterVerify, Goto, TypeOK
    <3>3. QED BY <1>1, <3>1, <3>2, PlanIdle
  <2>3. QED BY <1>1, <1>4, <2>1, <2>2, RetryPlanned, PayPlanned DEF Cycle
<1>5. QED BY <1>2, <1>3, <1>4 DEF Next, Environment, Boot, Mature, Reorg, LateSend, TimerFires,
             Start, SelectPending, ListTransactions, ReconcileGroup, vars, cycleVars, plan, work

----------------------------------------------------------------------------
(* The rows *)

\* What the wallet paid stays paid.
LEMMA PaidStays == ASSUME TypeOK, [Next]_vars, NEW b, NEW a, Paid(b, a) PROVE Paid(b, a)'
<1>1. PICK i \in DOMAIN wallet : wallet[i].blk = b /\ a \in wallet[i].addrs
  BY DEF Paid
<1>2. i \in DOMAIN wallet' /\ wallet'[i] = wallet[i]
  BY WalletGrows
<1>3. QED BY <1>1, <1>2 DEF Paid

\* A cycle writes "sent" where the newest transaction pays, and over no sent row.
LEMMA CycleRows ==
    ASSUME Recovers, HonestInv, NEW c \in Cycles, Cycle(c), wallet' = wallet
    PROVE  RowsHonest' /\ SentStays
<1>1. TypeOK /\ RowsHonest /\ PlanHonest(c) /\ RecoveryInv
  BY DEF HonestInv, RecoveryInv
<1>2. \A b, a : Paid(b, a)' <=> Paid(b, a)
  BY DEF Paid
<1>3. CASE row' = row
  BY <1>1, <1>2, <1>3 DEF RowsHonest, SentStays, Owed
<1>4. \A b, S : LastPays(b, S) => \A a \in S : Paid(b, a)
  <2> SUFFICES ASSUME NEW b, NEW S, LastPays(b, S), NEW a \in S PROVE Paid(b, a)
    OBVIOUS
  <2>1. Len(wallet) \in DOMAIN wallet
    BY <1>1 DEF LastPays, TypeOK
  <2>2. QED BY <2>1 DEF LastPays, Paid
<1>5. CASE InsertPending(c) \/ InsertFailed(c)
  <2>1. pc[c] \in {"insert", "catch"} /\ Phase(c)
    BY <1>1, <1>5, Alone DEF InsertPending, InsertFailed
  <2>2. togo[c] \subseteq Owed(blk[c]) /\ \A a : ~Paid(blk[c], a)
    BY <1>1, <2>1 DEF Phase, PayPhase, PlanHonest, Paid
  <2>3. PICK a \in togo[c], kind \in {"batch", "catch"} :
           \/ row' = [row EXCEPT ![RowOf(c, a, kind)] = "pending"]
           \/ row' = [row EXCEPT ![RowOf(c, a, kind)] = "failed"]
    BY <1>5 DEF InsertPending, InsertFailed, Recovers
  <2>4. \A k \in Keys : row'[k] = row[k] \/
           (k.blk = blk[c] /\ k.addr = a /\ row'[k] \in {"pending", "failed"})
    BY <1>1, <2>3 DEF TypeOK, RowOf
  <2>5. SentStays
    BY <1>1, <2>2, <2>4 DEF SentStays, RowsHonest
  <2>6. QED BY <1>1, <1>2, <2>2, <2>4, <2>5 DEF RowsHonest, Owed
<1>6. CASE MarkSent(c)
  <2>1. pc[c] = "mark" /\ Phase(c)
    BY <1>1, <1>6, Alone DEF MarkSent
  <2>2. LastPays(blk[c], batch[c]) /\ batch[c] = Owed(blk[c]) /\ togo[c] \subseteq batch[c]
    BY <1>1, <2>1 DEF Phase, PayPhase, PlanHonest
  <2>3. PICK a \in togo[c] : row' = [row EXCEPT ![RowOf(c, a, "batch")] = "sent"]
    BY <1>6 DEF MarkSent, Recovers
  <2>4. \A k \in Keys : row'[k] = row[k] \/ (k.blk = blk[c] /\ k.addr = a /\ row'[k] = "sent")
    BY <1>1, <2>3 DEF TypeOK, RowOf
  <2>5. Paid(blk[c], a) /\ a \in Owed(blk[c])
    BY <1>4, <2>2
  <2>6. QED BY <1>1, <1>2, <2>4, <2>5 DEF RowsHonest, SentStays, Owed
<1>7. CASE RetryMark(c) \/ RetryRevert(c)
  <2>1. CASE RetryMark(c)
    <3>1. PICK b \in Blocks : row' = Restatus(b, "failed", "pending")
      BY <2>1 DEF RetryMark, Recovers
    <3>2. QED BY <1>1, <1>2, <3>1 DEF Restatus, RowsHonest, SentStays, Owed
  <2>2. CASE RetryRevert(c)
    <3>1. row' = Restatus(blk[c], "pending", "failed")
      BY <2>2 DEF RetryRevert, Recovers
    <3>2. QED BY <1>1, <1>2, <3>1 DEF Restatus, RowsHonest, SentStays, Owed
  <2>3. QED BY <1>7, <2>1, <2>2
<1>8. CASE RetrySettle(c)
  <2>1. pc[c] = "retrySettle" /\ Phase(c)
    BY <1>1, <1>8, Alone DEF RetrySettle
  <2>2. LastPays(blk[c], batch[c]) /\ \A k \in Rows(blk[c], "pending") : k.addr \in batch[c]
    BY <2>1 DEF Phase, RetryPhase
  <2>3. row' = Restatus(blk[c], "pending", "sent")
    BY <1>8 DEF RetrySettle, Recovers
  <2>4. \A k \in Keys : row'[k] = row[k] \/
           (k \in Rows(blk[c], "pending") /\ k.blk = blk[c] /\ row[k] = "pending" /\ row'[k] = "sent")
    BY <2>3 DEF Restatus, Rows
  <2>5. QED BY <1>1, <1>2, <1>4, <2>2, <2>4 DEF RowsHonest, SentStays, Owed
<1>9. QED BY <1>3, <1>5, <1>6, <1>7, <1>8 DEF Cycle, StartCycle, EndCycle, Retrying, RetrySelect,
             RetrySend, Confirming, SelectBlocks, VerifyBlock, ConfirmBlock, OrphanBlock, Paying,
             CalculateShares, Accumulate, NextBatch, SendBatch, CreditMiner, RecordLedger

\* A match of distinct amounts is a match of the block.
LEMMA ReconciledRows ==
    ASSUME Distinct, HonestInv, NEW b \in Blocks, ReconcileGroup(b) PROVE RowsHonest' /\ SentStays
<1> DEFINE S == {k.addr : k \in {l \in groups : l.blk = b}}
<1>1. boot = "match" /\ wallet' = wallet
  BY DEF ReconcileGroup, money
<1>2. TypeOK /\ RowsHonest /\ groups = {k \in Keys : row[k] = "pending"}
  BY <1>1, Stopped DEF HonestInv, Books, Reconciles
<1>3. \A k \in Keys :
         \/ row'[k] = row[k]
         \/ row[k] = "pending" /\ row'[k] = "failed"
         \/ /\ row[k] = "pending" /\ row'[k] = "sent" /\ k.blk = b /\ k \in groups
            /\ \E i \in DOMAIN wallet : Matches(i, b, S)
  BY <1>2 DEF ReconcileGroup
<1>4. ASSUME NEW k \in groups, k.blk = b, NEW i \in DOMAIN wallet, Matches(i, b, S)
      PROVE  Paid(b, k.addr)
  <2>1. k.addr \in S /\ k.addr \in Owed(b) /\ k.addr \in Addrs
    BY <1>2, <1>4 DEF RowsHonest, Keys
  <2>2. wallet[i] \in Txs
    BY <1>2 DEF TypeOK
  <2>3. Amount[wallet[i].blk][k.addr] = Amount[b][k.addr] /\ k.addr \in wallet[i].addrs
    BY <1>4, <2>1 DEF Matches
  <2>4. wallet[i].blk = b
    BY <2>1, <2>2, <2>3 DEF Distinct, Txs
  <2>5. QED BY <2>3, <2>4 DEF Paid
<1>5. \A x, a : Paid(x, a)' <=> Paid(x, a)
  BY <1>1 DEF Paid
<1>6. QED BY <1>2, <1>3, <1>4, <1>5 DEF RowsHonest, SentStays, Owed

LEMMA RowsKept ==
    ASSUME Recovers, Distinct, HonestInv, [Next]_vars PROVE RowsHonest' /\ SentStays
<1>1. TypeOK /\ RowsHonest /\ inflight = {}
  BY DEF HonestInv, RecoveryInv, Locked
<1>2. CASE row' = row
  BY <1>1, <1>2, PaidStays DEF RowsHonest, SentStays, Owed
<1>3. ASSUME NEW c \in Cycles, Cycle(c) PROVE RowsHonest' /\ SentStays
  <2>1. row' = row \/ wallet' = wallet
    BY <1>3 DEF Cycle, StartCycle, EndCycle, Retrying, RetrySelect, RetryMark, RetrySend, RetrySettle,
       RetryRevert, Confirming, SelectBlocks, VerifyBlock, ConfirmBlock, OrphanBlock, Paying,
       CalculateShares, Accumulate, NextBatch, InsertPending, SendBatch, MarkSent, CreditMiner,
       RecordLedger, InsertFailed, money
  <2>2. QED BY <1>2, <1>3, <2>1, CycleRows
<1>4. CASE Boot
  <2>1. CASE Start \/ SelectPending \/ ListTransactions
    BY <1>2, <2>1 DEF Start, SelectPending, ListTransactions, Recovers
  <2>2. QED BY <1>4, <2>1, ReconciledRows DEF Boot
<1>5. CASE Environment \/ UNCHANGED vars
  BY <1>2, <1>5 DEF Environment, Mature, Reorg, LateSend, Crash, TimerFires, vars
<1>6. QED BY <1>3, <1>4, <1>5 DEF Next

----------------------------------------------------------------------------
(* The refinement *)

LEMMA HonestInit == Init => HonestInv
<1> SUFFICES ASSUME Init PROVE HonestInv
  OBVIOUS
<1>1. RecoveryInv
  BY RecoveryInit
<1>2. RowsHonest
  BY DEF Init, RowsHonest
<1>3. \A c \in Cycles : PlanHonest(c)
  BY DEF Init, PlanHonest, NoRetry
<1>4. QED BY <1>1, <1>2, <1>3 DEF HonestInv

LEMMA HonestStep == ASSUME Recovers, Distinct PROVE HonestInv /\ [Next]_vars => HonestInv'
BY RecoveryStep, RowsKept, PlansKept DEF HonestInv

\* What Settlement calls paid.
LEMMA SamePaid ==
    ASSUME TypeOK, NEW b, NEW a PROVE <<b, a>> \in Abstract!Paid(wallet) <=> Paid(b, a)
BY DEF Abstract!Paid, Paid

\* Only the two sendmany calls touch the wallet, each for addresses that are
\* owed and not paid.
LEMMA SendsPay ==
    ASSUME Recovers, HonestInv, [Next]_vars, wallet' # wallet
    PROVE  \E b \in Blocks, S \in SUBSET Addrs :
              /\ S # {} /\ S \subseteq Owed(b) /\ \A a \in S : ~Paid(b, a)
              /\ wallet' = Append(wallet, [blk |-> b, addrs |-> S])
              /\ row' = row
<1>1. TypeOK /\ RecoveryInv /\ inflight = {}
  BY DEF HonestInv, RecoveryInv, Locked
<1>2. PICK c \in Cycles : RetrySend(c) \/ SendBatch(c)
  BY <1>1 DEF Next, Environment, Mature, Reorg, LateSend, Crash, TimerFires, Boot, Start, SelectPending,
     ListTransactions, ReconcileGroup, Cycle, StartCycle, EndCycle, Retrying, RetrySelect, RetryMark,
     RetrySettle, RetryRevert, Confirming, SelectBlocks, VerifyBlock, ConfirmBlock, OrphanBlock, Paying,
     CalculateShares, Accumulate, NextBatch, InsertPending, MarkSent, CreditMiner, RecordLedger,
     InsertFailed, money, vars
<1>3. /\ wallet' = Append(wallet, [blk |-> blk[c], addrs |-> batch[c]]) /\ row' = row
      /\ pc[c] \in {"retrySend", "send"} /\ blk[c] \in Blocks /\ batch[c] \in SUBSET Addrs
  BY <1>1, <1>2 DEF RetrySend, SendBatch, Accepted, Refused, TimedOut, money, TypeOK
<1>4. PlanHonest(c) /\ Phase(c)
  BY <1>1, <1>3, Alone DEF HonestInv
<1>5. batch[c] # {} /\ batch[c] \subseteq Owed(blk[c]) /\ \A a \in batch[c] : ~Paid(blk[c], a)
  BY <1>3, <1>4 DEF PlanHonest, Phase, RetryPhase, PayPhase, Paid
<1>6. QED BY <1>3, <1>5

LEMMA StepRefines ==
    ASSUME Recovers, Distinct, HonestInv, HonestInv', [Next]_vars
    PROVE  [Abstract!Next]_<<wallet, SentPairs>>
<1>1. TypeOK /\ TypeOK' /\ RowsHonest /\ RowsHonest' /\ SentStays
  BY RowsKept DEF HonestInv, RecoveryInv
<1>2. CASE wallet' # wallet
  <2>1. PICK b \in Blocks, S \in SUBSET Addrs :
           /\ S # {} /\ S \subseteq Owed(b) /\ \A a \in S : ~Paid(b, a)
           /\ wallet' = Append(wallet, [blk |-> b, addrs |-> S]) /\ row' = row
    BY <1>2, SendsPay
  <2>2. \A a \in S : <<b, a>> \notin Abstract!Paid(wallet)
    BY <1>1, <2>1, SamePaid
  <2>3. SentPairs' = SentPairs
    BY <2>1 DEF SentPairs
  <2>4. Abstract!Pay
    BY <2>1, <2>2, <2>3 DEF Abstract!Pay
  <2>5. QED BY <2>4 DEF Abstract!Next
<1>3. CASE wallet' = wallet
  <2>1. SentPairs \subseteq SentPairs'
    BY <1>1 DEF SentStays, SentPairs
  <2>2. SentPairs' \subseteq Abstract!Paid(wallet)
    <3> SUFFICES ASSUME NEW k \in Keys, row'[k] = "sent"
                 PROVE  <<k.blk, k.addr>> \in Abstract!Paid(wallet)
      BY DEF SentPairs
    <3>1. Paid(k.blk, k.addr)
      BY <1>1, <1>3 DEF RowsHonest, Paid
    <3>2. QED BY <1>1, <3>1, SamePaid
  <2>3. Abstract!Settle
    BY <1>3, <2>1, <2>2 DEF Abstract!Settle
  <2>4. QED BY <2>3 DEF Abstract!Next
<1>4. QED BY <1>2, <1>3

\* The cycles, rows, retries, crashes and restarts of the engine implement the
\* two moves of Settlement: pay what is owed and unpaid, settle what was paid.
THEOREM Refinement == ASSUME Recovers, Distinct PROVE Spec => ImplementsSettlement
<1>1. Init => HonestInv
  BY HonestInit
<1>2. HonestInv /\ [Next]_vars => HonestInv'
  BY HonestStep
<1>3. HonestInv /\ HonestInv' /\ [Next]_vars => [Abstract!Next]_<<wallet, SentPairs>>
  BY StepRefines
<1>4. Init => Abstract!Init
  BY DEF Init, Abstract!Init, SentPairs
<1>5. QED BY <1>1, <1>2, <1>3, <1>4, PTL DEF Spec, ImplementsSettlement, Abstract!Spec

\* No row is called sent before the wallet has paid it.
THEOREM SentIsPaid == ASSUME Recovers, Distinct PROVE Spec => []SentMeansPaid
<1>1. Init => HonestInv
  BY HonestInit
<1>2. HonestInv /\ [Next]_vars => HonestInv'
  BY HonestStep
<1>3. HonestInv => SentMeansPaid
  BY DEF HonestInv, RowsHonest, SentMeansPaid, PaidBy, Paid
<1>4. QED BY <1>1, <1>2, <1>3, PTL DEF Spec

----------------------------------------------------------------------------
(***************************************************************************)
(* The processor beside the block watcher, as index.js runs them: what the *)
(* watcher confirms and flags between two statements of a cycle leaves     *)
(* RecoveryInv and HonestInv standing, so the composition keeps the        *)
(* promises of the processor.                                              *)
(***************************************************************************)

\* The blocks the watcher holds are blocks of the table.
WatchesBlocks ==
    /\ queue \in [Watchers -> SUBSET Blocks]
    /\ at \in [Watchers -> Blocks]

\* The watcher moves its own state, the hash column, and adds to the two flags.
LEMMA WatcherMoves ==
    ASSUME WatchesBlocks, confirmed \subseteq Blocks, orphaned \subseteq Blocks,
           NEW w \in Watchers, WatcherStep(w)
    PROVE  /\ UNCHANGED <<row, entries, money, bootVars, flags, cycleVars, chain, deep>>
           /\ confirmed \subseteq confirmed' /\ confirmed' \subseteq Blocks
           /\ orphaned \subseteq orphaned' /\ orphaned' \subseteq Blocks
           /\ WatchesBlocks'
<1>1. UNCHANGED <<row, entries, money, bootVars, flags, cycleVars>> /\ W!Watch(w)
  BY DEF WatcherStep
<1>2. queue[w] \subseteq Blocks /\ at[w] \in Blocks
  BY DEF WatchesBlocks
<1>3. CASE W!CheckBlocks(w)
  BY <1>1, <1>3 DEF W!CheckBlocks, W!world, W!table, WatchesBlocks
<1>4. CASE W!AskChain(w)
  <2>1. UNCHANGED <<chain, deep, confirmed, orphaned>>
    BY <1>4 DEF W!AskChain, W!world, W!table
  <2>2. PICK b \in queue[w] :
           queue' = [queue EXCEPT ![w] = @ \ {b}] /\ at' = [at EXCEPT ![w] = b]
    BY <1>4 DEF W!AskChain
  <2>3. WatchesBlocks'
    BY <1>2, <2>2 DEF WatchesBlocks
  <2>4. QED BY <1>1, <2>1, <2>3
<1>5. CASE W!WriteHash(w)
  BY <1>1, <1>5 DEF W!WriteHash, W!world, WatchesBlocks
<1>6. CASE W!FlagOrphan(w)
  BY <1>1, <1>2, <1>6 DEF W!FlagOrphan, W!world, WatchesBlocks
<1>7. CASE W!ConfirmMature(w)
  BY <1>1, <1>2, <1>7 DEF W!ConfirmMature, W!world, WatchesBlocks
<1>8. QED BY <1>1, <1>3, <1>4, <1>5, <1>6, <1>7 DEF W!Watch

\* A block confirmed between two statements of a cycle disturbs none of them:
\* the phases ask only that what is being paid stays confirmed.
LEMMA WatcherKeeps ==
    ASSUME RecoveryInv, WatchesBlocks, NEW w \in Watchers, WatcherStep(w)
    PROVE  RecoveryInv' /\ WatchesBlocks'
<1>1. TypeOK /\ confirmed \subseteq Blocks /\ orphaned \subseteq Blocks
  BY DEF RecoveryInv, TypeOK
<1>2. /\ UNCHANGED <<row, entries, money, bootVars, flags, cycleVars, chain, deep>>
      /\ confirmed \subseteq confirmed' /\ confirmed' \subseteq Blocks
      /\ orphaned' \subseteq Blocks /\ WatchesBlocks'
  BY <1>1, WatcherMoves
<1>3. TypeOK'
  BY <1>1, <1>2 DEF TypeOK, entries, money, bootVars, flags, cycleVars, plan, work
<1>4. UNCHANGED <<row, wallet, inflight, boot, groups, seen, processing, pc, retry, todo,
                  payable, blk, rest, batch, togo>>
  BY <1>2 DEF money, bootVars, flags, cycleVars, plan, work
<1>5. /\ \A b, a : Paid(b, a)' <=> Paid(b, a)
      /\ \A b, s : Rows(b, s)' = Rows(b, s)
      /\ \A b : Untouched(b)' <=> Untouched(b)
      /\ \A b, S : LastPays(b, S)' <=> LastPays(b, S)
  BY <1>4, SameBooks
<1>6. Locked' /\ PaidAtMostOnce' /\ FailedIsUnpaid' /\ Reconciles' /\ TouchedIsConfirmed'
  BY <1>2, <1>4, <1>5 DEF RecoveryInv, Locked, OneCycleAtATime, Books, PaidAtMostOnce,
                          FailedIsUnpaid, Reconciles, TouchedIsConfirmed
<1>7. PendingPaidLast' /\ PendingIsWatched'
  BY <1>4, <1>5 DEF RecoveryInv, Books, PendingPaidLast, PendingIsWatched
<1>8. ASSUME NEW c \in Cycles PROVE Phase(c)'
  <2>1. Phase(c) /\ Owed(blk[c])' = Owed(blk[c])
    BY <1>4 DEF RecoveryInv, Owed
  <2>2. RetryPhase(c)'
    BY <1>2, <1>4, <1>5, <2>1 DEF Phase, RetryPhase, RetryPlan
  <2>3. ConfirmPhase(c)'
    BY <1>2, <1>4, <1>5, <2>1 DEF Phase, ConfirmPhase
  <2>4. PayPhase(c)'
    BY <1>2, <1>4, <1>5, <2>1 DEF Phase, PayPhase
  <2>5. QED BY <2>2, <2>3, <2>4 DEF Phase
<1>9. QED BY <1>2, <1>3, <1>6, <1>7, <1>8 DEF RecoveryInv, Books

\* A step of the composition is a step of the engine or one of a watcher.
LEMMA PipeSteps ==
    ASSUME [PipeNext]_pvars
    PROVE  \/ [Next]_vars /\ (WatchesBlocks => WatchesBlocks')
           \/ \E w \in Watchers : WatcherStep(w)
<1>1. CASE ProcessorStep
  <2>1. Next
    BY <1>1 DEF ProcessorStep, Next, Environment
  <2>2. UNCHANGED <<queue, at>>
    BY <1>1 DEF ProcessorStep, watcherOnly
  <2>3. QED BY <2>1, <2>2 DEF WatchesBlocks
<1>2. CASE CrashBoth
  <2>1. Next
    BY <1>2 DEF CrashBoth, Next, Environment
  <2>2. WatchesBlocks'
    BY <1>2, NoBlockType DEF CrashBoth, W!WForget, W!AnyBlock, NoBlock, WatchesBlocks
  <2>3. QED BY <2>1, <2>2
<1>3. CASE UNCHANGED pvars
  BY <1>3 DEF pvars, WatchesBlocks
<1>4. QED BY <1>1, <1>2, <1>3 DEF PipeNext

LEMMA PipeStart == PipeInit => Init /\ WatchesBlocks
<1> SUFFICES ASSUME PipeInit PROVE Init /\ WatchesBlocks
  OBVIOUS
<1>1. Init /\ queue = [w \in Watchers |-> {}] /\ at = [w \in Watchers |-> W!AnyBlock]
  BY DEF PipeInit, W!WInit
<1>2. W!AnyBlock \in Blocks
  BY NoBlockType DEF W!AnyBlock, NoBlock
<1>3. QED BY <1>1, <1>2 DEF WatchesBlocks

LEMMA PipeRecovers ==
    ASSUME Recovers
    PROVE  RecoveryInv /\ WatchesBlocks /\ [PipeNext]_pvars => RecoveryInv' /\ WatchesBlocks'
BY PipeSteps, RecoveryStep, WatcherKeeps

\* Beside the watcher, too, no address is paid twice for a block: that
\* blockWatcher.js sets confirmed while _getConfirmedBlocks walks the blocks it
\* had selected unconfirmed lets no block into two payments.
THEOREM PipelinePaysOnce == ASSUME Recovers PROVE PipeSpec => []PaidAtMostOnce
<1>1. PipeInit => RecoveryInv /\ WatchesBlocks
  BY PipeStart, RecoveryInit
<1>2. RecoveryInv /\ WatchesBlocks /\ [PipeNext]_pvars => RecoveryInv' /\ WatchesBlocks'
  BY PipeRecovers
<1>3. RecoveryInv => PaidAtMostOnce
  BY DEF RecoveryInv, Books
<1>4. QED BY <1>1, <1>2, <1>3, PTL DEF PipeSpec

\* Nor is a payment forgotten beside the watcher.
THEOREM PipelineForgetsNothing == ASSUME Recovers PROVE PipeSpec => []PendingIsRetried
<1>1. PipeInit => RecoveryInv /\ WatchesBlocks
  BY PipeStart, RecoveryInit
<1>2. RecoveryInv /\ WatchesBlocks /\ [PipeNext]_pvars => RecoveryInv' /\ WatchesBlocks'
  BY PipeRecovers
<1>3. RecoveryInv => PendingIsRetried
  BY CalmIsRetried
<1>4. QED BY <1>1, <1>2, <1>3, PTL DEF PipeSpec

\* What is owed and paid does not depend on the watcher's columns.
LEMMA WatcherHonest ==
    ASSUME HonestInv, WatchesBlocks, NEW w \in Watchers, WatcherStep(w)
    PROVE  HonestInv' /\ WatchesBlocks' /\ UNCHANGED <<wallet, SentPairs>>
<1>1. RecoveryInv' /\ WatchesBlocks'
  BY WatcherKeeps DEF HonestInv
<1>2. UNCHANGED <<row, wallet, pc, retry, blk, batch, togo>>
  BY DEF WatcherStep, money, cycleVars, plan, work
<1>3. RowsHonest'
  BY <1>2, SameBooks DEF HonestInv, RowsHonest, Owed
<1>4. \A c \in Cycles : PlanHonest(c)'
  BY <1>2 DEF HonestInv, PlanHonest, Owed
<1>5. QED BY <1>1, <1>2, <1>3, <1>4 DEF HonestInv, SentPairs

\* The processor and the watcher together implement Settlement: the watcher's
\* steps are none of the promise's business.
THEOREM PipelineRefines == ASSUME Recovers, Distinct PROVE PipeSpec => ImplementsSettlement
<1>1. PipeInit => HonestInv /\ WatchesBlocks
  BY PipeStart, HonestInit
<1>2. HonestInv /\ WatchesBlocks /\ [PipeNext]_pvars => HonestInv' /\ WatchesBlocks'
  BY PipeSteps, HonestStep, WatcherHonest
<1>3. HonestInv /\ HonestInv' /\ WatchesBlocks /\ [PipeNext]_pvars
        => [Abstract!Next]_<<wallet, SentPairs>>
  BY PipeSteps, StepRefines, WatcherHonest
<1>4. PipeInit => Abstract!Init
  BY PipeStart DEF Init, Abstract!Init, SentPairs
<1>5. QED BY <1>1, <1>2, <1>3, <1>4, PTL DEF PipeSpec, ImplementsSettlement, Abstract!Spec
=============================================================================
