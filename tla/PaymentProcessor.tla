-------------------------- MODULE PaymentProcessor --------------------------
(***************************************************************************)
(* The Litecoin payout engine, src/src/payment/paymentProcessor.js.        *)
(*                                                                         *)
(* A payment cycle is an async function: between two of its awaits any     *)
(* other cycle, the wallet daemon, the chain or a process crash may step.  *)
(* Each action below is the code between two awaits, so every SQL          *)
(* statement and every RPC is one step.  Four things outlive a crash: the  *)
(* blocks and payments tables, the Redis balances, and the wallet.         *)
(*                                                                         *)
(* A row of the payments table is named by who inserted it: the cycle, the *)
(* block, the address, and whether the INSERT was the one before sendmany  *)
(* ("batch") or the one in the catch clause ("catch").  A cycle inserts    *)
(* each of these at most once, so the name stands for the serial id.       *)
(***************************************************************************)
EXTENDS Naturals, Sequences, FiniteSets

CONSTANTS
    Cycles,      \* cycle slots: how many runs of processPayments may overlap
    Blocks,      \* heights of the LTC blocks the pool has found
    Addrs,       \* payout addresses
    Amount,      \* net amount of an address for a block, 0 when it has no share
    MinPayout,   \* config.minPayout
    MaxBatch,    \* config.maxBatch: recipients of one sendmany
    RetryLimit,  \* LIMIT of the failed-payment query: 200
    RecentTxs,   \* transactions that listtransactions(500) still shows
    MaxTx,       \* bound of the exploration: transactions the wallet makes
    Faults       \* what may go wrong, a subset of FaultKinds

FaultKinds ==
    { "refuse",   \* sendmany answers an error, or the circuit breaker rejects it
      "lost",     \* sendmany times out after 30 s: the daemon acts, now or later
      "rpc",      \* a read-only RPC fails
      "db",       \* an SQL statement fails
      "redis",    \* a Redis command fails
      "crash",    \* the process dies between two steps
      "overrun",  \* a cycle takes more than ten minutes
      "reorg" }   \* a fork replaces a young block, or takes back its 100 confirmations

ASSUME PaymentAssumption ==
    /\ Blocks \subseteq Nat /\ Blocks # {}
    /\ Amount \in [Blocks -> [Addrs -> Nat]]
    /\ MinPayout \in Nat \ {0}
    /\ MaxBatch \in Nat \ {0}
    /\ RetryLimit \in Nat \ {0}
    /\ RecentTxs \in Nat \ {0}
    /\ MaxTx \in Nat
    /\ Faults \subseteq FaultKinds

\* Addresses paid for a block, and those whose share stays below the minimum.
Owed(b) == {a \in Addrs : Amount[b][a] >= MinPayout}
Dust(b) == {a \in Addrs : 0 < Amount[b][a] /\ Amount[b][a] < MinPayout}

Keys == [by : Cycles, blk : Blocks, addr : Addrs, kind : {"batch", "catch"}]
Statuses == {"none", "pending", "sent", "failed"}
Txs == [blk : Blocks, addrs : SUBSET Addrs]

Labels ==
    { "idle", "retrySelect", "retryMark", "retrySend", "retrySettle", "retryRevert",
      "select", "verify", "confirm", "orphan", "shares", "accumulate", "batch",
      "insert", "send", "mark", "credit", "ledger", "catch", "end" }

VARIABLES
    chain,        \* whose block the main chain has at a found block's height
    deep,         \* heights at least 100 blocks below the tip
    confirmed,    \* blocks rows with confirmed = true
    orphaned,     \* blocks rows with orphaned = true
    row,          \* payments table: status of each row, "none" when not inserted
    credited,     \* miners.total_paid increments made
    ledger,       \* block_fee_ledger: recipients recorded for a block, {} when no row
    accumulated,  \* increments of Redis pendingBalance made
    wallet,       \* transactions the wallet has made, oldest first
    inflight,     \* sendmany requests given up on that the daemon may still execute
    boot,         \* "down", the steps of start(), then "running"
    groups,       \* pending rows start() selected and has not resolved
    seen,         \* length of the wallet history start() listed
    processing,   \* this.processing
    timer,        \* the ten-minute timer of each cycle
    pc,           \* where each cycle is
    retry,        \* failed payments a cycle selected: height -> addresses
    todo,         \* blocks a cycle selected and has not verified
    payable,      \* blocks a cycle verified and has not paid (confirmedBlocks)
    blk,          \* block or height a cycle is working on
    rest,         \* addresses not yet put in a batch
    batch,        \* addresses of the current batch
    togo          \* addresses the current loop has not handled

chainVars == <<chain, deep, confirmed, orphaned>>
entries   == <<credited, ledger, accumulated>>
money     == <<wallet, inflight>>
bootVars  == <<boot, groups, seen>>
flags     == <<processing, timer>>
plan      == <<retry, todo, payable>>
work      == <<blk, rest, batch, togo>>
cycleVars == <<pc, plan, work>>
vars      == <<chainVars, row, entries, money, bootVars, flags, cycleVars>>
steady    == <<chainVars, bootVars, flags>>

TypeOK ==
    /\ chain \in [Blocks -> {"ours", "other"}]
    /\ deep \subseteq Blocks
    /\ confirmed \subseteq Blocks
    /\ orphaned \subseteq Blocks
    /\ row \in [Keys -> Statuses]
    /\ credited \subseteq Cycles \X Blocks \X Addrs
    /\ ledger \in [Blocks -> SUBSET Addrs]
    /\ accumulated \subseteq Cycles \X Blocks \X Addrs
    /\ wallet \in Seq(Txs)
    /\ inflight \subseteq Txs
    /\ boot \in {"down", "query", "list", "match", "running"}
    /\ groups \subseteq Keys
    /\ seen \in Nat
    /\ processing \in BOOLEAN
    /\ timer \in [Cycles -> BOOLEAN]
    /\ pc \in [Cycles -> Labels]
    /\ retry \in [Cycles -> [Blocks -> SUBSET Addrs]]
    /\ todo \in [Cycles -> SUBSET Blocks]
    /\ payable \in [Cycles -> SUBSET Blocks]
    /\ blk \in [Cycles -> Blocks]
    /\ rest \in [Cycles -> SUBSET Addrs]
    /\ batch \in [Cycles -> SUBSET Addrs]
    /\ togo \in [Cycles -> SUBSET Addrs]

----------------------------------------------------------------------------
(* Helpers *)

IsLowest(b, S) == b \in S /\ \A x \in S : b <= x

RowOf(c, a, kind) == [by |-> c, blk |-> blk[c], addr |-> a, kind |-> kind]

\* Wrong on purpose: a failed retry gets a status that nothing looks for.
RestatusError(b, s, t) ==
    [k \in Keys |-> IF k.blk = b /\ row[k] = s THEN (IF t = "failed" THEN "error" ELSE t) ELSE row[k]]

\* Wrong on purpose: the rows of a refused retry are not turned back to failed.
RestatusForgets(b, s, t) ==
    [k \in Keys |-> IF k.blk = b /\ row[k] = s /\ t # "failed" THEN t ELSE row[k]]

\* UPDATE payments SET status = t WHERE status = s AND block_height = b
Restatus(b, s, t) == [k \in Keys |-> IF k.blk = b /\ row[k] = s THEN t ELSE row[k]]

Goto(c, l) == pc' = [pc EXCEPT ![c] = l]

\* The next height to retry, or on to the blocks when none is left.
AfterRetry(c, left) ==
    Goto(c, IF \E h \in Blocks : left[h] # {} THEN "retryMark" ELSE "select")

\* The next block of the for loop in processPayments.
AfterBlock(c) ==
    /\ payable' = [payable EXCEPT ![c] = @ \ {blk[c]}]
    /\ Goto(c, IF payable[c] = {blk[c]} THEN "end" ELSE "shares")

\* Wrong on purpose: the error is logged and the batch goes on as if it was sent.
ToCatchSwallow(c) == Goto(c, "mark") /\ togo' = [togo EXCEPT ![c] = batch[c]]

\* The catch clause of _executeBatchPayment: a failed row for every recipient
\* of the block, those of the batches already sent included.
ToCatch(c) ==
    /\ Goto(c, "catch")
    /\ togo' = [togo EXCEPT ![c] = Owed(blk[c])]

\* The three ways rpc.sendMany can end.
Accepted(b, S) ==
    /\ Len(wallet) < MaxTx
    /\ wallet' = Append(wallet, [blk |-> b, addrs |-> S])
    /\ UNCHANGED inflight
Refused == "refuse" \in Faults /\ UNCHANGED money
TimedOut(b, S) ==
    /\ "lost" \in Faults
    /\ inflight' = inflight \cup {[blk |-> b, addrs |-> S]}
    /\ UNCHANGED wallet

----------------------------------------------------------------------------
(* The environment *)

Mature(b) ==
    /\ b \notin deep
    /\ deep' = deep \cup {b}
    /\ UNCHANGED <<chain, confirmed, orphaned, row, entries, money, bootVars, flags, cycleVars>>

\* A fork replaces a young block, or a shorter chain takes back its depth.
Reorg(b) ==
    /\ "reorg" \in Faults
    /\ \/ /\ b \notin deep /\ chain[b] = "ours"
          /\ chain' = [chain EXCEPT ![b] = "other"]
          /\ UNCHANGED deep
       \/ b \in deep /\ deep' = deep \ {b} /\ UNCHANGED chain
    /\ UNCHANGED <<confirmed, orphaned, row, entries, money, bootVars, flags, cycleVars>>

\* The daemon executes a sendmany whose caller stopped waiting.
LateSend(tx) ==
    /\ tx \in inflight
    /\ Len(wallet) < MaxTx
    /\ wallet' = Append(wallet, tx)
    /\ inflight' = inflight \ {tx}
    /\ UNCHANGED <<steady, row, entries, cycleVars>>

NoBlock == CHOOSE b \in Blocks : TRUE
Nothing == [c \in Cycles |-> {}]

NoRetry == [c \in Cycles |-> [b \in Blocks |-> {}]]

\* sendmany requests whose answer the process is waiting for
Awaited ==
    {[blk |-> blk[c], addrs |-> batch[c]] : c \in {d \in Cycles : pc[d] \in {"send", "retrySend"}}}

\* The process dies and the supervisor starts it again.  A request it was
\* waiting for may still reach the daemon.
Crash ==
    /\ "crash" \in Faults
    /\ boot # "down"
    /\ boot' = "down"
    /\ groups' = {} /\ seen' = 0
    /\ processing' = FALSE /\ timer' = [c \in Cycles |-> FALSE]
    /\ pc' = [c \in Cycles |-> "idle"] /\ blk' = [c \in Cycles |-> NoBlock]
    /\ retry' = NoRetry /\ todo' = Nothing /\ payable' = Nothing
    /\ rest' = Nothing /\ batch' = Nothing /\ togo' = Nothing
    /\ \E late \in SUBSET Awaited :
          /\ late # {} => "lost" \in Faults
          /\ inflight' = inflight \cup late
    /\ UNCHANGED <<chainVars, row, entries, wallet>>

----------------------------------------------------------------------------
(* start() and _reconcilePending *)

Start ==
    /\ boot = "down"
    /\ boot' = "query"
    /\ UNCHANGED <<chainVars, row, entries, money, groups, seen, flags, cycleVars>>

\* SELECT the pending rows, grouped by height; an error skips the reconciliation.
SelectPending ==
    /\ boot = "query"
    /\ LET pending == {k \in Keys : row[k] = "pending"} IN
       \/ groups' = pending /\ boot' = IF pending = {} THEN "running" ELSE "list"
       \/ "db" \in Faults /\ boot' = "running" /\ UNCHANGED groups
    /\ UNCHANGED <<chainVars, row, entries, money, seen, flags, cycleVars>>

\* listtransactions; an error turns every pending row to failed.  A statement
\* that fails here rejects start(), and main() exits: Crash covers it.
ListTransactions ==
    /\ boot = "list"
    /\ \/ /\ seen' = Len(wallet)
          /\ boot' = "match"
          /\ UNCHANGED <<row, groups>>
       \/ /\ "rpc" \in Faults
          /\ row' = [k \in Keys |-> IF row[k] = "pending" THEN "failed" ELSE row[k]]
          /\ boot' = "running"
          /\ groups' = {}
          /\ UNCHANGED seen
    /\ UNCHANGED <<chainVars, entries, money, flags, cycleVars>>

\* Wrong on purpose: the newest transaction is left out of the history.
MatchesLate(i, b, S) ==
    /\ i \in DOMAIN wallet /\ i < seen /\ seen < i + RecentTxs
    /\ S \subseteq wallet[i].addrs
    /\ \A a \in S : Amount[wallet[i].blk][a] = Amount[b][a]

\* Wrong on purpose: the amounts are not compared.
MatchesByAddress(i, b, S) ==
    i \in DOMAIN wallet /\ i <= seen /\ seen < i + RecentTxs /\ S \subseteq wallet[i].addrs

\* One transaction that pays every address of the group the amount expected.
\* Nothing ties the transaction to the block the rows are for.
Matches(i, b, S) ==
    /\ i \in DOMAIN wallet
    /\ i <= seen /\ seen < i + RecentTxs
    /\ S \subseteq wallet[i].addrs
    /\ \A a \in S : Amount[wallet[i].blk][a] = Amount[b][a]

ReconcileGroup(b) ==
    /\ boot = "match"
    /\ IsLowest(b, {k.blk : k \in groups})
    /\ LET group == {k \in groups : k.blk = b}
           found == \E i \in DOMAIN wallet : Matches(i, b, {k.addr : k \in group})
       IN /\ row' = [k \in Keys |-> IF k \notin group THEN row[k]
                                    ELSE IF found THEN "sent" ELSE "failed"]
          /\ groups' = groups \ group
          /\ IF groups = group THEN boot' = "running" /\ seen' = 0
                               ELSE UNCHANGED <<boot, seen>>
    /\ UNCHANGED <<chainVars, entries, money, flags, cycleVars>>

----------------------------------------------------------------------------
(* processPayments: the flag, the timer, the retries *)

\* Wrong on purpose: the flag is not looked at.
MayStartAnyway == TRUE
MayStart == ~processing

\* Wrong on purpose: the flag stays up.
KeepFlag == UNCHANGED processing
ClearFlag == processing' = FALSE

\* The interval fires.  A slot may be used again only when its row names are
\* free, which matters after a failed UPDATE blocks alone.
StartCycle(c) ==
    /\ boot = "running" /\ pc[c] = "idle"
    /\ MayStart
    /\ \A k \in Keys : k.by = c /\ row[k] # "none" => k.blk \in confirmed
    /\ processing' = TRUE
    /\ timer' = [timer EXCEPT ![c] = TRUE]
    /\ Goto(c, "retrySelect")
    /\ UNCHANGED <<chainVars, row, entries, money, bootVars, plan, work>>

\* The ten-minute timer clears the flag of a cycle that goes on running.
TimerFires(c) ==
    /\ "overrun" \in Faults
    /\ timer[c]
    /\ timer' = [timer EXCEPT ![c] = FALSE]
    /\ ClearFlag
    /\ UNCHANGED <<chainVars, row, entries, money, bootVars, cycleVars>>

\* The finally clause clears the flag whichever cycle set it.
EndCycle(c) ==
    /\ pc[c] = "end"
    /\ Goto(c, "idle")
    /\ ClearFlag
    /\ timer' = [timer EXCEPT ![c] = FALSE]
    /\ payable' = [payable EXCEPT ![c] = {}]
    /\ blk' = [blk EXCEPT ![c] = NoBlock]
    /\ rest' = [rest EXCEPT ![c] = {}]
    /\ batch' = [batch EXCEPT ![c] = {}]
    /\ togo' = [togo EXCEPT ![c] = {}]
    /\ UNCHANGED <<chainVars, row, entries, money, bootVars, retry, todo>>

\* SELECT the first RetryLimit failed rows by height and address.
FailedRows == {k \in Keys : row[k] = "failed"}
FirstFailed(S) ==
    \/ S = FailedRows /\ Cardinality(S) <= RetryLimit
    \/ /\ Cardinality(S) = RetryLimit
       /\ \A k \in S, l \in FailedRows \ S : k.blk <= l.blk

RetrySelect(c) ==
    /\ pc[c] = "retrySelect"
    /\ \/ \E S \in SUBSET FailedRows :
            /\ FirstFailed(S)
            /\ LET perBlock == [b \in Blocks |-> {k.addr : k \in {l \in S : l.blk = b}}]
               IN /\ retry' = [retry EXCEPT ![c] = perBlock]
                  /\ AfterRetry(c, perBlock)
       \/ "db" \in Faults /\ Goto(c, "select") /\ UNCHANGED retry
    /\ UNCHANGED <<steady, row, entries, money, todo, payable, work>>

\* Every failed row of the height becomes pending, selected or not.
RetryMark(c) ==
    /\ pc[c] = "retryMark"
    /\ \/ \E b \in Blocks :
            /\ IsLowest(b, {h \in Blocks : retry[c][h] # {}})
            /\ row' = Restatus(b, "failed", "pending")
            /\ blk' = [blk EXCEPT ![c] = b]
            /\ batch' = [batch EXCEPT ![c] = retry[c][b]]
            /\ retry' = [retry EXCEPT ![c][b] = {}]
            /\ Goto(c, "retrySend")
       \/ /\ "db" \in Faults
          /\ retry' = [retry EXCEPT ![c] = [h \in Blocks |-> {}]]
          /\ Goto(c, "select")
          /\ UNCHANGED <<row, blk, batch>>
    /\ UNCHANGED <<steady, entries, money, todo, payable, rest, togo>>

RetrySend(c) ==
    /\ pc[c] = "retrySend"
    /\ \/ Accepted(blk[c], batch[c]) /\ Goto(c, "retrySettle")
       \/ Refused /\ Goto(c, "retryRevert")
       \/ TimedOut(blk[c], batch[c]) /\ Goto(c, "retryRevert")
    /\ UNCHANGED <<steady, row, entries, plan, work>>

\* The transaction id goes to every pending row of the height.  This UPDATE is
\* inside the try: when it fails, the rows are reverted although they were paid.
RetrySettle(c) ==
    /\ pc[c] = "retrySettle"
    /\ \/ /\ row' = Restatus(blk[c], "pending", "sent")
          /\ AfterRetry(c, retry[c])
          /\ batch' = [batch EXCEPT ![c] = {}]
       \/ "db" \in Faults /\ Goto(c, "retryRevert") /\ UNCHANGED <<row, batch>>
    /\ UNCHANGED <<steady, entries, money, plan, blk, rest, togo>>

RetryRevert(c) ==
    /\ pc[c] = "retryRevert"
    /\ batch' = [batch EXCEPT ![c] = {}]
    /\ \/ /\ row' = Restatus(blk[c], "pending", "failed")
          /\ AfterRetry(c, retry[c])
          /\ UNCHANGED retry
       \/ /\ "db" \in Faults
          /\ retry' = [retry EXCEPT ![c] = [h \in Blocks |-> {}]]
          /\ Goto(c, "select")
          /\ UNCHANGED row
    /\ UNCHANGED <<steady, entries, money, todo, payable, blk, rest, togo>>

----------------------------------------------------------------------------
(* _getConfirmedBlocks *)

\* getblockcount, then the unconfirmed rows at least 100 blocks below the tip.
SelectBlocks(c) ==
    /\ pc[c] = "select"
    /\ \/ LET ready == deep \ (confirmed \cup orphaned)
          IN /\ todo' = [todo EXCEPT ![c] = ready]
             /\ Goto(c, IF ready = {} THEN "end" ELSE "verify")
       \/ Faults \cap {"rpc", "db"} # {} /\ Goto(c, "end") /\ UNCHANGED todo
    /\ UNCHANGED <<steady, row, entries, money, retry, payable, work>>

AfterVerify(c, left, good) ==
    Goto(c, IF left # {} THEN "verify" ELSE IF good # {} THEN "shares" ELSE "end")

\* getblockhash at the height, then getblock of that hash: the confirmations
\* are those of whatever block the chain has there.
VerifyBlock(c) ==
    /\ pc[c] = "verify"
    /\ \E b \in Blocks :
          /\ IsLowest(b, todo[c])
          /\ blk' = [blk EXCEPT ![c] = b]
          /\ todo' = [todo EXCEPT ![c] = @ \ {b}]
          /\ \/ Goto(c, IF b \in deep THEN "confirm" ELSE "orphan")
             \/ "rpc" \in Faults /\ AfterVerify(c, todo[c] \ {b}, payable[c])
    /\ UNCHANGED <<steady, row, entries, money, retry, payable, rest, batch, togo>>

\* confirmed.push(block) comes before the UPDATE, whose failure is swallowed.
ConfirmBlock(c) ==
    /\ pc[c] = "confirm"
    /\ payable' = [payable EXCEPT ![c] = @ \cup {blk[c]}]
    /\ \/ confirmed' = confirmed \cup {blk[c]}
       \/ "db" \in Faults /\ UNCHANGED confirmed
    /\ AfterVerify(c, todo[c], payable[c] \cup {blk[c]})
    /\ UNCHANGED <<chain, deep, orphaned, row, entries, money, bootVars, flags, retry, todo, work>>

OrphanBlock(c) ==
    /\ pc[c] = "orphan"
    /\ \/ orphaned' = orphaned \cup {blk[c]}
       \/ "db" \in Faults /\ UNCHANGED orphaned
    /\ AfterVerify(c, todo[c], payable[c])
    /\ UNCHANGED <<chain, deep, confirmed, row, entries, money, bootVars, flags, plan, work>>

----------------------------------------------------------------------------
(* One block: shares, dust, batches *)

\* _calculatePPLNS and _calculatePayments.  An SQL error yields no shares and
\* the loop goes on to the next block.
CalculateShares(c) ==
    /\ pc[c] = "shares"
    /\ \E b \in Blocks :
          /\ IsLowest(b, payable[c])
          /\ blk' = [blk EXCEPT ![c] = b]
          /\ \/ /\ togo' = [togo EXCEPT ![c] = Dust(b)]
                /\ rest' = [rest EXCEPT ![c] = Owed(b)]
                /\ Goto(c, IF Dust(b) = {} THEN "batch" ELSE "accumulate")
                /\ UNCHANGED payable
             \/ /\ "db" \in Faults \/ Owed(b) \cup Dust(b) = {}
                /\ payable' = [payable EXCEPT ![c] = @ \ {b}]
                /\ Goto(c, IF payable[c] = {b} THEN "end" ELSE "shares")
                /\ UNCHANGED <<togo, rest>>
    /\ UNCHANGED <<steady, row, entries, money, retry, todo, batch>>

\* Amounts below the minimum go to the Redis balance one by one; errors are swallowed.
Accumulate(c) ==
    /\ pc[c] = "accumulate"
    /\ \E a \in togo[c] :
          /\ togo' = [togo EXCEPT ![c] = @ \ {a}]
          /\ \/ accumulated' = accumulated \cup {<<c, blk[c], a>>}
             \/ "redis" \in Faults /\ UNCHANGED accumulated
          /\ Goto(c, IF togo[c] = {a} THEN "batch" ELSE "accumulate")
    /\ UNCHANGED <<steady, row, credited, ledger, money, plan, blk, rest, batch>>

\* The next slice of at most MaxBatch addresses; _markRoundPaid when none is left.
NextBatch(c) ==
    /\ pc[c] = "batch"
    /\ \/ /\ rest[c] = {}
          /\ AfterBlock(c)
          /\ batch' = [batch EXCEPT ![c] = {}]
          /\ UNCHANGED <<rest, togo>>
       \/ \E S \in SUBSET rest[c] :
            /\ S # {}
            /\ \/ S = rest[c] /\ Cardinality(S) <= MaxBatch
               \/ Cardinality(S) = MaxBatch
            /\ batch' = [batch EXCEPT ![c] = S]
            /\ rest' = [rest EXCEPT ![c] = @ \ S]
            /\ togo' = [togo EXCEPT ![c] = S]
            /\ Goto(c, "insert")
            /\ UNCHANGED payable
    /\ UNCHANGED <<steady, row, entries, money, retry, todo, blk>>

\* INSERT one pending row before the money moves.
InsertPending(c) ==
    /\ pc[c] = "insert"
    /\ \/ \E a \in togo[c] :
            /\ row' = [row EXCEPT ![RowOf(c, a, "batch")] = "pending"]
            /\ togo' = [togo EXCEPT ![c] = @ \ {a}]
            /\ Goto(c, IF togo[c] = {a} THEN "send" ELSE "insert")
       \/ "db" \in Faults /\ ToCatch(c) /\ UNCHANGED row
    /\ UNCHANGED <<steady, entries, money, plan, blk, rest, batch>>

SendBatch(c) ==
    /\ pc[c] = "send"
    /\ \/ /\ Accepted(blk[c], batch[c])
          /\ Goto(c, "mark")
          /\ togo' = [togo EXCEPT ![c] = batch[c]]
       \/ Refused /\ ToCatch(c)
       \/ TimedOut(blk[c], batch[c]) /\ ToCatch(c)
    /\ UNCHANGED <<steady, row, entries, plan, blk, rest, batch>>

\* UPDATE one of the rows inserted for this batch, whatever its status is by now.
MarkSent(c) ==
    /\ pc[c] = "mark"
    /\ \/ \E a \in togo[c] :
            /\ row' = [row EXCEPT ![RowOf(c, a, "batch")] = "sent"]
            /\ togo' = [togo EXCEPT ![c] = IF @ = {a} THEN batch[c] ELSE @ \ {a}]
            /\ Goto(c, IF togo[c] = {a} THEN "credit" ELSE "mark")
       \/ "db" \in Faults /\ ToCatch(c) /\ UNCHANGED row
    /\ UNCHANGED <<steady, entries, money, plan, blk, rest, batch>>

\* miners.total_paid, one address at a time.
CreditMiner(c) ==
    /\ pc[c] = "credit"
    /\ \/ \E a \in togo[c] :
            /\ credited' = credited \cup {<<c, blk[c], a>>}
            /\ togo' = [togo EXCEPT ![c] = @ \ {a}]
            /\ Goto(c, IF togo[c] = {a} THEN "ledger" ELSE "credit")
       \/ "db" \in Faults /\ ToCatch(c) /\ UNCHANGED credited
    /\ UNCHANGED <<steady, row, ledger, accumulated, money, plan, blk, rest, batch>>

\* block_fee_ledger has one row per block: ON CONFLICT DO NOTHING keeps the
\* first batch's figures.  A failed INSERT is swallowed.
RecordLedger(c) ==
    /\ pc[c] = "ledger"
    /\ \/ ledger' = [ledger EXCEPT ![blk[c]] = IF @ = {} THEN batch[c] ELSE @]
       \/ "db" \in Faults /\ UNCHANGED ledger
    /\ Goto(c, "batch")
    /\ UNCHANGED <<steady, row, credited, accumulated, money, plan, work>>

\* A failed row per recipient.  An INSERT that fails here ends the whole cycle.
InsertFailed(c) ==
    /\ pc[c] = "catch"
    /\ \/ \E a \in togo[c] :
            /\ row' = [row EXCEPT ![RowOf(c, a, "catch")] = "failed"]
            /\ togo' = [togo EXCEPT ![c] = @ \ {a}]
            /\ IF togo[c] = {a} THEN AfterBlock(c) ELSE UNCHANGED <<pc, payable>>
       \/ "db" \in Faults /\ Goto(c, "end") /\ UNCHANGED <<row, togo, payable>>
    /\ UNCHANGED <<steady, entries, money, retry, todo, blk, rest, batch>>

----------------------------------------------------------------------------

Init ==
    /\ chain = [b \in Blocks |-> "ours"]
    /\ deep = {} /\ confirmed = {} /\ orphaned = {}
    /\ row = [k \in Keys |-> "none"]
    /\ credited = {} /\ accumulated = {}
    /\ ledger = [b \in Blocks |-> {}]
    /\ wallet = <<>> /\ inflight = {}
    /\ boot = "down" /\ groups = {} /\ seen = 0
    /\ processing = FALSE /\ timer = [c \in Cycles |-> FALSE]
    /\ pc = [c \in Cycles |-> "idle"] /\ blk = [c \in Cycles |-> NoBlock]
    /\ retry = NoRetry /\ todo = Nothing /\ payable = Nothing
    /\ rest = Nothing /\ batch = Nothing /\ togo = Nothing

Boot == Start \/ SelectPending \/ ListTransactions \/ \E b \in Blocks : ReconcileGroup(b)

Retrying(c) ==
    RetrySelect(c) \/ RetryMark(c) \/ RetrySend(c) \/ RetrySettle(c) \/ RetryRevert(c)
Confirming(c) == SelectBlocks(c) \/ VerifyBlock(c) \/ ConfirmBlock(c) \/ OrphanBlock(c)
Paying(c) ==
    \/ CalculateShares(c) \/ Accumulate(c) \/ NextBatch(c) \/ InsertPending(c)
    \/ SendBatch(c) \/ MarkSent(c) \/ CreditMiner(c) \/ RecordLedger(c) \/ InsertFailed(c)

Cycle(c) == StartCycle(c) \/ Retrying(c) \/ Confirming(c) \/ Paying(c) \/ EndCycle(c)

Environment ==
    \/ \E b \in Blocks : Mature(b) \/ Reorg(b)
    \/ \E tx \in inflight : LateSend(tx)
    \/ Crash
    \/ \E c \in Cycles : TimerFires(c)

Next == Environment \/ Boot \/ \E c \in Cycles : Cycle(c)

Spec == Init /\ [][Next]_vars
=============================================================================
