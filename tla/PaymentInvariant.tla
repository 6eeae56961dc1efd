-------------------------- MODULE PaymentInvariant --------------------------
(***************************************************************************)
(* Why no address is paid twice: the inductive invariant behind            *)
(* PaidAtMostOnce, for the faults the engine recovers from.                *)
(***************************************************************************)
EXTENDS PaymentProperties

\* sendmany refuses, the process dies, Redis fails, the chain forks: what the
\* rows left pending, the retry of failed rows and the match at startup are for.
\* Every block's recipients fit one batch, and all failed rows one retry query.
Recovers ==
    /\ Faults \subseteq {"refuse", "crash", "redis", "reorg"}
    /\ \A S \in SUBSET Addrs : Cardinality(S) = MaxBatch => S = Addrs
    /\ \A S \in SUBSET Keys : Cardinality(S) = RetryLimit => S = Keys

Paid(b, a) == \E i \in DOMAIN wallet : wallet[i].blk = b /\ a \in wallet[i].addrs
Rows(b, s) == {k \in Keys : k.blk = b /\ row[k] = s}
Untouched(b) ==
    (\A k \in Keys : k.blk = b => row[k] = "none") /\ \A i \in DOMAIN wallet : wallet[i].blk # b
LastPays(b, S) == wallet # <<>> /\ wallet[Len(wallet)] = [blk |-> b, addrs |-> S]

\* The flag is a lock, and no request is left behind.
Locked ==
    /\ \A c \in Cycles : pc[c] # "idle" => processing /\ boot = "running"
    /\ OneCycleAtATime
    /\ inflight = {}

\* What the next cycle will send again was not sent.
FailedIsUnpaid == \A k \in Keys : row[k] = "failed" => ~Paid(k.blk, k.addr)

\* A pending row that was paid is paid by the newest transaction, which pays
\* every other pending row of the block too; and while the process runs, a cycle
\* is about to settle it.
PendingPaidLast ==
    \A k \in Keys : row[k] = "pending" /\ Paid(k.blk, k.addr) =>
        /\ wallet # <<>> /\ wallet[Len(wallet)].blk = k.blk
        /\ \A l \in Rows(k.blk, "pending") : l.addr \in wallet[Len(wallet)].addrs
        /\ boot = "running" => \E c \in Cycles : blk[c] = k.blk /\ pc[c] \in {"mark", "retrySettle"}

\* A pending row has a failed twin, or a cycle is working on its block.
PendingIsWatched ==
    boot = "running" => \A k \in Keys : row[k] = "pending" =>
        \/ \E l \in Rows(k.blk, "failed") : l.addr = k.addr
        \/ \E c \in Cycles :
              /\ blk[c] = k.blk
              /\ pc[c] \in {"insert", "send", "mark", "catch", "retrySend", "retrySettle", "retryRevert"}

\* The reconciliation at startup knows every pending row and the whole history.
Reconciles ==
    /\ boot \in {"list", "match"} => groups = {k \in Keys : row[k] = "pending"}
    /\ boot = "match" => seen = Len(wallet)

\* Only a confirmed block has rows or transactions.
TouchedIsConfirmed == \A b \in Blocks : Untouched(b) \/ b \in confirmed

\* The heights a cycle still has to retry.
RetryPlan(c) ==
    \A h \in Blocks : retry[c][h] # {} =>
        /\ h \in confirmed
        /\ \A a \in retry[c][h] : ~Paid(h, a)
        /\ \A k \in Rows(h, "failed") : k.addr \in retry[c][h]

RetryPhase(c) ==
    /\ pc[c] \in {"retryMark", "retrySend", "retrySettle", "retryRevert"} => RetryPlan(c)
    /\ pc[c] \in {"retrySend", "retrySettle", "retryRevert"} =>
         /\ blk[c] \in confirmed /\ retry[c][blk[c]] = {}
         /\ Rows(blk[c], "failed") = {}
         /\ \A k \in Rows(blk[c], "pending") : k.addr \in batch[c]
    /\ pc[c] = "retrySend" => \A a \in batch[c] : ~Paid(blk[c], a)
    /\ pc[c] = "retrySettle" => LastPays(blk[c], batch[c])

\* What a cycle will pay for the first time was never touched.
ConfirmPhase(c) ==
    /\ pc[c] \in {"idle", "retrySelect", "retryMark", "retrySend", "retrySettle", "retryRevert",
                  "select"} => payable[c] = {}
    /\ pc[c] \in {"verify", "confirm", "orphan", "shares"} =>
         \A b \in payable[c] : b \in confirmed /\ Untouched(b)
    /\ pc[c] \in {"verify", "confirm", "orphan"} => \A b \in todo[c] : Untouched(b)
    /\ pc[c] \in {"confirm", "orphan"} => Untouched(blk[c])

PayPhase(c) ==
    LET b == blk[c] IN
    /\ pc[c] \in {"accumulate", "batch", "insert", "send", "mark", "credit", "ledger", "catch"} =>
         /\ b \in confirmed
         /\ \A x \in payable[c] \ {b} : x \in confirmed /\ Untouched(x)
    /\ pc[c] = "accumulate" => Untouched(b) /\ rest[c] = Owed(b)
    /\ pc[c] = "batch" => rest[c] = {} \/ (Untouched(b) /\ rest[c] = Owed(b))
    /\ pc[c] \in {"insert", "send", "mark", "credit", "ledger", "catch"} =>
         rest[c] = {} /\ batch[c] = Owed(b)
    /\ pc[c] \in {"insert", "send", "catch"} => \A i \in DOMAIN wallet : wallet[i].blk # b
    /\ pc[c] \in {"insert", "send", "mark", "credit", "ledger"} => Rows(b, "failed") = {}
    /\ pc[c] \in {"insert", "send", "mark"} =>
         \A k \in Rows(b, "pending") : k.by = c /\ k.kind = "batch" /\ k.addr \in batch[c]
    /\ pc[c] = "insert" => togo[c] \subseteq batch[c]
    /\ pc[c] = "mark" =>
         /\ LastPays(b, batch[c])
         /\ \A k \in Rows(b, "pending") : k.addr \in togo[c]
    /\ pc[c] \in {"credit", "ledger"} => Rows(b, "pending") = {}
    /\ pc[c] = "catch" => \A k \in Rows(b, "pending") :
         k.addr \in togo[c] \/ \E l \in Rows(b, "failed") : l.addr = k.addr

\* The tables against the wallet, and a cycle against both.
Books ==
    /\ PaidAtMostOnce /\ FailedIsUnpaid /\ PendingPaidLast /\ PendingIsWatched
    /\ Reconciles /\ TouchedIsConfirmed

Phase(c) == RetryPhase(c) /\ ConfirmPhase(c) /\ PayPhase(c)

\* Between any two awaits of start, processPayments and what they call, the
\* tables, the wallet and the locals of the cycles agree so far that the next
\* step cannot pay twice.
RecoveryInv == TypeOK /\ Locked /\ Books /\ \A c \in Cycles : Phase(c)
=============================================================================
