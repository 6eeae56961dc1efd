------------------------- MODULE PaymentProperties -------------------------
(* What is asked of PaymentProcessor, and its abstraction to Settlement. *)
EXTENDS PaymentProcessor

\* Transactions that pay address a for block b.
PaidBy(b, a) == {i \in DOMAIN wallet : wallet[i].blk = b /\ a \in wallet[i].addrs}

\* No address is paid twice for the same block, whatever retries, crashes and
\* restarts lie between the pending rows and the transaction that pays them
\* (_executeBatchPayment, _retryFailedPayments and _reconcilePending together).
PaidAtMostOnce ==
    \A i, j \in DOMAIN wallet :
        wallet[i].blk = wallet[j].blk /\ wallet[i].addrs \cap wallet[j].addrs # {} => i = j

\* A row the books call sent stands for money the wallet has moved: nothing that
\* settles a row (the batch, the retry of a height, the match at startup) may
\* settle one nobody paid.
SentMeansPaid == \A k \in Keys : row[k] = "sent" => PaidBy(k.blk, k.addr) # {}

\* While no cycle is working, a payment still pending has a failed row beside it
\* for the same block and address: _retryFailedPayments looks at failed rows
\* only, so a pending row alone would wait for a restart.
PendingIsRetried ==
    boot = "running" /\ (\A c \in Cycles : pc[c] = "idle") =>
        \A k \in Keys : row[k] = "pending" =>
            \E l \in Keys : l.blk = k.blk /\ l.addr = k.addr /\ row[l] = "failed"

\* miners.total_paid never counts more for a block than the wallet paid, even
\* when statements fail, answers are lost and cycles overlap.
CreditMeansPaid ==
    \A b \in Blocks, a \in Addrs :
        Cardinality({c \in Cycles : <<c, b, a>> \in credited}) <= Cardinality(PaidBy(b, a))

\* The public ledger's row of a block names a transaction that exists and paid
\* exactly the recipients the row counts.
LedgerMeansPaid ==
    \A b \in Blocks : ledger[b] # {} =>
        \E i \in DOMAIN wallet : wallet[i].blk = b /\ wallet[i].addrs = ledger[b]

\* At most one cycle is between its first and its last statement: the
\* processing flag is a lock as long as no cycle outlives its timer.
OneCycleAtATime ==
    \A c, d \in Cycles : pc[c] # "idle" /\ pc[d] # "idle" => c = d

SentPairs == {<<k.blk, k.addr>> : k \in {l \in Keys : row[l] = "sent"}}

Abstract == INSTANCE Settlement WITH history <- wallet, settled <- SentPairs

\* The engine implements Settlement: each of its steps is one payment of unpaid
\* addresses, a settlement of paid ones, or none of the promise's business.
ImplementsSettlement == Abstract!Spec

----------------------------------------------------------------------------
(* Liveness.  The interval timer never stops firing and the code between two *)
(* awaits always ends, so a cycle that can step does; a wallet that is asked *)
(* again and again accepts in the end.                                       *)

Fairness ==
    /\ WF_vars(Boot)
    /\ \A b \in Blocks : WF_vars(Mature(b))
    /\ \A c \in Cycles :
          /\ WF_vars(Cycle(c))
          /\ SF_vars(RetrySend(c) /\ wallet' # wallet)

FairSpec == Spec /\ Fairness

\* The process is restarted for the last time at some point.
Settles == <>[](boot = "running")

\* A payment recorded as failed is made in some later cycle, also when crashes
\* and restarts come first (README: failed payments retried every cycle until
\* successful).
FailedEventuallyPaid ==
    Settles => \A b \in Blocks, a \in Addrs :
        (\E k \in Keys : k.blk = b /\ k.addr = a /\ row[k] = "failed") ~> (PaidBy(b, a) # {})

\* No payment stays pending for ever: _reconcilePending, the retry of its height
\* or its own cycle decides it.
PendingEventuallyDecided ==
    Settles => \A k \in Keys : row[k] = "pending" ~> row[k] # "pending"

\* Every address owed for a block that matures is paid in the end.
MatureEventuallyPaid ==
    \A b \in Blocks : \A a \in Owed(b) : b \in deep ~> PaidBy(b, a) # {}
=============================================================================
