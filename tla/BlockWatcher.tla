---------------------------- MODULE BlockWatcher ----------------------------
(***************************************************************************)
(* The block confirmation watcher, src/src/workers/blockWatcher.js.  Every *)
(* minute it reads the blocks neither confirmed nor orphaned, and for each *)
(* of them asks the chain, writes what it heard, and decides on the hash   *)
(* it had read before it wrote.                                            *)
(***************************************************************************)
EXTENDS Naturals

CONSTANTS Blocks,     \* heights of found blocks
          Watchers,   \* how many checkBlocks may overlap: the interval has no guard
          MaxRestarts,  \* bound of the exploration: crashes of the watcher on its own
          Faults      \* subset of {"rpc", "db", "crash", "reorg"}

ASSUME WatcherAssumption ==
    /\ Blocks \subseteq Nat /\ Blocks # {}
    /\ MaxRestarts \in Nat

VARIABLES
    chain, deep,           \* the main chain, as in PaymentProcessor
    confirmed, orphaned,   \* columns of the blocks table
    hash,                  \* blocks.hash: the pool's own block or another
    wpc,                   \* where each checkBlocks is
    queue,                 \* blocks it read and has not checked
    snap,                  \* the hash column as it read it
    at,                    \* the block it is checking
    heard                  \* what the chain said about that height

world == <<chain, deep>>
table == <<confirmed, orphaned, hash>>
local == <<wpc, queue, snap, at, heard>>
wvars == <<world, table, local>>

Hashes == {"ours", "other"}
Unasked == [hash |-> "ours", mature |-> FALSE]

WTypeOK ==
    /\ chain \in [Blocks -> Hashes]
    /\ deep \subseteq Blocks /\ confirmed \subseteq Blocks /\ orphaned \subseteq Blocks
    /\ hash \in [Blocks -> Hashes]
    /\ wpc \in [Watchers -> {"idle", "ask", "write", "flag", "confirm"}]
    /\ queue \in [Watchers -> SUBSET Blocks]
    /\ snap \in [Watchers -> [Blocks -> Hashes]]
    /\ at \in [Watchers -> Blocks]
    /\ heard \in [Watchers -> [hash : Hashes, mature : BOOLEAN]]

AnyBlock == CHOOSE b \in Blocks : TRUE

\* shareProcessor inserts a found block with its own hash.
WInit ==
    /\ hash = [b \in Blocks |-> "ours"]
    /\ wpc = [w \in Watchers |-> "idle"]
    /\ queue = [w \in Watchers |-> {}]
    /\ snap = [w \in Watchers |-> [b \in Blocks |-> "ours"]]
    /\ at = [w \in Watchers |-> AnyBlock]
    /\ heard = [w \in Watchers |-> Unasked]

WGoto(w, l) == wpc' = [wpc EXCEPT ![w] = l]
NextBlock(w) == WGoto(w, IF queue[w] = {} THEN "idle" ELSE "ask")

\* Wrong on purpose: a height that is not final yet has no hash.
AnswerUnknown(b) == [hash |-> IF b \in deep THEN chain[b] ELSE "none", mature |-> b \in deep]
Answer(b) == [hash |-> chain[b], mature |-> b \in deep]

\* Wrong on purpose: what is not deep enough is an orphan, as paymentProcessor.js:242 has it.
DecidedByDepth(w) ==
    IF ~heard[w].mature \/ snap[w][at[w]] # heard[w].hash THEN "flag" ELSE "confirm"

\* Wrong on purpose: a block is payable however young.
DecidedEarly(w) == IF snap[w][at[w]] # heard[w].hash THEN "flag" ELSE "confirm"

\* What a check concludes, from the hash it read before it wrote the new one.
Decided(w) ==
    IF snap[w][at[w]] # heard[w].hash THEN "flag"
    ELSE IF heard[w].mature THEN "confirm" ELSE "wait"

\* SELECT the blocks that are neither confirmed nor orphaned.
CheckBlocks(w) ==
    /\ wpc[w] = "idle"
    /\ queue' = [queue EXCEPT ![w] = Blocks \ (confirmed \cup orphaned)]
    /\ queue'[w] # {}
    /\ snap' = [snap EXCEPT ![w] = hash]
    /\ WGoto(w, "ask")
    /\ UNCHANGED <<world, table, at, heard>>

\* getblockhash at the height and getblock of that hash; on an error the block
\* waits for the next minute.
AskChain(w) ==
    /\ wpc[w] = "ask"
    /\ \E b \in queue[w] :
          /\ \A x \in queue[w] : b <= x
          /\ queue' = [queue EXCEPT ![w] = @ \ {b}]
          /\ at' = [at EXCEPT ![w] = b]
          /\ \/ /\ heard' = [heard EXCEPT ![w] = Answer(b)]
                /\ WGoto(w, "write")
             \/ /\ "rpc" \in Faults
                /\ WGoto(w, IF queue[w] = {b} THEN "idle" ELSE "ask")
                /\ UNCHANGED heard
    /\ UNCHANGED <<world, table, snap>>

\* UPDATE confirmations and hash, before the comparison with the hash read.
WriteHash(w) ==
    /\ wpc[w] = "write"
    /\ \/ /\ hash' = [hash EXCEPT ![at[w]] = heard[w].hash]
          /\ IF Decided(w) = "wait" THEN NextBlock(w) ELSE WGoto(w, Decided(w))
       \/ "db" \in Faults /\ NextBlock(w) /\ UNCHANGED hash
    /\ UNCHANGED <<world, confirmed, orphaned, queue, snap, at, heard>>

FlagOrphan(w) ==
    /\ wpc[w] = "flag"
    /\ \/ orphaned' = orphaned \cup {at[w]}
       \/ "db" \in Faults /\ UNCHANGED orphaned
    /\ NextBlock(w)
    /\ UNCHANGED <<world, confirmed, hash, queue, snap, at, heard>>

ConfirmMature(w) ==
    /\ wpc[w] = "confirm"
    /\ \/ confirmed' = confirmed \cup {at[w]}
       \/ "db" \in Faults /\ UNCHANGED confirmed
    /\ NextBlock(w)
    /\ UNCHANGED <<world, orphaned, hash, queue, snap, at, heard>>

\* A restart forgets the check under way.
WForget ==
    /\ wpc' = [w \in Watchers |-> "idle"]
    /\ queue' = [w \in Watchers |-> {}]
    /\ snap' = [w \in Watchers |-> [b \in Blocks |-> "ours"]]
    /\ at' = [w \in Watchers |-> AnyBlock]
    /\ heard' = [w \in Watchers |-> Unasked]

Watch(w) ==
    CheckBlocks(w) \/ AskChain(w) \/ WriteHash(w) \/ FlagOrphan(w) \/ ConfirmMature(w)

----------------------------------------------------------------------------
(* The watcher alone, on a chain that keeps what is 100 blocks deep. *)

VARIABLE restarts

awvars == <<wvars, restarts>>

Deepen(b) ==
    /\ b \notin deep
    /\ deep' = deep \cup {b}
    /\ UNCHANGED <<chain, table, local, restarts>>

\* A fork takes the height of a block that is not yet deep.
Replace(b) ==
    /\ "reorg" \in Faults
    /\ b \notin deep /\ chain[b] = "ours"
    /\ chain' = [chain EXCEPT ![b] = "other"]
    /\ UNCHANGED <<deep, table, local, restarts>>

Restart ==
    /\ "crash" \in Faults
    /\ restarts < MaxRestarts
    /\ restarts' = restarts + 1
    /\ WForget
    /\ UNCHANGED <<world, table>>

AloneInit ==
    /\ chain = [b \in Blocks |-> "ours"]
    /\ deep = {} /\ confirmed = {} /\ orphaned = {}
    /\ WInit
    /\ restarts = 0

AloneNext ==
    \/ \E b \in Blocks : Deepen(b) \/ Replace(b)
    \/ \E w \in Watchers : Watch(w) /\ UNCHANGED restarts
    \/ Restart

\* The interval fires for ever, blocks get deep, and a call that is made again
\* and again about a block works in the end.
AloneFair ==
    /\ \A b \in Blocks : WF_awvars(Deepen(b))
    /\ \A w \in Watchers :
          /\ WF_awvars(Watch(w) /\ UNCHANGED restarts)
          /\ \A b \in Blocks :
                /\ SF_awvars(AskChain(w) /\ at'[w] = b /\ wpc'[w] = "write" /\ UNCHANGED restarts)
                /\ SF_awvars(WriteHash(w) /\ at[w] = b /\ wpc'[w] \in {"flag", "confirm"}
                             /\ UNCHANGED restarts)
                /\ SF_awvars(FlagOrphan(w) /\ b \in orphaned' \ orphaned /\ UNCHANGED restarts)
                /\ SF_awvars(ConfirmMature(w) /\ b \in confirmed' \ confirmed /\ UNCHANGED restarts)

AloneSpec == AloneInit /\ [][AloneNext]_awvars /\ AloneFair

----------------------------------------------------------------------------

\* The watcher flags no block the chain has kept, whatever failed or restarted
\* between what it read, what it wrote and what it decided.
NoFalseOrphan == \A b \in orphaned : chain[b] = "other"

\* The hash the table shows for a block it offers for payout is the one the
\* chain has at that height.
PayableShowsChainHash == \A b \in confirmed \ orphaned : hash[b] = chain[b]

\* A block the chain keeps is offered for payout in the end.
KeptIsConfirmed ==
    \A b \in Blocks : <>(chain[b] = "other" \/ b \in confirmed \ orphaned)

\* A block that a fork replaced is flagged orphaned in the end (blockWatcher.js:4:
\* it detects orphans).
ReplacedIsFlagged == \A b \in Blocks : chain[b] = "other" ~> b \in orphaned
=============================================================================
