-------------------------- MODULE ShareProcessing --------------------------
(***************************************************************************)
(* A share from mining.submit to its row, and a found block to the chain:  *)
(* shareProcessor.js, redisDedup.js and rpcClient.submitBlock.             *)
(*                                                                         *)
(* A slot runs one processShare; each action is the code between two       *)
(* awaits.  A share is named by the client, the job and the nonce (which   *)
(* stands for extranonce2, ntime and nonce); how hard its hash is, Work,   *)
(* depends on the nonce.                                                   *)
(***************************************************************************)
EXTENDS JobTemplates

CONSTANTS
    Slots,       \* how many shares may be in processShare at once
    Nonces,      \* solutions a miner may send
    Work,        \* nonce -> the highest difficulty its hash meets
    Diffs,       \* difficulties VarDiff may give a client
    NetDiff,     \* difficulty of the network
    MaxRetries,  \* attempts of submitBlock: 3
    MaxShares    \* bound of the exploration: shares submitted

ASSUME ShareAssumption ==
    /\ Clients # {} /\ Nonces # {}
    /\ Work \in [Nonces -> Nat]
    /\ Diffs \subseteq Nat /\ Diffs # {}
    /\ NetDiff \in Nat
    /\ MaxRetries \in Nat \ {0} /\ MaxShares \in Nat

VARIABLES
    difficulty,  \* client.difficulty
    sent,        \* shares submitted so far
    spc,         \* where each slot is
    share,       \* the share a slot processes, with the difficulty at submission
    tries,       \* attempts of submitBlock a slot has made
    parts,       \* what a slot has read of its job, and when: see Parts
    seen,        \* dedup keys in Redis
    fallback,    \* dedup keys in memory
    shares,      \* rows of shares with status valid, in order
    blocks,      \* rows of the blocks table
    offered,     \* blocks handed to litecoind, with what they are made of
    onChain,     \* keys of the pool's blocks litecoind has accepted
    tree,        \* the aux blocks whose tree checkAuxChains built for a valid share
    left         \* aux chains it has not looked at yet

slotVars  == <<spc, share, tries, parts>>
dedupVars == <<seen, fallback>>
chainVars == <<offered, onChain>>
proofVars == <<tree, left>>
shareVars == <<difficulty, sent, slotVars, dedupVars, shares, blocks, chainVars, proofVars>>

Keys == [client : Clients, job : Jobs, nonce : Nonces]
Shares == [key : Keys, diff : Diffs]
Idle == [key |-> CHOOSE k \in Keys : TRUE, diff |-> CHOOSE d \in Diffs : TRUE]

\* The stored job is read three times, with awaits between: the template before
\* the dedup filter is asked, all of it for the header that is hashed, and the
\* coinbase after the row was written.
Parts == [template : Job, header : Job, coinbase : Job]
NoParts == [template |-> NoJob, header |-> NoJob, coinbase |-> NoJob]
Blocks == [key : Keys, header : Job, coinbase : Job, txs : Job]

ShareTypeOK ==
    /\ difficulty \in [Clients -> Diffs]
    /\ sent \in 0 .. MaxShares
    /\ spc \in [Slots -> {"idle", "security", "dedup", "hash", "row", "submit", "record",
                          "aux", "auxAnswer", "auxRefresh"}]
    /\ share \in [Slots -> Shares]
    /\ tries \in [Slots -> 0 .. MaxRetries]
    /\ seen \subseteq Keys /\ fallback \subseteq Keys
    /\ shares \in Seq(Shares)
    /\ blocks \subseteq Keys /\ onChain \subseteq Keys
    /\ parts \in [Slots -> Parts]
    /\ offered \subseteq Blocks
    /\ tree \in [Slots -> [Aux -> 0 .. MaxAux]]
    /\ left \in [Slots -> SUBSET Aux]

----------------------------------------------------------------------------
(* Helpers *)

JobOf(s) == share[s].key.job
Move(s, l) == spc' = [spc EXCEPT ![s] = l]

\* processShare returns, and its local variables are gone.
Done(s) ==
    /\ Move(s, "idle")
    /\ share' = [share EXCEPT ![s] = Idle]
    /\ tries' = [tries EXCEPT ![s] = 0]
    /\ parts' = [parts EXCEPT ![s] = NoParts]

\* Wrong on purpose: the answer of SET NX is not looked at.
IsNewAnyway(k) == seen' = seen \cup {k} /\ UNCHANGED fallback

\* The outcome of a SET NX: new, or already there.  A failed command leaves the
\* decision to the keys in memory, whether Redis executed it or not.
RedisNew(k) == k \notin seen /\ seen' = seen \cup {k} /\ UNCHANGED fallback
FallbackNew(k) ==
    /\ "redis" \in Faults
    /\ k \notin fallback /\ fallback' = fallback \cup {k}
    /\ seen' \in {seen, seen \cup {k}}
IsNew(k) == RedisNew(k) \/ FallbackNew(k)

IsDuplicate(k) ==
    /\ \/ k \in seen
       \/ "redis" \in Faults /\ k \in fallback
    /\ UNCHANGED dedupVars

\* Wrong on purpose: the coinbase of the current job, as before v0.4.1.
CoinbaseNow(j) == stored[jobId]

\* buildCoinbaseForJob, for a job that is there.
CoinbaseForJob(j) == stored[j]

\* Step 9 looks the job up again for the coinbase: when it was evicted meanwhile,
\* the catch clause rejects the share that was accepted and the aux chains never
\* see it.
EmitShare(s) ==
    IF HasJob(JobOf(s))
    THEN /\ Move(s, "aux")
         /\ tree' = [tree EXCEPT ![s] = auxBlocks]
         /\ left' = [left EXCEPT ![s] = Aux]
         /\ tries' = [tries EXCEPT ![s] = 0]
         /\ parts' = [parts EXCEPT ![s].coinbase = CoinbaseForJob(JobOf(s))]
         /\ UNCHANGED share
    ELSE Done(s) /\ UNCHANGED proofVars

\* Wrong on purpose: the difficulty of now, which VarDiff may have lowered since.
AcceptedDiffNow(s) == difficulty[share[s].key.client]
AcceptedDiff(s) == share[s].diff

\* _buildBlockHeader throws when the job is gone.
BuildsHeader(s) ==
    /\ HasJob(JobOf(s))
    /\ parts' = [parts EXCEPT ![s].header = stored[JobOf(s)]]

\* The block _submitBlock puts together: the header that was hashed, the coinbase
\* of the job as it is stored now, the transactions of the template read first.
BlockOf(s) == [key |-> share[s].key, header |-> parts[s].header,
               coinbase |-> CoinbaseForJob(JobOf(s)), txs |-> parts[s].template]

\* _recordShare; the counters in Redis, which only the API shows, are
\* left out.
ShareRow(s) ==
    \/ shares' = Append(shares, share[s])
    \/ "db" \in Faults /\ UNCHANGED shares

----------------------------------------------------------------------------
(* processShare *)

\* mining.submit: the share carries the difficulty of this moment.  The security
\* engine is awaited before the share is looked at.
Submit(s, c, j, n) ==
    /\ spc[s] = "idle"
    /\ c \in authorized
    /\ sent < MaxShares
    /\ sent' = sent + 1
    /\ share' = [share EXCEPT ![s] = [key |-> [client |-> c, job |-> j, nonce |-> n],
                                      diff |-> difficulty[c]]]
    /\ Move(s, "security")
    /\ UNCHANGED <<jobVars, difficulty, tries, parts, dedupVars, shares, blocks, chainVars,
                   proofVars>>

\* The security engine may reject it; the job may be unknown, the share stale.
CheckJob(s) ==
    /\ spc[s] = "security"
    /\ \/ /\ HasJob(JobOf(s))
          /\ parts' = [parts EXCEPT ![s].template = stored[JobOf(s)]]
          /\ Move(s, "dedup") /\ UNCHANGED <<share, tries>>
       \/ Done(s)
    /\ UNCHANGED <<jobVars, difficulty, sent, dedupVars, shares, blocks, chainVars,
                   proofVars>>

\* isDuplicate, then ntime, then the header of the stored job.  A bad ntime and
\* a job evicted meanwhile are rejected although the key is already taken.
CheckDuplicate(s) ==
    /\ spc[s] = "dedup"
    /\ \/ IsDuplicate(share[s].key) /\ Done(s)
       \/ /\ IsNew(share[s].key)
          /\ \/ BuildsHeader(s) /\ Move(s, "hash") /\ UNCHANGED <<share, tries>>
             \/ Done(s)
    /\ UNCHANGED <<jobVars, difficulty, sent, shares, blocks, chainVars, proofVars>>

\* The hash against the share's difficulty; VarDiff may retarget the client.
Judge(s) ==
    /\ spc[s] = "hash"
    /\ IF Work[share[s].key.nonce] >= AcceptedDiff(s)
       THEN /\ Move(s, "row")
            /\ \E d \in Diffs : difficulty' = [difficulty EXCEPT ![share[s].key.client] = d]
            /\ UNCHANGED <<share, tries, parts>>
       ELSE Done(s) /\ UNCHANGED difficulty
    /\ UNCHANGED <<jobVars, sent, dedupVars, shares, blocks, chainVars, proofVars>>

\* The row of the share; a failed INSERT is swallowed.  A hash that meets the
\* network's target becomes a block when the job is still there.
RecordShare(s) ==
    /\ spc[s] = "row"
    /\ ShareRow(s)
    /\ IF Work[share[s].key.nonce] >= NetDiff /\ HasJob(JobOf(s))
       THEN /\ offered' = offered \cup {BlockOf(s)}
            /\ Move(s, "submit")
            /\ UNCHANGED <<share, tries, parts, proofVars>>
       ELSE EmitShare(s) /\ UNCHANGED offered
    /\ UNCHANGED <<jobVars, difficulty, sent, dedupVars, blocks, onChain>>

----------------------------------------------------------------------------
(* A found block *)

\* litecoind takes a block that extends its best block and that it has not got.
Extends(s) == parts[s].header.on = tip /\ share[s].key \notin onChain /\ tip < MaxTip
Accepted(s) == Extends(s) /\ tip' = tip + 1 /\ onChain' = onChain \cup {share[s].key}
Refused(s) == ~Extends(s) /\ UNCHANGED <<tip, onChain>>

\* Wrong on purpose: after the last attempt it starts over.
AttemptAgain(s) ==
    /\ tries' = [tries EXCEPT ![s] = (@ + 1) % MaxRetries]
    /\ UNCHANGED <<spc, share, parts, proofVars>>

\* An attempt ended in an error: another one follows, or _submitBlock gives up.
AttemptFails(s) ==
    IF tries[s] + 1 = MaxRetries
    THEN EmitShare(s)
    ELSE tries' = [tries EXCEPT ![s] = @ + 1] /\ UNCHANGED <<spc, share, parts, proofVars>>

\* Wrong on purpose: any answer counts as acceptance.
NullAnswerAny(s) == Accepted(s) \/ Refused(s)
NullAnswer(s) == Accepted(s)

\* submitblock: null means accepted, a string why not.  When the answer of an
\* attempt is lost, the next one hears "duplicate".
SubmitBlock(s) ==
    /\ spc[s] = "submit"
    /\ \/ NullAnswer(s) /\ Move(s, "record") /\ UNCHANGED <<share, tries, parts, proofVars>>
       \/ Refused(s) /\ EmitShare(s)
       \/ "refuse" \in Faults /\ AttemptFails(s) /\ UNCHANGED <<tip, onChain>>
       \/ "lost" \in Faults /\ (Accepted(s) \/ Refused(s)) /\ AttemptFails(s)
    /\ UNCHANGED <<auxTip, engine, triggers, manager, clients, difficulty, sent, dedupVars, shares,
                   blocks, offered>>

\* Wrong on purpose: the job is looked up again, and may have been evicted.
BlockRowOfJob(s) == IF HasJob(JobOf(s)) THEN blocks' = blocks \cup {share[s].key}
                                        ELSE UNCHANGED blocks
BlockRow(s) == blocks' = blocks \cup {share[s].key}

\* INSERT INTO blocks; a failure is swallowed.  The handler of blockFound asks
\* for a new template.
RecordBlock(s) ==
    /\ spc[s] = "record"
    /\ \/ BlockRow(s)
       \/ "db" \in Faults /\ UNCHANGED blocks
    /\ IF CanUpdate THEN StartUpdate ELSE UNCHANGED upd
    /\ EmitShare(s)
    /\ UNCHANGED <<daemons, engine, triggers, got, jobs, clients, difficulty, sent, dedupVars,
                   shares, chainVars>>

----------------------------------------------------------------------------

\* A dedup key lives 600 seconds, a share's ntime may be 600 seconds ahead.
KeyExpires(k) ==
    /\ "expire" \in Faults
    /\ k \in seen
    /\ seen' = seen \ {k}
    /\ UNCHANGED <<jobVars, difficulty, sent, slotVars, fallback, shares, blocks, chainVars, proofVars>>

\* A restart: the shares in processShare are lost, the connections are new; what
\* Redis, the tables and the chain have got stays.
ShareRestart ==
    /\ difficulty' \in [Clients -> Diffs]
    /\ spc' = [s \in Slots |-> "idle"] /\ share' = [s \in Slots |-> Idle]
    /\ tries' = [s \in Slots |-> 0] /\ parts' = [s \in Slots |-> NoParts]
    /\ fallback' = {}
    /\ tree' = [s \in Slots |-> [a \in Aux |-> 0]] /\ left' = [s \in Slots |-> {}]
    /\ UNCHANGED <<sent, seen, shares, blocks, chainVars>>

ShareInit ==
    /\ difficulty \in [Clients -> Diffs]
    /\ sent = 0
    /\ spc = [s \in Slots |-> "idle"] /\ share = [s \in Slots |-> Idle]
    /\ tries = [s \in Slots |-> 0] /\ parts = [s \in Slots |-> NoParts]
    /\ seen = {} /\ fallback = {}
    /\ shares = <<>> /\ blocks = {} /\ offered = {} /\ onChain = {}
    /\ tree = [s \in Slots |-> [a \in Aux |-> 0]] /\ left = [s \in Slots |-> {}]

ProcessShare(s) ==
    \/ \E c \in Clients, j \in 1 .. made, n \in Nonces : Submit(s, c, j, n)
    \/ CheckJob(s) \/ CheckDuplicate(s) \/ Judge(s) \/ RecordShare(s)
    \/ SubmitBlock(s) \/ RecordBlock(s)
=============================================================================
