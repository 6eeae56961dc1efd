---------------------------- MODULE MergedMining ----------------------------
(***************************************************************************)
(* Templates, shares and aux blocks together, as index.js wires them: a    *)
(* valid share is offered to every aux chain (auxpow.js, checkAuxChains    *)
(* and _submitAuxBlock), in the slot that processed it.                    *)
(***************************************************************************)
EXTENDS ShareProcessing

CONSTANT AuxDiff  \* difficulty of the aux chains

ASSUME AuxAssumption == AuxDiff \in Nat /\ Aux # {}

VARIABLES
    lock,   \* Redis auxpow:lock of each chain: taken or not
    proof   \* the aux block and proof a slot has submitted

miningVars == <<jobVars, shareVars, lock, proof>>
Trees == [Aux -> 0 .. MaxAux]
Proofs == [chain : Aux, hash : 0 .. MaxAux, tree : Trees, commit : Trees]
NoProof == [chain |-> CHOOSE a \in Aux : TRUE, hash |-> 0,
            tree |-> [a \in Aux |-> 0], commit |-> [a \in Aux |-> 0]]

MiningTypeOK ==
    /\ JobTypeOK /\ ShareTypeOK
    /\ lock \in [Aux -> BOOLEAN]
    /\ proof \in [Slots -> Proofs]

----------------------------------------------------------------------------
(* checkAuxChains and _submitAuxBlock *)

Looked(s, a) == left' = [left EXCEPT ![s] = @ \ {a}]

\* The share solves the chain's block, and the tree has a branch for it.
Solves(s, a) == Work[share[s].key.nonce] >= AuxDiff /\ auxBlocks[a] # 0 /\ tree[s][a] # 0

\* Wrong on purpose: the answer of SET NX is not looked at.
LockAnyway(a) == lock[a] \in BOOLEAN
LockFree(a) == ~lock[a]

\* A chain the share does not solve, a lock another slot holds, a failed lock:
\* the next chain.
SkipAux(s, a) ==
    /\ spc[s] = "aux" /\ a \in left[s]
    /\ ~Solves(s, a) \/ lock[a] \/ "redis" \in Faults
    /\ Looked(s, a)
    /\ UNCHANGED <<jobVars, difficulty, sent, slotVars, dedupVars, shares, blocks, chainVars, tree,
                   lock, proof>>

\* With the lock, the chain's current block and the branch of the tree built
\* when the share came in are sent, with the coinbase read then, which commits to
\* the aux blocks of its job.
SubmitAux(s, a) ==
    /\ spc[s] = "aux" /\ a \in left[s]
    /\ Solves(s, a)
    /\ LockFree(a)
    /\ lock' = [lock EXCEPT ![a] = TRUE]
    /\ Looked(s, a)
    /\ proof' = [proof EXCEPT ![s] = [chain |-> a, hash |-> auxBlocks[a], tree |-> tree[s],
                                      commit |-> parts[s].coinbase.aux]]
    /\ Move(s, "auxAnswer")
    /\ UNCHANGED <<jobVars, difficulty, sent, share, tries, parts, dedupVars, shares, blocks,
                   chainVars, tree>>

\* finally: the lock is deleted, whoever holds it by now.
Release(s) ==
    /\ lock' = [lock EXCEPT ![proof[s].chain] = FALSE]
    /\ proof' = [proof EXCEPT ![s] = NoProof]
    /\ Move(s, "aux")

\* The aux daemon takes its newest block when the branch leads from it to the
\* root in the coinbase, and the coinbase belongs to the header.
Proves(s) ==
    LET p == proof[s]
    IN  /\ p.hash = auxTip[p.chain] /\ p.tree = p.commit /\ p.tree[p.chain] = p.hash
        /\ parts[s].coinbase = parts[s].header

AuxAnswer(s) ==
    /\ spc[s] = "auxAnswer"
    /\ \/ /\ Proves(s) /\ auxTip[proof[s].chain] < MaxAux
          /\ auxTip' = [auxTip EXCEPT ![proof[s].chain] = @ + 1]
          /\ Move(s, "auxRefresh")
          /\ UNCHANGED <<lock, proof>>
       \/ /\ ~Proves(s) \/ "aux" \in Faults
          /\ Release(s)
          /\ UNCHANGED auxTip
    /\ UNCHANGED <<tip, engine, triggers, manager, clients, difficulty, sent, share, tries,
                   parts, dedupVars, shares, blocks, chainVars, proofVars>>

\* After an accepted block the next one is fetched before the lock is released.
AuxRefreshed(s) ==
    /\ spc[s] = "auxRefresh"
    /\ \/ /\ auxBlocks[proof[s].chain] # auxTip[proof[s].chain]
          /\ auxBlocks' = [auxBlocks EXCEPT ![proof[s].chain] = auxTip[proof[s].chain]]
          /\ auxTimer' = TRUE
       \/ /\ auxBlocks[proof[s].chain] = auxTip[proof[s].chain] \/ "aux" \in Faults
          /\ UNCHANGED engine
    /\ Release(s)
    /\ UNCHANGED <<daemons, triggers, manager, clients, difficulty, sent, share, tries,
                   parts, dedupVars, shares, blocks, chainVars, proofVars>>

\* Every chain was looked at: checkAuxChains returns.
AuxDone(s) ==
    /\ spc[s] = "aux" /\ left[s] = {}
    /\ Done(s)
    /\ tree' = [tree EXCEPT ![s] = [a \in Aux |-> 0]]
    /\ UNCHANGED <<jobVars, difficulty, sent, dedupVars, shares, blocks, chainVars, left,
                   lock, proof>>

\* The lock lives five seconds, a call to the daemon up to thirty.
LockExpires(a) ==
    /\ "expire" \in Faults
    /\ lock[a]
    /\ lock' = [lock EXCEPT ![a] = FALSE]
    /\ UNCHANGED <<jobVars, shareVars, proof>>

CheckAux(s) ==
    \/ \E a \in Aux : SkipAux(s, a) \/ SubmitAux(s, a)
    \/ AuxAnswer(s) \/ AuxRefreshed(s) \/ AuxDone(s)

----------------------------------------------------------------------------

MiningInit ==
    /\ JobInit /\ ShareInit
    /\ lock = [a \in Aux |-> FALSE]
    /\ proof = [s \in Slots |-> NoProof]

\* The locks are in Redis.
MiningRestart ==
    /\ Exit /\ ShareRestart
    /\ proof' = [s \in Slots |-> NoProof]
    /\ UNCHANGED lock

MiningNext ==
    \/ JobStep /\ UNCHANGED <<shareVars, lock, proof>>
    \/ MiningRestart
    \/ \E s \in Slots : ProcessShare(s) /\ UNCHANGED <<lock, proof>>
    \/ \E s \in Slots : CheckAux(s)
    \/ \E k \in seen : KeyExpires(k) /\ UNCHANGED <<lock, proof>>
    \/ \E a \in Aux : LockExpires(a)

MiningSpec == MiningInit /\ [][MiningNext]_miningVars

\* A step of a share is taken in the end, the calls it waits for are answered.
Process(s) == (ProcessShare(s) /\ sent' = sent /\ UNCHANGED <<lock, proof>>) \/ CheckAux(s)
MiningFair == MiningSpec /\ \A s \in Slots : WF_miningVars(Process(s))

----------------------------------------------------------------------------

\* A solution is credited once, whatever slots and jobs come between.  Solutions
\* are the same when their fields are spelled the same.
CreditedOnce ==
    \A i, j \in DOMAIN shares : shares[i].key = shares[j].key => i = j

\* A credited share meets the difficulty it is credited with, although VarDiff
\* changes the client's difficulty while the hash is computed.
CreditIsEarned == \A i \in DOMAIN shares : shares[i].diff <= Work[shares[i].key.nonce]

\* A share is judged by a header hashed earlier; what goes out with that header is
\* read later, after awaits in which jobs come and go.  A block handed to litecoind
\* has the coinbase and the transactions its header was hashed for, and so has the
\* parent block of an aux proof its coinbase: "MUST be stored so share validation
\* uses the SAME data" (blockTemplate.js:149).
BlockMatchesHeader ==
    /\ \A b \in offered : b.coinbase = b.header /\ b.txs = b.header
    /\ \A s \in Slots : spc[s] = "auxAnswer" => parts[s].coinbase = parts[s].header

\* The blocks table holds only blocks litecoind has accepted.
RecordedIsAccepted == blocks \subseteq onChain

\* A block litecoind has accepted is recorded as soon as its share is done.
AcceptedIsRecorded ==
    \A k \in onChain \ blocks :
        \E s \in Slots : share[s].key = k /\ spc[s] \in {"submit", "record"}

\* Never two submissions to one aux chain at a time (auxpow.js:398).
OneSubmission ==
    \A s, t \in Slots :
        /\ {spc[s], spc[t]} \subseteq {"auxAnswer", "auxRefresh"}
        /\ proof[s].chain = proof[t].chain
        => s = t

\* The proof sent to an aux chain belongs to the tree the parent's coinbase
\* commits to (auxpow.js:344).
ProofFitsCoinbase == \A s \in Slots : spc[s] = "auxAnswer" => proof[s].tree = proof[s].commit

\* The processing of every share ends: the attempts of submitBlock are counted, and
\* a taken lock is skipped, not waited for.
ShareIsDone == \A s \in Slots : spc[s] # "idle" ~> spc[s] = "idle"
=============================================================================
