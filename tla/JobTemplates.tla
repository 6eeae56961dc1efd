---------------------------- MODULE JobTemplates ----------------------------
(***************************************************************************)
(* Work for the miners: the template manager (blockTemplate.js), what      *)
(* makes it fetch a template (blockNotifier.js, its own poll, new aux      *)
(* blocks, a found block: index.js), and the delivery of jobs to the       *)
(* clients (stratum/server.js).                                            *)
(*                                                                         *)
(* A call of updateTemplate asks the daemon, waits, and installs what it   *)
(* was told.  Several calls may be waiting at once and their answers come  *)
(* back in any order.  Blocks are numbered by height; the aux blocks of a  *)
(* chain by the order in which its daemon creates them; job ids by the     *)
(* order in which they are generated.                                      *)
(***************************************************************************)
EXTENDS Naturals, Sequences, FiniteSets

CONSTANTS
    Updaters,          \* how many calls of updateTemplate may wait at once
    Clients,           \* Stratum connections
    Aux,               \* symbols of the aux chains
    MaxJobs,           \* this.maxJobs: 10
    RewardConfigured,  \* poolConfig.rewardAddress is set: index.js does not pass it
    MaxTip, MaxAux,    \* bounds of the exploration: heights of the chains
    MaxMade,           \* bound of the exploration: templates fetched
    Faults             \* what may go wrong, see MiningFaults

MiningFaults ==
    { "rpc",     \* a call to litecoind fails
      "aux",     \* a call to an aux daemon fails
      "redis",   \* a Redis command fails, executed or not
      "refuse",  \* submitblock fails before the daemon has the block
      "lost",    \* the answer to submitblock is lost
      "crash",   \* the process stops and is started again
      "db",      \* an SQL statement fails
      "expire" } \* a Redis key reaches its time to live

ASSUME JobAssumption ==
    /\ MaxJobs \in Nat \ {0}
    /\ RewardConfigured \in BOOLEAN
    /\ MaxTip \in Nat \ {0} /\ MaxAux \in Nat \ {0} /\ MaxMade \in Nat
    /\ IsFiniteSet(Updaters)
    /\ Faults \subseteq MiningFaults

VARIABLES
    tip,         \* height of litecoind's best block
    auxTip,      \* aux block each aux daemon would create now
    auxBlocks,   \* engine.auxBlocks and chain.currentBlock: 0 before the first
    auxTimer,    \* the 200 ms debounce timer is running
    lastHeight,  \* blockNotifier._lastBlockHeight, 0 for null
    lastBest,    \* templateManager.lastBestBlockHash, 0 for null
    upd,         \* calls of updateTemplate: "idle", "asked", "answered"
    got,         \* the template a call was told, as the height it builds on
    made,        \* job ids generated so far: random bytes, taken never to repeat
    jobId,       \* currentJobId; 0 for null
    currentTemplate, \* currentTemplate, as the height it builds on; 0 for null
    validJobs,   \* the keys of the map validJobs, oldest first
    stored,      \* what the map has, or had, under each key
    authorized,  \* clients that may submit shares
    work         \* the job each client was sent last; 0 for none

daemons  == <<tip, auxTip>>
engine   == <<auxBlocks, auxTimer>>
triggers == <<lastHeight, lastBest>>
jobs     == <<made, jobId, currentTemplate, validJobs, stored>>
manager  == <<upd, got, jobs>>
clients  == <<authorized, work>>
jobVars  == <<daemons, engine, triggers, manager, clients>>

Jobs == 0 .. MaxMade

\* A stored job: its template and coinbase, which the fetch tells apart from all
\* others; the block it builds on; the aux blocks its coinbase commits to.
Job == [fetch : Jobs, on : 0 .. MaxTip, aux : [Aux -> 0 .. MaxAux]]
NoJob == [fetch |-> 0, on |-> 0, aux |-> [a \in Aux |-> 0]]

JobTypeOK ==
    /\ tip \in 1 .. MaxTip
    /\ auxTip \in [Aux -> 1 .. MaxAux]
    /\ auxBlocks \in [Aux -> 0 .. MaxAux]
    /\ auxTimer \in BOOLEAN
    /\ lastHeight \in 0 .. MaxTip /\ lastBest \in 0 .. MaxTip
    /\ upd \in [Updaters -> {"idle", "asked", "answered"}]
    /\ got \in [Updaters -> 0 .. MaxTip]
    /\ made \in Jobs /\ jobId \in Jobs
    /\ currentTemplate \in 0 .. MaxTip
    /\ stored \in [Jobs -> Job]
    /\ validJobs \in Seq(Jobs) /\ Len(validJobs) <= MaxJobs
    /\ authorized \subseteq Clients
    /\ work \in [Clients -> Jobs]

----------------------------------------------------------------------------
(* Helpers *)

\* getJob
HasJob(j) == \E i \in DOMAIN validJobs : validJobs[i] = j

Waiting == {u \in Updaters : upd[u] # "idle"}

\* A call of updateTemplate begins and waits for getblocktemplate; CanUpdate is
\* the bound of the exploration.
CanUpdate == Waiting # Updaters /\ made + Cardinality(Waiting) < MaxMade
StartUpdate ==
    /\ CanUpdate
    /\ \E u \in Updaters \ Waiting : upd' = [upd EXCEPT ![u] = "asked"]

\* Wrong on purpose: nothing is evicted.
KeepAllJobs(ids) == ids

\* Map.set at the end, then the oldest entry goes when there are too many.
KeepNewJob(ids) == IF Len(ids) > MaxJobs THEN Tail(ids) ELSE ids

\* The process starts: everything it kept in memory is gone, jobs get fresh ids.
\* The aux engine has asked its daemons once, with nobody listening yet.
Restart ==
    /\ auxBlocks' \in {[a \in Aux |-> IF a \in up THEN auxTip[a] ELSE 0] : up \in SUBSET Aux}
    /\ auxTimer' = FALSE
    /\ lastHeight' = 0 /\ lastBest' = 0
    /\ upd' = [u \in Updaters |-> "idle"] /\ got' = [u \in Updaters |-> 0]
    /\ jobId' = 0 /\ currentTemplate' = 0
    /\ validJobs' = <<>> /\ stored' = [j \in Jobs |-> NoJob]
    /\ authorized' = {} /\ work' = [c \in Clients |-> 0]
    /\ UNCHANGED <<daemons, made>>

----------------------------------------------------------------------------
(* The daemons *)

NewTip ==
    /\ tip < MaxTip
    /\ tip' = tip + 1
    /\ UNCHANGED <<auxTip, engine, triggers, manager, clients>>

NewAuxTip(a) ==
    /\ auxTip[a] < MaxAux
    /\ auxTip' = [auxTip EXCEPT ![a] = @ + 1]
    /\ UNCHANGED <<tip, engine, triggers, manager, clients>>

----------------------------------------------------------------------------
(* What starts an update *)

\* The notifier's poll: the height it hears may be behind by the time it is
\* handled.  It is stored before the update has succeeded.
NotifierPoll ==
    /\ \E h \in lastHeight + 1 .. tip :
          /\ lastHeight' = h
          /\ IF lastHeight = 0 THEN UNCHANGED upd ELSE StartUpdate
    /\ UNCHANGED <<daemons, engine, lastBest, got, jobs, clients>>

\* The manager's own poll does the same with the hash.
Poll ==
    /\ \E h \in lastBest .. tip :
          /\ h # 0
          /\ h # lastBest \/ currentTemplate = 0
          /\ lastBest' = h
    /\ StartUpdate
    /\ UNCHANGED <<daemons, engine, lastHeight, got, jobs, clients>>

\* _refreshAuxBlock hears of a new aux block and the debounce timer starts.
RefreshAux(a) ==
    /\ auxBlocks[a] # auxTip[a]
    /\ auxBlocks' = [auxBlocks EXCEPT ![a] = auxTip[a]]
    /\ auxTimer' = TRUE
    /\ UNCHANGED <<daemons, triggers, manager, clients>>

AuxTimerFires ==
    /\ auxTimer
    /\ auxTimer' = FALSE
    /\ StartUpdate
    /\ UNCHANGED <<daemons, auxBlocks, triggers, got, jobs, clients>>

----------------------------------------------------------------------------
(* updateTemplate *)

\* The daemon composes the template; the answer is on its way.
DaemonAnswers(u) ==
    /\ upd[u] = "asked"
    /\ upd' = [upd EXCEPT ![u] = "answered"]
    /\ got' = [got EXCEPT ![u] = tip]
    /\ UNCHANGED <<daemons, engine, triggers, jobs, clients>>

\* The call fails: the error is logged and nobody asks again.
UpdateFails(u) ==
    /\ "rpc" \in Faults
    /\ upd[u] = "asked"
    /\ upd' = [upd EXCEPT ![u] = "idle"]
    /\ UNCHANGED <<daemons, engine, triggers, got, jobs, clients>>

\* The template and a fresh job id become current; the coinbase is built of them
\* and of the aux blocks of this moment; the job is stored under its id and sent
\* to every authorized client.  Without a reward address _getCoinbaseParts throws
\* in between.
Install(u) ==
    /\ upd[u] = "answered"
    /\ upd' = [upd EXCEPT ![u] = "idle"]
    /\ got' = [got EXCEPT ![u] = 0]
    /\ made' = made + 1 /\ jobId' = made'
    /\ currentTemplate' = got[u]
    /\ IF RewardConfigured
       THEN /\ stored' = [stored EXCEPT ![jobId'] =
                             [fetch |-> made', on |-> got[u], aux |-> auxBlocks]]
            /\ validJobs' = KeepNewJob(Append(validJobs, jobId'))
            /\ work' = [c \in Clients |-> IF c \in authorized THEN jobId' ELSE work[c]]
       ELSE UNCHANGED <<stored, validJobs, work>>
    /\ UNCHANGED <<daemons, engine, triggers, authorized>>

----------------------------------------------------------------------------
(* Clients *)

\* mining.authorize is answered with the current job.
Authorize(c) ==
    /\ c \notin authorized
    /\ HasJob(jobId)
    /\ authorized' = authorized \cup {c}
    /\ work' = [work EXCEPT ![c] = jobId]
    /\ UNCHANGED <<daemons, engine, triggers, manager>>

\* When there is none, _buildStratumJob reads a property of undefined.  On the
\* solo port the exception is taken for a malformed message, and the client
\* stays without work; on the main port nobody catches it and the process exits.
NoJobToSend(c) == c \notin authorized /\ ~HasJob(jobId)
AuthorizeInVain(c) ==
    /\ NoJobToSend(c)
    /\ authorized' = authorized \cup {c}
    /\ UNCHANGED <<daemons, engine, triggers, manager, work>>
AuthorizeThrows(c) == NoJobToSend(c) /\ Restart

Disconnect(c) ==
    /\ c \in authorized
    /\ authorized' = authorized \ {c}
    /\ work' = [work EXCEPT ![c] = 0]
    /\ UNCHANGED <<daemons, engine, triggers, manager>>

----------------------------------------------------------------------------

JobInit ==
    /\ tip = 1
    /\ auxTip = [a \in Aux |-> 1]
    /\ auxBlocks \in [Aux -> {0, 1}] /\ auxTimer = FALSE
    /\ lastHeight = 0 /\ lastBest = 0
    /\ upd = [u \in Updaters |-> "idle"] /\ got = [u \in Updaters |-> 0]
    /\ made = 0 /\ jobId = 0 /\ currentTemplate = 0
    /\ validJobs = <<>> /\ stored = [j \in Jobs |-> NoJob]
    /\ authorized = {} /\ work = [c \in Clients |-> 0]

Update(u) == DaemonAnswers(u) \/ UpdateFails(u) \/ Install(u)
Trigger == NotifierPoll \/ Poll \/ AuxTimerFires \/ \E a \in Aux : RefreshAux(a)

JobStep ==
    \/ NewTip \/ \E a \in Aux : NewAuxTip(a)
    \/ Trigger
    \/ \E u \in Updaters : Update(u)
    \/ \E c \in Clients : Authorize(c) \/ AuthorizeInVain(c) \/ Disconnect(c)
Exit == ("crash" \in Faults /\ Restart) \/ \E c \in Clients : AuthorizeThrows(c)

JobNext == JobStep \/ Exit

\* Timers fire, the daemon answers, and an answer is handled.
JobSpec ==
    /\ JobInit /\ [][JobNext]_jobVars
    /\ WF_jobVars(NotifierPoll) /\ WF_jobVars(Poll) /\ WF_jobVars(AuxTimerFires)
    /\ \A a \in Aux : WF_jobVars(RefreshAux(a))
    /\ \A u \in Updaters : WF_jobVars(Update(u)) /\ SF_jobVars(DaemonAnswers(u))

----------------------------------------------------------------------------

\* The current job can be sent: "Send the current job after authorization"
\* (stratum/server.js:527) finds one whenever a template has been installed.
CurrentJobExists == jobId # 0 => HasJob(jobId)

\* Polling is the safety net (index.js:236): once the chain stands still, the
\* current job builds on its last block, whatever call failed or was overtaken.
CurrentJobCatchesUp == <>[](currentTemplate = tip)
=============================================================================
