------------------------------ MODULE Operations ------------------------------
(***************************************************************************)
(* What watches the pool: the health monitor (healthMonitor.js) asks the   *)
(* daemon through the RPC client the other parts use too, then the         *)
(* database; so does the collector of statistics (statsCollector.js); the  *)
(* audit log writes to that database; and index.js shuts the process down. *)
(* Checks, like collections, overlap when one takes longer than the        *)
(* interval.  Redis, whose state nothing reads, and the figures of the *)
(* host are left out.                                                      *)
(***************************************************************************)
EXTENDS RpcClient, AuditLog

CONSTANTS
    Checks, Collections,  \* callers: checks of the monitor, the collector's rounds
    MaxFlips              \* bound: changes of the daemon and of the database

ASSUME OperationsAssumption ==
    /\ Checks \cup Collections = Callers /\ Checks \cap Collections = {}
    /\ MaxFlips \in Nat

VARIABLES
    daemon,   \* "down", "syncing" or "synced"
    db,       \* "up" or "down"
    at,       \* what each caller waits for: nothing, the daemon (lost: one that
              \* went down since, or was down, and will not answer) or the database
    seen,     \* the monitor's status of the daemon and of PostgreSQL
    process,  \* running, or a stage of the shutdown
    flips

vars == <<rpcVars, auditVars, daemon, db, at, seen, process, flips>>

Unknown == [daemon |-> "unknown", postgres |-> FALSE]

TypeOK ==
    /\ RpcTypeOK /\ AuditTypeOK
    /\ daemon \in {"down", "syncing", "synced"} /\ db \in {"up", "down"}
    /\ at \in [Callers -> {"idle", "daemon", "lost", "db"}]
    /\ seen \in [daemon : {"unknown", "offline", "behind", "synced"}, postgres : BOOLEAN]
    /\ process \in {"running", "stopping", "closed", "exited"}
    /\ flips \in 0 .. MaxFlips

Init ==
    /\ RpcInit /\ AuditInit
    /\ daemon = "synced" /\ db = "up"
    /\ at = [c \in Callers |-> "idle"]
    /\ seen = Unknown /\ process = "running" /\ flips = 0
-----------------------------------------------------------------------------
Alive == process # "exited"
world == <<daemon, db, process, flips>>

\* collect goes on to the database whatever the daemon said.
Collect(c) ==
    /\ c \in Collections
    /\ at' = [at EXCEPT ![c] = "db"]
    /\ UNCHANGED seen

\* What a check does with the outcome of its call.
Online(c) ==
    /\ c \in Checks
    /\ at' = [at EXCEPT ![c] = "db"]
    /\ seen' = [seen EXCEPT !.daemon = IF daemon = "synced" THEN "synced" ELSE "behind"]

Offline(c) ==
    /\ c \in Checks
    /\ at' = [at EXCEPT ![c] = "db"]
    /\ seen' = [seen EXCEPT !.daemon = "offline"]

\* The timers of the monitor and of the collector.
Ask(c) ==
    /\ process = "running" /\ at[c] = "idle" /\ c \notin dying
    /\ \/ /\ LetsThrough
          /\ at' = [at EXCEPT ![c] = IF daemon = "down" THEN "lost" ELSE "daemon"]
          /\ UNCHANGED seen
       \/ ~LetsThrough /\ (Offline(c) \/ Collect(c))
    /\ UNCHANGED <<rpcVars, auditVars, world>>

Answered(c) ==
    /\ Alive /\ at[c] = "daemon"
    /\ Succeeds /\ (Online(c) \/ Collect(c))
    /\ UNCHANGED <<auditVars, world>>

\* The daemon is there and refuses: it is warming up.
Refused(c) ==
    /\ Alive /\ at[c] = "daemon" /\ daemon = "syncing"
    /\ AnswersError /\ (Offline(c) \/ Collect(c))
    /\ UNCHANGED <<auditVars, world>>

Unreachable(c) ==
    /\ Alive /\ at[c] = "lost"
    /\ ConnectionFails \/ TimesOut(c)
    /\ Offline(c) \/ Collect(c)
    /\ UNCHANGED <<auditVars, world>>

Destroyed(c) ==
    Alive /\ DestroyedReports(c) /\ UNCHANGED <<auditVars, at, seen, world>>

\* The second half of a check.
AskDatabase(c) ==
    /\ Alive /\ at[c] = "db" /\ c \in Checks
    /\ at' = [at EXCEPT ![c] = "idle"]
    /\ seen' = [seen EXCEPT !.postgres = db = "up" /\ process # "closed"]
    /\ UNCHANGED <<rpcVars, auditVars, world>>

\* The inserts of a collection, or the failure of one, which ends it.
Store(c) ==
    /\ Alive /\ at[c] = "db" /\ c \in Collections
    /\ at' = [at EXCEPT ![c] = "idle"]
    /\ UNCHANGED <<rpcVars, auditVars, seen, world>>

Cooldown == Alive /\ CooldownPasses /\ UNCHANGED <<auditVars, at, seen, world>>

\* Every part records events; the flush has a timer, and its inserts go to the pool.
Audit ==
    /\ Alive
    /\ \/ Record
       \/ process = "running" /\ Flush
       \/ \E b \in batches : Insert(b, db = "up" /\ process # "closed")
    /\ UNCHANGED <<rpcVars, at, seen, world>>

\* shutdown(): the timers stop, the last flush is started and not awaited, ...
Shutdown ==
    /\ process = "running" /\ process' = "stopping"
    /\ IF buffer = <<>> THEN UNCHANGED auditVars ELSE Flush
    /\ UNCHANGED <<rpcVars, at, seen, daemon, db, flips>>

\* ... the database pool is closed, and the process exits.
Close ==
    /\ \/ process = "stopping" /\ process' = "closed"
       \/ process = "closed" /\ process' = "exited"
    /\ UNCHANGED <<rpcVars, auditVars, at, seen, daemon, db, flips>>

Flip ==
    /\ flips < MaxFlips /\ flips' = flips + 1
    /\ \/ /\ daemon' \in {"syncing", "synced"} \ {daemon}
          /\ UNCHANGED <<db, at>>
       \/ /\ daemon # "down" /\ daemon' = "down"
          /\ at' = [c \in Callers |-> IF at[c] = "daemon" THEN "lost" ELSE at[c]]
          /\ UNCHANGED db
       \/ db' \in {"up", "down"} \ {db} /\ UNCHANGED <<daemon, at>>
    /\ UNCHANGED <<rpcVars, auditVars, seen, process>>

CallStep(c) ==
    Answered(c) \/ Refused(c) \/ Unreachable(c) \/ Destroyed(c)
    \/ AskDatabase(c) \/ Store(c)

Next ==
    \/ \E c \in Callers : Ask(c) \/ CallStep(c)
    \/ Cooldown \/ Audit \/ Shutdown \/ Close \/ Flip

\* Intervals fire, and a call ends one way or the other, by its timeout at the latest.
Spec ==
    /\ Init /\ [][Next]_vars
    /\ \A c \in Callers : WF_vars(Ask(c)) /\ WF_vars(CallStep(c))
    /\ WF_vars(Cooldown)
-----------------------------------------------------------------------------
isHealthy == seen = [daemon |-> "synced", postgres |-> TRUE]

Good == process = "running" /\ daemon = "synced" /\ db = "up"
Noticed == ~circuitOpen /\ isHealthy

\* When the daemon and the database are back for good, the circuit closes and the
\* monitor says so for good, whatever calls were under way and however the checks
\* overlap (rpcClient.js 42-51, 126-144; healthMonitor.js 49-113).
RecoveryNoticed == <>[]Good => <>[]Noticed
=============================================================================
