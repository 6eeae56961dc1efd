--------------------------- MODULE PayoutPipeline ---------------------------
(***************************************************************************)
(* The payment processor and the block watcher as index.js starts them:    *)
(* two timers of one process over the same blocks table.  The watcher      *)
(* looks every minute, the processor every ten.                            *)
(***************************************************************************)
EXTENDS PaymentProperties

CONSTANT Watchers

VARIABLES hash, wpc, queue, snap, at, heard

W == INSTANCE BlockWatcher WITH restarts <- 0, MaxRestarts <- 0

pvars == <<vars, hash, wpc, queue, snap, at, heard>>
watcherOnly == <<hash, wpc, queue, snap, at, heard>>

PipeInit == Init /\ W!WInit

\* The watcher's timer runs from before start() reconciles until the process dies.
WatcherStep(w) ==
    /\ boot # "down"
    /\ W!Watch(w)
    /\ UNCHANGED <<row, entries, money, bootVars, flags, cycleVars>>

ProcessorStep ==
    /\ \/ Boot
       \/ \E c \in Cycles : Cycle(c) \/ TimerFires(c)
       \/ \E b \in Blocks : Mature(b) \/ Reorg(b)
       \/ \E tx \in inflight : LateSend(tx)
    /\ UNCHANGED watcherOnly

CrashBoth == Crash /\ W!WForget /\ UNCHANGED hash

PipeNext == ProcessorStep \/ CrashBoth \/ \E w \in Watchers : WatcherStep(w)

PipeSpec ==
    /\ PipeInit /\ [][PipeNext]_pvars
    /\ WF_pvars(Boot /\ UNCHANGED watcherOnly)
    /\ \A b \in Blocks : WF_pvars(Mature(b) /\ UNCHANGED watcherOnly)
    /\ \A c \in Cycles : WF_pvars(Cycle(c) /\ UNCHANGED watcherOnly)
    /\ \A w \in Watchers : WF_pvars(WatcherStep(w))
=============================================================================
