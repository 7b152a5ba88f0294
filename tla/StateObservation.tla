-------------------------- MODULE StateObservation --------------------------
(***************************************************************************)
(* How what the kernel counts reaches the agent.  The QueueCollector       *)
(* process copies the counters of a switch port into the shared stats      *)
(* matrix, cell by cell; DCEnv.step reads that matrix four times without a *)
(* lock: for the deltas, for prev_stats, for the observation and for the   *)
(* reward.  One port is modelled: its cells are read and written alike.    *)
(* One pass over the matrix is one step: a pass torn between two cells is  *)
(* two passes as far as each single cell is concerned, and the invariants  *)
(* relate the versions of one cell, drops, in several passes.              *)
(***************************************************************************)
EXTENDS Integers

CONSTANTS MaxDrops,     \* bound: drops the kernel counts
          MaxBacklog,   \* bound: occupancy of the queue
          Half          \* half the values of a C int (2^31 in the code)

ASSUME CountersAssumption ==
    /\ MaxDrops \in Nat /\ MaxBacklog \in Nat
    /\ Half \in Nat \ {0}

Features == {"backlog", "drops"}
Counts == [Features -> Nat]               \* 64-bit statistics of libnl
Cells == [Features -> -Half .. Half - 1]  \* what an int of them can be
Zero == [f \in Features |-> 0]

VARIABLES
    kernel,     \* the qdisc: occupancy of the queue, drops so far
    got,        \* what the collector has read and not yet written
    cpc,        \* "read", the feature it writes next, or "exited"
    kill,       \* the collector's kill event
    stats,      \* the shared matrix
    prev,       \* StateManager.prev_stats
    deltas,     \* StateManager.deltas
    obs,        \* the values of the last observation
    rewarded,   \* the values the last reward was computed from
    opc,        \* the next read of DCEnv.step, or "ready", "fill", "closed"
    growths,    \* history: times stats["drops"] grew
    reports     \* history: observations that reported drops as growing

collectorVars == <<got, cpc, growths>>
envVars == <<prev, deltas, obs, rewarded, opc, reports>>
vars == <<kernel, stats, kill, collectorVars, envVars>>

Init ==
    /\ kernel = Zero /\ got = Zero /\ stats = Zero
    /\ prev = Zero /\ deltas = Zero /\ obs = Zero /\ rewarded = Zero
    /\ cpc = "read" /\ opc = "ready" /\ kill = FALSE
    /\ growths = 0 /\ reports = 0

Open == opc \notin {"fill", "closed"}   \* StateManager.close not yet called

-----------------------------------------------------------------------------
(* The qdisc of the port                                                   *)
Occupy ==
    /\ \E n \in 0 .. MaxBacklog : kernel' = [kernel EXCEPT !["backlog"] = n]
    /\ UNCHANGED <<stats, kill, collectorVars, envVars>>

Drop ==
    /\ kernel["backlog"] = MaxBacklog /\ kernel["drops"] < MaxDrops
    /\ kernel' = [kernel EXCEPT !["drops"] = @ + 1]
    /\ UNCHANGED <<stats, kill, collectorVars, envVars>>

-----------------------------------------------------------------------------
(* The collector                                                           *)
CollectorExit ==
    /\ cpc = "read" /\ kill
    /\ cpc' = "exited"
    /\ UNCHANGED <<kernel, stats, kill, got, growths, envVars>>

(* get_qdisc_backlog and get_qdisc_drops return the statistic as an int.   *)
AsInt(n) == ((n + Half) % (2 * Half)) - Half

(* _get_qdisc_stats reads every counter of the port before it writes one.  *)
CollectorRead ==
    /\ cpc = "read" /\ ~kill
    /\ got' = [f \in Features |-> AsInt(kernel[f])]
    /\ cpc' = "backlog"
    /\ UNCHANGED <<kernel, stats, kill, growths, envVars>>

(* The qdisc is not there: an error is logged, nobody is told.             *)
CollectorGivesUp ==
    /\ cpc = "read" /\ ~kill
    /\ kill' = TRUE
    /\ UNCHANGED <<kernel, stats, collectorVars, envVars>>

(* SIGINT, in the middle of a pass or outside: run() catches it and ends   *)
(* after the loop test, or it hits the test itself, which is not in the    *)
(* try.  The rest of the row is not written.                               *)
CollectorInterrupt ==
    /\ cpc # "exited"
    /\ \/ kill' = TRUE /\ cpc' = "read"
       \/ cpc = "read" /\ cpc' = "exited" /\ UNCHANGED kill
    /\ UNCHANGED <<kernel, stats, got, growths, envVars>>

(* Faulty variant: the cell is cleared before it is written.               *)
CollectorClears ==
    /\ cpc \in Features
    /\ \/ 0 \notin {stats[cpc], got[cpc]}
          /\ stats' = [stats EXCEPT ![cpc] = 0] /\ UNCHANGED cpc
       \/ 0 \in {stats[cpc], got[cpc]}
          /\ stats' = [stats EXCEPT ![cpc] = got[cpc]]
          /\ cpc' = IF cpc = "backlog" THEN "drops" ELSE "read"
    /\ growths' = growths + (IF Open /\ stats'["drops"] > stats["drops"] THEN 1 ELSE 0)
    /\ UNCHANGED <<kernel, kill, got, envVars>>

(* Faulty variant: the last counter is not written.                        *)
CollectorSkips ==
    /\ cpc \in Features
    /\ stats' = IF cpc = "drops" THEN stats
                ELSE [stats EXCEPT ![cpc] = got[cpc]]
    /\ cpc' = IF cpc = "backlog" THEN "drops" ELSE "read"
    /\ UNCHANGED <<kernel, kill, got, growths, envVars>>

CollectorWrite ==
    /\ cpc \in Features
    /\ stats' = [stats EXCEPT ![cpc] = got[cpc]]
    /\ cpc' = IF cpc = "backlog" THEN "drops" ELSE "read"
    /\ growths' = growths + (IF Open /\ stats'["drops"] > stats["drops"] THEN 1 ELSE 0)
    /\ UNCHANGED <<kernel, kill, got, envVars>>

-----------------------------------------------------------------------------
(* The environment                                                         *)
(* Faulty variant: the difference itself.                                  *)
SignDifference(n) == n

Sign(n) == IF n < 0 THEN -1 ELSE IF n > 0 THEN 1 ELSE 0

(* observe: _compute_deltas reads stats.                                   *)
ComputeDeltas ==
    /\ opc = "ready"
    /\ deltas' = [f \in Features |-> Sign(stats[f] - prev[f])]
    /\ reports' = IF deltas'["drops"] = 1 THEN reports + 1 ELSE reports
    /\ opc' = "copy"
    /\ UNCHANGED <<kernel, stats, kill, collectorVars, prev, obs, rewarded>>

(* Faulty variant: prev_stats aliases stats as it was first, no new copy.  *)
KeepPrev ==
    /\ opc = "copy"
    /\ opc' = "observe"
    /\ UNCHANGED <<kernel, stats, kill, collectorVars, prev, deltas, obs,
                   rewarded, reports>>

(* observe: prev_stats = stats.copy() reads stats again.                   *)
CopyPrev ==
    /\ opc = "copy"
    /\ prev' = stats
    /\ opc' = "observe"
    /\ UNCHANGED <<kernel, stats, kill, collectorVars, deltas, obs, rewarded,
                   reports>>

(* observe: the values of the state model are read a third time.           *)
BuildObs ==
    /\ opc = "observe"
    /\ obs' = stats
    /\ opc' = "reward"
    /\ UNCHANGED <<kernel, stats, kill, collectorVars, prev, deltas, rewarded,
                   reports>>

(* Faulty variant: the reward is computed from the previous totals.        *)
RewardFromPrev ==
    /\ opc = "reward"
    /\ rewarded' = prev
    /\ opc' = "ready"
    /\ UNCHANGED <<kernel, stats, kill, collectorVars, prev, deltas, obs, reports>>

(* get_reward reads stats for the fourth time.                             *)
GetReward ==
    /\ opc = "reward"
    /\ rewarded' = stats
    /\ opc' = "ready"
    /\ UNCHANGED <<kernel, stats, kill, collectorVars, prev, deltas, obs, reports>>

(* StateManager.close: both matrices are filled with zeros by stop() ...   *)
Stop ==
    /\ opc = "ready"
    /\ stats' = Zero /\ prev' = Zero
    /\ opc' = "fill"
    /\ UNCHANGED <<kernel, kill, collectorVars, deltas, obs, rewarded, reports>>

(* ... while the collector still runs; only then is it told to end.        *)
Terminate ==
    /\ opc = "fill"
    /\ kill' = TRUE
    /\ opc' = "closed"
    /\ UNCHANGED <<kernel, stats, collectorVars, prev, deltas, obs, rewarded, reports>>

-----------------------------------------------------------------------------
Collector == CollectorExit \/ CollectorRead \/ CollectorWrite
Step == ComputeDeltas \/ CopyPrev \/ BuildObs \/ GetReward

Next == \/ Occupy \/ Drop \/ Collector \/ CollectorGivesUp \/ CollectorInterrupt
        \/ Step \/ Stop \/ Terminate

(* The collector process runs, the driver keeps calling step().            *)
Spec == Init /\ [][Next]_vars /\ WF_vars(Collector) /\ WF_vars(Step) /\ WF_vars(Terminate)

-----------------------------------------------------------------------------
(* Types; the matrices hold ints, deltas are signs.                        *)
TypeOK ==
    /\ kernel \in Counts /\ got \in Cells /\ stats \in Cells
    /\ prev \in Cells /\ obs \in Cells /\ rewarded \in Cells
    /\ deltas \in [Features -> -1 .. 1]
    /\ cpc \in Features \cup {"read", "exited"} /\ kill \in BOOLEAN
    /\ opc \in {"ready", "copy", "observe", "reward", "fill", "closed"}
    /\ growths \in Nat /\ reports \in Nat

(* As long as the count of the kernel fits an int, see AsInt.              *)
Fits == kernel["drops"] < Half

(* A counter that only grows and fits is never shown to shrink, although   *)
(* each of the four reads of a step may see another version (observe).     *)
DropsNeverShrink == Fits => deltas["drops"] >= 0

(* Every read of a step sees drops at least as new as the read before it:  *)
(* a reward is never older than its observation, nor that than its deltas  *)
(* (DCEnv.step: observe, then get_reward).  For a count that fits.         *)
ReadsMoveForward ==
    Fits /\ Open =>
        /\ opc \in {"reward", "ready"} => prev["drops"] <= obs["drops"]
        /\ opc = "ready" => obs["drops"] <= rewarded["drops"]
        /\ rewarded["drops"] <= stats["drops"]
        /\ stats["drops"] <= got["drops"] /\ got["drops"] <= kernel["drops"]

(* No growth of a counter is reported in two observations (_compute_deltas *)
(* against prev_stats), even if the int of it wraps around.                *)
NoGrowthReportedTwice == reports <= growths

(* A count that stays put reaches the observation, as the int it becomes,  *)
(* while the collector has not given up or been interrupted and the        *)
(* environment is open (_collect, observe).                                *)
CountsReachTheAgent ==
    \A n \in 0 .. MaxDrops :
        (kernel["drops"] = n) ~>
            (\/ obs["drops"] = AsInt(n) \/ kernel["drops"] # n
             \/ kill \/ cpc = "exited" \/ ~Open)

(* The deltas are those between one step and the next (env_iroko.py, "To   *)
(* measure the deltas between steps, prepend d_"): when a step keeps the   *)
(* totals for the next one, its deltas lead up to these totals.            *)
DeltasBetweenSteps ==
    [][CopyPrev =>
         \A f \in Features : deltas[f] = Sign(prev'[f] - prev[f])]_vars
=============================================================================
