----------------------- MODULE StateObservationProofs -----------------------
(***************************************************************************)
(* Proofs that the four unsynchronised reads of a step are harmless for a  *)
(* counter, for every width of an int, number of drops and occupancy: no   *)
(* growth is reported twice, and as long as the count fits an int what the *)
(* agent sees of it never goes back.                                       *)
(*                                                                         *)
(* The invariant has two parts.  Reports are paid for by growths: while    *)
(* stats is ahead of prev, one growth is still to be reported (Paid), be   *)
(* it that of a count that wrapped around.  And while the count fits, the  *)
(* versions of it are ordered: kernel, got, stats, and then what the       *)
(* environment has read of stats (Ordered, ReadInTurn).                    *)
(***************************************************************************)
EXTENDS StateObservation, TLAPS

Typed ==
    /\ kernel \in Counts /\ got \in Cells /\ stats \in Cells
    /\ prev \in Cells /\ obs \in Cells /\ rewarded \in Cells
    /\ deltas \in [Features -> -1 .. 1]
    /\ cpc \in Features \cup {"read", "exited"} /\ kill \in BOOLEAN
    /\ opc \in {"ready", "copy", "observe", "reward", "fill", "closed"}
    /\ growths \in Nat /\ reports \in Nat

(* Along the way from the kernel to the agent versions only get older.     *)
Ordered ==
    /\ 0 <= stats["drops"]
    /\ stats["drops"] <= got["drops"] /\ got["drops"] <= kernel["drops"]
    /\ Open => /\ prev["drops"] <= stats["drops"]
               /\ obs["drops"] <= stats["drops"]
               /\ rewarded["drops"] <= stats["drops"]

(* Within a step each read is newer than the one before it.                *)
ReadInTurn ==
    Open => /\ opc \in {"reward", "ready"} => prev["drops"] <= obs["drops"]
            /\ opc = "ready" => obs["drops"] <= rewarded["drops"]

Paid ==
    /\ reports <= growths
    /\ opc \in {"ready", "observe", "reward"} /\ stats["drops"] > prev["drops"]
         => reports < growths

InOrder == Ordered /\ ReadInTurn /\ deltas["drops"] >= 0
IInv == Typed /\ Paid /\ (Fits => InOrder)

LEMMA Cell ==
  /\ \A c \in Counts : c["backlog"] \in Nat /\ c["drops"] \in Nat
  /\ \A c \in Cells : c["backlog"] \in Int /\ c["drops"] \in Int
BY CountersAssumption DEF Counts, Cells, Features

LEMMA Remainder ==
  ASSUME NEW d \in Nat \ {0}, NEW m \in Nat
  PROVE  /\ m % d \in 0 .. d - 1
         /\ m < d => m % d = m
OBVIOUS

(* An int holds every count that fits it, and some int every other count   *)
(* (get_qdisc_backlog, get_qdisc_drops).                                   *)
LEMMA IntOf ==
  ASSUME NEW n \in Nat
  PROVE  /\ AsInt(n) \in -Half .. Half - 1
         /\ n < Half => AsInt(n) = n
<1>1. 2 * Half \in Nat \ {0} /\ n + Half \in Nat /\ Half \in Nat
  BY CountersAssumption
<1>2. PICK r : r = (n + Half) % (2 * Half)
  OBVIOUS
<1>3. r \in 0 .. 2 * Half - 1 /\ (n + Half < 2 * Half => r = n + Half)
  BY <1>1, <1>2, Remainder
<1>4. QED
  BY <1>1, <1>2, <1>3 DEF AsInt

LEMMA SignOfGrowth ==
  ASSUME NEW n \in Int
  PROVE  /\ Sign(n) \in -1 .. 1
         /\ Sign(n) = 1 <=> n > 0
         /\ Sign(n) >= 0 <=> n >= 0
BY DEF Sign

LEMMA NoCounts ==
  /\ Zero \in Cells /\ Zero \in Counts /\ Zero["drops"] = 0
  /\ \A f \in Features : Zero[f] = 0
BY CountersAssumption DEF Zero, Cells, Counts, Features

LEMMA Initially == Init => IInv
<1> SUFFICES ASSUME Init PROVE IInv
  OBVIOUS
<1>1. Typed
  <2>1. deltas \in [Features -> -1 .. 1]
    BY DEF Init, Zero
  <2>2. QED
    BY <2>1, NoCounts DEF Init, Typed
<1>2. Paid /\ InOrder
  BY NoCounts DEF Init, InOrder, Ordered, ReadInTurn, Paid
<1>3. QED
  BY <1>1, <1>2 DEF IInv

-----------------------------------------------------------------------------
(* The kernel only counts on, the collector only takes what is newer.      *)
LEMMA KernelKeeps == ASSUME IInv, Occupy \/ Drop PROVE IInv'
<1>1. /\ UNCHANGED <<stats, kill, got, cpc, growths, prev, deltas, obs,
                     rewarded, opc, reports>>
      /\ kernel' \in Counts /\ kernel["drops"] <= kernel'["drops"]
  <2>1. CASE Occupy
    BY <2>1, CountersAssumption
       DEF Occupy, IInv, Typed, Counts, Features, collectorVars, envVars
  <2>2. CASE Drop
    BY <2>2, CountersAssumption
       DEF Drop, IInv, Typed, Counts, Features, collectorVars, envVars
  <2>3. QED
    BY <2>1, <2>2
<1>2. Typed' /\ Paid'
  BY <1>1 DEF IInv, Typed, Paid
<1>3. ASSUME Fits' PROVE InOrder'
  <2>1. Half \in Nat /\ kernel["drops"] \in Nat /\ kernel'["drops"] \in Nat
        /\ got["drops"] \in Int
    BY <1>1, Cell, CountersAssumption DEF IInv, Typed
  <2>2. Fits
    BY <1>1, <1>3, <2>1 DEF Fits
  <2>3. Ordered'
    BY <1>1, <2>1, <2>2 DEF IInv, InOrder, Ordered, Open
  <2>4. QED
    BY <1>1, <2>2, <2>3 DEF IInv, InOrder, ReadInTurn, Open
<1>4. QED
  BY <1>2, <1>3 DEF IInv

LEMMA ReadKeeps == ASSUME IInv, CollectorRead PROVE IInv'
<1>1. /\ UNCHANGED <<kernel, stats, kill, growths, prev, deltas, obs, rewarded,
                     opc, reports>>
      /\ got' = [f \in Features |-> AsInt(kernel[f])] /\ cpc' = "backlog"
  BY DEF CollectorRead, envVars
<1>2. got' \in Cells /\ got'["drops"] = AsInt(kernel["drops"])
      /\ kernel["drops"] \in Nat
  <2>1. \A f \in Features : kernel[f] \in Nat
    BY DEF IInv, Typed, Counts
  <2>2. \A f \in Features : AsInt(kernel[f]) \in -Half .. Half - 1
    BY <2>1, IntOf
  <2>3. QED
    BY <1>1, <2>1, <2>2 DEF Cells, Features
<1>3. Typed' /\ Paid'
  BY <1>1, <1>2 DEF IInv, Typed, Paid, Features
<1>4. ASSUME Fits' PROVE InOrder'
  <2>1. Fits /\ got'["drops"] = kernel["drops"]
    BY <1>1, <1>2, <1>4, IntOf DEF Fits
  <2>2. /\ kernel["drops"] \in Int /\ got["drops"] \in Int /\ stats["drops"] \in Int
    BY Cell DEF IInv, Typed
  <2>3. Ordered'
    BY <1>1, <2>1, <2>2 DEF IInv, InOrder, Ordered, Open
  <2>4. QED
    BY <1>1, <2>1, <2>3 DEF IInv, InOrder, ReadInTurn, Open
<1>5. QED
  BY <1>3, <1>4 DEF IInv

LEMMA WriteKeeps == ASSUME IInv, CollectorWrite PROVE IInv'
<1>1. /\ UNCHANGED <<kernel, kill, got, prev, deltas, obs, rewarded, opc, reports>>
      /\ stats' = [stats EXCEPT ![cpc] = got[cpc]]
      /\ cpc \in Features /\ cpc' \in {"read", "drops"}
      /\ growths' = growths + (IF Open /\ stats'["drops"] > stats["drops"] THEN 1 ELSE 0)
  BY DEF CollectorWrite, envVars
<1>2. stats' \in Cells /\ stats'["drops"] \in {stats["drops"], got["drops"]}
  BY <1>1 DEF IInv, Typed, Cells, Features
<1>3. /\ growths' \in Nat /\ reports \in Nat /\ growths \in Nat /\ growths <= growths'
      /\ \A c \in {stats["drops"], stats'["drops"], prev["drops"], got["drops"],
                   kernel["drops"], obs["drops"], rewarded["drops"]} : c \in Int
  BY <1>1, <1>2, Cell DEF IInv, Typed
<1>4. Typed'
  BY <1>1, <1>2, <1>3 DEF IInv, Typed, Features
<1>5. Paid'
  <2>1. CASE Open
    BY <1>1, <1>3, <2>1 DEF IInv, Paid
  <2>2. CASE ~Open
    BY <1>1, <1>3, <2>2 DEF IInv, Paid, Open
  <2>3. QED
    BY <2>1, <2>2
<1>6. ASSUME Fits' PROVE InOrder'
  <2>1. Fits /\ InOrder
    BY <1>1, <1>6 DEF IInv, Fits
  <2>2. stats["drops"] <= stats'["drops"] /\ stats'["drops"] <= got["drops"]
    BY <1>2, <1>3, <2>1 DEF InOrder, Ordered
  <2>3. Ordered'
    BY <1>1, <1>3, <2>1, <2>2 DEF InOrder, Ordered, Open
  <2>4. QED
    BY <1>1, <2>1, <2>3 DEF InOrder, ReadInTurn, Open
<1>7. QED
  BY <1>4, <1>5, <1>6 DEF IInv

(* How the collector ends does not matter to what it has written.          *)
LEMMA EndKeeps ==
  ASSUME IInv, CollectorExit \/ CollectorGivesUp \/ CollectorInterrupt
  PROVE  IInv'
<1>1. /\ UNCHANGED <<kernel, stats, got, growths, prev, deltas, obs, rewarded,
                     opc, reports>>
      /\ kill' \in BOOLEAN /\ cpc' \in Features \cup {"read", "exited"}
  BY DEF CollectorExit, CollectorGivesUp, CollectorInterrupt, collectorVars,
         envVars, IInv, Typed
<1>2. QED
  BY <1>1 DEF IInv, Typed, Fits, InOrder, Ordered, ReadInTurn, Paid, Open

-----------------------------------------------------------------------------
(* A report needs stats to be ahead of prev, where a growth is left.       *)
LEMMA DeltasKeep == ASSUME IInv, ComputeDeltas PROVE IInv'
<1>1. /\ UNCHANGED <<kernel, stats, kill, got, cpc, growths, prev, obs, rewarded>>
      /\ deltas' = [f \in Features |-> Sign(stats[f] - prev[f])]
      /\ reports' = IF deltas'["drops"] = 1 THEN reports + 1 ELSE reports
      /\ opc = "ready" /\ opc' = "copy"
  BY DEF ComputeDeltas, collectorVars
<1>2. \A f \in Features : stats[f] \in Int /\ prev[f] \in Int
  BY CountersAssumption DEF IInv, Typed, Cells
<1>3. /\ deltas' \in [Features -> -1 .. 1]
      /\ deltas'["drops"] = Sign(stats["drops"] - prev["drops"])
  BY <1>1, <1>2, SignOfGrowth DEF Features
<1>4. /\ stats["drops"] - prev["drops"] \in Int
      /\ stats["drops"] \in Int /\ prev["drops"] \in Int
  BY <1>2 DEF Features
<1>5. Typed'
  BY <1>1, <1>3 DEF IInv, Typed
<1>6. Paid'
  <2>1. CASE stats["drops"] - prev["drops"] > 0
    <3>1. stats["drops"] > prev["drops"]
      BY <1>4, <2>1
    <3>2. reports < growths /\ reports' = reports + 1
      BY <1>1, <1>3, <1>4, <2>1, <3>1, SignOfGrowth DEF IInv, Paid
    <3>3. QED
      BY <1>1, <3>2 DEF IInv, Typed, Paid
  <2>2. CASE ~(stats["drops"] - prev["drops"] > 0)
    <3>1. reports' = reports
      BY <1>1, <1>3, <1>4, <2>2, SignOfGrowth
    <3>2. QED
      BY <1>1, <3>1 DEF IInv, Paid
  <2>3. QED
    BY <2>1, <2>2
<1>7. ASSUME Fits' PROVE InOrder'
  <2>1. InOrder /\ Open
    BY <1>1, <1>7 DEF IInv, Fits, Open
  <2>2. stats["drops"] - prev["drops"] >= 0
    BY <1>4, <2>1 DEF InOrder, Ordered
  <2>3. deltas'["drops"] >= 0
    BY <1>3, <1>4, <2>2, SignOfGrowth
  <2>4. QED
    BY <1>1, <2>1, <2>3 DEF InOrder, Ordered, ReadInTurn, Open
<1>8. QED
  BY <1>5, <1>6, <1>7 DEF IInv

LEMMA CopyKeeps == ASSUME IInv, CopyPrev PROVE IInv'
<1>1. /\ UNCHANGED <<kernel, stats, kill, got, cpc, growths, deltas, obs,
                     rewarded, reports>>
      /\ prev' = stats /\ opc = "copy" /\ opc' = "observe"
  BY DEF CopyPrev, collectorVars
<1>2. stats["drops"] \in Int
  BY Cell DEF IInv, Typed
<1>3. QED
  BY <1>1, <1>2 DEF IInv, Typed, Fits, InOrder, Ordered, ReadInTurn, Paid, Open

LEMMA ObsKeeps == ASSUME IInv, BuildObs PROVE IInv'
<1>1. /\ UNCHANGED <<kernel, stats, kill, got, cpc, growths, prev, deltas,
                     rewarded, reports>>
      /\ obs' = stats /\ opc = "observe" /\ opc' = "reward"
  BY DEF BuildObs, collectorVars
<1>2. stats["drops"] \in Int
  BY Cell DEF IInv, Typed
<1>3. QED
  BY <1>1, <1>2 DEF IInv, Typed, Fits, InOrder, Ordered, ReadInTurn, Paid, Open

LEMMA RewardKeeps == ASSUME IInv, GetReward PROVE IInv'
<1>1. /\ UNCHANGED <<kernel, stats, kill, got, cpc, growths, prev, deltas, obs,
                     reports>>
      /\ rewarded' = stats /\ opc = "reward" /\ opc' = "ready"
  BY DEF GetReward, collectorVars
<1>2. stats["drops"] \in Int
  BY Cell DEF IInv, Typed
<1>3. QED
  BY <1>1, <1>2 DEF IInv, Typed, Fits, InOrder, Ordered, ReadInTurn, Paid, Open

(* After close() the matrix holds zeros; no read of a step follows.        *)
LEMMA CloseKeeps == ASSUME IInv, Stop \/ Terminate PROVE IInv'
<1>1. /\ UNCHANGED <<kernel, got, cpc, growths, deltas, obs, rewarded, reports>>
      /\ opc' \in {"fill", "closed"} /\ kill' \in BOOLEAN
      /\ \/ stats' = stats /\ prev' = prev
         \/ stats' = Zero /\ prev' = Zero /\ Open
  BY DEF Stop, Terminate, collectorVars, IInv, Typed, Open
<1>2. Typed' /\ Paid'
  BY <1>1, NoCounts DEF IInv, Typed, Paid
<1>3. ASSUME Fits' PROVE InOrder'
  <2>1. InOrder
    BY <1>1, <1>3 DEF IInv, Fits
  <2>2. stats'["drops"] \in {stats["drops"], 0}
        /\ stats["drops"] \in Int /\ got["drops"] \in Int
    BY <1>1, NoCounts, Cell DEF IInv, Typed
  <2>3. QED
    BY <1>1, <2>1, <2>2 DEF InOrder, Ordered, ReadInTurn, Open
<1>4. QED
  BY <1>2, <1>3 DEF IInv

LEMMA StepKeeps == ASSUME IInv, [Next]_vars PROVE IInv'
<1>1. CASE UNCHANGED vars
  BY <1>1 DEF vars, collectorVars, envVars, IInv, Typed, Fits, InOrder, Ordered,
              ReadInTurn, Paid, Open
<1>2. QED
  BY <1>1, KernelKeeps, ReadKeeps, WriteKeeps, EndKeeps, DeltasKeep, CopyKeeps,
     ObsKeeps, RewardKeeps, CloseKeeps DEF Next, Collector, Step

LEMMA Invariant == Spec => []IInv
BY Initially, StepKeeps, PTL DEF Spec

-----------------------------------------------------------------------------
(* The matrices never hold what is not an int, whatever the kernel counts  *)
(* (get_qdisc_drops), and the deltas are signs (_compute_deltas).          *)
THEOREM TypeCorrect == Spec => []TypeOK
<1>1. IInv => TypeOK
  BY DEF IInv, Typed, TypeOK
<1>2. QED
  BY Invariant, <1>1, PTL

(* A counter that fits an int is never shown to shrink, whichever versions *)
(* of it the four reads of a step get (observe, _compute_deltas).          *)
THEOREM NeverShrinks == Spec => []DropsNeverShrink
<1>1. IInv => DropsNeverShrink
  BY DEF IInv, InOrder, DropsNeverShrink
<1>2. QED
  BY Invariant, <1>1, PTL

(* Neither is a reward older than its observation, nor an observation      *)
(* older than the totals its deltas are kept against (DCEnv.step).         *)
THEOREM ReadsInOrder == Spec => []ReadsMoveForward
<1>1. IInv => ReadsMoveForward
  BY DEF IInv, InOrder, Ordered, ReadInTurn, ReadsMoveForward
<1>2. QED
  BY Invariant, <1>1, PTL

(* Every reported growth is one the collector has written, and it is       *)
(* reported once (prev_stats = stats.copy()), of any count whatsoever.     *)
THEOREM ReportedOnce == Spec => []NoGrowthReportedTwice
<1>1. IInv => NoGrowthReportedTwice
  BY DEF IInv, Paid, NoGrowthReportedTwice
<1>2. QED
  BY Invariant, <1>1, PTL
=============================================================================
