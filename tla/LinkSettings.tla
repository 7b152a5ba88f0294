---------------------------- MODULE LinkSettings ----------------------------
(***************************************************************************)
(* The numbers the capacity of a link turns into: the queue of a switch    *)
(* port, the marking thresholds of RED for DCTCP, and the way a rate takes *)
(* from the agent's action to the fq qdisc of a host.  All are in bit/s or *)
(* bytes; fractions of the code are integer quotients here, and a rate is  *)
(* what the float32 arrays between env and controller have left of it.     *)
(***************************************************************************)
EXTENDS Integers

CONSTANTS Word,        \* 2^32: send_bw takes a uint32_t
          MinBw        \* the lowest rate an action can ask for (10000)

ASSUME LinkAssumption == Word \in Nat \ {0} /\ MinBw \in Nat

Mtu == 1500
Mega == 1000000

(* No capacity is refused, but with 0 the env cannot be constructed.       *)
Capacities == Nat \ {0}

(* np.clip: when the bounds are out of order the upper one wins.           *)
AtLeast(low, n) == IF n < low THEN low ELSE n
Clamp(low, n, high) == IF AtLeast(low, n) < high THEN AtLeast(low, n) ELSE high

(* Faulty variant: no sensible minimum is kept.                            *)
MaxQueueInProportion(bps) ==
    IF bps < 1000 * Mega THEN bps \div 250 ELSE 4 * Mega

(* calculate_max_queue: 4 MB at 1 Gbit/s, in proportion below.             *)
MaxQueue(bps) ==
    IF bps < 1000 * Mega THEN Clamp(400000, bps \div 250, 4 * Mega) ELSE 4 * Mega

(* calc_ecn: 17 % of the bandwidth-delay product, two packets at least.    *)
MarkingThreshold(bps) ==
    LET share == ((bps \div 1000) * 17) \div 1000
    IN  IF share < Mtu THEN 2 * Mtu ELSE Clamp(Mtu, share, 50000)

(* _apply_qdisc: the arguments of tc qdisc ... red.                        *)
Red(bps) ==
    LET limit == MaxQueue(bps)
        min == MarkingThreshold(bps)
        max == limit \div 4
    IN  [limit |-> limit, min |-> min, max |-> max,
         burst |-> (2 * min + max) \div (3 * Mtu)]

(* The four numbers are computed on their own and have to fit together:    *)
(* marking begins with a packet at least and before every packet is        *)
(* dropped, that before the queue is full, and bursts are as long as min.  *)
(* What tc and the kernel test beyond that is left out: tc looks for an    *)
(* averaging weight and the kernel bounds its logarithms.                  *)
RedOrdered(red) ==
    /\ Mtu <= red.min /\ red.min < red.max /\ red.max < red.limit
    /\ red.burst * Mtu >= red.min

-----------------------------------------------------------------------------
(* DCEnv.step: the action is clipped, low is 10000 bit/s of the capacity.  *)
Allocation(asked, bps) == Clamp(MinBw, asked, bps)

(* send_cntrl_pckt, send_bw: int() into a uint32_t.                        *)
OnTheWire(rate) == rate % Word

(* change_qdisc: fq counts bytes.                                          *)
FlowMaxRate(rate) == rate \div 8

(* A host is never let send faster than was allocated, and short of a byte *)
(* as fast, unless the word was too small.                                 *)
RateKept(asked, bps) ==
    LET rate == Allocation(asked, bps)
        paced == 8 * FlowMaxRate(OnTheWire(rate))
    IN  paced <= rate /\ (rate < Word => rate < paced + 8)
=============================================================================
