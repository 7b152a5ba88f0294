-------------------------- MODULE EnvConfigProofs ---------------------------
(***************************************************************************)
(* Proofs about the shared dictionaries for every number of envs and every *)
(* set of conf arguments of the shape Request, and about the numbers that  *)
(* are derived from a capacity.                                            *)
(*                                                                         *)
(* That the machine is not left in DCTCP mode needs to know of envs only   *)
(* that it is a sequence of records with a stage and an agent (IInv).      *)
(* The other properties rest on CInv: the dictionaries have their types    *)
(* (Dicts), an env's id is its number in parallel mode, and none unless    *)
(* another was parallel before it (Made), no dictionary has an id until    *)
(* an env has been parallel (Serial), and what the dictionaries say of     *)
(* hosts is what the envs so far have left there (HostsKept).              *)
(***************************************************************************)
EXTENDS EnvConfig, SequenceFacts

-----------------------------------------------------------------------------
(* The numbers of LinkSettings, for links of every capacity.               *)

(* A queue holds 400 kB at least, whatever the capacity.                   *)
LEMMA QueueInRange ==
  ASSUME NEW bps \in Nat
  PROVE  MaxQueue(bps) \in Nat /\ 400000 <= MaxQueue(bps)
BY SMT DEF MaxQueue, Clamp, AtLeast, Mega

(* Marking starts at 50 kB at the latest.                                  *)
LEMMA ThresholdInRange ==
  ASSUME NEW bps \in Nat
  PROVE  /\ MarkingThreshold(bps) \in Nat
         /\ Mtu <= MarkingThreshold(bps) /\ MarkingThreshold(bps) <= 50000
<1>1. ((bps \div 1000) * 17) \div 1000 \in Nat
  BY SMT
<1>2. QED
  BY SMT, <1>1 DEF MarkingThreshold, Clamp, AtLeast, Mtu

(* The thresholds are in order, and far enough apart for the burst.        *)
LEMMA RedIsOrdered ==
  ASSUME NEW bps \in Nat
  PROVE  RedOrdered(Red(bps))
<1> DEFINE limit == MaxQueue(bps)
           min == MarkingThreshold(bps)
           max == limit \div 4
           burst == (2 * min + max) \div (3 * Mtu)
<1>1. limit \in Nat /\ 400000 <= limit
  BY SMT, QueueInRange
<1>2. min \in Nat /\ 1500 <= min /\ min <= 50000
  BY SMT, ThresholdInRange DEF Mtu
<1> HIDE DEF limit, min
<1>3. max \in Nat /\ 100000 <= max /\ max < limit
  BY SMT, <1>1
<1> HIDE DEF max
<1>4. burst \in Nat /\ 2 * min + max < 4500 * burst + 4500
  BY SMT, <1>2, <1>3 DEF Mtu
<1> HIDE DEF burst
<1>5. min < max /\ burst * 1500 >= min
  BY SMT, <1>2, <1>3, <1>4
<1>6. /\ Red(bps).limit = limit /\ Red(bps).min = min
      /\ Red(bps).max = max /\ Red(bps).burst = burst
  BY SMT DEF Red, limit, min, max, burst
<1>7. QED
  BY SMT, <1>2, <1>3, <1>5, <1>6 DEF RedOrdered, Mtu

(* The word only takes away, and nothing from what fits into it.           *)
LEMMA WordTakes ==
  ASSUME NEW n \in Nat
  PROVE  n % Word \in Nat /\ n % Word <= n /\ (n < Word => n % Word = n)
BY SMT, LinkAssumption

(* So does the division into bytes, which costs less than a byte.          *)
LEMMA RateIsKept ==
  ASSUME NEW asked \in Int, NEW bps \in Capacities
  PROVE  RateKept(asked, bps)
<1> DEFINE rate == Allocation(asked, bps)
           sent == OnTheWire(rate)
<1>1. rate \in Nat
  BY SMT, LinkAssumption DEF Allocation, Clamp, AtLeast, Capacities
<1> HIDE DEF rate
<1>2. sent \in Nat /\ sent <= rate /\ (rate < Word => sent = rate)
  BY <1>1, WordTakes DEF OnTheWire
<1> HIDE DEF sent
<1>3. 8 * FlowMaxRate(sent) <= sent /\ sent < 8 * FlowMaxRate(sent) + 8
  BY SMT, <1>2 DEF FlowMaxRate
<1>4. FlowMaxRate(sent) \in Nat
  BY SMT, <1>2 DEF FlowMaxRate
<1>5. /\ 8 * FlowMaxRate(sent) <= rate
      /\ rate < Word => rate < 8 * FlowMaxRate(sent) + 8
  BY SMT, <1>1, <1>2, <1>3, <1>4
<1>6. QED
  BY <1>5 DEF RateKept, rate, sent

-----------------------------------------------------------------------------
(* The shared dictionaries.                                                *)

HasPolicy(env) == {"stage", "agent", "output"} \subseteq DOMAIN env
Shape ==
    /\ \E S : envs \in Seq(S)
    /\ \A e \in DOMAIN envs : HasPolicy(envs[e])
Running(e) == envs[e].stage = "started" /\ envs[e].agent = "dctcp"
IInv == Shape /\ (ecn = 1 => \E e \in DOMAIN envs : Running(e))

(* Appending keeps what is there.                                          *)
LEMMA AppendKeeps ==
  ASSUME NEW s, \E S : s \in Seq(S), NEW x
  PROVE  /\ \E S : Append(s, x) \in Seq(S)
         /\ DOMAIN s \subseteq DOMAIN Append(s, x)
         /\ \A i \in DOMAIN s : Append(s, x)[i] = s[i]
         /\ \A i \in DOMAIN Append(s, x) : i \in DOMAIN s \/ Append(s, x)[i] = x
<1>1. PICK S : s \in Seq(S)
  OBVIOUS
<1> DEFINE T == S \cup {x}
<1>2. s \in Seq(T) /\ x \in T
  BY <1>1
<1> HIDE DEF T
<1>3. Append(s, x) \in Seq(T)
  BY <1>2
<1>4. /\ DOMAIN s \subseteq DOMAIN Append(s, x)
      /\ \A i \in DOMAIN s : Append(s, x)[i] = s[i]
      /\ \A i \in DOMAIN Append(s, x) : i \in DOMAIN s \/ Append(s, x)[i] = x
  BY <1>2
<1>5. QED
  BY <1>3, <1>4

(* Changing one entry keeps a sequence and its length.                     *)
LEMMA UpdateKeeps ==
  ASSUME NEW s, \E S : s \in Seq(S), NEW e \in DOMAIN s, NEW x
  PROVE  \E S : [s EXCEPT ![e] = x] \in Seq(S)
<1>1. PICK S : s \in Seq(S)
  OBVIOUS
<1> DEFINE T == S \cup {x}
<1>2. s \in Seq(T) /\ x \in T
  BY <1>1
<1> HIDE DEF T
<1>3. [s EXCEPT ![e] = x] \in Seq(T)
  BY <1>2
<1>4. QED
  BY <1>3

LEMMA Initially == Init => IInv
<1> SUFFICES ASSUME Init PROVE IInv
  OBVIOUS
<1>1. envs = << >> /\ ecn # 1
  BY DEF Init
<1>2. envs \in Seq({})
  BY <1>1
<1>3. QED
  BY <1>1, <1>2 DEF IInv, Shape

(* A new env has not started; the others are as they were.                 *)
LEMMA CreateKeeps ==
  ASSUME IInv, NEW r \in Requests, Create(r)
  PROVE  IInv'
<1>1. PICK x : envs' = Append(envs, x) /\ HasPolicy(x)
  BY DEF Create, HasPolicy
<1>2. ecn' = ecn
  BY DEF Create
<1>3. \E S : envs \in Seq(S)
  BY DEF IInv, Shape
<1>4. Shape'
  BY <1>1, <1>3, AppendKeeps DEF IInv, Shape
<1>5. \A e \in DOMAIN envs : e \in DOMAIN envs' /\ envs'[e] = envs[e]
  BY <1>1, <1>3, AppendKeeps
<1>6. QED
  BY <1>2, <1>4, <1>5 DEF IInv, Running

(* A dctcp env that starts is the witness itself, any other one leaves the *)
(* witness alone: it had not started.                                      *)
LEMMA StartKeeps ==
  ASSUME IInv, NEW e \in DOMAIN envs, Start(e)
  PROVE  IInv'
<1> DEFINE x == [envs[e] EXCEPT !.stage = "started", !.agent = conf.agent,
                                !.output = conf.output_dir]
<1>1. envs' = [envs EXCEPT ![e] = x]
  BY DEF Start
<1>2. /\ HasPolicy(x) /\ x.stage = "started" /\ x.agent = conf.agent
  BY DEF IInv, Shape, HasPolicy
<1>3. \E S : envs \in Seq(S)
  BY DEF IInv, Shape
<1> HIDE DEF x
<1>4. DOMAIN envs' = DOMAIN envs /\ envs'[e] = x
      /\ \A d \in DOMAIN envs : d # e => envs'[d] = envs[d]
  BY <1>1, <1>3
<1>5. Shape'
  BY <1>1, <1>2, <1>3, <1>4, UpdateKeeps DEF IInv, Shape
<1>6. CASE conf.agent = "dctcp"
  BY <1>2, <1>4, <1>5, <1>6 DEF IInv, Running
<1>7. CASE conf.agent # "dctcp"
  <2>1. ecn' = ecn /\ envs[e].stage = "made"
    BY <1>7 DEF Start, LoadedEcn
  <2>2. QED
    BY <1>4, <1>5, <2>1 DEF IInv, Running
<1>8. QED
  BY <1>6, <1>7

(* The close of a dctcp env that has started resets the machine, any other *)
(* close leaves the witness alone.                                         *)
LEMMA CloseKeeps ==
  ASSUME IInv, NEW e \in DOMAIN envs, Close(e)
  PROVE  IInv'
<1> DEFINE x == [envs[e] EXCEPT !.stage = "closed"]
<1>1. envs' = [envs EXCEPT ![e] = x]
  BY DEF Close
<1>2. HasPolicy(x)
  BY DEF IInv, Shape, HasPolicy
<1>3. \E S : envs \in Seq(S)
  BY DEF IInv, Shape
<1> HIDE DEF x
<1>4. DOMAIN envs' = DOMAIN envs /\ envs'[e] = x
      /\ \A d \in DOMAIN envs : d # e => envs'[d] = envs[d]
  BY <1>1, <1>3
<1>5. Shape'
  BY <1>1, <1>2, <1>3, <1>4, UpdateKeeps DEF IInv, Shape
<1>6. CASE Running(e)
  BY <1>5, <1>6 DEF IInv, Close, Running
<1>7. CASE ~Running(e)
  BY <1>4, <1>5, <1>7 DEF IInv, Close, Running
<1>8. QED
  BY <1>6, <1>7

(* ECN is forced only while an env that runs DCTCP is up, whatever other   *)
(* envs do to the shared dictionary (load_congestion_control,              *)
(* stop_network).                                                          *)
THEOREM EcnIsReset == Spec => []EcnNotLeftOn
<1>1. IInv /\ [Next]_vars => IInv'
  <2> SUFFICES ASSUME IInv, [Next]_vars PROVE IInv'
    OBVIOUS
  <2>1. CASE \E r \in Requests : Create(r)
    BY <2>1, CreateKeeps
  <2>2. CASE \E e \in DOMAIN envs : Start(e) \/ Close(e)
    BY <2>2, StartKeeps, CloseKeeps
  <2>3. CASE UNCHANGED vars
    BY <2>3 DEF IInv, Shape, Running, vars
  <2>4. QED
    BY <2>1, <2>2, <2>3 DEF Next
<1>2. IInv => EcnNotLeftOn
  BY DEF IInv, Running, EcnNotLeftOn
<1>3. QED
  BY Initially, <1>1, <1>2, PTL DEF Spec

-----------------------------------------------------------------------------
(* The dictionaries.  Whatever requests they have gone through, the one of *)
(* a topology has a number of hosts, and there is no id in any of them     *)
(* before an env has been parallel.                                        *)
TopoConf(d) ==
    /\ DOMAIN d \subseteq {"max_capacity", "num_hosts", "id"}
    /\ "max_capacity" \in DOMAIN d => d.max_capacity \in Capacities
    /\ "id" \in DOMAIN d => d.id \in 1 .. NumEnvs
KindConf(d) ==
    /\ "num_hosts" \in DOMAIN d
    /\ "max_capacity" \in DOMAIN d => d.max_capacity \in Capacities
    /\ "id" \in DOMAIN d => d.id \in 1 .. NumEnvs
Keys == {"output_dir", "topo", "agent", "tf_index", "parallel_envs", "topo_conf"}
Conf ==
    /\ Keys \subseteq DOMAIN conf
    /\ conf.topo \in Kinds /\ conf.agent \in Agents /\ conf.parallel_envs \in BOOLEAN
    /\ \E S : conf.output_dir \in Seq(S)
    /\ TopoConf(conf.topo_conf)
Base ==
    /\ {"max_capacity", "num_hosts", "id"} \subseteq DOMAIN base
    /\ base.max_capacity \in Capacities /\ base.id \in 0 .. NumEnvs
Dicts ==
    /\ Conf /\ Base
    /\ DOMAIN kinds = Kinds /\ \A k \in Kinds : KindConf(kinds[k])
    /\ ecn \in 0 .. 2 /\ over \in BOOLEAN

(* An env has its number as its id in parallel mode, and none before an    *)
(* env has been parallel.                                                  *)
EnvOK(e, v) ==
    /\ {"stage", "agent", "output"} \subseteq DOMAIN v
    /\ v.stage \in {"made", "started", "closed"} /\ v.kind \in Kinds
    /\ v.capacity \in Capacities /\ v.parallel \in BOOLEAN
    /\ v.switches \in 0 .. NumEnvs
    /\ v.parallel => v.switches = e
Made ==
    /\ \E S : envs \in Seq(S)
    /\ Len(envs) <= NumEnvs
    /\ \A e \in DOMAIN envs : EnvOK(e, envs[e])
    /\ \A e \in DOMAIN envs :
         (\A d \in 1 .. e : ~envs[d].parallel) => envs[e].switches = NoId
Serial ==
    (\A e \in DOMAIN envs : ~envs[e].parallel) =>
        /\ "id" \notin DOMAIN conf.topo_conf /\ base.id = NoId
        /\ \A k \in Kinds : "id" \notin DOMAIN kinds[k]

(* The hosts in force and those a topology has are what the envs so far    *)
(* have left.                                                              *)
HostsKept ==
    \A made : made = Len(envs) =>
        /\ "num_hosts" \in DOMAIN conf.topo_conf <=> "num_hosts" \in DOMAIN InForce(made)
        /\ "num_hosts" \in DOMAIN conf.topo_conf =>
               conf.topo_conf.num_hosts = InForce(made).num_hosts
        /\ \A k \in Kinds : kinds[k].num_hosts = HostsLeft(k, made)

(* HostsInherited, with names for what depends on the env.                 *)
Inherited ==
    \A e \in DOMAIN envs : \A k : envs[e].kind = k =>
        envs[e].hosts = IF "num_hosts" \in DOMAIN InForce(e) THEN InForce(e).num_hosts
                                                            ELSE HostsLeft(k, e - 1)

CInv == Dicts /\ Made /\ Serial /\ LastAsAsked /\ HostsKept /\ Inherited

(* A set of numbers up to n has a greatest one; n is, if it is in it.      *)
LEMMA MaxIsIn ==
  ASSUME NEW n \in Nat, NEW S, S \subseteq 1 .. n, S # {}
  PROVE  Max(S) \in S
<1> DEFINE T == {x \in Nat : n - x \in S}
<1>1. T \subseteq Nat /\ T # {}
  <2>1. PICK m : m \in S
    OBVIOUS
  <2>2. n - m \in Nat /\ n - (n - m) = m
    BY <2>1
  <2>3. n - m \in T
    BY <2>1, <2>2
  <2>4. QED
    BY <2>3
<1>2. PICK x \in T : \A y \in T : x <= y
  BY <1>1, LeastNumber
<1>3. n - x \in S /\ x \in Nat
  BY <1>2
<1>4. ASSUME NEW m \in S PROVE n - x >= m
  <2>1. m \in Nat /\ n - m \in Nat /\ n - (n - m) = m
    OBVIOUS
  <2>2. n - m \in T
    BY <2>1
  <2>3. x <= n - m
    BY <1>2, <2>2
  <2>4. QED
    BY <1>3, <2>1, <2>3
<1>5. QED
  BY <1>3, <1>4 DEF Max

LEMMA MaxIsLast ==
  ASSUME NEW n \in Nat, NEW S, S \subseteq 1 .. n, n \in S
  PROVE  Max(S) = n
<1>1. \A x \in S : x \in Nat /\ n >= x
  OBVIOUS
<1>2. \E x \in S : \A y \in S : x >= y
  BY <1>1
<1>3. Max(S) \in S /\ \A y \in S : Max(S) >= y
  BY <1>2 DEF Max
<1> DEFINE max == Max(S)
<1>4. max \in Nat /\ n >= max /\ max >= n
  BY <1>1, <1>3
<1> HIDE DEF max
<1>5. max = n
  BY <1>4
<1>6. QED
  BY <1>5 DEF max

(* What the first n envs leave depends on what they have asked for and got *)
LEMMA LeftAlike ==
  ASSUME NEW n \in Nat,
         \A d \in 1 .. n : /\ envs'[d].asked = envs[d].asked
                           /\ envs'[d].kind = envs[d].kind
                           /\ envs'[d].hosts = envs[d].hosts
  PROVE  InForce(n)' = InForce(n) /\ \A k : HostsLeft(k, n)' = HostsLeft(k, n)
<1>1. InForce(n)' = InForce(n)
  <2>1. Givers(n)' = Givers(n) /\ Givers(n) \subseteq 1 .. n
    BY DEF Givers
  <2>2. Givers(n) # {} => Max(Givers(n)) \in 1 .. n
    BY <2>1, MaxIsIn
  <2>3. QED
    BY <2>1, <2>2 DEF InForce
<1>2. ASSUME NEW k PROVE HostsLeft(k, n)' = HostsLeft(k, n)
  <2>1. Alike(k, n)' = Alike(k, n) /\ Alike(k, n) \subseteq 1 .. n
    BY DEF Alike
  <2>2. Alike(k, n) # {} => Max(Alike(k, n)) \in 1 .. n
    BY <2>1, MaxIsIn
  <2>3. QED
    BY <2>1, <2>2 DEF HostsLeft
<1>3. QED
  BY <1>1, <1>2

(* What one more env leaves.                                               *)
LEMMA LeftByNext ==
  ASSUME NEW n \in Nat, NEW y, envs'[n + 1] = y,
         \A d \in 1 .. n : envs'[d] = envs[d]
  PROVE  /\ InForce(n + 1)' = IF "topo_conf" \in DOMAIN y.asked
                               THEN y.asked.topo_conf ELSE InForce(n)
         /\ \A k : HostsLeft(k, n + 1)' = IF y.kind = k THEN y.hosts ELSE HostsLeft(k, n)
<1>1. 1 .. n + 1 = 1 .. n \cup {n + 1} /\ n + 1 \in Nat
  OBVIOUS
<1>2. InForce(n)' = InForce(n) /\ \A k : HostsLeft(k, n)' = HostsLeft(k, n)
  BY LeftAlike
<1>3. InForce(n + 1)' = IF "topo_conf" \in DOMAIN y.asked
                        THEN y.asked.topo_conf ELSE InForce(n)
  <2>1. CASE "topo_conf" \in DOMAIN y.asked
    <3>1. n + 1 \in Givers(n + 1)' /\ Givers(n + 1)' \subseteq 1 .. n + 1
      BY <1>1, <2>1 DEF Givers
    <3>2. Max(Givers(n + 1)') = n + 1
      BY <1>1, <3>1, MaxIsLast
    <3>3. QED
      BY <2>1, <3>1, <3>2 DEF InForce
  <2>2. CASE "topo_conf" \notin DOMAIN y.asked
    <3>1. Givers(n + 1)' = Givers(n)'
      BY <1>1, <2>2 DEF Givers
    <3>2. InForce(n + 1)' = InForce(n)'
      <4>1. Givers(n)' \subseteq 1 .. n
        BY DEF Givers
      <4>2. QED
        BY <3>1 DEF InForce
    <3>3. QED
      BY <1>2, <2>2, <3>2
  <2>3. QED
    BY <2>1, <2>2
<1>4. ASSUME NEW k
      PROVE  HostsLeft(k, n + 1)' = IF y.kind = k THEN y.hosts ELSE HostsLeft(k, n)
  <2>1. CASE y.kind = k
    <3>1. n + 1 \in Alike(k, n + 1)' /\ Alike(k, n + 1)' \subseteq 1 .. n + 1
      BY <1>1, <2>1 DEF Alike
    <3>2. Max(Alike(k, n + 1)') = n + 1
      BY <1>1, <3>1, MaxIsLast
    <3>3. QED
      BY <2>1, <3>1, <3>2 DEF HostsLeft
  <2>2. CASE y.kind # k
    <3>1. Alike(k, n + 1)' = Alike(k, n)'
      BY <1>1, <2>2 DEF Alike
    <3>2. HostsLeft(k, n + 1)' = HostsLeft(k, n)'
      BY <3>1 DEF HostsLeft
    <3>3. QED
      BY <1>2, <2>2, <3>2
  <2>3. QED
    BY <2>1, <2>2
<1>5. QED
  BY <1>3, <1>4

LEMMA UpdatedIs ==
  ASSUME NEW d, NEW u
  PROVE  /\ DOMAIN Updated(d, u) = DOMAIN d \cup DOMAIN u
         /\ \A k \in DOMAIN u : Updated(d, u)[k] = u[k]
         /\ \A k \in DOMAIN d \ DOMAIN u : Updated(d, u)[k] = d[k]
BY DEF Updated

LEMMA PrefixOfItself ==
  ASSUME NEW S, NEW s \in Seq(S)
  PROVE  IsPrefix(s, s)
BY DEF IsPrefix

LEMMA PrefixOfAppended ==
  ASSUME NEW S, NEW s \in Seq(S), NEW x
  PROVE  IsPrefix(s, Append(s, x)) /\ \E T : Append(s, x) \in Seq(T)
<1> DEFINE T == S \cup {x}
<1>1. s \in Seq(T) /\ x \in T
  OBVIOUS
<1> HIDE DEF T
<1>2. Append(s, x) \in Seq(T) /\ Len(Append(s, x)) = Len(s) + 1 /\ Len(s) \in Nat
      /\ \A i \in 1 .. Len(s) : Append(s, x)[i] = s[i]
  BY <1>1
<1>3. SubSeq(s, 1, Len(s)) = SubSeq(Append(s, x), 1, Len(s))
  BY <1>1, <1>2
<1>4. QED
  BY <1>2, <1>3 DEF IsPrefix

LEMMA CInitially == Init => CInv
<1> SUFFICES ASSUME Init PROVE CInv
  OBVIOUS
<1>1. NumEnvs \in Nat /\ DefaultBase.max_capacity \in Capacities
  BY SMT, ConfigAssumption DEF DefaultBase, Capacities, Mega
<1>2. /\ conf = DefaultConf /\ kinds = DefaultKinds /\ base = DefaultBase
      /\ envs = << >> /\ over = FALSE /\ ecn \in {0, 2}
  BY DEF Init
<1>3. Conf
  <2>1. <<"results">> \in Seq({"results"})
    OBVIOUS
  <2>2. TopoConf(<< >>)
    BY DEF TopoConf
  <2>3. /\ DOMAIN conf = Keys
        /\ conf.output_dir = <<"results">> /\ conf.topo = "dumbbell" /\ conf.agent = "tcp"
        /\ conf.parallel_envs = FALSE /\ conf.topo_conf = << >>
    BY <1>2 DEF DefaultConf, Keys
  <2>4. \E S : conf.output_dir \in Seq(S)
    BY <2>1, <2>3
  <2>5. conf.agent \in Agents
    BY <1>2, ConfigAssumption
  <2>6. Keys \subseteq DOMAIN conf /\ conf.topo \in Kinds
    BY <2>3 DEF Kinds
  <2>7. conf.parallel_envs \in BOOLEAN /\ TopoConf(conf.topo_conf)
    BY <2>2, <2>3
  <2>8. QED
    BY <2>4, <2>5, <2>6, <2>7 DEF Conf
<1>4. Base
  BY <1>1, <1>2 DEF Base, DefaultBase, NoId
<1>5. \A k \in Kinds : KindConf(kinds[k]) /\ "id" \notin DOMAIN kinds[k]
  <2> SUFFICES ASSUME NEW k \in Kinds
               PROVE  KindConf(DefaultKinds[k]) /\ "id" \notin DOMAIN DefaultKinds[k]
    BY <1>2
  <2>1. DOMAIN DefaultKinds[k] = {"num_hosts", "traffic_files"}
    BY DEF DefaultKinds
  <2> DEFINE d == DefaultKinds[k]
  <2>2. DOMAIN d = {"num_hosts", "traffic_files"}
    BY <2>1
  <2> HIDE DEF d
  <2>3. KindConf(d) /\ "id" \notin DOMAIN d
    BY <2>2 DEF KindConf
  <2>4. QED
    BY <2>3 DEF d
<1>6. Dicts
  <2>1. DOMAIN kinds = Kinds
    BY <1>2 DEF DefaultKinds
  <2>2. ecn \in 0 .. 2
    BY <1>2
  <2>3. over \in BOOLEAN
    BY <1>2
  <2>4. QED
    BY <1>3, <1>4, <1>5, <2>1, <2>2, <2>3 DEF Dicts
<1>7. Made
  BY <1>1, <1>2 DEF Made
<1>8. Serial
  BY <1>2, <1>5 DEF Serial, DefaultBase, DefaultConf
<1>9. LastAsAsked
  BY <1>2 DEF LastAsAsked
<1>10. HostsKept
  <2>1. Len(envs) = 0 /\ Givers(0) = {} /\ \A k : Alike(k, 0) = {}
    BY <1>2 DEF Givers, Alike
  <2>2. conf.topo_conf = << >> /\ InForce(0) = << >>
    BY <1>2, <2>1 DEF DefaultConf, InForce
  <2>3. \A k \in Kinds : kinds[k].num_hosts = HostsLeft(k, 0)
    BY <1>2, <2>1 DEF HostsLeft
  <2>4. QED
    BY <2>1, <2>2, <2>3 DEF HostsKept
<1>11. Inherited
  BY <1>2 DEF Inherited
<1>12. QED
  BY <1>6, <1>7, <1>8, <1>9, <1>10, <1>11 DEF CInv

(* A new env.  The dictionary of its topology and then base take what      *)
(* topo_conf says, and leave the rest as it was.                           *)
LEMMA CreateKeepsC ==
  ASSUME CInv, NEW r \in Requests, Create(r)
  PROVE  CInv'
<1> DEFINE n == Len(envs) + 1
           merged == Updated(conf, r)
           parallel == merged.parallel_envs
           tc == IF parallel THEN WithId(merged.topo_conf, n) ELSE merged.topo_conf
           kind == merged.topo
           d == Updated(kinds[kind], tc)
           b == Updated(base, d)
           out == IF parallel THEN Append(merged.output_dir, n) ELSE merged.output_dir
           x == [asked |-> r, stage |-> "made", parallel |-> parallel, kind |-> kind,
                 switches |-> b["id"], capacity |-> b["max_capacity"],
                 hosts |-> b["num_hosts"], dumped |-> merged.output_dir,
                 folder |-> NameOf(kind), files |-> b["traffic_files"],
                 index |-> merged.tf_index, agent |-> "none", output |-> << >>]
<1>1. Request(r) /\ NumEnvs \in Nat /\ n <= NumEnvs
  BY ConfigAssumption DEF Create
<1>2. (\E S : envs \in Seq(S)) /\ n \in 1 .. NumEnvs
  BY <1>1 DEF CInv, Made
<1>3. /\ Keys \subseteq DOMAIN merged
      /\ \A k \in DOMAIN r : merged[k] = r[k]
      /\ \A k \in Keys \ DOMAIN r : merged[k] = conf[k]
  <2>1. Keys \subseteq DOMAIN conf
    BY DEF CInv, Dicts, Conf
  <2>2. /\ DOMAIN merged = DOMAIN conf \cup DOMAIN r
        /\ \A k \in DOMAIN r : merged[k] = r[k]
        /\ \A k \in DOMAIN conf \ DOMAIN r : merged[k] = conf[k]
    BY UpdatedIs
  <2> HIDE DEF merged, Keys
  <2>3. QED
    BY <2>1, <2>2
<1>4. kinds' = [kinds EXCEPT ![kind] = d]
  BY DEF Create
<1> HIDE DEF merged
<1>5. kind \in Kinds /\ ("topo" \in DOMAIN r => kind = r.topo)
  BY <1>1, <1>3 DEF CInv, Dicts, Conf, Request, Keys
<1>6. kinds'[kind] = d
  BY <1>4, <1>5 DEF CInv, Dicts
<1>7. /\ base' = b /\ envs' = Append(envs, x) /\ UNCHANGED <<ecn, over>>
      /\ conf' = [merged EXCEPT !.topo_conf = tc, !.output_dir = out]
  BY <1>6 DEF Create, merged
<1>8. parallel \in BOOLEAN
  BY <1>1, <1>3 DEF CInv, Dicts, Conf, Request, Keys
<1>9. merged.agent \in Agents /\ ("agent" \in DOMAIN r => merged.agent = r.agent)
  BY <1>1, <1>3 DEF CInv, Dicts, Conf, Request, Keys
<1>10. (\E S : merged.output_dir \in Seq(S))
       /\ ("output_dir" \in DOMAIN r => merged.output_dir = r.output_dir)
  BY <1>1, <1>3 DEF CInv, Dicts, Conf, Request, Keys
<1>11. /\ TopoConf(merged.topo_conf)
       /\ "topo_conf" \in DOMAIN r => merged.topo_conf = r.topo_conf
       /\ "topo_conf" \notin DOMAIN r => merged.topo_conf = conf.topo_conf
  BY <1>1, <1>3 DEF CInv, Dicts, Conf, Request, Keys, TopoConf
<1> DEFINE old == merged.topo_conf
<1>12. /\ TopoConf(tc)
       /\ parallel => "id" \in DOMAIN tc /\ tc.id = n
       /\ ~parallel => tc = old
       /\ \A k \in {"max_capacity", "num_hosts"} :
            (k \in DOMAIN tc <=> k \in DOMAIN old) /\ (k \in DOMAIN tc => tc[k] = old[k])
  <2>2. CASE ~parallel
    BY <1>11, <2>2
  <2>3. CASE parallel
    <3> DEFINE u == [id |-> n]
    <3>1. tc = Updated(old, u)
      BY <2>3 DEF WithId
    <3>2. DOMAIN u = {"id"} /\ u["id"] = n
      OBVIOUS
    <3>3. TopoConf(old)
      BY <1>11
    <3> HIDE DEF u, tc, old
    <3>4. /\ DOMAIN Updated(old, u) = DOMAIN old \cup {"id"} /\ Updated(old, u)["id"] = n
          /\ \A k \in DOMAIN old \ {"id"} : Updated(old, u)[k] = old[k]
      <4>1. /\ DOMAIN Updated(old, u) = DOMAIN old \cup DOMAIN u
            /\ \A k \in DOMAIN u : Updated(old, u)[k] = u[k]
            /\ \A k \in DOMAIN old \ DOMAIN u : Updated(old, u)[k] = old[k]
        BY UpdatedIs
      <4>2. QED
        BY <3>2, <4>1
    <3>5. TopoConf(tc) /\ "id" \in DOMAIN tc /\ tc["id"] = n
      BY <1>2, <3>1, <3>3, <3>4 DEF TopoConf
    <3>6. \A k \in {"max_capacity", "num_hosts"} :
            (k \in DOMAIN tc <=> k \in DOMAIN old) /\ (k \in DOMAIN tc => tc[k] = old[k])
      BY <3>1, <3>4
    <3>7. QED
      BY <2>3, <3>5, <3>6
  <2>4. QED
    BY <1>8, <2>2, <2>3
<1> HIDE DEF tc, old
<1>13. /\ KindConf(d)
       /\ DOMAIN d = DOMAIN kinds[kind] \cup DOMAIN tc
       /\ \A k \in DOMAIN tc : d[k] = tc[k]
       /\ "num_hosts" \notin DOMAIN tc => d["num_hosts"] = kinds[kind]["num_hosts"]
  <2>1. /\ DOMAIN d = DOMAIN kinds[kind] \cup DOMAIN tc
        /\ \A k \in DOMAIN tc : d[k] = tc[k]
        /\ \A k \in DOMAIN kinds[kind] \ DOMAIN tc : d[k] = kinds[kind][k]
    BY UpdatedIs
  <2>2. KindConf(kinds[kind])
    BY <1>5 DEF CInv, Dicts
  <2> HIDE DEF d
  <2>3. /\ "num_hosts" \in DOMAIN d
        /\ "num_hosts" \notin DOMAIN tc => d["num_hosts"] = kinds[kind]["num_hosts"]
    BY <2>1, <2>2 DEF KindConf
  <2>4. "max_capacity" \in DOMAIN d => d["max_capacity"] \in Capacities
    BY <1>12, <2>1, <2>2 DEF TopoConf, KindConf
  <2>5. "id" \in DOMAIN d => d["id"] \in 1 .. NumEnvs
    BY <1>12, <2>1, <2>2 DEF TopoConf, KindConf
  <2>6. QED
    BY <2>1, <2>3, <2>4, <2>5 DEF KindConf
<1> HIDE DEF d
<1>14. /\ DOMAIN b = DOMAIN base \cup DOMAIN d
       /\ \A k \in DOMAIN d : b[k] = d[k]
       /\ \A k \in DOMAIN base \ DOMAIN d : b[k] = base[k]
  BY UpdatedIs
<1> HIDE DEF b
<1>15. /\ {"max_capacity", "num_hosts", "id"} \subseteq DOMAIN b
       /\ b["max_capacity"] \in Capacities /\ b["id"] \in 0 .. NumEnvs
       /\ b["num_hosts"] = d["num_hosts"]
  BY <1>1, <1>13, <1>14 DEF CInv, Dicts, Base, KindConf
<1>16. "topo_conf" \in DOMAIN r =>
         /\ "max_capacity" \in DOMAIN r.topo_conf => b["max_capacity"] = r.topo_conf.max_capacity
         /\ "num_hosts" \in DOMAIN r.topo_conf => b["num_hosts"] = r.topo_conf.num_hosts
  <2> SUFFICES ASSUME "topo_conf" \in DOMAIN r,
                      NEW k \in {"max_capacity", "num_hosts"}, k \in DOMAIN r.topo_conf
               PROVE  b[k] = r.topo_conf[k]
    OBVIOUS
  <2>1. old = r.topo_conf
    BY <1>11 DEF old
  <2>2. k \in DOMAIN tc /\ tc[k] = r.topo_conf[k]
    BY <1>12, <2>1
  <2>3. QED
    BY <1>13, <1>14, <2>2
<1>17. parallel => b["id"] = n
  BY <1>12, <1>13, <1>14
<1>18. (\E S : out \in Seq(S)) /\ IsPrefix(merged.output_dir, out)
  BY <1>10, PrefixOfItself, PrefixOfAppended
<1> HIDE DEF out, parallel, kind
<1>19. /\ Keys \subseteq DOMAIN conf'
       /\ conf'["topo"] = kind /\ conf'["agent"] = merged.agent
       /\ conf'["parallel_envs"] = parallel /\ conf'["topo_conf"] = tc
       /\ conf'["output_dir"] = out
  BY <1>3, <1>7 DEF Keys, kind, parallel
<1>20. Dicts'
  <2>1. Conf'
    BY <1>5, <1>8, <1>9, <1>12, <1>18, <1>19 DEF Conf, TopoConf
  <2>2. Base'
    BY <1>7, <1>15 DEF Base
  <2>3. DOMAIN kinds' = Kinds /\ \A k \in Kinds : KindConf(kinds'[k])
    BY <1>4, <1>5, <1>13 DEF CInv, Dicts
  <2>4. QED
    BY <1>7, <2>1, <2>2, <2>3 DEF Dicts, CInv, KindConf
<1>21. PICK y :
         /\ envs' = Append(envs, y)
         /\ y.asked = r /\ y.stage = "made" /\ y.parallel = parallel /\ y.kind = kind
         /\ y.switches = b["id"] /\ y.capacity = b["max_capacity"] /\ y.hosts = b["num_hosts"]
         /\ y.dumped = merged.output_dir /\ {"stage", "agent", "output"} \subseteq DOMAIN y
  BY <1>7
<1>22. /\ \E S : envs' \in Seq(S)
       /\ Len(envs') = n /\ DOMAIN envs' = 1 .. n /\ envs'[n] = y
       /\ Len(envs) = n - 1 /\ DOMAIN envs = 1 .. n - 1
       /\ \A e \in 1 .. n - 1 : envs'[e] = envs[e]
  <2>1. PICK S : envs \in Seq(S)
    BY <1>2
  <2> DEFINE T == S \cup {y}
  <2>2. envs \in Seq(T) /\ y \in T
    BY <2>1
  <2> HIDE DEF T
  <2>3. envs' \in Seq(T) /\ Len(envs') = n /\ envs'[n] = y
        /\ \A e \in 1 .. Len(envs) : envs'[e] = envs[e]
    BY <1>21, <2>2
  <2>4. QED
    BY <2>2, <2>3
<1> HIDE DEF n
<1>23. PICK m \in Nat : m = n - 1 /\ m + 1 = n /\ 1 .. n = 1 .. m \cup {n}
  BY <1>2
<1>24. ASSUME \A e \in 1 .. n : ~envs'[e].parallel
       PROVE  "id" \notin DOMAIN tc /\ "id" \notin DOMAIN d /\ b["id"] = NoId
              /\ \A k \in Kinds : "id" \notin DOMAIN kinds[k]
  <2>1. ~parallel /\ \A e \in 1 .. m : ~envs[e].parallel
    BY <1>21, <1>22, <1>23, <1>24
  <2>2. /\ "id" \notin DOMAIN conf.topo_conf /\ base.id = NoId
        /\ \A k \in Kinds : "id" \notin DOMAIN kinds[k]
    BY <1>22, <1>23, <2>1 DEF CInv, Serial
  <2>3. "id" \notin DOMAIN old
    BY <1>1, <1>11, <2>2 DEF Request, old
  <2>4. "id" \notin DOMAIN tc
    BY <1>12, <2>1, <2>3
  <2>5. "id" \notin DOMAIN d
    BY <1>5, <1>13, <2>2, <2>4
  <2>6. b["id"] = NoId
    BY <1>14, <2>2, <2>5 DEF CInv, Dicts, Base
  <2>7. QED
    BY <2>2, <2>4, <2>5, <2>6
<1>25. Made'
  <2>1. EnvOK(n, y)
    BY <1>5, <1>8, <1>15, <1>17, <1>21 DEF EnvOK
  <2>2. \A e \in 1 .. n : EnvOK(e, envs'[e])
    BY <1>22, <1>23, <2>1 DEF CInv, Made
  <2>3. ASSUME NEW e \in 1 .. n, \A f \in 1 .. e : ~envs'[f].parallel
        PROVE  envs'[e].switches = NoId
    <3>1. CASE e = n
      BY <1>21, <1>22, <1>24, <2>3, <3>1
    <3>2. CASE e # n
      <4>1. e \in 1 .. m /\ 1 .. e \subseteq 1 .. m
        BY <1>2, <1>23, <3>2
      <4>2. e \in DOMAIN envs /\ \A f \in 1 .. e : ~envs[f].parallel
        BY <1>22, <1>23, <2>3, <4>1
      <4>3. QED
        BY <1>22, <1>23, <4>1, <4>2 DEF CInv, Made
    <3>3. QED
      BY <3>1, <3>2
  <2>4. QED
    BY <1>1, <1>22, <2>2, <2>3 DEF Made
<1>26. Serial'
  <2> SUFFICES ASSUME \A e \in 1 .. n : ~envs'[e].parallel
               PROVE  /\ "id" \notin DOMAIN tc /\ base'.id = NoId
                      /\ \A k \in Kinds : "id" \notin DOMAIN kinds'[k]
    BY <1>19, <1>22 DEF Serial
  <2>1. \A k \in Kinds : "id" \notin DOMAIN kinds'[k]
    BY <1>4, <1>5, <1>24 DEF CInv, Dicts
  <2>2. QED
    BY <1>7, <1>24, <2>1
<1>27. LastAsAsked'
  <2>1. Last(envs') = y
    BY <1>22 DEF Last
  <2>2. AsAsked(y, r)'
    BY <1>5, <1>9, <1>10, <1>16, <1>19, <1>21 DEF AsAsked
  <2>3. /\ base'.max_capacity = y.capacity /\ base'.num_hosts = y.hosts
        /\ IsPrefix(y.dumped, conf'.output_dir)
    BY <1>7, <1>15, <1>18, <1>19, <1>21
  <2>4. QED
    BY <1>21, <2>1, <2>2, <2>3 DEF LastAsAsked
<1>28. /\ InForce(m + 1)' = IF "topo_conf" \in DOMAIN r THEN r.topo_conf ELSE InForce(m)
       /\ \A k : HostsLeft(k, m + 1)' = IF kind = k THEN y.hosts ELSE HostsLeft(k, m)
  <2>1. envs'[m + 1] = y /\ \A i \in 1 .. m : envs'[i] = envs[i]
    BY <1>22, <1>23
  <2>2. y.asked = r /\ y.kind = kind
    BY <1>21
  <2>3. /\ InForce(m + 1)' = IF "topo_conf" \in DOMAIN y.asked
                             THEN y.asked.topo_conf ELSE InForce(m)
        /\ \A k : HostsLeft(k, m + 1)' = IF y.kind = k THEN y.hosts ELSE HostsLeft(k, m)
    BY <2>1, LeftByNext
  <2>4. QED
    BY <2>2, <2>3
<1>29. /\ "num_hosts" \in DOMAIN conf.topo_conf <=> "num_hosts" \in DOMAIN InForce(m)
       /\ "num_hosts" \in DOMAIN conf.topo_conf =>
              conf.topo_conf.num_hosts = InForce(m).num_hosts
       /\ \A k \in Kinds : kinds[k].num_hosts = HostsLeft(k, m)
  BY <1>22, <1>23 DEF CInv, HostsKept
<1>30. /\ "num_hosts" \in DOMAIN tc <=> "num_hosts" \in DOMAIN InForce(m + 1)'
       /\ "num_hosts" \in DOMAIN tc => tc.num_hosts = InForce(m + 1)'.num_hosts
  <2>1. /\ "num_hosts" \in DOMAIN tc <=> "num_hosts" \in DOMAIN old
        /\ "num_hosts" \in DOMAIN tc => tc.num_hosts = old.num_hosts
    BY <1>12
  <2>2. /\ "num_hosts" \in DOMAIN old <=> "num_hosts" \in DOMAIN InForce(m + 1)'
        /\ "num_hosts" \in DOMAIN old => old.num_hosts = InForce(m + 1)'.num_hosts
    BY <1>11, <1>28, <1>29 DEF old
  <2>3. QED
    BY <2>1, <2>2
<1>31. y.hosts = IF "num_hosts" \in DOMAIN tc THEN tc.num_hosts ELSE HostsLeft(kind, m)
  BY <1>5, <1>13, <1>15, <1>21, <1>29
<1>32. HostsKept'
  <2>1. \A k \in Kinds : kinds'[k].num_hosts = HostsLeft(k, m + 1)'
    BY <1>4, <1>5, <1>15, <1>21, <1>28, <1>29 DEF CInv, Dicts
  <2>2. \A made : made = Len(envs)' => made = m + 1
    BY <1>22, <1>23
  <2>3. QED
    BY <1>19, <1>30, <2>1, <2>2 DEF HostsKept
<1>33. Inherited'
  <2> SUFFICES ASSUME NEW e \in 1 .. n, NEW k, envs'[e].kind = k
               PROVE  envs'[e].hosts = IF "num_hosts" \in DOMAIN InForce(e)'
                                       THEN InForce(e)'.num_hosts ELSE HostsLeft(k, e - 1)'
    BY <1>22 DEF Inherited
  <2>1. ASSUME NEW i \in Nat, i <= m
        PROVE  InForce(i)' = InForce(i) /\ HostsLeft(k, i)' = HostsLeft(k, i)
    BY <1>22, <1>23, <2>1, LeftAlike
  <2>2. CASE e = n
    <3>1. e = m + 1 /\ e - 1 = m /\ HostsLeft(k, m)' = HostsLeft(k, m)
      BY <1>23, <2>1, <2>2
    <3>2. k = kind /\ envs'[e].hosts = y.hosts
      BY <1>21, <1>22, <2>2
    <3>3. QED
      BY <1>30, <1>31, <3>1, <3>2
  <2>3. CASE e # n
    <3>1. e \in Nat /\ e <= m /\ e - 1 \in Nat /\ e - 1 <= m /\ e \in 1 .. n - 1
      BY <1>2, <1>23, <2>3
    <3>2. InForce(e)' = InForce(e) /\ HostsLeft(k, e - 1)' = HostsLeft(k, e - 1)
      BY <2>1, <3>1
    <3>3. envs'[e] = envs[e] /\ e \in DOMAIN envs
      BY <1>22, <3>1
    <3>4. QED
      BY <3>2, <3>3 DEF CInv, Inherited
  <2>4. QED
    BY <2>2, <2>3
<1>34. QED
  BY <1>20, <1>25, <1>26, <1>27, <1>32, <1>33 DEF CInv

(* An env that starts or is closed keeps what it took when it was made.    *)
LEMMA EntryKeepsC ==
  ASSUME CInv, NEW e \in DOMAIN envs, NEW x,
         envs' = [envs EXCEPT ![e] = x],
         UNCHANGED <<conf, kinds, base>>, ecn' \in 0 .. 2, over' \in BOOLEAN,
         {"stage", "agent", "output"} \subseteq DOMAIN x,
         x.asked = envs[e].asked, x.kind = envs[e].kind, x.parallel = envs[e].parallel,
         x.switches = envs[e].switches, x.capacity = envs[e].capacity,
         x.hosts = envs[e].hosts, x.dumped = envs[e].dumped,
         \/ x.stage = "closed"
         \/ x.stage = "started" /\ x.agent = conf.agent /\ x.output = conf.output_dir
  PROVE  CInv'
<1>1. \E S : envs \in Seq(S)
  BY DEF CInv, Made
<1>2. /\ \E S : envs' \in Seq(S)
      /\ Len(envs) \in Nat /\ DOMAIN envs = 1 .. Len(envs)
      /\ Len(envs') = Len(envs) /\ DOMAIN envs' = DOMAIN envs /\ envs'[e] = x
      /\ \A d \in DOMAIN envs : d # e => envs'[d] = envs[d]
  <2>1. PICK S : envs' \in Seq(S)
    BY <1>1, UpdateKeeps
  <2>2. DOMAIN envs' = DOMAIN envs /\ envs'[e] = x
        /\ \A d \in DOMAIN envs : d # e => envs'[d] = envs[d]
    OBVIOUS
  <2>3. Len(envs') = Len(envs) /\ Len(envs) \in Nat /\ DOMAIN envs = 1 .. Len(envs)
    BY <1>1, <2>1, <2>2
  <2>4. QED
    BY <2>1, <2>2, <2>3
<1>3. Dicts'
  BY DEF CInv, Dicts, Conf, Base
<1>4. Made'
  <2>1. EnvOK(e, x)
    BY DEF CInv, Made, EnvOK
  <2>2. \A i \in DOMAIN envs' : EnvOK(i, envs'[i])
    BY <1>2, <2>1 DEF CInv, Made
  <2>3. \A i \in DOMAIN envs : envs'[i].parallel = envs[i].parallel
                             /\ envs'[i].switches = envs[i].switches
    BY <1>2
  <2>4. \A i \in DOMAIN envs : 1 .. i \subseteq DOMAIN envs
    BY <1>2
  <2>5. ASSUME NEW i \in DOMAIN envs, \A d \in 1 .. i : ~envs'[d].parallel
        PROVE  envs'[i].switches = NoId
    BY <2>3, <2>4, <2>5 DEF CInv, Made
  <2>6. QED
    BY <1>2, <2>2, <2>5 DEF CInv, Made
<1>5. Serial'
  <2>1. \A i \in DOMAIN envs : envs'[i].parallel = envs[i].parallel
    BY <1>2
  <2>2. QED
    BY <1>2, <2>1 DEF CInv, Serial
<1>6. LastAsAsked'
  <2>1. envs # << >> /\ Len(envs) \in DOMAIN envs
    BY <1>1
  <2>2. CASE e # Len(envs)
    <3>1. Last(envs') = Last(envs)
      BY <1>2, <2>1, <2>2 DEF Last
    <3>2. QED
      BY <2>1, <3>1 DEF CInv, LastAsAsked, AsAsked
  <2>3. CASE e = Len(envs)
    <3>1. Last(envs') = x /\ Last(envs) = envs[e]
      BY <1>2, <2>3 DEF Last
    <3>2. AsAsked(x, x.asked)
      BY <2>1, <3>1 DEF CInv, LastAsAsked, AsAsked
    <3>3. /\ base.max_capacity = x.capacity /\ base.num_hosts = x.hosts
          /\ IsPrefix(x.dumped, conf.output_dir)
      BY <2>1, <3>1 DEF CInv, LastAsAsked
    <3>4. QED
      BY <3>1, <3>2, <3>3 DEF LastAsAsked, AsAsked
  <2>4. QED
    BY <2>2, <2>3
<1>7. ASSUME NEW n \in Nat, n <= Len(envs)
      PROVE  InForce(n)' = InForce(n) /\ \A k : HostsLeft(k, n)' = HostsLeft(k, n)
  <2>1. 1 .. n \subseteq DOMAIN envs
    BY <1>2, <1>7
  <2>2. \A d \in 1 .. n : /\ envs'[d].asked = envs[d].asked
                          /\ envs'[d].kind = envs[d].kind
                          /\ envs'[d].hosts = envs[d].hosts
    BY <1>2, <2>1
  <2>3. QED
    BY <2>2, LeftAlike
<1>8. HostsKept'
  <2>1. PICK m \in Nat : m = Len(envs)
    BY <1>2
  <2>2. InForce(m)' = InForce(m) /\ \A k : HostsLeft(k, m)' = HostsLeft(k, m)
    BY <1>7, <2>1
  <2>3. \A made : made = Len(envs)' => made = m
    BY <1>2, <2>1
  <2>4. /\ "num_hosts" \in DOMAIN conf.topo_conf <=> "num_hosts" \in DOMAIN InForce(m)
        /\ "num_hosts" \in DOMAIN conf.topo_conf =>
               conf.topo_conf.num_hosts = InForce(m).num_hosts
        /\ \A k \in Kinds : kinds[k].num_hosts = HostsLeft(k, m)
    BY <2>1 DEF CInv, HostsKept
  <2>5. QED
    BY <2>2, <2>3, <2>4 DEF HostsKept
<1>9. Inherited'
  <2> SUFFICES ASSUME NEW i \in DOMAIN envs, NEW k, envs'[i].kind = k
               PROVE  envs'[i].hosts = IF "num_hosts" \in DOMAIN InForce(i)'
                                       THEN InForce(i)'.num_hosts ELSE HostsLeft(k, i - 1)'
    BY <1>2 DEF Inherited
  <2>1. i \in Nat /\ i <= Len(envs) /\ i - 1 \in Nat /\ i - 1 <= Len(envs)
    BY <1>2
  <2>2. InForce(i)' = InForce(i) /\ HostsLeft(k, i - 1)' = HostsLeft(k, i - 1)
    BY <1>7, <2>1
  <2>3. envs'[i].hosts = envs[i].hosts /\ envs[i].kind = k
    BY <1>2
  <2>4. QED
    BY <2>2, <2>3 DEF CInv, Inherited
<1>10. QED
  BY <1>3, <1>4, <1>5, <1>6, <1>8, <1>9 DEF CInv

LEMMA CStep == CInv /\ [Next]_vars => CInv'
<1> SUFFICES ASSUME CInv, [Next]_vars PROVE CInv'
  OBVIOUS
<1>1. CASE \E r \in Requests : Create(r)
  BY <1>1, CreateKeepsC
<1>2. ASSUME NEW e \in DOMAIN envs, Start(e) PROVE CInv'
  <2>1. PICK x : /\ envs' = [envs EXCEPT ![e] = x]
                 /\ x = [envs[e] EXCEPT !.stage = "started", !.agent = conf.agent,
                                        !.output = conf.output_dir]
    BY <1>2 DEF Start
  <2>2. {"stage", "agent", "output"} \subseteq DOMAIN envs[e]
    BY DEF CInv, Made, EnvOK
  <2>3. /\ x.stage = "started" /\ x.agent = conf.agent /\ x.output = conf.output_dir
        /\ x.asked = envs[e].asked /\ x.kind = envs[e].kind /\ x.parallel = envs[e].parallel
        /\ x.switches = envs[e].switches /\ x.capacity = envs[e].capacity
        /\ x.hosts = envs[e].hosts /\ x.dumped = envs[e].dumped
        /\ DOMAIN x = DOMAIN envs[e]
    BY <2>1, <2>2
  <2>4. UNCHANGED <<conf, kinds, base>> /\ ecn' \in 0 .. 2 /\ over' \in BOOLEAN
    BY <1>2 DEF Start, LoadedEcn, PatternExists, CInv, Dicts
  <2>5. QED
    BY <2>1, <2>2, <2>3, <2>4, EntryKeepsC
<1>3. ASSUME NEW e \in DOMAIN envs, Close(e) PROVE CInv'
  <2>1. PICK x : /\ envs' = [envs EXCEPT ![e] = x]
                 /\ x = [envs[e] EXCEPT !.stage = "closed"]
    BY <1>3 DEF Close
  <2>2. {"stage", "agent", "output"} \subseteq DOMAIN envs[e]
    BY DEF CInv, Made, EnvOK
  <2>3. /\ x.stage = "closed"
        /\ x.asked = envs[e].asked /\ x.kind = envs[e].kind /\ x.parallel = envs[e].parallel
        /\ x.switches = envs[e].switches /\ x.capacity = envs[e].capacity
        /\ x.hosts = envs[e].hosts /\ x.dumped = envs[e].dumped
        /\ DOMAIN x = DOMAIN envs[e]
    BY <2>1, <2>2
  <2>4. UNCHANGED <<conf, kinds, base>> /\ ecn' \in 0 .. 2 /\ over' \in BOOLEAN
    BY <1>3 DEF Close, CInv, Dicts
  <2>5. QED
    BY <2>1, <2>2, <2>3, <2>4, EntryKeepsC
<1>4. CASE UNCHANGED vars
  <2> USE <1>4 DEF vars
  <2>1. Dicts' /\ Made' /\ Serial'
    BY DEF CInv, Dicts, Conf, Base, Made, Serial
  <2>2. LastAsAsked'
    BY DEF CInv, LastAsAsked, AsAsked
  <2>3. \A n : InForce(n)' = InForce(n) /\ \A k : HostsLeft(k, n)' = HostsLeft(k, n)
    BY DEF InForce, HostsLeft, Givers, Alike
  <2>4. HostsKept'
    BY <2>3 DEF CInv, HostsKept
  <2>5. Inherited'
    BY <2>3 DEF CInv, Inherited
  <2>6. QED
    BY <2>1, <2>2, <2>4, <2>5 DEF CInv
<1>5. QED
  BY <1>1, <1>2, <1>3, <1>4 DEF Next

(* The dictionaries and the envs keep their types.                         *)
THEOREM TypeCorrect == Spec => []TypeOK
<1>1. CInv => TypeOK
  <2> SUFFICES ASSUME CInv PROVE TypeOK
    OBVIOUS
  <2>1. NumEnvs \in Nat
    BY ConfigAssumption
  <2>2. \A e \in DOMAIN envs : e \in 1 .. NumEnvs /\ EnvOK(e, envs[e])
    BY <2>1 DEF CInv, Made
  <2>3. ASSUME NEW e \in DOMAIN envs
        PROVE  /\ envs[e].stage \in {"made", "started", "closed"}
               /\ envs[e].kind \in Kinds /\ envs[e].capacity \in Capacities
               /\ envs[e].switches \in 0 .. NumEnvs
    BY <2>1, <2>2 DEF EnvOK, NoId
  <2>4. QED
    BY <2>3 DEF TypeOK, CInv, Dicts, Conf, Base
<1>2. QED
  BY CInitially, CStep, <1>1, PTL DEF Spec

(* The env constructed last has what it asked for, whatever the requests   *)
(* before it have left in the three dictionaries; its statistics go below  *)
(* the folder of its configuration (DCEnv.__init__, BaseTopo.__init__).    *)
THEOREM LastIsAsAsked == Spec => []LastAsAsked
<1>1. CInv => LastAsAsked
  BY DEF CInv
<1>2. QED
  BY CInitially, CStep, <1>1, PTL DEF Spec

(* How many hosts an env gets is settled by the last topo_conf, else by    *)
(* the last env of its topology, else by its file, for every sequence of   *)
(* requests (IrokoTopo.__init__, BaseTopo.__init__).                       *)
THEOREM HostsAreInherited == Spec => []HostsInherited
<1>1. CInv => HostsInherited
  BY DEF CInv, Inherited, HostsInherited
<1>2. QED
  BY CInitially, CStep, <1>1, PTL DEF Spec

(* The switches of a parallel env have names of their own: ids are given   *)
(* to no two envs, and an env made before parallel mode has none.          *)
THEOREM ParallelIsApart == Spec => []ParallelApart
<1>1. ASSUME CInv PROVE ParallelApart
  <2>1. NumEnvs \in Nat /\ DOMAIN envs \subseteq Nat \ {0}
    BY <1>1, ConfigAssumption DEF CInv, Made
  <2>2. \A e \in DOMAIN envs : envs[e].parallel \in BOOLEAN
                             /\ (envs[e].parallel => envs[e].switches = e)
    BY <1>1 DEF CInv, Made, EnvOK
  <2>3. ASSUME NEW e \in DOMAIN envs, ~envs[e].parallel, ~Reverted(e)
        PROVE  envs[e].switches = NoId
    <3>1. \A d \in 1 .. e : d # e => d \in 1 .. e - 1
      BY <2>1
    <3>2. \A d \in 1 .. e : ~envs[d].parallel
      BY <2>3, <3>1 DEF Reverted
    <3>3. QED
      BY <1>1, <3>2 DEF CInv, Made
  <2>4. QED
    BY <2>1, <2>2, <2>3 DEF ParallelApart, NoId
<1>2. QED
  BY CInitially, CStep, <1>1, PTL DEF Spec

(* The numbers derived from the capacity of any env fit together, however  *)
(* large or small it is: the RED is in order, and no host is let send      *)
(* faster than was allocated, nor slower if the word holds the rate.       *)
THEOREM LinksAreObedient == Spec => []LinksObey
<1>1. ASSUME CInv PROVE LinksObey
  <2> SUFFICES ASSUME NEW e \in DOMAIN envs
               PROVE  LET bps == envs[e].capacity IN
                      /\ RedOrdered(Red(bps))
                      /\ \A asked \in {0, MinBw, MinBw + 7, bps \div 2, bps, bps + 1} :
                             RateKept(asked, bps)
    BY DEF LinksObey
  <2> DEFINE bps == envs[e].capacity
  <2>1. bps \in Capacities
    BY <1>1 DEF CInv, Made, EnvOK
  <2> HIDE DEF bps
  <2>2. bps \in Nat
    BY <2>1 DEF Capacities
  <2>3. {0, MinBw, MinBw + 7, bps \div 2, bps, bps + 1} \subseteq Int
    BY <2>2, LinkAssumption
  <2>4. RedOrdered(Red(bps))
    BY <2>2, RedIsOrdered
  <2>5. \A asked \in {0, MinBw, MinBw + 7, bps \div 2, bps, bps + 1} : RateKept(asked, bps)
    BY <2>1, <2>3, RateIsKept
  <2>6. QED
    BY <2>4, <2>5 DEF bps
<1>2. QED
  BY CInitially, CStep, <1>1, PTL DEF Spec
=============================================================================
