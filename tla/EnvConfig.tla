----------------------------- MODULE EnvConfig ------------------------------
(***************************************************************************)
(* How a DCEnv gets its configuration.  DEFAULT_CONF of env_iroko.py, the  *)
(* DEFAULT_CONF of each topology and that of topo_base.py are dictionaries *)
(* of the process: every DCEnv() updates them in place and keeps them as   *)
(* its conf.  A few values are taken when the env is constructed, others   *)
(* only when its first reset() starts the network, by which time another   *)
(* env may have been constructed.                                          *)
(*                                                                         *)
(* A dictionary is a function on the keys it has.                          *)
(***************************************************************************)
EXTENDS LinkSettings, Sequences, SequencesExt, TLC

CONSTANTS NumEnvs,     \* bound: envs a process makes
          Requests,    \* the conf arguments they are made with
          Agents       \* names of agents and policies

NoId == 0              \* "": the id of a network that is alone
Kinds == {"dumbbell", "fattree", "nonblock"}

(* The dictionaries as they are imported.                                  *)
DefaultConf ==
    [output_dir |-> <<"results">>, topo |-> "dumbbell", agent |-> "tcp",
     tf_index |-> 0, parallel_envs |-> FALSE, topo_conf |-> << >>]
DefaultBase == [max_capacity |-> 10 * Mega, num_hosts |-> 0, id |-> NoId]
DefaultKinds ==
    [k \in Kinds |-> IF k = "dumbbell"
                     THEN [num_hosts |-> 4, traffic_files |-> "incast"]
                     ELSE [num_hosts |-> 16, traffic_files |-> "datacenter"]]

(* The input folder of a topology, and the patterns each folder has.       *)
NameOf(kind) == IF kind = "nonblock" THEN "dumbbell" ELSE kind
Patterns == [dumbbell |-> {"incast"}, fattree |-> {"datacenter"}]

(* Conf arguments: any of the keys modelled, each with a value the code is *)
(* made for; topo_conf may ask for the capacity of the links and for the   *)
(* number of hosts.  Agents are lower-case, as reset() makes them.         *)
Request(r) ==
    /\ "topo" \in DOMAIN r => r.topo \in Kinds
    /\ "agent" \in DOMAIN r => r.agent \in Agents
    /\ "output_dir" \in DOMAIN r => r.output_dir \in Seq(STRING)
    /\ "parallel_envs" \in DOMAIN r => r.parallel_envs \in BOOLEAN
    /\ "topo_conf" \in DOMAIN r =>
         LET asked == r.topo_conf IN
         /\ DOMAIN asked \subseteq {"max_capacity", "num_hosts"}
         /\ "max_capacity" \in DOMAIN asked => asked.max_capacity \in Capacities
         /\ "num_hosts" \in DOMAIN asked => asked.num_hosts \in Nat \ {0}

ASSUME ConfigAssumption ==
    /\ NumEnvs \in Nat
    /\ DefaultConf.agent \in Agents
    /\ \A r \in Requests : Request(r)

VARIABLES conf,    \* env_iroko.DEFAULT_CONF
          kinds,   \* DEFAULT_CONF of each topology
          base,    \* topo_base.DEFAULT_CONF, the conf of every topology
          envs,    \* the DCEnvs in the order of construction
          ecn,     \* sysctl net.ipv4.tcp_ecn of the machine
          over     \* exit(1) has been called

vars == <<conf, kinds, base, envs, ecn, over>>

Init ==
    /\ conf = DefaultConf /\ kinds = DefaultKinds /\ base = DefaultBase
    /\ envs = << >> /\ over = FALSE
    /\ ecn \in {0, 2}

-----------------------------------------------------------------------------
(* Faulty variant: what the process already has wins over the request.     *)
UpdatedKeeping(dict, update) == dict @@ update

(* dict.update: keys are added, and the update wins.                       *)
Updated(dict, update) ==
    [k \in DOMAIN dict \cup DOMAIN update |->
        IF k \in DOMAIN update THEN update[k] ELSE dict[k]]

(* Faulty variant: the id of the next env is taken.                        *)
WithNextId(topo_conf, id) == Updated(topo_conf, [id |-> id + 1])

(* Faulty variant: an id that is there is kept.                            *)
WithIdOnce(topo_conf, id) == Updated([id |-> id], topo_conf)

(* The env's id (taken as unique: generate_id) becomes the topology's.     *)
WithId(topo_conf, id) == Updated(topo_conf, [id |-> id])

(* DCEnv.__init__, TopoFactory.create and the two constructors of the      *)
(* topology, which leaves the env with base as the conf of its topology.   *)
(* env_config.json is written before the output folder gets the id.        *)
Create(r) ==
    LET e == Len(envs) + 1
        merged == Updated(conf, r)
        parallel == merged.parallel_envs
        topo_conf == IF parallel THEN WithId(merged.topo_conf, e) ELSE merged.topo_conf
        kind == merged.topo
    IN
    /\ ~over /\ e <= NumEnvs
    /\ kinds' = [kinds EXCEPT ![kind] = Updated(@, topo_conf)]
    /\ base' = Updated(base, kinds'[kind])
    /\ conf' = [merged EXCEPT !.topo_conf = topo_conf,
                              !.output_dir = IF parallel THEN Append(@, e) ELSE @]
    /\ envs' = Append(envs,
         [asked |-> r, stage |-> "made", parallel |-> parallel, kind |-> kind,
          switches |-> base'["id"], capacity |-> base'["max_capacity"],
          hosts |-> base'["num_hosts"], dumped |-> merged.output_dir,
          folder |-> NameOf(kind), files |-> base'["traffic_files"],
          index |-> merged.tf_index, agent |-> "none", output |-> << >>])
    /\ UNCHANGED <<ecn, over>>

(* _start_generators: "all" needs no file.                                 *)
PatternExists(env) == env.index = -1 \/ env.files \in Patterns[env.folder]

(* load_congestion_control                                                 *)
LoadedEcn(agent) == IF agent = "dctcp" THEN 1 ELSE ecn

(* The first reset(): the agent and the output folder are read from the    *)
(* dictionary as it is now; the machine is set up for DCTCP.               *)
Start(e) ==
    /\ ~over /\ envs[e].stage = "made"
    /\ envs' = [envs EXCEPT ![e].stage = "started", ![e].agent = conf.agent,
                            ![e].output = conf.output_dir]
    /\ ecn' = LoadedEcn(conf.agent)
    /\ over' = ~PatternExists(envs[e])
    /\ UNCHANGED <<conf, kinds, base>>

(* Faulty variant: the policy is looked up again.                          *)
CloseLooksUp(e) ==
    /\ envs[e].stage \in {"made", "started"}
    /\ envs' = [envs EXCEPT ![e].stage = "closed"]
    /\ ecn' = IF envs[e].stage = "started" /\ conf.agent = "dctcp" THEN 0 ELSE ecn
    /\ UNCHANGED <<conf, kinds, base, over>>

(* close(), stop_network                                                   *)
Close(e) ==
    /\ envs[e].stage \in {"made", "started"}
    /\ envs' = [envs EXCEPT ![e].stage = "closed"]
    /\ ecn' = IF envs[e].stage = "started" /\ envs[e].agent = "dctcp" THEN 0 ELSE ecn
    /\ UNCHANGED <<conf, kinds, base, over>>

Next ==
    \/ \E r \in Requests : Create(r)
    \/ \E e \in DOMAIN envs : Start(e) \/ Close(e)

Spec == Init /\ [][Next]_vars

-----------------------------------------------------------------------------
(* Types of the dictionaries and of what an env has taken from them.       *)
TypeOK ==
    /\ conf.topo \in Kinds /\ conf.agent \in Agents /\ conf.parallel_envs \in BOOLEAN
    /\ base.max_capacity \in Capacities /\ base.id \in 0 .. NumEnvs
    /\ ecn \in 0 .. 2 /\ over \in BOOLEAN
    /\ \A e \in DOMAIN envs :
         /\ envs[e].stage \in {"made", "started", "closed"}
         /\ envs[e].kind \in Kinds /\ envs[e].capacity \in Capacities
         /\ envs[e].switches \in 0 .. NumEnvs

Alive(e) == envs[e].stage # "closed"

(* Until another env is constructed, an env has what it asked for, both in *)
(* what it took at once and in what it reads later (go_ctrl -r, maxSpeed,  *)
(* the policy, the folder), whatever earlier envs have left in the three   *)
(* dictionaries; its statistics go below the folder of its configuration,  *)
(* where plot.py looks for both (DCEnv.__init__, BaseTopo.__init__).       *)
AsAsked(env, r) ==
    /\ "topo" \in DOMAIN r => env.kind = r.topo
    /\ "topo_conf" \in DOMAIN r =>
         LET asked == r.topo_conf IN
         /\ "max_capacity" \in DOMAIN asked => env.capacity = asked.max_capacity
         /\ "num_hosts" \in DOMAIN asked => env.hosts = asked.num_hosts
    /\ "agent" \in DOMAIN r => conf.agent = r.agent
    /\ "output_dir" \in DOMAIN r => env.dumped = r.output_dir
LastAsAsked ==
    envs # << >> =>
        LET env == Last(envs) IN
        /\ AsAsked(env, env.asked)
        /\ base.max_capacity = env.capacity /\ base.num_hosts = env.hosts
        /\ IsPrefix(env.dumped, conf.output_dir)
        /\ env.stage = "started" =>
               env.agent = conf.agent /\ IsPrefix(env.dumped, env.output)

(* What is left of the hosts that were asked for.  An env has the number   *)
(* of hosts that the last topo_conf up to its own asks for.  If that asks  *)
(* for none, it has as many as the last env of its topology, and only the  *)
(* first of a topology has the number its file says: the dictionary of a   *)
(* topology keeps the number (IrokoTopo.__init__), that of topo_base does  *)
(* not hand it on to another topology, though all three end up in it.      *)
Givers(n) == {d \in 1 .. n : "topo_conf" \in DOMAIN envs[d].asked}
InForce(n) == IF Givers(n) = {} THEN << >> ELSE envs[Max(Givers(n))].asked.topo_conf
Alike(kind, n) == {d \in 1 .. n : envs[d].kind = kind}
HostsLeft(kind, n) ==
    IF Alike(kind, n) = {} THEN DefaultKinds[kind].num_hosts
                           ELSE envs[Max(Alike(kind, n))].hosts
HostsInherited ==
    \A e \in DOMAIN envs :
        envs[e].hosts = IF "num_hosts" \in DOMAIN InForce(e) THEN InForce(e).num_hosts
                                                            ELSE HostsLeft(envs[e].kind, e - 1)

(* Two envs alive at once have networks with switches of different names   *)
(* when one of them runs in parallel mode ("If we have multiple            *)
(* environments, we need to assign unique ids"), whatever ids earlier envs *)
(* have left in the dictionaries.  Envs for which the mode was turned off  *)
(* again are excepted: they do get an id that was left.                    *)
Reverted(e) == ~envs[e].parallel /\ \E d \in 1 .. e - 1 : envs[d].parallel
ParallelApart ==
    \A e1, e2 \in DOMAIN envs :
        /\ e1 # e2 /\ Alive(e1) /\ Alive(e2)
        /\ envs[e1].parallel \/ envs[e2].parallel
        /\ ~Reverted(e1) /\ ~Reverted(e2)
        => envs[e1].switches # envs[e2].switches

(* The machine is not left in DCTCP mode: ECN is forced only while an env  *)
(* that runs DCTCP is up, even when later envs have changed the agent in   *)
(* the dictionary meanwhile (load_congestion_control, stop_network).       *)
EcnNotLeftOn ==
    ecn = 1 => \E e \in DOMAIN envs : envs[e].stage = "started" /\ envs[e].agent = "dctcp"

(* The numbers derived from the capacity of an env fit together: those of  *)
(* its RED are in order, and whatever an action asks for, a host is never  *)
(* let send faster than was allocated, nor slower if the rate fits the     *)
(* word it is sent in (_apply_qdisc, send_cntrl_pckt, change_qdisc).       *)
LinksObey ==
    \A e \in DOMAIN envs :
        LET bps == envs[e].capacity IN
        /\ RedOrdered(Red(bps))
        /\ \A asked \in {0, MinBw, MinBw + 7, bps \div 2, bps, bps + 1} :
               RateKept(asked, bps)

(* "Which traffic matrix to run. Defaults to the first item in the list"   *)
(* (env_iroko.py): the item is there to be run.                            *)
ListedPatternRuns == ~over
=============================================================================
