---------------------------- MODULE EnvLifecycle ----------------------------
(***************************************************************************)
(* The life of the DCEnvs of one process: managers created lazily by       *)
(* reset(), traffic clients started and killed per episode, close(), and   *)
(* the exceptions that cut any of it short.  The main thread runs in one   *)
(* env at a time; what the envs have started runs on beside it.            *)
(*                                                                         *)
(* A manager is held when the env has it in its field, and up when what it *)
(* stands for exists: the virtual network, the services on the hosts, the  *)
(* collectors, the sampler process, the bandwidth controller process.      *)
(* Drivers calls these actions and composes them into programs.            *)
(***************************************************************************)
EXTENDS Integers, Sequences

CONSTANTS NumEnvs,     \* bound: the envs a program can make
          Clients,     \* the hosts that may run a traffic client
          Episodes,    \* bound: calls of reset() per env
          UnwindAt     \* phases in which an exception or interrupt can occur

Envs == 1 .. NumEnvs
StartOrder == <<"net", "traffic", "state", "sampler", "bw">>
CloseOrder == <<"state", "bw", "sampler", "traffic", "net">>
Managers == {"net", "traffic", "state", "sampler", "bw"}
Children == {"state", "sampler", "bw"}       \* multiprocessing children
InConstructor == {"net", "traffic", "state"} \* up before the field is set
Phases == {"idle", "managers", "constructor", "generators", "episode", "closing"}

ASSUME LifecycleAssumption ==
    /\ Clients # {} /\ Episodes \in Nat \ {0}
    /\ NumEnvs \in Nat
    /\ UnwindAt \subseteq Phases

VARIABLES
    made,        \* DCEnvs constructed so far: the envs 1 .. made
    env,         \* the env the main thread works for
    phase,       \* what it executes there, "idle" when no call is running
    at,          \* position in StartOrder or CloseOrder
    held,        \* held[e]: managers env e has in a field
    up,          \* up[e]: managers of e whose resource exists
    bridges,     \* envs whose switches Open vSwitch still lists
    killed,      \* killed[e]: children that have been told to end
    terminated,  \* envs whose DCEnv.terminated is set
    episode,     \* episode[e]: resets of e so far
    pattern,     \* hosts with a row in the traffic file, or Missing
    client,      \* client[e][k][c]: the client process of episode k on c
    procs        \* procs[e]: TrafficGen.traffic_procs of e

Missing == {"no such file"}
thread == <<env, phase, at>>
mgrVars == <<held, up, bridges, killed>>
trafficVars == <<client, procs>>
envVars == <<made, thread, mgrVars, terminated, episode, pattern, trafficVars>>

EnvInit ==
    /\ made = 0 /\ env = 0 /\ phase = "idle" /\ at = 1
    /\ held = [e \in Envs |-> {}] /\ up = [e \in Envs |-> {}]
    /\ bridges = {} /\ terminated = {}
    /\ killed = [e \in Envs |-> {}]
    /\ episode = [e \in Envs |-> 0] /\ procs = [e \in Envs |-> {}]
    /\ pattern \in SUBSET Clients \cup {Missing}
    /\ client = [e \in Envs |-> [k \in 1 .. Episodes |-> [c \in Clients |-> "none"]]]

-----------------------------------------------------------------------------
(* DCEnv(): nothing is started yet.                                        *)
NewEnv ==
    /\ phase = "idle" /\ made + 1 \in Envs
    /\ made' = made + 1 /\ env' = made + 1
    /\ UNCHANGED <<phase, at, mgrVars, terminated, episode, pattern, trafficVars>>

(* SIGTERM: the client ends in its own time, beside what is started next;  *)
(* "over" says that it has ended or has been told to.                      *)
Told(state) == IF state = "running" THEN "over" ELSE state

(* _stop_traffic: SIGTERM to the listed clients; the list is emptied.      *)
StopTraffic ==
    IF "traffic" \in held[env]
    THEN /\ client' = [client EXCEPT ![env] = [k \in 1 .. Episodes |->
                         [c \in Clients |-> IF c \in procs[env] /\ k = episode[env]
                                            THEN Told(@[k][c]) ELSE @[k][c]]]]
         /\ procs' = [procs EXCEPT ![env] = {}]
    ELSE UNCHANGED trafficVars

(* reset(): _stop_env, then _start_env.                                    *)
Reset ==
    /\ phase = "idle" /\ env \in 1 .. made \ terminated /\ episode[env] < Episodes
    /\ StopTraffic
    /\ episode' = [episode EXCEPT ![env] = @ + 1]
    /\ phase' = "managers" /\ at' = 1
    /\ UNCHANGED <<made, env, mgrVars, terminated, pattern>>

(* Faulty variant: the end of the managers is not noticed.                 *)
NextManagerUnbounded == phase' = "managers" /\ at' = at + 1

(* _start_managers, one manager at a time; those held are skipped.         *)
NextManager ==
    IF at = Len(StartOrder) THEN phase' = "generators" /\ UNCHANGED at
                            ELSE phase' = "managers" /\ at' = at + 1

SkipManager ==
    /\ phase = "managers" /\ StartOrder[at] \in held[env]
    /\ NextManager
    /\ UNCHANGED <<made, env, mgrVars, terminated, episode, pattern, trafficVars>>

(* A constructor starts the network, the services or the collectors ...    *)
Construct ==
    LET m == StartOrder[at] IN
    /\ phase = "managers" /\ m \notin held[env]
    /\ phase' = "constructor"
    /\ up' = IF m \in InConstructor THEN [up EXCEPT ![env] = @ \cup {m}] ELSE up
    /\ bridges' = IF m = "net" THEN bridges \cup {env} ELSE bridges
    /\ UNCHANGED <<made, env, at, held, killed, terminated, episode, pattern, trafficVars>>

(* ... and when it returns the field is set.  The sampler and the          *)
(* controller are started after that.                                      *)
SetField ==
    /\ phase = "constructor"
    /\ held' = [held EXCEPT ![env] = @ \cup {StartOrder[at]}]
    /\ up' = [up EXCEPT ![env] = @ \cup {StartOrder[at]}]
    /\ NextManager
    /\ UNCHANGED <<made, env, bridges, killed, terminated, episode, pattern, trafficVars>>

(* _start_generators: without a traffic file the services get SIGKILL and  *)
(* the process is to exit(1).                                              *)
NoPattern ==
    /\ phase = "generators" /\ pattern = Missing
    /\ up' = [up EXCEPT ![env] = @ \ {"traffic"}]
    /\ phase' = "idle"
    /\ UNCHANGED <<made, env, at, held, bridges, killed, terminated, episode, pattern, trafficVars>>

(* One client process per host that has a row in the file.                 *)
StartClient(c) ==
    /\ phase = "generators" /\ pattern # Missing /\ c \in pattern \ procs[env]
    /\ client' = [client EXCEPT ![env][episode[env]][c] = "running"]
    /\ procs' = [procs EXCEPT ![env] = @ \cup {c}]
    /\ UNCHANGED <<made, thread, mgrVars, terminated, episode, pattern>>

Started ==
    /\ phase = "generators" /\ procs[env] = pattern
    /\ phase' = "episode"
    /\ UNCHANGED <<made, env, at, mgrVars, terminated, episode, pattern, trafficVars>>

(* Faulty variant: the processes are counted, not polled.                  *)
AnyStarted == procs[env] # {}

(* check_if_traffic_alive: one client that runs is enough.                 *)
TrafficAlive == \E c \in procs[env] : client[env][episode[env]][c] # "over"

(* DCEnv.step: the caller goes on to the next episode when done.           *)
Step ==
    /\ phase = "episode"
    /\ phase' = IF TrafficAlive THEN "episode" ELSE "idle"
    /\ UNCHANGED <<made, env, at, mgrVars, terminated, episode, pattern, trafficVars>>

(* The caller cuts an episode short (max_episode_steps, horizon).          *)
Truncate ==
    /\ phase = "episode"
    /\ phase' = "idle"
    /\ UNCHANGED <<made, env, at, mgrVars, terminated, episode, pattern, trafficVars>>

(* An exception or an interrupt leaves whatever call is running.           *)
Raise ==
    /\ phase \in UnwindAt
    /\ phase' = "idle"
    /\ UNCHANGED <<made, env, at, mgrVars, terminated, episode, pattern, trafficVars>>

-----------------------------------------------------------------------------
(* close(), by the driver or by atexit, once.                              *)
Close(e) ==
    /\ phase = "idle" /\ e \in 1 .. made \ terminated
    /\ terminated' = terminated \cup {e}
    /\ env' = e /\ phase' = "closing" /\ at' = 1
    /\ UNCHANGED <<made, mgrVars, episode, pattern, trafficVars>>

NextClose ==
    IF at = Len(CloseOrder) THEN phase' = "idle" /\ UNCHANGED at
                            ELSE at' = at + 1 /\ UNCHANGED phase

(* The switches of all envs have the same names unless they are given ids  *)
(* (EnvConfig): stop_network deletes whatever network has them.            *)
NetworkStopped == [e \in Envs |-> up[e] \ {"net"}]

(* What the close of manager m does to the resources.                      *)
Stopped(m) ==
    CASE m = "net"     -> NetworkStopped
      [] m = "traffic" -> [up EXCEPT ![env] = @ \ {m}]
      [] OTHER         -> up

(* Faulty variant: the fields are dropped, the children are not told.      *)
CloseManagerSilently ==
    LET m == CloseOrder[at] IN
    /\ phase = "closing"
    /\ up' = IF m \in held[env] THEN Stopped(m) ELSE up
    /\ IF m = "traffic" THEN StopTraffic ELSE UNCHANGED trafficVars
    /\ held' = [held EXCEPT ![env] = @ \ {m}]
    /\ NextClose
    /\ UNCHANGED <<made, env, bridges, killed, terminated, episode, pattern>>

(* Faulty variant: close() of the traffic generator stops services only.   *)
CloseManagerNotClients ==
    LET m == CloseOrder[at] IN
    /\ phase = "closing"
    /\ killed' = IF m \in held[env] \cap Children
                 THEN [killed EXCEPT ![env] = @ \cup {m}] ELSE killed
    /\ up' = IF m \in held[env] THEN Stopped(m) ELSE up
    /\ held' = [held EXCEPT ![env] = @ \ {m}]
    /\ NextClose
    /\ UNCHANGED <<made, env, bridges, terminated, episode, pattern, trafficVars>>

(* Children are told to end and not waited for; services get SIGKILL; the  *)
(* network is stopped last, and Mininet may leave its switches behind.     *)
CloseManager ==
    LET m == CloseOrder[at] IN
    /\ phase = "closing"
    /\ killed' = IF m \in held[env] \cap Children
                 THEN [killed EXCEPT ![env] = @ \cup {m}] ELSE killed
    /\ up' = IF m \in held[env] THEN Stopped(m) ELSE up
    /\ IF m = "traffic" THEN StopTraffic ELSE UNCHANGED trafficVars
    /\ held' = [held EXCEPT ![env] = @ \ {m}]
    /\ NextClose
    /\ UNCHANGED <<made, env, bridges, terminated, episode, pattern>>

-----------------------------------------------------------------------------
(* A client runs for 60 s.                                                 *)
ClientEnds(e, k, c) ==
    /\ client[e][k][c] = "running"
    /\ client' = [client EXCEPT ![e][k][c] = "over"]
    /\ UNCHANGED <<made, thread, mgrVars, terminated, episode, pattern, procs>>

(* A child sees its kill event.  The controller may be inside poll until   *)
(* the network is gone (BandwidthControl!ControllerStops).                 *)
ChildEnds(e, m) ==
    /\ m \in killed[e] \cap up[e]
    /\ up' = [up EXCEPT ![e] = @ \ {m}]
    /\ UNCHANGED <<made, thread, held, bridges, killed, terminated, episode, pattern, trafficVars>>

(* Open vSwitch forgets the switches of a stopped network, sooner or later *)
(* or never.                                                               *)
SwitchesGo(e) ==
    /\ e \in bridges /\ "net" \notin up[e]
    /\ bridges' = bridges \ {e}
    /\ UNCHANGED <<made, thread, held, up, killed, terminated, episode, pattern, trafficVars>>

EnvTypeOK ==
    /\ made \in 0 .. NumEnvs /\ env \in 0 .. made
    /\ phase \in Phases /\ at \in 1 .. Len(StartOrder)
    /\ held \in [Envs -> SUBSET Managers] /\ up \in [Envs -> SUBSET Managers]
    /\ bridges \subseteq Envs /\ terminated \subseteq Envs
    /\ killed \in [Envs -> SUBSET Children]
    /\ episode \in [Envs -> 0 .. Episodes]
    /\ pattern \in SUBSET Clients \cup {Missing}
    /\ client \in [Envs -> [1 .. Episodes ->
                     [Clients -> {"none", "running", "over"}]]]
    /\ procs \in [Envs -> SUBSET Clients]
=============================================================================
