# A verification project for Iroko

Iroko emulates a data-centre network in Mininet and lets a reinforcement
learning agent set the sending rate of every host.  This directory holds TLA+
models of the parts of it that run concurrently or have to agree with each
other, configurations that check them with TLC, and proofs that TLAPS checks for any
number of hosts, samples, environments and tests, rings of any size, links of any
capacity, and networks of any size (fat trees of fanout 4).

    tlc -config Bandwidth.cfg BandwidthControl           # one run
    tlapm BandwidthControlProofs.tla                     # the proofs about one module

## 1. The system

| component | code | state | operations |
|---|---|---|---|
| environment | `dc_gym/env_iroko.py` | fields of the managers, `terminated`, `tx_rate`, `active_rate`, `reward` | `reset`, `step`, `close`, atexit |
| rate control | `dc_gym/control/iroko_bw_control.py`, `bw_control.c`, `raw_udp_socket.c` | `kill`, position in the broadcast, one mmap'ed rx ring per host | `run`, `broadcast_bw`, send, wait, `close` |
| host controller | `contrib/go_ctrl/go_ctrl.go` | the capture buffer, the fq qdisc of the host | set-up, `ctrl_loop`, `change_qdisc`, `send_response`, exit handler |
| monitoring | `dc_gym/monitor/iroko_monitor.py` | one process per collector, shared `stats` and flow matrices | `_collect`, `_clean` |
| state | `dc_gym/iroko_state.py`, `iroko_reward.py` | `stats`, `prev_stats`, `deltas` | `observe`, `get_reward`, `close` |
| sampling | `dc_gym/iroko_sampler.py` | a shelf cached by parent *and* child | `_checkpoint`, `_flush`, `close` |
| traffic | `dc_gym/iroko_traffic.py`, `utils.py` | service and traffic processes | start, `check_if_traffic_alive`, `_stop_traffic` |
| network | `dc_gym/topos/*.py` | nodes, links, addresses, flow entries, qdiscs, sysctls | `create_topo`, `_install_proactive`, `stop_network` |
| configuration | `env_iroko.py`, `topo_*.py`, `utils.py` | the `DEFAULT_CONF` dictionaries of the process | `DCEnv.__init__`, `TopoFactory.create`, what `reset` reads later |
| drivers | `run_basic.py`, `run_ray.py`, `benchmark.py` | the envs made so far, the test that is next | a test per env, `wait_for_ovs`, `clean`, atexit |
| plotting | `plot.py` | - | reads the folders of all tests |

How they interact.  The environment, each collector, the sampler and the
bandwidth controller are operating system processes that share arrays *without
a lock*.  The controller and the host controllers exchange UDP packets on
control interfaces; the host controllers, the traffic clients and the services
are processes started by the environment on Mininet hosts.  Children are told
to end by events and signals and are joined by nobody before the interpreter
exits.  `benchmark.py` runs one test after the other in one process, so the
environments, Open vSwitch, the machine's sysctls and the configuration
dictionaries are shared by tests that may have failed.

What is hard.  Two processes copying the same array element by element;
requests lost because the receiver is not there yet or its buffer is full; a
wait without a timeout; a raw socket that may see the packets of its own
interface; several reads of a live matrix within one step; two caches of one
file; an exception between starting something and remembering it; a test that
fails and leaves its network to the next one; three dictionaries updated in
place by everybody; tables of four kinds of switches, computed with remainders,
that have to agree.

What makes each part correct.

* Rate control: a host never goes back to an older action; no action leaves
  `active_rate` before the hosts that have it there were given it; each action, or
  a later one, is enforced; `close()` ends it.
* Observation: counters never run backwards, nothing is reported twice,
  everything counted is seen.
* Sampling: entries of the three lists at one index belong together; what is
  saved is whole and stays.
* Lifecycle and drivers: nothing started is forgotten, nothing survives the
  program, one test or episode does not run into the next, the program ends.
* Configuration: an environment has what it asked for, parallel ones do not
  share a network, the machine is not left in DCTCP mode, the numbers derived
  from a capacity fit together.
* Forwarding: every host reaches every host, using all cores between pods.

The complete list of hazards, line by line, with the properties aimed at each,
is `PROJECT.json` "hazards".

## 2. The modules

| module | what it is |
|---|---|
| `RatePromise` | abstract: what rate control promises the agent |
| `BandwidthControl` | environment, controller, rings and host controllers; implements `RatePromise` |
| `BandwidthControlProofs` | theorems about `BandwidthControl` |
| `ReplyBuffer` | abstract: what `broadcast_bw` expects of `wait_for_reply` |
| `PacketRing` | the rx ring with its status words, `poll` and SIGINT; implements `ReplyBuffer` |
| `PacketRingProofs` | theorems about `PacketRing` |
| `StateObservation` | kernel counters, a collector, the shared matrix, `observe` and `get_reward` |
| `StateObservationProofs` | theorems about `StateObservation` |
| `StatsSampler` | the sampler child, the parent and the shelf both write |
| `StatsSamplerProofs` | theorems about `StatsSampler` |
| `EnvLifecycle` | actions of the environments of a process: managers, traffic clients, `close()`, unwinding |
| `Drivers`, `MCDrivers` | `benchmark.py` and `run_basic.py`: composes those actions into programs; instances |
| `EnvConfig`, `MCEnvConfig` | the shared configuration dictionaries and what is taken from them when; instances |
| `EnvConfigProofs` | theorems about `EnvConfig` and `LinkSettings` |
| `DriversProofs` | theorems about `Drivers` |
| `SequenceFacts` | lemmas: what flattening a sequence of sequences gives |
| `LinkSettings` | pure: queue size, RED thresholds, and the way of a rate, from a capacity |
| `Forwarding`, `MCForwarding` | the three topologies and one packet through their flow tables; instances |
| `ForwardingProofs` | theorems about `Forwarding` |

`BandwidthControl` composes four kinds of actors; its counter `rx[h]` and the
three ways its controller leaves a wait (`CtrlAwait` with a frame or without an interface,
`CtrlInterrupt`) are the steps of `ReplyBuffer`, which `PacketRing`
implements.  `Drivers` extends `EnvLifecycle` and calls its actions; the fairness of
the child "bw" there is `ControllerStops`, checked here.  `EnvConfig` takes its
numbers from `LinkSettings`, and is why the switches of two networks have the
same names in `Drivers`.  Definitions named
`...Short`, `...Ahead`, `...Unchecked` and so on, with a comment "Faulty
variant", are used by no specification: they are plausible bugs, each of which
must break a property (`PROJECT.json` "mutants").

### BandwidthControl

One action per step that another process can see: `EnvStep` and `EnvCopy` are
`DCEnv.step` up to and during `tx_rate[:] = action`; `CtrlBegin`, `CtrlSend`,
`CtrlAwait`, `CtrlCommit` go through the loops of `broadcast_bw` host by host;
`HostRecv` and `HostReply` are the two halves of a turn of `ctrl_loop`; and
`CtrlInterrupt`, `CtrlSendFails`, `HostStop`, `DeleteLink` are what may go
wrong or is done by `close()`.  `pc` says where the controller is, `idx` at
which host.

* A rate is the *number of the step that chose it*.  The properties only ask
  which action a rate comes from; two actions with equal rates are harder to
  confuse, not easier.
* An rx ring is the number of frames in it, since `broadcast_bw` never looks at
  their content.  Every ring may count a request passing on its interface as well as a
  reply: all are bound with `ETH_P_ALL` (`raw_udp_socket.c:138`) and filter on the
  destination port, which requests carry too.  Whether the kernel delivers
  them to this socket is not in the code, so each send may or may not fill a slot.
* `missed` is history: the request of this broadcast found no capture open on the
  host (`Captures`), or its buffer full.
* `WaitForHosts` states the assumption of the 0.5 s pause in `_init_services`;
  without it the first requests may find no capture and are lost, and the
  controller then waits for good (the environment goes on without rate
  control).  `HostsMayFail` lets a host controller end at any time.
* A SIGINT that `walk_ring` misses before `poll` is an interrupt that comes
  later than it was sent.

### PacketRing

One action per access to the shared status words or to the signal state.  The
kernel's side (`Arrive`, the readiness of `poll`) follows packet_mmap(7):
the kernel stores at its head if that slot is free and drops the frame
otherwise, and `poll` looks at the slot before the head.  `Signal` inside
`poll` may or may not end the call: it does not when it arrives between the
test of `sigint` and the call.  `link` is "down" and then "gone" because `poll` returns at once in both, but
`if_indextoname` fails only in the second.  A frame is its number in the order
of arrival, so that taking them in order can be said.

### StateObservation, StatsSampler

Matrix reads are one step per pass (`StateObservation`), the appends of
`_checkpoint` one step per statement and a sync one step per key
(`StatsSampler`).  The shelf on disk is a map in which the last write of a key
wins; `num_samples += 1` writes through, appends do not.  The kernel's count reaches
the collector as the `int` that `qdisc_stats.c:64` converts it to (`AsInt`; an int has
`2 * Half` values).  Values are the steps
that wrote them, so "belongs together" can be said.  The bounds stop the
inputs (drops, steps, samples), never a process: with `MaxSamples` reached the
sampler waits at its loop test, from where `kill` still ends it.

### EnvLifecycle, Drivers

A manager is *held* when it is in a field of its environment and *up* when what
it stands for exists.  The two differ while a constructor runs, because
`NetworkManager`, `TrafficGen` and `StateManager` start things inside theirs
(`Construct`, `SetField`).  `bridges` are the environments whose switches Open
vSwitch still lists: they may outlast the network (`SwitchesGo` is not fair),
which is what `wait_for_ovs` is for.  The main thread is in one environment
(`env`) and one call of it (`phase`) at a time; clients, children and switches
go on beside it.  `Raise` is any exception, `exit(1)` or Ctrl-C in the phases of
`UnwindAt`; `Truncate` is a caller that resets in mid-episode (gym's
`max_episode_steps`, RLlib's horizon).  `DCEnv._handle_interrupt` is registered
nowhere and therefore not modelled.

`Drivers` is the program around: `main` says which part of it runs.  `Launch`,
`Episode`, `InEnv`, `Cleanup`, `CleanedUp` are a test as `run_ray` or `test_run`
does it; `TestFails` is `except Exception` in `run_ray.main`, which leaves the
environment open and goes on to `WaitForOvs`; `Exits` is what that does not
catch.  `Clean` is `mn -c` with the kills by name.  `AtExit` closes the
environments that are left, last one first, and `Join` is multiprocessing's
exit handler.  The list of tests (`Suite`) is computed as `run_tests` does, the
folders to plot (`Plotted`) as `plot` does, with the names in lower case where the
code calls `lower()` (`Lower`).  One round of `init` is modelled: the
rounds for further patterns and rates write below another test name.  The agents
are those that keep their environment in the process, `MaxAgent` and
`RandomAgent`; Ray's own trainers run it in a worker process, which is
Ray's to end.

### EnvConfig, LinkSettings

A dictionary is a function on the keys it has, `d.update(e)` is `Updated(d, e)`.
`Create` is the whole of `DCEnv.__init__`: the update of `env_iroko`'s
dictionary, the id, the updates of the topology's and of `topo_base`'s dictionary
(which *is* `topo.conf` afterwards), and what is copied from them at once.
`Start` is what the first `reset()` reads later: the policy and the output folder,
from the dictionary as it is then.  Ids are taken as unique; `generate_id` draws
four characters.  A pattern file is the kind of traffic it belongs to.  `Request` is
a conf argument with any of the keys that are modelled: a topology there is, a
policy of `Agents` (as `reset()` sees it, in lower case), a folder, parallel mode on
or off, and in `topo_conf` a capacity and a number of hosts.  A request is a value:
a caller that passes one `topo_conf` object to two constructors would also hand on
the id that the first has put into it.  `test_scalability.py:133` puts
`parallel_envs` inside `topo_conf`, where nothing reads it.

`LinkSettings` has integer quotients for the fractions of the code and calls a rate what
the `float32` arrays have left of it.  `RedOrdered` says that the four numbers computed for
RED fit together.  It is not tc's whole test: tc also looks for an averaging weight,
which it does not find for a `min` just above 1500 bytes (about 88 Mbit/s), and the kernel
bounds the logarithms it is given; both are left out.
`Word` is 2^30 in the runs, since TLC's integers end at 2^31, and any number in the proofs.

### Forwarding

`Links` and `Address` follow `create_links` and `create_hosts`,
`...Entries` follow `_install_proactive`; a link is its number in the order of
`addLink`, and its port at a node the rank among the node's links, as in Mininet.
An address is three numbers, of any size: beyond 130560 hosts of a dumbbell, 510 of a nonblocking
switch and 255 at an edge switch of a fat tree the code writes a part above 255, which is no
address.  The packet is dropped on a table miss, on a missing
port, and on output to its in-port, as Open vSwitch does.  A select group is
any of its buckets.  `NumberOf` is the code's `int(sw[-1:])`, the last digit.

## 3. The runs

| run | shows | bounds |
|---|---|---|
| `bandwidth` | order is kept for every host (`Pipeline`, `NoRegress`), no action leaves `active_rate` before the hosts were given it (`HandedOver`), `RatePromise` is implemented (`KeepsPromise`), with late and dying hosts and rings that take requests for replies; while all are well each action or a later one is enforced (`DeliversActions`); `close()` always ends the controller (`ControllerStops`) | 2 hosts, 1 step (so two actions, 0 and 1), buffers and rings of 2 |
| `packet_ring` | frames are taken in order (`RingOrdered`, `TakesNextFrame`), `ReplyBuffer` is implemented, no wake-up and no interrupt is lost for good (`WaitsEnd`, `InterruptsSurface`) | ring of 3, 7 frames |
| `observation` | counters seen by the agent only move forward while they fit an int (`DropsNeverShrink`, `ReadsMoveForward`), no growth is reported twice even when they do not (`NoGrowthReportedTwice`), and counts arrive as the int they become (`CountsReachTheAgent`) | 2 drops, backlog 0..1, ints -2..1 |
| `observation_deltas` | **violated**: what the collector writes between the two reads of `observe` is in no delta | 1 drop, backlog 0..1 |
| `sampler` | alignment, whole lists, termination | 2 steps, 3 samples |
| `sampler_overwrite` | **violated**: saved statistics are overwritten by the parent | 1 step, 1 sample |
| `lifecycle` | nothing is orphaned or left behind, tests and episodes stay apart (`OneEpisodeAtATime`, `NetworksApart`, `NetworkStays`), nothing is plotted that was not written and, where the lists allow, nothing is left out (`PlotFindsTests`), the program ends | 2 programs, 2 tests, 2 episodes each, 2 clients, one poll, `Raise` in every phase outside constructors and `close()` |
| `lifecycle_unwound` | **violated** when a constructor is interrupted | 1 test, 1 episode |
| `env_config` | an environment has what it asked for (`LastAsAsked`), what it did not ask for is from certain earlier ones (`HostsInherited`); `ParallelApart`, `EcnNotLeftOn`, `LinksObey` | 3 environments, 9 requests, 4 rates, one of them beyond the word |
| `config_nonblock` | **violated**: the patterns of `nonblock` are not where it looks | 1 environment |
| `forwarding` | delivery and spreading, 5 networks | see `MCForwarding` |
| `forwarding_fanout8` | **violated** for fanout 8 | 32 hosts |

Why the bounds are enough.  Two hosts are the fewest for which a loop over
hosts is in the middle while another process looks.  The model copies and compares the
numbers of actions and does nothing else with them, so an order that can go wrong goes
wrong between two of them: 0, with which the arrays begin and which is broadcast too,
and 1; a host without a request yet is a third value.  Buffers of two overflow,
since a controller whose rings take requests for replies runs ahead of its hosts.
Seven frames wrap a ring of three twice.  The proofs remove these bounds for
the safety properties.  Three samples over two steps let a
sample fall before, between and after both writes of a step.  Two
episodes reuse the managers and overlap with clients of the first; two tests are
the fewest for which one can fail and the next run beside what it has left, and
one poll is enough for `wait_for_ovs` to wait, succeed and give up.  Three
environments let a third find what two others have left in the dictionaries.
The requests are those of `run_ray.py` (complete but for `parallel_envs`, which it only
ever sets), of `test_scalability.py` (a number of hosts, and a capacity beyond the word),
of `run_basic.py` (no `topo_conf`), of a bare `gym.make`, and one that turns the parallel
mode off again.
An int of four values holds the first drop and wraps at the second.
The fat tree is checked at the two sizes for 16 and 8 hosts; the dumbbell with an odd
number of hosts has sides of different size.

Every cfg says `CHECK_DEADLOCK FALSE`: each model ends (the program has exited,
the packet has arrived, the bounded inputs are used up and the driver has
closed the environment), and what must not stop early is a liveness property.

Fairness.  Processes that can run are scheduled: weak fairness of the
controller, of each host controller, the collector and the sampler child.  A
copy, a call of `wait_for_reply` or a close that has begun is finished by its own process.
`DeliversActions` is about behaviours in which hosts are in time, do not die and
lose nothing: otherwise the controller waits for good, which is what the code
does.  Nobody owes a step, a failure, an interrupt, a truncation or a call of `close()`; in `Drivers`
the main thread does go on, as the programs do, clients end (they are started
with a running time), children end when told, and the controller at the latest when the network is
gone.  Switches may stay for ever.  In `StateObservation` the driver keeps calling `step()`, which is what
"reaches the agent" presupposes.

## 4. What is proved

Each theorem holds for all values of the constants that satisfy the assumptions
named in the modules:

* `BoundsAssumption`, `SwitchesAssumption` (`BandwidthControl`): `NumHosts`, `MaxSteps`,
  `InboxCap`, `RingSize` are naturals, all but `MaxSteps` not 0; `WaitForHosts` and
  `HostsMayFail` are true or false.
* `RingAssumption`: `RdNum` and `MaxFrames` are naturals, the first not 0.
* `CountersAssumption`, `SamplerAssumption`: the bounds on drops, backlog, steps and
  samples are naturals; an int has `2 * Half` values, `Half` a natural, not 0.
* `LinkAssumption`: `Word` and `MinBw` are naturals, the first not 0.
* `ConfigAssumption`: every conf argument has the shape `Request`, with any capacity and
  any number of hosts but 0; `NumEnvs` is a natural, and `Agents` has the default one.
* `NetworksAssumption`: hosts are a natural, not 0, the fanout is 4 or 8, and a fat tree has
  a host per edge switch.
* `LifecycleAssumption`, `DriversAssumption`: `NumEnvs`, `Episodes`, `Polls` are naturals;
  the lists of transports and algorithms are any lists of names, which may share some;
  there is a test, and an env for each test.

Two theorems about `Drivers` (`NetworkIsKept`, `NothingIsLeft`) have a hypothesis of their
own, `Unbroken`: nothing is raised inside a manager's constructor nor inside
`close()`; a third, `NothingOrphaned`, needs only the first half.  The run
`lifecycle_unwound` shows that they are false without the first half.  Without the
second the two are false too, as TLC finds when `UnwindAt` contains `"closing"`:
`terminated` is set before anything is closed, so a broken `close()` is never taken up
again.  The others about `Drivers` hold wherever exceptions are raised.
Of the theorems about `Forwarding`, `Spread` has the hypothesis `AllFanout4`, without which
`forwarding_fanout8` shows that `NumberOf` confuses switches; `NeverLost` and `EachHopCloser`
need `EveryHostLinked` besides: `create_links` gives a link to `Density` hosts of each edge
switch only, so with a number of hosts that 8 does not divide the last ones have none
(`TreeHostPorts`).  The dumbbell and the nonblocking switch are unrestricted.

| theorem | statement |
|---|---|
| `BandwidthControlProofs!TypeCorrect` | `Spec => []TypeOK` |
| `PipelineOrdered` | `Spec => []Pipeline` |
| `ActionsNeverRegress` | `Spec => NoRegress` |
| `PromiseKept` | `Spec => KeepsPromise`, the refinement of `RatePromise` |
| `ActionsAreHandedOver` | `Spec => HandedOver` |
| `PacketRingProofs!TypeCorrect` | `Spec => []TypeOK` |
| `RingStaysOrdered` | `Spec => []RingOrdered` |
| `FramesTakenInOrder` | `Spec => TakesNextFrame` |
| `RingIsReplyBuffer` | `Spec => IsReplyBuffer`, the refinement of `ReplyBuffer` |
| `StateObservationProofs!TypeCorrect` | `Spec => []TypeOK` |
| `NeverShrinks` | `Spec => []DropsNeverShrink` |
| `ReadsInOrder` | `Spec => []ReadsMoveForward` |
| `ReportedOnce` | `Spec => []NoGrowthReportedTwice` |
| `StatsSamplerProofs!TypeCorrect` | `Spec => []TypeOK` |
| `Aligned` | `Spec => []SamplesAligned` |
| `ListsStayWhole` | `Spec => []ListsWhole` |
| `LateFlushIsWhole` | `Spec => []LateFlushSaves` |
| `EnvConfigProofs!TypeCorrect` | `Spec => []TypeOK` |
| `EcnIsReset` | `Spec => []EcnNotLeftOn` |
| `LastIsAsAsked` | `Spec => []LastAsAsked` |
| `HostsAreInherited` | `Spec => []HostsInherited` |
| `ParallelIsApart` | `Spec => []ParallelApart` |
| `LinksAreObedient` | `Spec => []LinksObey` |
| `DriversProofs!TypeCorrect` | `Spec => []TypeOK` |
| `NothingOrphaned` | `Spec => []NoOrphans`, if `"constructor" \notin UnwindAt` |
| `TestsApart` | `Spec => []NetworksApart` |
| `EpisodesApart` | `Spec => []OneEpisodeAtATime` |
| `NetworkIsKept` | `Spec => NetworkStays`, if `Unbroken` |
| `NothingIsLeft` | `Spec => []NothingLeftBehind`, if `Unbroken` |
| `PlotFindsAll` | `Spec => []PlotFindsTests` |
| `ForwardingProofs!TypeCorrect` | `Spec => []TypeOK` |
| `Spread` | `Spec => []EcmpSpreads`, if `AllFanout4` |
| `NeverLost` | `Spec => [](at # Dropped)`, if `EveryHostLinked` |
| `EachHopCloser` | `Spec => [](\E h \in 0 .. 6 : Left(h))` and every step leaves fewer links, if `EveryHostLinked` |
| `SequenceFacts!Flattened` | `FlattenSeq(s)` has the elements of all the members of `s` |

The argument.  *Order*: `tx_rate[h]` is the current step, or the one before it
exactly while the copy has not reached `h`; `active_rate` is copied from it,
requests are copied from `active_rate` into a FIFO buffer, the qdisc from its
head.  So `qdisc <= requests <= active_rate <= tx_rate`, with requests
ascending, is inductive together with types (`Pipeline`), whatever is lost, and
both `NoRegress` and the steps `Enforce` and `Choose` of `RatePromise` follow.
*Handing over*: the newest action a host has, the last of its buffer or else what its
qdisc enforces (`Newest`), is what was sent to it last; reading the buffer does not
change it.  `CtrlSend` comes for all hosts before the first wait, and `active_rate` does not
change until the copy begins, so at the beginning of the copy every host is `Given`; the copy
of an element disturbs only its own host, and those from `idx` on still are.  Nothing
is said of the frames in the rings: the wait is no barrier.
*Ring*: that a wait takes the next frame follows from where the unread slots are,
so `RingOrdered` says that: with `Unread = arrived - last`, they are those whose
distance from the next offset, around the end, is less than `Unread`, each holds
the frame `last + 1 + distance`, and the head is `Unread` further.  It is inductive
with types, also between giving a slot back and moving the offset
(`NextOffset`), and makes `Unread` the counter of the refinement.

*Links*: the queue is 400 kB at least and the threshold 50 kB at most, so `max`, a
quarter of the queue, exceeds `min` by more than the 4500 bytes that the rounding
of `burst` can cost.  The word only takes from a rate and the division by 8 costs less than a
byte, so a host is never faster than allocated, and short of a byte as fast if the word
holds its rate.  Together they are `LinksObey`, for every capacity.
*Observation*: on its way to the agent a counter only gets older, so
`kernel >= got >= stats >=` what the environment has read (`Ordered`), and within a
step each read is newer than the one before (`ReadInTurn`).  A report is paid for by
a growth of `stats` (`Paid`): while `stats` is ahead of `prev`, one growth has not
been reported yet, which is why the second read of `observe` may miss growth but
never double it.  Since `AsInt` is the identity on counts that fit, the first two carry over to
what the agent sees while they do; the third is about reports and needs no such condition.
*Sampling*: `InTurn` gives the lengths of the lists at each statement of `_checkpoint`;
an interrupt leaves them `Ragged`, and then no sample follows.  `Values` bounds what
is in them by the clock of `step()`.  In the file a key is empty or what the cache has
(`Written`), because nothing is appended once a flush has begun; if the parent is
done by then, the keys before `fkey` are the cache's and stay so.
*ECN*: `EcnNotLeftOn` is inductive once `envs` is known to be a sequence of records:
an environment keeps the policy it has read, whatever is put into the
dictionary later.
*Configuration*: `LastAsAsked` is inductive with the types of the dictionaries, since
`Create` overwrites every key it then reads.  `HostsInherited` needs to know what the
dictionaries hold: `HostsKept` says that `env_iroko`'s has the last `topo_conf` given (`InForce`), and
each topology's the hosts of its last environment (`HostsLeft`).  `ParallelApart` needs history: an id
stays in the dictionaries for ever, so a serial environment after a parallel one gets
the id left there; but while no environment has been parallel no dictionary has
an id (`Serial`), and an environment with the mode on draws its own (`Made`).  Two
environments of which one turned the mode off again (`Reverted`) may therefore share a name and
are excepted.  `LinksObey` is then the two lemmas about `LinkSettings`.
*Programs*: `NoOrphans` is inductive with the types of the fields: a constructor's child
is excused while the constructor runs, `SetField` gives it its field in the step
that ends the excuse, and `close()` drops a field only of what it has ended or
told to end.  For `NetworksApart` switches must be known to be of the last test
only: the main thread works in an environment only during its test (`AInv`),
and a test is made only once no switch is left, so those built since are its own.
`LInv` is the life of an environment: environments not made have nothing (`Born`),
managers are held in the order of their start (`InTurn`), `close()` lets go of them
in its own order (`Closing`), a held network is up while its test lasts and has
switches (`Network`), and a client that runs is on its environment's list, for the last
episode of the last environment, and until the program comes to its end in an existing
network (`OwnClients`).  So `reset()` tells every client there is, and a test starts, with
no switch left, without clients: `OneEpisodeAtATime`, whatever is raised where.
If moreover constructors return and `close()` is not broken off (`Unbroken`), a closed
environment holds nothing (`Closed`), so the late `close()` of a failed test's
environment has no network of its own to stop while another is up, and with `Over`,
which says what has been waited for by when, nothing is left at the end.
*Forwarding*: the port of a link is its rank among the links of its node, and the rank of
the p-th of an ascending list is p (`Ranked`, by a
bijection), so a node's ports follow from the list of its links
(`PortsAre`).  The lists come from the arithmetic of `create_links`, by topology; where
a remainder is by a number that is not fixed (hosts per edge switch), `Grouped` and `InGroup` give
the quotient.  At each switch one entry matches an address, or one of the highest priority
(`Best`), and the far ends of its ports are named (`Sends`).  `Underway` is then inductive:
a packet is at a known distance from its host (`Left`) and has come from where it will not
be sent next, so it is not dropped as an output to its in-port.  `Left` is said by place
alone; that it falls at each hop is `EachHopCloser`, and with the fairness of `Next`
the two are why `Delivered` holds, though that last step is left to TLC.  For `EcmpSpreads`
one need only know that the first switch is the edge switch of the sender (`FromEdge`).
*Plotting*: the plot looks for lower-case names, so nothing is claimed of a transport
that is written otherwise; with no transports it reads nothing, and an algorithm in both lists is looked
for in the folders of "tcp" only, so completeness excepts these.
`Suite` and `Plotted` are flattened sequences of sequences.  That flattening
keeps the elements is an induction over the length, which `SequenceFacts` carries
out without the library's induction rule: the set of the lengths for which it
fails has a least element, by the theorem on well-founded relations.

Only model-checked.  Liveness is out of the prover's reach: `DeliversActions`,
`ControllerStops`, `WaitsEnd`, `InterruptsSurface`, `CountsReachTheAgent`,
`SamplerStops`, `ProgramEnds` and `Delivered`.  Every safety property of
a passing run has a theorem.

## 5. Findings

1. `StatsSampler.close` closes a writeback shelf with empty lists, unsynchronised with
   the child's sync of the same file (`sampler_overwrite`).
2. `observe` reads the live matrix twice for its deltas (`observation_deltas`).
3. `close()` cannot see what an interrupted constructor has started
   (`lifecycle_unwound`).
4. Fanout 8 is accepted, but switch numbers are one digit
   (`forwarding_fanout8`).
5. `topo_nonblock` names itself "dumbbell", so that its traffic patterns are looked
   for in a folder that does not have them (`config_nonblock`).

Met on the way, without a run of their own.  `active_rate` is shown to the
agent as "the bandwidth enforced" (`env_iroko.py:244`).  It is not: `broadcast_bw` has
already copied the *next* request into it, and since a ring may take the request for its
reply, it may move on before the hosts enforce the one before; only the order and
`HandedOver` hold.  "Qdisc do not go beyond uint32 rate limit" says `env_iroko.py:135`
of capacities, which nothing checks: `test_scalability.py:134` asks for 1000e9 bit/s, and a rate
of 2^32 or more reaches the host modulo 2^32.  A port's drops are shown as a negative
number from 2^31 on (`qdisc_stats.c:70`).  A serial environment made after a parallel one
gets the id that one has left in the dictionaries.
`check_if_traffic_alive` says it returns false if *any*
process has terminated and does so when *all* have (`iroko_traffic.py:61`); the
model follows the code.  `stop_network` writes 0 to `tcp_ecn`, not the value found.
Two parallel environments made before either is reset write below one output
folder.  A td3 test trains DDPG, since `configure_ray` replaces the name
`run_ray` looks up (`run_ray.py:265`).

## 6. Not modelled, and why

* `node_controller.c` and its qdisc files: built, but started by nothing.
* TPACKET_V3 variants: compiled out.  The tx rings are part of `CtrlSend`: `sendto` is blocking, so at
  most one frame of a tx ring is in use.  Of `qdisc_stats.c`, getters around libnl, only the
  conversion to `int` is modelled (`AsInt`).
* Reward formulas, averages and drawing, argument parsing, installation:
  arithmetic and glue without state.  Ray and its workers, tune: third-party code.
* `exec_process` and `start_process` beyond "a process runs": the errors they log
  have no effect on the program.  sysctls inside the hosts' namespaces: they go with the network.
* Not *yet* modelled: see the plan.

## 7. Plan

Written so far, in this order: rate control with its promise and proofs, the
packet ring with its proofs, sampling, observation, forwarding, lifecycle with
the drivers, configuration with the numbers of a link, and the proofs of all their safety
properties.  Next:

1. Collectors: `BandwidthCollector` and `QueueCollector` write rows indexed
   by different port orders (`iroko_monitor.py:77`), `FlowCollector` clears its
   matrix for each captured row (`iroko_monitor.py:176`); extends
   `StateObservation` to several ports.
2. Services as processes of their own in `EnvLifecycle` (servers and host
   controllers are one resource now).
