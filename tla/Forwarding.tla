----------------------------- MODULE Forwarding -----------------------------
(***************************************************************************)
(* The three virtual networks of topos/ and the flow entries that          *)
(* _install_proactive adds to their switches, followed by one packet from  *)
(* host to host.  Links are numbered in the order of addLink, so that the  *)
(* ports of a switch are numbered in the order of its links.  A packet is  *)
(* dropped when no entry matches, when the port of an entry does not exist *)
(* or is the port the packet came in by.                                   *)
(***************************************************************************)
EXTENDS Integers, Sequences, FiniteSets

CONSTANT Networks   \* the networks, [kind, hosts, fanout]

Kinds == {"dumbbell", "nonblock", "fattree"}

(* A node is its level and its number in the level; the code has levels 1  *)
(* to 3 for the switches of a fat tree, 0 stands for the other switches.   *)
Switch(level, i) == <<level, i>>
Host(i) == <<4, i>>
Dropped == <<5, 0>>
Level(x) == x[1]
IsSwitch(x) == Level(x) < 4

VARIABLES net,   \* the network, one of Networks
          src,   \* the hosts the packet goes from and to
          dst,
          at,    \* where the packet is
          from   \* the node it was at before

vars == <<net, src, dst, at, from>>

Half(n) == n.fanout \div 2
Pods(n) == n.fanout
Edges(n) == n.fanout * Half(n)               \* edge (and aggregation) switches
Density(n) == n.hosts \div Edges(n)          \* hosts of an edge switch

(* Each edge switch of a fat tree has a host at least.                     *)
ASSUME NetworksAssumption ==
    \A n \in Networks : /\ n.kind \in Kinds
                        /\ n.hosts \in Nat \ {0} /\ n.fanout \in {4, 8}
                        /\ n.kind = "fattree" => n.hosts >= Edges(n)

-----------------------------------------------------------------------------
(* create_links.  Hosts and switches are numbered from 1; the hosts of a   *)
(* dumbbell are h0, h1, ... in the code: even ones are east, odd ones west. *)
SideOf(i) == IF i % 2 = 0 THEN "west" ELSE "east"
Side(n, side) == IF side = "west" THEN [k \in 1 .. n.hosts \div 2 |-> 2 * k]
                                  ELSE [k \in 1 .. (n.hosts + 1) \div 2 |-> 2 * k - 1]
West == Switch(0, 1)
East == Switch(0, 2)
Cores(n) == {Switch(1, i) : i \in 1 .. Half(n) * Half(n)}

(* create_nodes                                                            *)
Nodes(n) ==
    {Host(i) : i \in 1 .. n.hosts} \cup
    CASE n.kind = "dumbbell" -> {West, East}
      [] n.kind = "nonblock" -> {West}
      [] n.kind = "fattree" -> Cores(n) \cup {Switch(l, i) : l \in {2, 3}, i \in 1 .. Edges(n)}

(* Faulty variant: switches are counted from 0.                            *)
CoreOfZero(n, i, j) == Switch(1, i * Half(n) + j)

CoreOf(n, i, j) == Switch(1, i * Half(n) + j + 1)

DumbbellLinks(n) ==
    LET To(sw, hosts) == [k \in DOMAIN hosts |-> <<sw, Host(hosts[k])>>]
    IN <<<<West, East>>>> \o To(West, Side(n, "west")) \o To(East, Side(n, "east"))

NonblockLinks(n) == [k \in 1 .. n.hosts |-> <<West, Host(k)>>]

(* The l-th links to the cores, to the edge switches and to the hosts.     *)
PodOfLink(n, l) == (l - 1) \div (Half(n) * Half(n))
Aggr(n, l) == ((l - 1) \div Half(n)) % Half(n)
Other(n, l) == (l - 1) % Half(n)
AggSwitch(n, l) == Switch(2, PodOfLink(n, l) * Half(n) + Aggr(n, l) + 1)
CoreLink(n, l) == <<CoreOf(n, Aggr(n, l), Other(n, l)), AggSwitch(n, l)>>
AggLink(n, l) ==
    <<AggSwitch(n, l), Switch(3, PodOfLink(n, l) * Half(n) + Other(n, l) + 1)>>
EdgeLink(n, l) == <<Switch(3, (l - 1) \div Density(n) + 1), Host(l)>>

FattreeLinks(n) ==
    LET pods == Pods(n) * Half(n) * Half(n)
    IN [l \in 1 .. pods |-> CoreLink(n, l)] \o [l \in 1 .. pods |-> AggLink(n, l)]
         \o [l \in 1 .. Edges(n) * Density(n) |-> EdgeLink(n, l)]

Links(n) == CASE n.kind = "dumbbell" -> DumbbellLinks(n)
              [] n.kind = "nonblock" -> NonblockLinks(n)
              [] n.kind = "fattree"  -> FattreeLinks(n)

(* A link gets the next free port of its node: its rank among the node's   *)
(* links.  Ports are the far ends of the links of every node.              *)
Rank(links, l) == Cardinality({k \in links : k <= l})
FarEnd(link, x) == IF link[1] = x THEN link[2] ELSE link[1]
LinksOf(links, x) == {l \in DOMAIN links : links[l][1] = x \/ links[l][2] = x}
Ports ==
    [n \in Networks |->
       LET links == Links(n) IN
       [x \in Nodes(n) |->
          LET own == LinksOf(links, x)
          IN [p \in {Rank(own, l) : l \in own} |->
                FarEnd(links[CHOOSE l \in own : Rank(own, l) = p], x)]]]

-----------------------------------------------------------------------------
(* create_hosts: the last three numbers of the address 10.a.b.c.           *)
Address(n, i) ==
    CASE n.kind = "dumbbell" ->
           LET c == (i - 1) \div 510   d == (i - 1) % 510
           IN IF SideOf(i) = "west" THEN <<1, c, (d + 1) \div 2>>
                                    ELSE <<2, c, (d + 2) \div 2>>
      [] n.kind = "nonblock" -> <<(i - 1) \div 2 + 1, 0, ((i - 1) % 2) + 1>>
      [] n.kind = "fattree" ->
           <<(i - 1) \div Density(n) + 1, 0, ((i - 1) % Density(n)) + 1>>

(* A flow entry: priority, the leading numbers of the addresses it matches *)
(* and the ports it may send to (more than one: the group of all uplinks). *)
Entry(priority, prefix, out) ==
    [priority |-> priority, prefix |-> prefix, out |-> out]
Matches(entry, address) ==
    SubSeq(address, 1, Len(entry.prefix)) = entry.prefix

(* num = int(sw[-1:]): the last digit of the name of the switch.           *)
NumberOf(sw) == sw[2] % 10

(* create_subnet_list: the edge switches of the pod of aggregation switch  *)
(* num, by its position in the pod.                                        *)
SubnetList(n, num) ==
    LET first == num - ((num - 1) % Half(n)) IN [k \in 1 .. Half(n) |-> first + k - 1]

(* Faulty variant: the group has one bucket.                               *)
UpwardsSingle(n) == Entry(10, << >>, {1})

(* The group of all links to the level above.                              *)
Upwards(n) == Entry(10, << >>, 1 .. Half(n))

DumbbellEntries(n, sw) ==
    LET side == IF sw = West THEN "west" ELSE "east"
        far == IF sw = West THEN 2 ELSE 1
        hosts == Side(n, side)
    IN {Entry(10, Address(n, hosts[k]), {k + 1}) : k \in DOMAIN hosts}
         \cup {Entry(10, <<far>>, {1})}

NonblockEntries(n, sw) == {Entry(10, Address(n, k), {k}) : k \in 1 .. n.hosts}

(* Faulty variant: the port is changed one subnet late.                    *)
CoreEntriesLate(n) ==
    {Entry(10, <<i>>, {i \div Half(n) + 1}) : i \in 1 .. Edges(n)}

(* The subnets of a pod are one port, Half of them at a time.              *)
CoreEntries(n) ==
    {Entry(10, <<i>>, {(i - 1) \div Half(n) + 1}) : i \in 1 .. Edges(n)}

AggEntries(n, num) ==
    {Entry(40, <<SubnetList(n, num)[k]>>, {Half(n) + k}) : k \in 1 .. Half(n)}

EdgeEntries(n, num) ==
    {Entry(40, <<num, 0, i>>, {Half(n) + i}) : i \in 1 .. Density(n)}

FattreeEntries(n, sw) ==
    CASE Level(sw) = 1 -> CoreEntries(n)
      [] Level(sw) = 2 -> AggEntries(n, NumberOf(sw)) \cup {Upwards(n)}
      [] Level(sw) = 3 -> EdgeEntries(n, NumberOf(sw)) \cup {Upwards(n)}

Entries(n, sw) == CASE n.kind = "dumbbell" -> DumbbellEntries(n, sw)
                    [] n.kind = "nonblock" -> NonblockEntries(n, sw)
                    [] n.kind = "fattree"  -> FattreeEntries(n, sw)

(* The ports an address may be sent to: those of the best entry.           *)
Lookup(n, sw, address) ==
    LET hit == {e \in Entries(n, sw) : Matches(e, address)}
    IN UNION {e.out : e \in {e \in hit : \A f \in hit : f.priority <= e.priority}}

-----------------------------------------------------------------------------
Init ==
    /\ net \in Networks
    /\ src \in 1 .. net.hosts /\ dst \in 1 .. net.hosts \ {src}
    /\ at = Host(src) /\ from = Host(src)

(* The packet crosses the link of a port, or is dropped there.             *)
SendTo(far, port) ==
    /\ at' = IF port \in DOMAIN far /\ far[port] # from THEN far[port] ELSE Dropped
    /\ from' = at

Leave ==
    /\ at = Host(src)
    /\ SendTo(Ports[net][at], 1)
    /\ UNCHANGED <<net, src, dst>>

Forward ==
    /\ IsSwitch(at)
    /\ LET out == Lookup(net, at, Address(net, dst))   far == Ports[net][at] IN
         \/ \E port \in out : SendTo(far, port)
         \/ out = {} /\ at' = Dropped /\ from' = at
    /\ UNCHANGED <<net, src, dst>>

Next == Leave \/ Forward

Spec == Init /\ [][Next]_vars /\ WF_vars(Next)

-----------------------------------------------------------------------------
(* Types; a packet is at a node that create_nodes has created.             *)
TypeOK ==
    /\ net \in Networks
    /\ src \in 1 .. net.hosts /\ dst \in 1 .. net.hosts
    /\ at \in Nodes(net) \cup {Dropped} /\ from \in Nodes(net)

(* Every host reaches every other host, whichever uplinks ECMP selects     *)
(* (create_links, create_hosts and _install_proactive agree).              *)
Delivered == <>(at = Host(dst))

(* Between pods every core switch is on a path that ECMP may select, and   *)
(* traffic inside a pod is never sent to a core (the groups of             *)
(* _install_proactive and the links of create_links).                      *)
PodOf(n, i) == (i - 1) \div (Density(n) * Half(n))
NextNodes(n, x, i) ==
    LET far == Ports[n][x]
    IN {far[p] : p \in Lookup(n, x, Address(n, i)) \cap DOMAIN far}
Above(n, x, i) == {y \in NextNodes(n, x, i) : IsSwitch(y) /\ Level(y) < Level(x)}
EcmpSpreads ==
    net.kind = "fattree" /\ IsSwitch(at) /\ from = Host(src) =>
        UNION {Above(net, y, dst) : y \in Above(net, at, dst)} =
            IF PodOf(net, src) = PodOf(net, dst) THEN {} ELSE Cores(net)
=============================================================================
