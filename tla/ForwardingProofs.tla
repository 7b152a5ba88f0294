-------------------------- MODULE ForwardingProofs --------------------------
(***************************************************************************)
(* Proofs about the three networks and one packet in them.                 *)
(*                                                                         *)
(* First come the ports: a node whose links are f[1] < f[2] < ... has the  *)
(* far end of f[p] at port p (PortsAre).  Then, topology by topology: the  *)
(* links by number (...Wired), the links of a node (...Own), its ports     *)
(* (...Ports), the entry its switch looks up for a host (...Lookup) and so *)
(* the nodes it sends to (...Hops).  A packet's place and the node it came *)
(* from then tell how many links are left (Left).                          *)
(***************************************************************************)
EXTENDS Forwarding, FiniteSetTheorems, SequenceTheorems, TLAPS

(* The links of a node in their order: the p-th has port p.                *)
LEMMA Ranked ==
  ASSUME NEW m \in Nat, NEW f \in [1 .. m -> Nat],
         \A p, q \in 1 .. m : p < q => f[p] < f[q],
         NEW p \in 1 .. m
  PROVE  Rank({f[q] : q \in 1 .. m}, f[p]) = p
<1> DEFINE S == {k \in {f[q] : q \in 1 .. m} : k <= f[p]}
           g == [q \in 1 .. p |-> f[q]]
<1>1. \A q, r \in 1 .. m : f[q] <= f[r] <=> q <= r
  OBVIOUS
<1>2. S = {f[q] : q \in 1 .. p}
  BY <1>1
<1>3. g \in [1 .. p -> S]
  BY <1>2
<1>4. \A q, r \in 1 .. p : g[q] = g[r] => q = r
  BY <1>1
<1>5. \A k \in S : \E q \in 1 .. p : g[q] = k
  BY <1>2
<1>6. g \in Bijection(1 .. p, S)
  BY <1>3, <1>4, <1>5 DEF Bijection, Injection, Surjection, IsInjective
<1>7. ExistsBijection(1 .. p, S)
  BY <1>6 DEF ExistsBijection
<1>8. IsFiniteSet(1 .. p) /\ Cardinality(1 .. p) = p
  BY FS_Interval
<1>9. Cardinality(S) = p
  BY <1>7, <1>8, FS_Bijection
<1>10. QED
  BY <1>9 DEF Rank

LEMMA PortsAre ==
  ASSUME NEW n \in Networks, NEW x \in Nodes(n),
         NEW m \in Nat, NEW f \in [1 .. m -> Nat],
         \A p, q \in 1 .. m : p < q => f[p] < f[q],
         LinksOf(Links(n), x) = {f[q] : q \in 1 .. m}
  PROVE  /\ DOMAIN Ports[n][x] = 1 .. m
         /\ \A p \in 1 .. m : Ports[n][x][p] = FarEnd(Links(n)[f[p]], x)
<1> DEFINE own == LinksOf(Links(n), x)
           Link(p) == CHOOSE l \in own : Rank(own, l) = p
<1>1. Ports[n][x] = [p \in {Rank(own, l) : l \in own} |-> FarEnd(Links(n)[Link(p)], x)]
  BY DEF Ports
<1>2. own = {f[q] : q \in 1 .. m}
  OBVIOUS
<1> HIDE DEF own
<1>3. \A p \in 1 .. m : f[p] \in own /\ Rank(own, f[p]) = p
  BY <1>2, Ranked
<1>4. \A l \in own : \E p \in 1 .. m : l = f[p]
  BY <1>2
<1>5. {Rank(own, l) : l \in own} = 1 .. m
  BY <1>3, <1>4
<1>6. ASSUME NEW p \in 1 .. m PROVE Link(p) = f[p]
  <2>1. Link(p) \in own /\ Rank(own, Link(p)) = p
    BY <1>3
  <2>2. QED
    BY <1>3, <1>4, <2>1
<1> HIDE DEF Link
<1>7. QED
  BY <1>1, <1>5, <1>6

(* A node with one link.                                                   *)
LEMMA OnePort ==
  ASSUME NEW n \in Networks, NEW x \in Nodes(n), NEW l \in Nat,
         LinksOf(Links(n), x) = {l}
  PROVE  DOMAIN Ports[n][x] = {1} /\ Ports[n][x][1] = FarEnd(Links(n)[l], x)
<1>1. PICK m \in Nat : m = 1
  OBVIOUS
<1>2. PICK f \in [1 .. m -> Nat] : \A q \in 1 .. m : f[q] = l
  <2> DEFINE f == [q \in 1 .. m |-> l]
  <2>1. f \in [1 .. m -> Nat] /\ \A q \in 1 .. m : f[q] = l
    OBVIOUS
  <2>2. QED
    BY <2>1
<1>3. \A q \in 1 .. m : f[q] = l /\ q = 1
  BY <1>1, <1>2
<1>4. \A p, q \in 1 .. m : p < q => f[p] < f[q]
  BY <1>3
<1>5. LinksOf(Links(n), x) = {f[q] : q \in 1 .. m}
  <2>1. 1 \in 1 .. m
    BY <1>1
  <2>2. QED
    BY <1>3, <2>1
<1>6. m \in Nat /\ f \in [1 .. m -> Nat]
  BY <1>1, <1>2
<1>7. DOMAIN Ports[n][x] = 1 .. m
  BY <1>4, <1>5, <1>6, PortsAre
<1>8. \A p \in 1 .. m : Ports[n][x][p] = FarEnd(Links(n)[f[p]], x)
  BY <1>4, <1>5, <1>6, PortsAre
<1>9. QED
  BY <1>1, <1>3, <1>7, <1>8

(* Wherever a port leads, a link leads there.                              *)
LEMMA PortsWithin ==
  ASSUME NEW n \in Networks, NEW x \in Nodes(n), NEW p \in DOMAIN Ports[n][x],
         \A l \in DOMAIN Links(n) : Links(n)[l] \in Nodes(n) \X Nodes(n)
  PROVE  Ports[n][x][p] \in Nodes(n)
<1> DEFINE own == LinksOf(Links(n), x)
           Link(r) == CHOOSE l \in own : Rank(own, l) = r
<1>1. Ports[n][x] = [r \in {Rank(own, l) : l \in own} |-> FarEnd(Links(n)[Link(r)], x)]
  BY DEF Ports
<1>2. \E l \in own : Rank(own, l) = p
  BY <1>1
<1>3. Link(p) \in own
  BY <1>2
<1>4. own \subseteq DOMAIN Links(n)
  BY DEF LinksOf
<1>5. FarEnd(Links(n)[Link(p)], x) \in Nodes(n)
  BY <1>3, <1>4 DEF FarEnd
<1>6. QED
  BY <1>1, <1>5

(* Two lists, one after the other; then three.                             *)
LEMMA Followed ==
  ASSUME NEW S, NEW i \in Nat, NEW j \in Nat,
         NEW r \in [1 .. i -> S], NEW s \in [1 .. j -> S],
         NEW q, q = r \o s
  PROVE  /\ q \in [1 .. i + j -> S]
         /\ \A l \in 1 .. i : q[l] = r[l]
         /\ \A l \in 1 .. j : q[i + l] = s[l]
<1>1. r \in Seq(S) /\ s \in Seq(S) /\ Len(r) = i /\ Len(s) = j
  OBVIOUS
<1>2. /\ q \in Seq(S) /\ Len(q) = i + j
      /\ \A l \in 1 .. i + j : q[l] = IF l <= i THEN r[l] ELSE s[l - i]
  BY <1>1, ConcatProperties
<1>3. \A l \in 1 .. i : q[l] = r[l]
  BY <1>2
<1>4. ASSUME NEW l \in 1 .. j PROVE q[i + l] = s[l]
  <2>1. i + l \in 1 .. i + j /\ ~(i + l <= i) /\ (i + l) - i = l
    OBVIOUS
  <2>2. QED
    BY <1>2, <2>1
<1>5. q \in [1 .. i + j -> S]
  BY <1>2, LenProperties
<1>6. QED
  BY <1>3, <1>4, <1>5

LEMMA Joined ==
  ASSUME NEW S, NEW i \in Nat, NEW j \in Nat, NEW k \in Nat,
         NEW r \in [1 .. i -> S], NEW s \in [1 .. j -> S], NEW t \in [1 .. k -> S],
         NEW u, u = r \o s, NEW q, q = u \o t
  PROVE  /\ q \in [1 .. i + j + k -> S]
         /\ \A l \in 1 .. i : q[l] = r[l]
         /\ \A l \in 1 .. j : q[i + l] = s[l]
         /\ \A l \in 1 .. k : q[i + j + l] = t[l]
<1>2. PICK m \in Nat : m = i + j
  OBVIOUS
<1>3. u \in [1 .. m -> S]
  BY <1>2, Followed
<1>4. \A l \in 1 .. i : u[l] = r[l]
  BY Followed
<1>5. \A l \in 1 .. j : u[i + l] = s[l]
  BY Followed
<1>7. q \in [1 .. m + k -> S]
  BY <1>2, <1>3, Followed
<1>8. \A l \in 1 .. m : q[l] = u[l]
  BY <1>2, <1>3, Followed
<1>9. \A l \in 1 .. k : q[m + l] = t[l]
  BY <1>2, <1>3, Followed
<1>10. \A l \in 1 .. i : l \in 1 .. m
  BY <1>2
<1>11. \A l \in 1 .. j : i + l \in 1 .. m
  BY <1>2
<1>12. \A l \in 1 .. i : q[l] = r[l]
  BY <1>4, <1>8, <1>10
<1>13. \A l \in 1 .. j : q[i + l] = s[l]
  BY <1>5, <1>8, <1>11
<1>14. QED
  BY <1>2, <1>7, <1>9, <1>12, <1>13

-----------------------------------------------------------------------------
(* The links of a dumbbell: to the other switch, then the hosts.           *)
DumbbellWired(links, w, e) ==
    /\ w \in Nat /\ e \in Nat
    /\ DOMAIN links = 1 .. 1 + w + e
    /\ links[1] = <<West, East>>
    /\ \A l \in 2 .. 1 + w : links[l] = <<West, Host(2 * (l - 1))>>
    /\ \A l \in 2 + w .. 1 + w + e : links[l] = <<East, Host(2 * (l - 1 - w) - 1)>>

LEMMA Dumbbell ==
  ASSUME NEW n \in Networks, n.kind = "dumbbell"
  PROVE  /\ n.hosts \in Nat /\ n.hosts \div 2 + (n.hosts + 1) \div 2 = n.hosts
         /\ Nodes(n) = {Host(i) : i \in 1 .. n.hosts} \cup {West, East}
         /\ DumbbellWired(Links(n), n.hosts \div 2, (n.hosts + 1) \div 2)
         /\ \A l \in DOMAIN Links(n) : Links(n)[l] \in Nodes(n) \X Nodes(n)
<1> DEFINE w == n.hosts \div 2
           e == (n.hosts + 1) \div 2
           one == 1
           first == [k \in 1 .. one |-> <<West, East>>]
           ws == [k \in 1 .. w |-> <<West, Host(2 * k)>>]
           es == [k \in 1 .. e |-> <<East, Host(2 * k - 1)>>]
           S == Nodes(n) \X Nodes(n)
<1>1. n.hosts \in Nat
  BY NetworksAssumption
<1>2. /\ w \in Nat /\ e \in Nat /\ w + e = n.hosts
      /\ \A k \in 1 .. w : 2 * k \in 1 .. n.hosts
      /\ \A k \in 1 .. e : 2 * k - 1 \in 1 .. n.hosts
  BY <1>1
<1>3. Nodes(n) = {Host(i) : i \in 1 .. n.hosts} \cup {West, East}
  BY DEF Nodes
<1>4. Links(n) = (first \o ws) \o es
  <2>1. first = <<<<West, East>>>>
    OBVIOUS
  <2>2. QED
    BY <2>1 DEF Links, DumbbellLinks, Side
<1> HIDE DEF w, e, one
<1>5. first \in [1 .. one -> S] /\ ws \in [1 .. w -> S] /\ es \in [1 .. e -> S]
  BY <1>2, <1>3
<1>6. \A k \in 1 .. w : ws[k] = <<West, Host(2 * k)>>
  OBVIOUS
<1>7. \A k \in 1 .. e : es[k] = <<East, Host(2 * k - 1)>>
  OBVIOUS
<1>8. \A k \in 1 .. one : first[k] = <<West, East>>
  OBVIOUS
<1> HIDE DEF first, ws, es, S
<1>9. PICK u, q : u = first \o ws /\ q = u \o es
  OBVIOUS
<1>10. /\ q \in [1 .. one + w + e -> S]
       /\ \A l \in 1 .. one : q[l] = first[l]
       /\ \A l \in 1 .. w : q[one + l] = ws[l]
       /\ \A l \in 1 .. e : q[one + w + l] = es[l]
  <2>1. one \in Nat /\ w \in Nat /\ e \in Nat
    BY <1>2 DEF one
  <2>2. q \in [1 .. one + w + e -> S]
    BY <1>5, <1>9, <2>1, Joined
  <2>3. \A l \in 1 .. one : q[l] = first[l]
    BY <1>5, <1>9, <2>1, Joined
  <2>4. \A l \in 1 .. w : q[one + l] = ws[l]
    BY <1>5, <1>9, <2>1, Joined
  <2>5. \A l \in 1 .. e : q[one + w + l] = es[l]
    BY <1>5, <1>9, <2>1, Joined
  <2>6. QED
    BY <2>2, <2>3, <2>4, <2>5
<1>11. DOMAIN Links(n) = 1 .. 1 + n.hosts /\ \A l \in DOMAIN Links(n) : Links(n)[l] \in S
  <2>1. one + w + e = 1 + n.hosts
    BY <1>1, <1>2 DEF one
  <2>2. q = Links(n)
    BY <1>4, <1>9
  <2>3. DOMAIN q = 1 .. one + w + e /\ \A l \in DOMAIN q : q[l] \in S
    BY <1>10
  <2>4. DOMAIN q = 1 .. 1 + n.hosts
    BY <2>1, <2>3
  <2>5. QED
    BY <2>2, <2>3, <2>4, Zenon
<1>12. Links(n)[1] = <<West, East>>
  <2>1. q = Links(n) /\ 1 \in 1 .. one /\ 1 \in Nat
    BY <1>4, <1>9 DEF one
  <2>2. first[1] = <<West, East>>
    BY <1>8, <2>1
  <2>3. q[1] = first[1]
    BY <1>10, <2>1
  <2>4. QED
    BY <2>1, <2>2, <2>3
<1>13. ASSUME NEW l \in 2 .. 1 + w PROVE Links(n)[l] = <<West, Host(2 * (l - 1))>>
  <2>1. l - 1 \in 1 .. w /\ one + (l - 1) = l
    BY <1>2 DEF one
  <2>2. q[one + (l - 1)] = ws[l - 1]
    BY <1>10, <2>1
  <2>3. QED
    BY <1>4, <1>6, <1>9, <2>1, <2>2
<1>14. ASSUME NEW l \in 2 + w .. 1 + w + e
       PROVE  Links(n)[l] = <<East, Host(2 * (l - 1 - w) - 1)>>
  <2>1. l - 1 - w \in 1 .. e /\ one + w + (l - 1 - w) = l
    BY <1>2 DEF one
  <2>2. q[one + w + (l - 1 - w)] = es[l - 1 - w]
    BY <1>10, <2>1
  <2>3. QED
    BY <1>4, <1>7, <1>9, <2>1, <2>2
<1>15. 1 + n.hosts = 1 + w + e
  BY <1>1, <1>2
<1>16. DumbbellWired(Links(n), w, e)
  BY <1>2, <1>11, <1>12, <1>13, <1>14, <1>15 DEF DumbbellWired
<1>17. QED
  BY <1>1, <1>2, <1>3, <1>11, <1>16 DEF w, e, S

LEMMA Nonblock ==
  ASSUME NEW n \in Networks, n.kind = "nonblock"
  PROVE  /\ n.hosts \in Nat
         /\ Nodes(n) = {Host(i) : i \in 1 .. n.hosts} \cup {West}
         /\ DOMAIN Links(n) = 1 .. n.hosts
         /\ \A k \in 1 .. n.hosts : Links(n)[k] = <<West, Host(k)>>
         /\ \A l \in DOMAIN Links(n) : Links(n)[l] \in Nodes(n) \X Nodes(n)
<1>1. n.hosts \in Nat
  BY NetworksAssumption
<1>2. Nodes(n) = {Host(i) : i \in 1 .. n.hosts} \cup {West}
  BY DEF Nodes
<1>3. Links(n) = [k \in 1 .. n.hosts |-> <<West, Host(k)>>]
  BY DEF Links, NonblockLinks
<1>4. QED
  BY <1>1, <1>2, <1>3

LEMMA FattreeSizes ==
  ASSUME NEW n \in Networks, n.kind = "fattree"
  PROVE  /\ \/ n.fanout = 4 /\ Half(n) = 2 /\ Edges(n) = 8
            \/ n.fanout = 8 /\ Half(n) = 4 /\ Edges(n) = 32
         /\ Pods(n) = 2 * Half(n)
         /\ n.hosts \in Nat /\ Density(n) \in Nat \ {0}
         /\ Edges(n) * Density(n) \in 0 .. n.hosts
<1>1. n.hosts \in Nat /\ n.fanout \in {4, 8} /\ n.hosts >= Edges(n)
  BY NetworksAssumption
<1>2. CASE n.fanout = 4
  <2>1. Half(n) = 2 /\ Edges(n) = 8 /\ Pods(n) = 4
    BY <1>2 DEF Half, Edges, Pods
  <2>2. Density(n) = n.hosts \div 8
    BY <2>1 DEF Density
  <2>3. QED
    BY <1>1, <1>2, <2>1, <2>2
<1>3. CASE n.fanout = 8
  <2>1. Half(n) = 4 /\ Edges(n) = 32 /\ Pods(n) = 8
    BY <1>3 DEF Half, Edges, Pods
  <2>2. Density(n) = n.hosts \div 32
    BY <2>1 DEF Density
  <2>3. QED
    BY <1>1, <1>3, <2>1, <2>2
<1>4. QED
  BY <1>1, <1>2, <1>3

(* Numbers of l items in groups of d.                                      *)
LEMMA Groups ==
  ASSUME NEW d \in Nat \ {0}, NEW g \in Nat, NEW l \in 1 .. g * d
  PROVE  (l - 1) \div d + 1 \in 1 .. g
<1> DEFINE q == (l - 1) \div d
<1>1. q \in Nat /\ d * q <= l - 1 /\ l - 1 \in Nat
  OBVIOUS
<1> HIDE DEF q
<1>2. q < g
  <2> SUFFICES ASSUME q >= g PROVE FALSE
    BY <1>1
  <2>1. d * q >= d * g
    BY <1>1
  <2>2. QED
    BY <1>1, <2>1
<1>3. QED
  BY <1>1, <1>2 DEF q

(* The ends of its links are nodes of the tree.                            *)
LEMMA TreeEnds ==
  ASSUME NEW n \in Networks, n.kind = "fattree"
  PROVE  /\ \A l \in 1 .. Pods(n) * Half(n) * Half(n) :
              /\ CoreLink(n, l) \in Nodes(n) \X Nodes(n)
              /\ AggLink(n, l) \in Nodes(n) \X Nodes(n)
         /\ \A l \in 1 .. Edges(n) * Density(n) :
              EdgeLink(n, l) \in Nodes(n) \X Nodes(n)
<1>1. /\ n.hosts \in Nat /\ Density(n) \in Nat \ {0} /\ Edges(n) \in Nat
      /\ Edges(n) * Density(n) \in 0 .. n.hosts
  BY FattreeSizes
<1>2. /\ \A i \in 1 .. n.hosts : Host(i) \in Nodes(n)
      /\ \A i \in 1 .. Half(n) * Half(n) : Switch(1, i) \in Nodes(n)
      /\ \A i \in 1 .. Edges(n) : Switch(2, i) \in Nodes(n) /\ Switch(3, i) \in Nodes(n)
  BY DEF Nodes, Cores
<1>3. ASSUME NEW l \in 1 .. Pods(n) * Half(n) * Half(n)
      PROVE  /\ CoreLink(n, l) \in Nodes(n) \X Nodes(n)
             /\ AggLink(n, l) \in Nodes(n) \X Nodes(n)
  <2>1. /\ Aggr(n, l) * Half(n) + Other(n, l) + 1 \in 1 .. Half(n) * Half(n)
        /\ PodOfLink(n, l) * Half(n) + Aggr(n, l) + 1 \in 1 .. Edges(n)
        /\ PodOfLink(n, l) * Half(n) + Other(n, l) + 1 \in 1 .. Edges(n)
    <3>1. CASE Half(n) = 2 /\ Edges(n) = 8 /\ Pods(n) = 4
      BY <3>1 DEF PodOfLink, Aggr, Other
    <3>2. CASE Half(n) = 4 /\ Edges(n) = 32 /\ Pods(n) = 8
      BY <3>2 DEF PodOfLink, Aggr, Other
    <3>3. QED
      BY <3>1, <3>2, FattreeSizes
  <2>2. CoreOf(n, Aggr(n, l), Other(n, l)) \in Nodes(n)
    BY <1>2, <2>1 DEF CoreOf
  <2>3. AggSwitch(n, l) \in Nodes(n)
    BY <1>2, <2>1 DEF AggSwitch
  <2>4. QED
    BY <1>2, <2>1, <2>2, <2>3 DEF CoreLink, AggLink
<1>4. ASSUME NEW l \in 1 .. Edges(n) * Density(n)
      PROVE  EdgeLink(n, l) \in Nodes(n) \X Nodes(n)
  <2>1. (l - 1) \div Density(n) + 1 \in 1 .. Edges(n)
    BY <1>1, Groups
  <2>2. l \in 1 .. n.hosts
    BY <1>1
  <2>3. QED
    BY <1>2, <2>1, <2>2 DEF EdgeLink
<1>5. QED
  BY <1>3, <1>4

LEMMA Fattree ==
  ASSUME NEW n \in Networks, n.kind = "fattree",
         NEW c, c = Pods(n) * Half(n) * Half(n),
         NEW g, g = Edges(n) * Density(n)
  PROVE  /\ c \in Nat /\ g \in Nat
         /\ DOMAIN Links(n) = 1 .. c + c + g
         /\ \A l \in 1 .. c : Links(n)[l] = CoreLink(n, l)
         /\ \A l \in 1 .. c : Links(n)[c + l] = AggLink(n, l)
         /\ \A l \in 1 .. g : Links(n)[c + c + l] = EdgeLink(n, l)
         /\ \A l \in DOMAIN Links(n) : Links(n)[l] \in Nodes(n) \X Nodes(n)
<1> DEFINE core == [l \in 1 .. c |-> CoreLink(n, l)]
           agg == [l \in 1 .. c |-> AggLink(n, l)]
           edge == [l \in 1 .. g |-> EdgeLink(n, l)]
           S == Nodes(n) \X Nodes(n)
<1>1. c \in Nat /\ g \in Nat
  <2>1. CASE Half(n) = 2 /\ Pods(n) = 4
    BY <2>1, FattreeSizes
  <2>2. CASE Half(n) = 4 /\ Pods(n) = 8
    BY <2>2, FattreeSizes
  <2>3. QED
    BY <2>1, <2>2, FattreeSizes
<1>2. core \in [1 .. c -> S] /\ agg \in [1 .. c -> S] /\ edge \in [1 .. g -> S]
  BY TreeEnds
<1>3. Links(n) = (core \o agg) \o edge
  BY DEF Links, FattreeLinks
<1>4. /\ \A l \in 1 .. c : core[l] = CoreLink(n, l) /\ agg[l] = AggLink(n, l)
      /\ \A l \in 1 .. g : edge[l] = EdgeLink(n, l)
  OBVIOUS
<1> HIDE DEF core, agg, edge, S
<1>5. PICK u, q : u = core \o agg /\ q = u \o edge
  OBVIOUS
<1>6. q \in [1 .. c + c + g -> S]
  BY <1>1, <1>2, <1>5, Joined
<1>7. \A l \in 1 .. c : q[l] = core[l]
  BY <1>1, <1>2, <1>5, Joined
<1>8. \A l \in 1 .. c : q[c + l] = agg[l]
  BY <1>1, <1>2, <1>5, Joined
<1>9. \A l \in 1 .. g : q[c + c + l] = edge[l]
  BY <1>1, <1>2, <1>5, Joined
<1>10. q = Links(n)
  BY <1>3, <1>5
<1>11. DOMAIN q = 1 .. c + c + g /\ \A l \in DOMAIN q : q[l] \in S
  BY <1>6
<1>12. QED
  BY <1>1, <1>4, <1>7, <1>8, <1>9, <1>10, <1>11 DEF S

-----------------------------------------------------------------------------
(* Every link joins two nodes of its network.                              *)
LEMMA LinksWithin ==
  ASSUME NEW n \in Networks
  PROVE  \A l \in DOMAIN Links(n) : Links(n)[l] \in Nodes(n) \X Nodes(n)
<1>1. n.kind \in {"dumbbell", "nonblock", "fattree"}
  BY NetworksAssumption DEF Kinds
<1>2. CASE n.kind = "dumbbell"
  BY <1>2, Dumbbell
<1>3. CASE n.kind = "nonblock"
  BY <1>3, Nonblock
<1>4. CASE n.kind = "fattree"
  BY <1>4, Fattree
<1>5. QED
  BY <1>1, <1>2, <1>3, <1>4

(* Crossing a link leads to a node, or the packet is dropped.              *)
LEMMA SendStays ==
  ASSUME NEW n \in Networks, NEW x \in Nodes(n), NEW port, at = x, SendTo(Ports[n][x], port)
  PROVE  at' \in Nodes(n) \cup {Dropped} /\ from' \in Nodes(n)
<1>1. \A p \in DOMAIN Ports[n][x] : Ports[n][x][p] \in Nodes(n)
  BY LinksWithin, PortsWithin
<1>2. QED
  BY <1>1 DEF SendTo

(* The host of a packet and the switch that forwards it are nodes.         *)
LEMMA TypeInit == Init => TypeOK
<1> SUFFICES ASSUME Init PROVE TypeOK
  OBVIOUS
<1>1. Host(src) \in Nodes(net)
  BY DEF Init, Nodes
<1>2. QED
  BY <1>1 DEF Init, TypeOK

LEMMA TypeNext == TypeOK /\ [Next]_vars => TypeOK'
<1> SUFFICES ASSUME TypeOK, [Next]_vars PROVE TypeOK'
  OBVIOUS
<1> USE DEF TypeOK
<1>1. CASE Leave
  <2>1. at \in Nodes(net)
    BY <1>1 DEF Leave, Nodes
  <2>2. at' \in Nodes(net) \cup {Dropped} /\ from' \in Nodes(net)
    BY <1>1, <2>1, SendStays DEF Leave
  <2>3. QED
    BY <1>1, <2>2 DEF Leave
<1>2. CASE Forward
  <2>1. at \in Nodes(net)
    BY <1>2 DEF Forward, IsSwitch, Level, Dropped
  <2>2. at' \in Nodes(net) \cup {Dropped} /\ from' \in Nodes(net)
    BY <1>2, <2>1, SendStays DEF Forward
  <2>3. QED
    BY <1>2, <2>2 DEF Forward
<1>3. CASE UNCHANGED vars
  BY <1>3 DEF vars
<1>4. QED
  BY <1>1, <1>2, <1>3 DEF Next

(* TypeOK in networks of every size: a packet is never anywhere but at a   *)
(* node that create_nodes has created, because create_links links no other *)
(* (fat trees included that have more hosts than links to them).           *)
THEOREM TypeCorrect == Spec => []TypeOK
BY TypeInit, TypeNext, PTL DEF Spec

-----------------------------------------------------------------------------
(* Where the ports of a dumbbell lead.                                     *)
LEMMA Apart ==
  /\ West # East
  /\ \A i : Host(i) # West /\ Host(i) # East /\ Host(i) # Dropped
  /\ \A i, j : Host(i) = Host(j) => i = j
BY DEF Host, West, East, Switch, Dropped

LEMMA DumbbellOwn ==
  ASSUME NEW links, NEW w, NEW e, DumbbellWired(links, w, e)
  PROVE  /\ LinksOf(links, West) = 1 .. 1 + w
         /\ LinksOf(links, East) = {1} \cup (2 + w .. 1 + w + e)
         /\ \A l \in DOMAIN links : l # 1 => LinksOf(links, links[l][2]) = {l}
<1> w \in Nat /\ e \in Nat
  BY DEF DumbbellWired
<1>1. \A l \in DOMAIN links : l = 1 \/ l \in 2 .. 1 + w \/ l \in 2 + w .. 1 + w + e
  BY DEF DumbbellWired
<1>2. links[1][1] = West /\ links[1][2] = East
  BY DEF DumbbellWired
<1>3. \A l \in 2 .. 1 + w : links[l][1] = West /\ links[l][2] = Host(2 * (l - 1))
  BY DEF DumbbellWired
<1>4. \A l \in 2 + w .. 1 + w + e :
        links[l][1] = East /\ links[l][2] = Host(2 * (l - 1 - w) - 1)
  BY DEF DumbbellWired
<1>5. ASSUME NEW x
      PROVE  /\ 1 \in LinksOf(links, x) <=> x \in {West, East}
             /\ \A l \in 2 .. 1 + w : l \in LinksOf(links, x) <=> x \in {West, Host(2 * (l - 1))}
             /\ \A l \in 2 + w .. 1 + w + e :
                  l \in LinksOf(links, x) <=> x \in {East, Host(2 * (l - 1 - w) - 1)}
             /\ \A l \in LinksOf(links, x) :
                  l = 1 \/ l \in 2 .. 1 + w \/ l \in 2 + w .. 1 + w + e
  <2>1. 1 \in DOMAIN links /\ 2 .. 1 + w \subseteq DOMAIN links
        /\ 2 + w .. 1 + w + e \subseteq DOMAIN links
    BY DEF DumbbellWired
  <2>2. \A l : l \in LinksOf(links, x) <=>
          l \in DOMAIN links /\ (links[l][1] = x \/ links[l][2] = x)
    BY DEF LinksOf
  <2>3. 1 \in LinksOf(links, x) <=> x \in {West, East}
    BY <1>2, <2>1, <2>2
  <2>4. \A l \in 2 .. 1 + w : l \in LinksOf(links, x) <=> x \in {West, Host(2 * (l - 1))}
    BY <1>3, <2>1, <2>2
  <2>5. \A l \in 2 + w .. 1 + w + e :
          l \in LinksOf(links, x) <=> x \in {East, Host(2 * (l - 1 - w) - 1)}
    BY <1>4, <2>1, <2>2
  <2>6. QED
    BY <1>1, <2>2, <2>3, <2>4, <2>5
<1>6. LinksOf(links, West) = 1 .. 1 + w
  <2>1. \A l \in LinksOf(links, West) : l = 1 \/ l \in 2 .. 1 + w
    BY <1>5, Apart
  <2>2. 1 \in LinksOf(links, West) /\ \A l \in 2 .. 1 + w : l \in LinksOf(links, West)
    BY <1>5
  <2>3. \A l : l \in 1 .. 1 + w <=> l = 1 \/ l \in 2 .. 1 + w
    OBVIOUS
  <2>4. QED
    BY <2>1, <2>2, <2>3
<1>7. LinksOf(links, East) = {1} \cup (2 + w .. 1 + w + e)
  <2>1. \A l \in LinksOf(links, East) : l = 1 \/ l \in 2 + w .. 1 + w + e
    BY <1>5, Apart
  <2>2. 1 \in LinksOf(links, East) /\ \A l \in 2 + w .. 1 + w + e : l \in LinksOf(links, East)
    BY <1>5
  <2>3. QED
    BY <2>1, <2>2
<1>8. ASSUME NEW l \in DOMAIN links, l # 1 PROVE LinksOf(links, links[l][2]) = {l}
  <2>1. l \in 2 .. 1 + w \/ l \in 2 + w .. 1 + w + e
    BY <1>1, <1>8
  <2>2. l \in LinksOf(links, links[l][2])
    BY <1>3, <1>4, <1>5, <2>1
  <2>3. ASSUME NEW m \in LinksOf(links, links[l][2]) PROVE m = l
    <3>1. links[l][2] \notin {West, East}
      BY <1>3, <1>4, <2>1, Apart
    <3>2. m # 1
      BY <1>5, <3>1
    <3>3. CASE m \in 2 .. 1 + w
      <4>1. links[l][2] = Host(2 * (m - 1))
        BY <1>5, <3>1, <3>3
      <4>2. \/ l \in 2 .. 1 + w /\ 2 * (m - 1) = 2 * (l - 1)
            \/ l \in 2 + w .. 1 + w + e /\ 2 * (m - 1) = 2 * (l - 1 - w) - 1
        BY <1>3, <1>4, <2>1, <4>1, Apart
      <4>3. QED
        BY <3>3, <4>2
    <3>4. CASE m \in 2 + w .. 1 + w + e
      <4>1. links[l][2] = Host(2 * (m - 1 - w) - 1)
        BY <1>5, <3>1, <3>4
      <4>2. \/ l \in 2 .. 1 + w /\ 2 * (m - 1 - w) - 1 = 2 * (l - 1)
            \/ l \in 2 + w .. 1 + w + e /\ 2 * (m - 1 - w) - 1 = 2 * (l - 1 - w) - 1
        BY <1>3, <1>4, <2>1, <4>1, Apart
      <4>3. QED
        BY <3>4, <4>2
    <3>5. QED
      BY <1>5, <3>2, <3>3, <3>4
  <2>4. QED
    BY <2>2, <2>3
<1>9. QED
  BY <1>6, <1>7, <1>8

LEMMA DumbbellPorts ==
  ASSUME NEW n \in Networks, NEW w, NEW e, DumbbellWired(Links(n), w, e),
         Nodes(n) = {Host(i) : i \in 1 .. w + e} \cup {West, East}
  PROVE  /\ DOMAIN Ports[n][West] = 1 .. 1 + w
         /\ Ports[n][West][1] = East
         /\ \A k \in 1 .. w : Ports[n][West][1 + k] = Host(2 * k)
         /\ DOMAIN Ports[n][East] = 1 .. 1 + e
         /\ Ports[n][East][1] = West
         /\ \A k \in 1 .. e : Ports[n][East][1 + k] = Host(2 * k - 1)
         /\ \A l \in 2 .. 1 + w + e : LET x == Links(n)[l][2] IN
              x \in Nodes(n) => DOMAIN Ports[n][x] = {1} /\ Ports[n][x][1] = Links(n)[l][1]
<1> DEFINE links == Links(n)
<1> w \in Nat /\ e \in Nat
  BY DEF DumbbellWired
<1>1. /\ links[1][1] = West /\ links[1][2] = East
      /\ \A l \in 2 .. 1 + w : links[l][1] = West /\ links[l][2] = Host(2 * (l - 1))
      /\ \A l \in 2 + w .. 1 + w + e :
           links[l][1] = East /\ links[l][2] = Host(2 * (l - 1 - w) - 1)
  BY DEF DumbbellWired
<1>2. /\ LinksOf(links, West) = 1 .. 1 + w
      /\ LinksOf(links, East) = {1} \cup (2 + w .. 1 + w + e)
      /\ \A l \in DOMAIN links : l # 1 => LinksOf(links, links[l][2]) = {l}
  <2> HIDE DEF links
  <2>1. DumbbellWired(links, w, e)
    BY DEF links
  <2>2. LinksOf(links, West) = 1 .. 1 + w
    BY <2>1, DumbbellOwn
  <2>3. LinksOf(links, East) = {1} \cup (2 + w .. 1 + w + e)
    BY <2>1, DumbbellOwn
  <2>4. \A l \in DOMAIN links : l # 1 => LinksOf(links, links[l][2]) = {l}
    BY <2>1, DumbbellOwn
  <2>5. QED
    BY <2>2, <2>3, <2>4
<1> HIDE DEF links
<1>3. West \in Nodes(n) /\ East \in Nodes(n)
  OBVIOUS
<1>4. PICK f \in [1 .. 1 + w -> Nat] : \A q \in 1 .. 1 + w : f[q] = q
  <2> DEFINE f == [q \in 1 .. 1 + w |-> q]
  <2>1. f \in [1 .. 1 + w -> Nat] /\ \A q \in 1 .. 1 + w : f[q] = q
    OBVIOUS
  <2>2. QED
    BY <2>1
<1>5. /\ DOMAIN Ports[n][West] = 1 .. 1 + w
      /\ \A p \in 1 .. 1 + w : Ports[n][West][p] = FarEnd(links[p], West)
  <2>1. 1 + w \in Nat /\ f \in [1 .. 1 + w -> Nat]
    BY <1>4
  <2>2. \A p, q \in 1 .. 1 + w : p < q => f[p] < f[q]
    BY <1>4
  <2>3. LinksOf(Links(n), West) = {f[q] : q \in 1 .. 1 + w}
    BY <1>2, <1>4 DEF links
  <2>4. DOMAIN Ports[n][West] = 1 .. 1 + w
    BY <1>3, <2>1, <2>2, <2>3, PortsAre
  <2>5. \A p \in 1 .. 1 + w : Ports[n][West][p] = FarEnd(Links(n)[f[p]], West)
    BY <1>3, <2>1, <2>2, <2>3, PortsAre
  <2>6. QED
    BY <1>4, <2>4, <2>5 DEF links
<1>6. PICK g \in [1 .. 1 + e -> Nat] :
        g[1] = 1 /\ \A q \in 2 .. 1 + e : g[q] = w + q
  <2> DEFINE g == [q \in 1 .. 1 + e |-> IF q = 1 THEN 1 ELSE w + q]
  <2>1. g \in [1 .. 1 + e -> Nat]
    OBVIOUS
  <2>2. g[1] = 1 /\ \A q \in 2 .. 1 + e : g[q] = w + q
    OBVIOUS
  <2>3. QED
    BY <2>1, <2>2
<1>7. /\ DOMAIN Ports[n][East] = 1 .. 1 + e
      /\ Ports[n][East][1] = FarEnd(links[1], East)
      /\ \A p \in 2 .. 1 + e : Ports[n][East][p] = FarEnd(links[w + p], East)
  <2>1. 1 + e \in Nat /\ g \in [1 .. 1 + e -> Nat]
    BY <1>6
  <2>2. \A q \in 1 .. 1 + e : q = 1 \/ q \in 2 .. 1 + e
    OBVIOUS
  <2>3. ASSUME NEW p \in 1 .. 1 + e, NEW q \in 1 .. 1 + e, p < q PROVE g[p] < g[q]
    <3>1. q \in 2 .. 1 + e /\ g[q] = w + q
      BY <1>6, <2>3
    <3>2. CASE p = 1
      BY <1>6, <3>1, <3>2
    <3>3. CASE p \in 2 .. 1 + e
      <4>1. g[p] = w + p
        BY <1>6, <3>3
      <4>2. QED
        BY <2>3, <3>1, <4>1
    <3>4. QED
      BY <2>2, <3>2, <3>3
  <2>4. LinksOf(Links(n), East) = {g[q] : q \in 1 .. 1 + e}
    <3>1. 1 \in 1 .. 1 + e
      OBVIOUS
    <3>2. \A l \in 2 + w .. 1 + w + e : l - w \in 1 .. 1 + e /\ l = g[l - w]
      BY <1>6
    <3>3. \A q \in 2 .. 1 + e : g[q] \in 2 + w .. 1 + w + e
      BY <1>6
    <3>4. \A l \in LinksOf(Links(n), East) : \E q \in 1 .. 1 + e : l = g[q]
      BY <1>2, <1>6, <3>1, <3>2 DEF links
    <3>5. \A q \in 1 .. 1 + e : g[q] \in LinksOf(Links(n), East)
      BY <1>2, <1>6, <2>2, <3>3 DEF links
    <3>6. QED
      BY <3>4, <3>5
  <2>5. DOMAIN Ports[n][East] = 1 .. 1 + e
    BY <1>3, <2>1, <2>3, <2>4, PortsAre
  <2>6. \A p \in 1 .. 1 + e : Ports[n][East][p] = FarEnd(Links(n)[g[p]], East)
    BY <1>3, <2>1, <2>3, <2>4, PortsAre
  <2>7. 1 \in 1 .. 1 + e /\ \A p \in 2 .. 1 + e : p \in 1 .. 1 + e
    OBVIOUS
  <2>8. Ports[n][East][1] = FarEnd(links[1], East)
    BY <1>6, <2>6, <2>7 DEF links
  <2>9. \A p \in 2 .. 1 + e : Ports[n][East][p] = FarEnd(links[w + p], East)
    BY <1>6, <2>6, <2>7 DEF links
  <2>10. QED
    BY <2>5, <2>8, <2>9
<1>8. Ports[n][West][1] = East
  <2>1. 1 \in 1 .. 1 + w
    OBVIOUS
  <2>2. QED
    BY <1>1, <1>5, <2>1 DEF FarEnd
<1>9. ASSUME NEW k \in 1 .. w PROVE Ports[n][West][1 + k] = Host(2 * k)
  <2>1. 1 + k \in 2 .. 1 + w /\ 1 + k \in 1 .. 1 + w /\ (1 + k) - 1 = k
    OBVIOUS
  <2>2. QED
    BY <1>1, <1>5, <2>1 DEF FarEnd
<1>10. Ports[n][East][1] = West
  BY <1>1, <1>7, Apart DEF FarEnd
<1>11. ASSUME NEW k \in 1 .. e PROVE Ports[n][East][1 + k] = Host(2 * k - 1)
  <2>1. 1 + k \in 2 .. 1 + e /\ w + (1 + k) \in 2 + w .. 1 + w + e /\ (w + (1 + k)) - 1 - w = k
    OBVIOUS
  <2>2. QED
    BY <1>1, <1>7, <2>1 DEF FarEnd
<1>12. ASSUME NEW l \in 2 .. 1 + w + e, NEW x \in Nodes(n), x = links[l][2]
       PROVE  DOMAIN Ports[n][x] = {1} /\ Ports[n][x][1] = links[l][1]
  <2>1. l \in Nat /\ LinksOf(Links(n), x) = {l}
    <3>1. l \in DOMAIN links /\ l # 1
      BY DEF links, DumbbellWired
    <3>2. LinksOf(links, x) = {l}
      BY <1>2, <1>12, <3>1
    <3>3. l \in Nat
      OBVIOUS
    <3>4. QED
      BY <3>2, <3>3 DEF links
  <2>2. DOMAIN Ports[n][x] = {1} /\ Ports[n][x][1] = FarEnd(links[l], x)
    BY <2>1, OnePort DEF links
  <2>3. l \in 2 .. 1 + w \/ l \in 2 + w .. 1 + w + e
    OBVIOUS
  <2>4. links[l][1] \in {West, East} /\ \E i : links[l][2] = Host(i)
    BY <1>1, <2>3
  <2>5. links[l][1] # x
    BY <1>12, <2>4, Apart
  <2>6. QED
    BY <1>12, <2>2, <2>5 DEF FarEnd
<1>13. QED
  BY <1>5, <1>7, <1>8, <1>9, <1>10, <1>11, <1>12 DEF links

-----------------------------------------------------------------------------
(* What an entry matches, and which entry is looked up.                    *)
IsAddress(a) == a \in Seq(Int) /\ Len(a) = 3

LEMMA Addressed ==
  ASSUME NEW x \in Int, NEW y \in Int, NEW z \in Int
  PROVE  IsAddress(<<x, y, z>>)
BY DEF IsAddress

LEMMA MatchesAll ==
  ASSUME NEW a, IsAddress(a), NEW priority, NEW out
  PROVE  Matches(Entry(priority, << >>, out), a)
<1>1. SubSeq(a, 1, 0) = << >>
  BY SubSeqEmpty
<1>2. QED
  BY <1>1 DEF Matches, Entry

LEMMA MatchesNet ==
  ASSUME NEW a, IsAddress(a), NEW priority, NEW out, NEW x
  PROVE  Matches(Entry(priority, <<x>>, out), a) <=> a[1] = x
<1>1. SubSeq(a, 1, 1) \in Seq(Int) /\ Len(SubSeq(a, 1, 1)) = 1 /\ SubSeq(a, 1, 1)[1] = a[1]
  BY SubSeqProperties DEF IsAddress
<1>2. ASSUME NEW s \in Seq(Int), Len(s) = 1 PROVE s = <<s[1]>>
  BY <1>2
<1>3. SubSeq(a, 1, 1) = <<a[1]>>
  BY <1>1, <1>2
<1>4. Len(<<x>>) = 1
  OBVIOUS
<1>5. QED
  BY <1>3, <1>4 DEF Matches, Entry

LEMMA MatchesHost ==
  ASSUME NEW a, IsAddress(a), NEW priority, NEW out, NEW b, IsAddress(b)
  PROVE  Matches(Entry(priority, b, out), a) <=> b = a
<1>1. SubSeq(a, 1, 3) = a
  BY SubSeqFull DEF IsAddress
<1>2. QED
  BY <1>1 DEF Matches, Entry, IsAddress

LEMMA Fields ==
  ASSUME NEW priority, NEW prefix, NEW out
  PROVE  Entry(priority, prefix, out).priority = priority /\ Entry(priority, prefix, out).out = out
BY DEF Entry

LEMMA Best ==
  ASSUME NEW n, NEW sw, NEW address, NEW best \in Entries(n, sw),
         Matches(best, address),
         \A f \in Entries(n, sw) : f.priority \in Int,
         \A f \in Entries(n, sw) :
            Matches(f, address) => f = best \/ f.priority < best.priority
  PROVE  Lookup(n, sw, address) = best.out
<1> DEFINE hit == {e \in Entries(n, sw) : Matches(e, address)}
           top == {e \in hit : \A f \in hit : f.priority <= e.priority}
<1>1. best \in top
  OBVIOUS
<1>2. \A e \in top : e = best
  OBVIOUS
<1>3. Lookup(n, sw, address) = UNION {e.out : e \in top}
  BY DEF Lookup
<1>4. top = {best}
  BY <1>1, <1>2
<1> HIDE DEF top
<1>5. QED
  BY <1>3, <1>4

(* The ports that switch x may send a packet for host i to lead to Y.      *)
Sends(n, x, i, Y) ==
    LET out == Lookup(n, x, Address(n, i))
    IN /\ out # {} /\ out \subseteq DOMAIN Ports[n][x]
       /\ {Ports[n][x][p] : p \in out} = Y

LEMMA SendsBy ==
  ASSUME NEW n, NEW x, NEW i, NEW p, NEW y,
         Lookup(n, x, Address(n, i)) = {p}, p \in DOMAIN Ports[n][x], Ports[n][x][p] = y
  PROVE  Sends(n, x, i, {y})
BY DEF Sends

-----------------------------------------------------------------------------
(* Which address a host has on its side of a dumbbell.                     *)
WestAddress(k) == <<1, (2 * k - 1) \div 510, (((2 * k - 1) % 510) + 1) \div 2>>
EastAddress(k) == <<2, (2 * k - 2) \div 510, (((2 * k - 2) % 510) + 2) \div 2>>

LEMMA SideAddress ==
  ASSUME NEW n \in Networks, n.kind = "dumbbell", NEW k \in Nat
  PROVE  /\ Address(n, 2 * k) = WestAddress(k)
         /\ Address(n, 2 * k - 1) = EastAddress(k)
         /\ SideOf(2 * k) = "west" /\ SideOf(2 * k - 1) = "east"
<1>1. SideOf(2 * k) = "west" /\ SideOf(2 * k - 1) = "east"
  BY DEF SideOf
<1>2. 2 * k - 1 - 1 = 2 * k - 2
  OBVIOUS
<1>3. QED
  BY <1>1, <1>2 DEF Address, WestAddress, EastAddress

LEMMA SideNumbers ==
  ASSUME NEW k \in Nat \ {0}, NEW m \in Nat \ {0}
  PROVE  /\ (2 * k - 1) \div 510 \in Int /\ (((2 * k - 1) % 510) + 1) \div 2 \in Int
         /\ (2 * k - 2) \div 510 \in Int /\ (((2 * k - 2) % 510) + 2) \div 2 \in Int
         /\ (2 * k - 1) \div 510 = (2 * m - 1) \div 510 /\
            (((2 * k - 1) % 510) + 1) \div 2 = (((2 * m - 1) % 510) + 1) \div 2 => k = m
         /\ (2 * k - 2) \div 510 = (2 * m - 2) \div 510 /\
            (((2 * k - 2) % 510) + 2) \div 2 = (((2 * m - 2) % 510) + 2) \div 2 => k = m
OBVIOUS

LEMMA SideEntries ==
  ASSUME NEW n \in Networks, n.kind = "dumbbell"
  PROVE  /\ Entries(n, West) =
              {Entry(10, WestAddress(k), {k + 1}) : k \in 1 .. n.hosts \div 2}
                \cup {Entry(10, <<2>>, {1})}
         /\ Entries(n, East) =
              {Entry(10, EastAddress(k), {k + 1}) : k \in 1 .. (n.hosts + 1) \div 2}
                \cup {Entry(10, <<1>>, {1})}
<1>1. n.hosts \in Nat
  BY NetworksAssumption
<1>3. /\ DOMAIN Side(n, "west") = 1 .. n.hosts \div 2
      /\ \A k \in 1 .. n.hosts \div 2 :
           k \in Nat /\ Address(n, Side(n, "west")[k]) = WestAddress(k)
  <2>1. \A k \in 1 .. n.hosts \div 2 : k \in Nat /\ Side(n, "west")[k] = 2 * k
    BY <1>1 DEF Side
  <2>2. QED
    BY <2>1, SideAddress DEF Side
<1>4. /\ DOMAIN Side(n, "east") = 1 .. (n.hosts + 1) \div 2
      /\ \A k \in 1 .. (n.hosts + 1) \div 2 :
           k \in Nat /\ Address(n, Side(n, "east")[k]) = EastAddress(k)
  <2>1. \A k \in 1 .. (n.hosts + 1) \div 2 : k \in Nat /\ Side(n, "east")[k] = 2 * k - 1
    BY <1>1 DEF Side
  <2>2. QED
    BY <2>1, SideAddress DEF Side
<1>5. /\ Entries(n, West) =
           {Entry(10, Address(n, Side(n, "west")[k]), {k + 1}) : k \in DOMAIN Side(n, "west")}
             \cup {Entry(10, <<2>>, {1})}
      /\ Entries(n, East) =
           {Entry(10, Address(n, Side(n, "east")[k]), {k + 1}) : k \in DOMAIN Side(n, "east")}
             \cup {Entry(10, <<1>>, {1})}
  <2>1. DumbbellEntries(n, West) =
          {Entry(10, Address(n, Side(n, "west")[k]), {k + 1}) : k \in DOMAIN Side(n, "west")}
            \cup {Entry(10, <<2>>, {1})}
    BY DEF DumbbellEntries
  <2>2. DumbbellEntries(n, East) =
          {Entry(10, Address(n, Side(n, "east")[k]), {k + 1}) : k \in DOMAIN Side(n, "east")}
            \cup {Entry(10, <<1>>, {1})}
    BY Apart DEF DumbbellEntries
  <2>3. QED
    BY <2>1, <2>2 DEF Entries
<1>6. {Entry(10, Address(n, Side(n, "west")[k]), {k + 1}) : k \in DOMAIN Side(n, "west")} =
      {Entry(10, WestAddress(k), {k + 1}) : k \in 1 .. n.hosts \div 2}
  BY <1>3
<1>7. {Entry(10, Address(n, Side(n, "east")[k]), {k + 1}) : k \in DOMAIN Side(n, "east")} =
      {Entry(10, EastAddress(k), {k + 1}) : k \in 1 .. (n.hosts + 1) \div 2}
  BY <1>4
<1>8. QED
  BY <1>5, <1>6, <1>7

(* The switch of a host looks up the host's own port, the other switch the *)
(* link between them.                                                      *)
LEMMA SideApart ==
  ASSUME NEW k \in Nat \ {0}, NEW m \in Nat \ {0}
  PROVE  /\ IsAddress(WestAddress(k)) /\ WestAddress(k)[1] = 1
         /\ IsAddress(EastAddress(k)) /\ EastAddress(k)[1] = 2
         /\ WestAddress(k) = WestAddress(m) => k = m
         /\ EastAddress(k) = EastAddress(m) => k = m
BY SideNumbers, Addressed DEF WestAddress, EastAddress

LEMMA WestLookup ==
  ASSUME NEW n \in Networks, n.kind = "dumbbell", NEW k \in 1 .. n.hosts \div 2
  PROVE  /\ Lookup(n, West, WestAddress(k)) = {k + 1}
         /\ Lookup(n, East, WestAddress(k)) = {1}
<1>1. n.hosts \in Nat /\ k \in Nat \ {0}
  BY NetworksAssumption
<1>2. PICK a : a = WestAddress(k)
  OBVIOUS
<1>3. IsAddress(a) /\ a[1] = 1
  BY <1>1, <1>2, SideApart
<1>4. Lookup(n, West, a) = {k + 1}
  <2>1. PICK best : best = Entry(10, WestAddress(k), {k + 1})
    OBVIOUS
  <2>2. best \in Entries(n, West) /\ Matches(best, a) /\ best.out = {k + 1}
    <3>1. best \in Entries(n, West)
      BY <2>1, SideEntries
    <3>2. Matches(best, a)
      BY <1>2, <1>3, <2>1, MatchesHost
    <3>3. best.out = {k + 1}
      BY <2>1, Fields
    <3>4. QED
      BY <3>1, <3>2, <3>3
  <2>3. ASSUME NEW f \in Entries(n, West)
        PROVE  f.priority \in Int /\ (Matches(f, a) => f = best)
    <3>1. CASE f = Entry(10, <<2>>, {1})
      <4>1. ~ Matches(f, a)
        BY <1>3, <3>1, MatchesNet
      <4>2. QED
        BY <3>1, <4>1, Fields
    <3>2. ASSUME NEW m \in 1 .. n.hosts \div 2, f = Entry(10, WestAddress(m), {m + 1})
          PROVE  f.priority \in Int /\ (Matches(f, a) => f = best)
      <4>1. m \in Nat \ {0}
        BY <1>1
      <4>2. Matches(f, a) => WestAddress(m) = WestAddress(k)
        BY <1>2, <1>3, <3>2, <4>1, SideApart, MatchesHost
      <4>3. Matches(f, a) => m = k
        BY <1>1, <4>1, <4>2, SideApart
      <4>4. f.priority = 10
        BY <3>2, Fields
      <4>5. m = k => f = best
        BY <2>1, <3>2
      <4>6. QED
        BY <4>3, <4>4, <4>5
    <3>3. QED
      BY <3>1, <3>2, SideEntries
  <2>4. QED
    BY <2>2, <2>3, Best
<1>5. Lookup(n, East, a) = {1}
  <2>1. PICK best : best = Entry(10, <<1>>, {1})
    OBVIOUS
  <2>2. best \in Entries(n, East) /\ Matches(best, a) /\ best.out = {1}
    BY <1>3, <2>1, SideEntries, MatchesNet, Fields
  <2>3. ASSUME NEW f \in Entries(n, East)
        PROVE  f.priority \in Int /\ (Matches(f, a) => f = best)
    <3>1. ASSUME NEW m \in Nat \ {0}, f = Entry(10, EastAddress(m), {m + 1})
          PROVE  f.priority \in Int /\ ~ Matches(f, a)
      <4>1. EastAddress(m) # a /\ IsAddress(EastAddress(m))
        BY <1>3, SideApart
      <4>2. QED
        BY <1>3, <3>1, <4>1, MatchesHost, Fields
    <3>2. CASE f = best
      <4>1. f.priority = 10
        BY <2>1, <3>2, Fields
      <4>2. QED
        BY <3>2, <4>1
    <3>3. \A m \in 1 .. (n.hosts + 1) \div 2 : m \in Nat \ {0}
      BY <1>1
    <3>4. f = best \/ \E m \in 1 .. (n.hosts + 1) \div 2 : f = Entry(10, EastAddress(m), {m + 1})
      BY <2>1, SideEntries
    <3>5. QED
      BY <3>1, <3>2, <3>3, <3>4
  <2>4. QED
    BY <2>2, <2>3, Best
<1>6. QED
  BY <1>2, <1>4, <1>5

LEMMA EastLookup ==
  ASSUME NEW n \in Networks, n.kind = "dumbbell", NEW k \in 1 .. (n.hosts + 1) \div 2
  PROVE  /\ Lookup(n, East, EastAddress(k)) = {k + 1}
         /\ Lookup(n, West, EastAddress(k)) = {1}
<1>1. n.hosts \in Nat /\ k \in Nat \ {0}
  BY NetworksAssumption
<1>2. PICK a : a = EastAddress(k)
  OBVIOUS
<1>3. IsAddress(a) /\ a[1] = 2
  BY <1>1, <1>2, SideApart
<1>4. Lookup(n, East, a) = {k + 1}
  <2>1. PICK best : best = Entry(10, EastAddress(k), {k + 1})
    OBVIOUS
  <2>2. best \in Entries(n, East) /\ Matches(best, a) /\ best.out = {k + 1}
    <3>1. best \in Entries(n, East)
      BY <2>1, SideEntries
    <3>2. Matches(best, a)
      BY <1>2, <1>3, <2>1, MatchesHost
    <3>3. best.out = {k + 1}
      BY <2>1, Fields
    <3>4. QED
      BY <3>1, <3>2, <3>3
  <2>3. ASSUME NEW f \in Entries(n, East)
        PROVE  f.priority \in Int /\ (Matches(f, a) => f = best)
    <3>1. CASE f = Entry(10, <<1>>, {1})
      <4>1. ~ Matches(f, a)
        BY <1>3, <3>1, MatchesNet
      <4>2. QED
        BY <3>1, <4>1, Fields
    <3>2. ASSUME NEW m \in 1 .. (n.hosts + 1) \div 2, f = Entry(10, EastAddress(m), {m + 1})
          PROVE  f.priority \in Int /\ (Matches(f, a) => f = best)
      <4>1. m \in Nat \ {0}
        BY <1>1
      <4>2. Matches(f, a) => EastAddress(m) = EastAddress(k)
        BY <1>2, <1>3, <3>2, <4>1, SideApart, MatchesHost
      <4>3. Matches(f, a) => m = k
        BY <1>1, <4>1, <4>2, SideApart
      <4>4. f.priority = 10
        BY <3>2, Fields
      <4>5. m = k => f = best
        BY <2>1, <3>2
      <4>6. QED
        BY <4>3, <4>4, <4>5
    <3>3. QED
      BY <3>1, <3>2, SideEntries
  <2>4. QED
    BY <2>2, <2>3, Best
<1>5. Lookup(n, West, a) = {1}
  <2>1. PICK best : best = Entry(10, <<2>>, {1})
    OBVIOUS
  <2>2. best \in Entries(n, West) /\ Matches(best, a) /\ best.out = {1}
    BY <1>3, <2>1, SideEntries, MatchesNet, Fields
  <2>3. ASSUME NEW f \in Entries(n, West)
        PROVE  f.priority \in Int /\ (Matches(f, a) => f = best)
    <3>1. ASSUME NEW m \in Nat \ {0}, f = Entry(10, WestAddress(m), {m + 1})
          PROVE  f.priority \in Int /\ ~ Matches(f, a)
      <4>1. WestAddress(m) # a /\ IsAddress(WestAddress(m))
        BY <1>3, SideApart
      <4>2. QED
        BY <1>3, <3>1, <4>1, MatchesHost, Fields
    <3>2. CASE f = best
      <4>1. f.priority = 10
        BY <2>1, <3>2, Fields
      <4>2. QED
        BY <3>2, <4>1
    <3>3. \A m \in 1 .. n.hosts \div 2 : m \in Nat \ {0}
      BY <1>1
    <3>4. f = best \/ \E m \in 1 .. n.hosts \div 2 : f = Entry(10, WestAddress(m), {m + 1})
      BY <2>1, SideEntries
    <3>5. QED
      BY <3>1, <3>2, <3>3, <3>4
  <2>4. QED
    BY <2>2, <2>3, Best
<1>6. QED
  BY <1>2, <1>4, <1>5

(* A host of a dumbbell is at the switch of its side, which is also where  *)
(* the other switch sends its packets.                                     *)
OwnSwitch(i) == IF SideOf(i) = "west" THEN West ELSE East
OtherSwitch(i) == IF SideOf(i) = "west" THEN East ELSE West

LEMMA DumbbellHops ==
  ASSUME NEW n \in Networks, n.kind = "dumbbell", NEW i \in 1 .. n.hosts
  PROVE  /\ DOMAIN Ports[n][Host(i)] = {1} /\ Ports[n][Host(i)][1] = OwnSwitch(i)
         /\ Sends(n, OwnSwitch(i), i, {Host(i)})
         /\ Sends(n, OtherSwitch(i), i, {OwnSwitch(i)})
<1>1. n.hosts \in Nat
  BY NetworksAssumption
<1>2. PICK w, e : w = n.hosts \div 2 /\ e = (n.hosts + 1) \div 2
  OBVIOUS
<1>3. /\ DumbbellWired(Links(n), w, e) /\ w + e = n.hosts
      /\ Nodes(n) = {Host(j) : j \in 1 .. w + e} \cup {West, East}
  <2>1. DumbbellWired(Links(n), w, e) /\ w + e = n.hosts
    BY <1>2, Dumbbell
  <2>2. Nodes(n) = {Host(j) : j \in 1 .. n.hosts} \cup {West, East}
    BY Dumbbell
  <2>3. QED
    BY <2>1, <2>2
<1>4. w \in Nat /\ e \in Nat
  BY <1>3 DEF DumbbellWired
<1>5. /\ DOMAIN Ports[n][West] = 1 .. 1 + w /\ Ports[n][West][1] = East
      /\ \A k \in 1 .. w : Ports[n][West][1 + k] = Host(2 * k)
      /\ DOMAIN Ports[n][East] = 1 .. 1 + e /\ Ports[n][East][1] = West
      /\ \A k \in 1 .. e : Ports[n][East][1 + k] = Host(2 * k - 1)
  BY <1>3, DumbbellPorts
<1>6. \A l \in 2 .. 1 + w + e, x \in Nodes(n) :
        x = Links(n)[l][2] => DOMAIN Ports[n][x] = {1} /\ Ports[n][x][1] = Links(n)[l][1]
  BY <1>3, DumbbellPorts
<1>7. Host(i) \in Nodes(n)
  BY <1>3
<1>8. ASSUME NEW k \in 1 .. w, i = 2 * k
      PROVE  /\ DOMAIN Ports[n][Host(i)] = {1} /\ Ports[n][Host(i)][1] = OwnSwitch(i)
             /\ Sends(n, OwnSwitch(i), i, {Host(i)})
             /\ Sends(n, OtherSwitch(i), i, {OwnSwitch(i)})
  <2>1. OwnSwitch(i) = West /\ OtherSwitch(i) = East /\ Address(n, i) = WestAddress(k)
    BY <1>4, <1>8, SideAddress DEF OwnSwitch, OtherSwitch
  <2>2. 1 + k \in 2 .. 1 + w /\ 1 + k \in 2 .. 1 + w + e /\ 2 * ((1 + k) - 1) = i
    BY <1>4, <1>8
  <2>3. Links(n)[1 + k] = <<West, Host(i)>>
    BY <1>3, <2>2 DEF DumbbellWired
  <2>4. DOMAIN Ports[n][Host(i)] = {1} /\ Ports[n][Host(i)][1] = West
    BY <1>6, <1>7, <2>2, <2>3
  <2>5. Lookup(n, West, WestAddress(k)) = {k + 1} /\ Lookup(n, East, WestAddress(k)) = {1}
    BY <1>2, WestLookup
  <2>6. k + 1 \in DOMAIN Ports[n][West] /\ Ports[n][West][k + 1] = Host(i)
    BY <1>4, <1>5, <1>8
  <2>7. 1 \in DOMAIN Ports[n][East]
    BY <1>4, <1>5
  <2>8. Sends(n, West, i, {Host(i)})
    BY <2>1, <2>5, <2>6, SendsBy
  <2>9. Sends(n, East, i, {West})
    BY <1>5, <2>1, <2>5, <2>7, SendsBy
  <2>10. QED
    BY <2>1, <2>4, <2>8, <2>9
<1>9. ASSUME NEW k \in 1 .. e, i = 2 * k - 1
      PROVE  /\ DOMAIN Ports[n][Host(i)] = {1} /\ Ports[n][Host(i)][1] = OwnSwitch(i)
             /\ Sends(n, OwnSwitch(i), i, {Host(i)})
             /\ Sends(n, OtherSwitch(i), i, {OwnSwitch(i)})
  <2>1. OwnSwitch(i) = East /\ OtherSwitch(i) = West /\ Address(n, i) = EastAddress(k)
    BY <1>4, <1>9, SideAddress DEF OwnSwitch, OtherSwitch
  <2>2. /\ 1 + w + k \in 2 + w .. 1 + w + e /\ 1 + w + k \in 2 .. 1 + w + e
        /\ 2 * ((1 + w + k) - 1 - w) - 1 = i
    BY <1>4, <1>9
  <2>3. Links(n)[1 + w + k] = <<East, Host(i)>>
    BY <1>3, <2>2 DEF DumbbellWired
  <2>4. DOMAIN Ports[n][Host(i)] = {1} /\ Ports[n][Host(i)][1] = East
    BY <1>6, <1>7, <2>2, <2>3
  <2>5. Lookup(n, East, EastAddress(k)) = {k + 1} /\ Lookup(n, West, EastAddress(k)) = {1}
    BY <1>2, EastLookup
  <2>6. k + 1 \in DOMAIN Ports[n][East] /\ Ports[n][East][k + 1] = Host(i)
    BY <1>4, <1>5, <1>9
  <2>7. 1 \in DOMAIN Ports[n][West]
    BY <1>4, <1>5
  <2>8. Sends(n, East, i, {Host(i)})
    BY <2>1, <2>5, <2>6, SendsBy
  <2>9. Sends(n, West, i, {East})
    BY <1>5, <2>1, <2>5, <2>7, SendsBy
  <2>10. QED
    BY <2>1, <2>4, <2>8, <2>9
<1>10. (\E k \in 1 .. w : i = 2 * k) \/ (\E k \in 1 .. e : i = 2 * k - 1)
  <2>1. \/ i \div 2 \in 1 .. w /\ i = 2 * (i \div 2)
        \/ (i + 1) \div 2 \in 1 .. e /\ i = 2 * ((i + 1) \div 2) - 1
    BY <1>1, <1>2
  <2>2. QED
    BY <2>1
<1>11. QED
  BY <1>8, <1>9, <1>10

-----------------------------------------------------------------------------
(* The nonblocking switch.                                                 *)
LEMMA NonblockPorts ==
  ASSUME NEW n \in Networks, n.kind = "nonblock"
  PROVE  /\ DOMAIN Ports[n][West] = 1 .. n.hosts
         /\ \A i \in 1 .. n.hosts : /\ Ports[n][West][i] = Host(i)
                                    /\ DOMAIN Ports[n][Host(i)] = {1}
                                    /\ Ports[n][Host(i)][1] = West
<1>1. PICK m \in Nat : m = n.hosts
  BY Nonblock
<1>2. /\ DOMAIN Links(n) = 1 .. m
      /\ \A l \in 1 .. m : Links(n)[l][1] = West /\ Links(n)[l][2] = Host(l)
      /\ West \in Nodes(n) /\ \A i \in 1 .. m : Host(i) \in Nodes(n)
  <2>1. \A l \in 1 .. m : Links(n)[l] = <<West, Host(l)>>
    BY <1>1, Nonblock
  <2>2. DOMAIN Links(n) = 1 .. m
    BY <1>1, Nonblock
  <2>3. West \in Nodes(n) /\ \A i \in 1 .. m : Host(i) \in Nodes(n)
    BY <1>1, Nonblock
  <2>4. QED
    BY <2>1, <2>2, <2>3
<1>3. PICK f \in [1 .. m -> Nat] : \A q \in 1 .. m : f[q] = q
  <2> DEFINE f == [q \in 1 .. m |-> q]
  <2>1. f \in [1 .. m -> Nat] /\ \A q \in 1 .. m : f[q] = q
    OBVIOUS
  <2>2. QED
    BY <2>1
<1>4. m \in Nat /\ f \in [1 .. m -> Nat]
  BY <1>3
<1>5. \A p, q \in 1 .. m : p < q => f[p] < f[q]
  BY <1>3
<1>6. LinksOf(Links(n), West) = {f[q] : q \in 1 .. m}
  BY <1>2, <1>3 DEF LinksOf
<1>7. DOMAIN Ports[n][West] = 1 .. m
  BY <1>2, <1>4, <1>5, <1>6, PortsAre
<1>8. \A p \in 1 .. m : Ports[n][West][p] = FarEnd(Links(n)[f[p]], West)
  BY <1>2, <1>4, <1>5, <1>6, PortsAre
<1>9. \A i \in 1 .. m : Ports[n][West][i] = Host(i)
  BY <1>2, <1>3, <1>8 DEF FarEnd
<1>10. ASSUME NEW i \in 1 .. m
       PROVE  DOMAIN Ports[n][Host(i)] = {1} /\ Ports[n][Host(i)][1] = West
  <2>1. LinksOf(Links(n), Host(i)) = {i}
    BY <1>2, Apart DEF LinksOf
  <2>2. Host(i) \in Nodes(n) /\ i \in Nat
    BY <1>2
  <2>3. DOMAIN Ports[n][Host(i)] = {1} /\ Ports[n][Host(i)][1] = FarEnd(Links(n)[i], Host(i))
    BY <2>1, <2>2, OnePort
  <2>4. QED
    BY <1>2, <2>3, Apart DEF FarEnd
<1>11. QED
  BY <1>1, <1>7, <1>9, <1>10

LEMMA NonblockHops ==
  ASSUME NEW n \in Networks, n.kind = "nonblock", NEW i \in 1 .. n.hosts
  PROVE  /\ DOMAIN Ports[n][Host(i)] = {1} /\ Ports[n][Host(i)][1] = West
         /\ Sends(n, West, i, {Host(i)})
<1>1. n.hosts \in Nat
  BY NetworksAssumption
<1>2. \A k : Address(n, k) = <<(k - 1) \div 2 + 1, 0, ((k - 1) % 2) + 1>>
  BY DEF Address
<1>3. \A k \in 1 .. n.hosts : IsAddress(Address(n, k))
  <2>1. \A k \in 1 .. n.hosts :
          (k - 1) \div 2 + 1 \in Int /\ 0 \in Int /\ ((k - 1) % 2) + 1 \in Int
    BY <1>1
  <2>2. QED
    BY <1>2, <2>1, Addressed
<1>4. \A k \in 1 .. n.hosts : Address(n, k) = Address(n, i) => k = i
  BY <1>1, <1>2
<1>5. Entries(n, West) = {Entry(10, Address(n, k), {k}) : k \in 1 .. n.hosts}
  BY DEF Entries, NonblockEntries
<1>6. PICK a, best : a = Address(n, i) /\ best = Entry(10, Address(n, i), {i})
  OBVIOUS
<1>7. best \in Entries(n, West) /\ best.out = {i}
  <2>1. best \in Entries(n, West)
    BY <1>5, <1>6
  <2>2. best.out = {i}
    BY <1>6, Fields
  <2>3. QED
    BY <2>1, <2>2
<1>8. Matches(best, a)
  BY <1>3, <1>6, MatchesHost
<1>9. ASSUME NEW f \in Entries(n, West)
      PROVE  f.priority \in Int /\ (Matches(f, a) => f = best)
  <2>1. PICK k \in 1 .. n.hosts : f = Entry(10, Address(n, k), {k})
    BY <1>5
  <2>2. f.priority = 10
    BY <2>1, Fields
  <2>3. Matches(f, a) => Address(n, k) = Address(n, i)
    BY <1>3, <1>6, <2>1, MatchesHost
  <2>4. Matches(f, a) => k = i
    BY <1>4, <2>3
  <2>5. k = i => f = best
    BY <1>6, <2>1
  <2>6. QED
    BY <2>2, <2>4, <2>5
<1>10. Lookup(n, West, a) = {i}
  BY <1>7, <1>8, <1>9, Best
<1>11. i \in DOMAIN Ports[n][West] /\ Ports[n][West][i] = Host(i)
  BY NonblockPorts
<1>12. QED
  BY <1>6, <1>10, <1>11, NonblockPorts, SendsBy

-----------------------------------------------------------------------------
(* Items in groups of d: which one an item is in, and at which place.      *)
LEMMA Grouped ==
  ASSUME NEW d \in Nat \ {0}, NEW i \in Nat \ {0}
  PROVE  /\ (i - 1) \div d \in Nat /\ ((i - 1) % d) + 1 \in 1 .. d
         /\ i = d * ((i - 1) \div d) + ((i - 1) % d) + 1
OBVIOUS

LEMMA InGroup ==
  ASSUME NEW d \in Nat \ {0}, NEW g \in Nat, NEW k \in 1 .. d
  PROVE  (d * g + k - 1) \div d = g /\ (d * g + k - 1) % d = k - 1
<1>1. PICK i : i = d * g + k - 1
  OBVIOUS
<1>2. d * g \in Nat
  OBVIOUS
<1>3. i \in Nat
  BY <1>1, <1>2
<1>4. PICK q, r : q = i \div d /\ r = i % d
  OBVIOUS
<1>5. q \in Nat /\ r \in 0 .. d - 1 /\ i = d * q + r
  BY <1>3, <1>4
<1>6. d * g + (k - 1) = d * q + r
  BY <1>1, <1>2, <1>5
<1>7. ~ (q < g)
  <2> SUFFICES ASSUME q < g PROVE FALSE
    OBVIOUS
  <2>1. d * (q + 1) <= d * g
    BY <1>5
  <2>2. d * (q + 1) = d * q + d
    BY <1>5
  <2>3. QED
    BY <1>2, <1>5, <1>6, <2>1, <2>2
<1>8. ~ (g < q)
  <2> SUFFICES ASSUME g < q PROVE FALSE
    OBVIOUS
  <2>1. d * (g + 1) <= d * q
    BY <1>5
  <2>2. d * (g + 1) = d * g + d
    OBVIOUS
  <2>3. QED
    BY <1>2, <1>5, <1>6, <2>1, <2>2
<1>9. q = g
  BY <1>5, <1>7, <1>8
<1>10. r = k - 1
  BY <1>2, <1>5, <1>6, <1>9
<1>11. QED
  BY <1>1, <1>4, <1>9, <1>10

(* The fat tree of fanout 4: 4 core, 8 aggregation and 8 edge switches.    *)
LEMMA TreeNodes ==
  /\ \A l, m, i, j : Switch(l, i) = Switch(m, j) <=> l = m /\ i = j
  /\ \A l \in 1 .. 3 : \A i, j : Host(i) # Switch(l, j)
  /\ \A l \in 1 .. 3 : \A j : Switch(l, j) # Dropped
BY DEF Switch, Host, Dropped

TreeWired(links, d) ==
    /\ d \in Nat \ {0}
    /\ DOMAIN links = 1 .. 32 + 8 * d
    /\ \A l \in 1 .. 16 : links[l] = <<Switch(1, ((l - 1) % 4) + 1), Switch(2, (l - 1) \div 2 + 1)>>
    /\ \A l \in 17 .. 32 :
         links[l] = <<Switch(2, (l - 17) \div 2 + 1),
                      Switch(3, 2 * ((l - 17) \div 4) + ((l - 17) % 2) + 1)>>
    /\ \A l \in 33 .. 32 + 8 * d : links[l] = <<Switch(3, (l - 33) \div d + 1), Host(l - 32)>>

LEMMA FattreeWired ==
  ASSUME NEW n \in Networks, n.kind = "fattree", n.fanout = 4
  PROVE  TreeWired(Links(n), Density(n))
<1>1. /\ Half(n) = 2 /\ Edges(n) = 8 /\ Pods(n) = 4
      /\ Density(n) \in Nat \ {0}
  BY FattreeSizes
<1>2. PICK d, c, g : d = Density(n) /\ c = Pods(n) * Half(n) * Half(n) /\ g = Edges(n) * Density(n)
  OBVIOUS
<1>3. c = 16 /\ d \in Nat \ {0} /\ g = 8 * d
  BY <1>1, <1>2
<1>4. /\ DOMAIN Links(n) = 1 .. c + c + g
      /\ \A l \in 1 .. c : Links(n)[l] = CoreLink(n, l)
      /\ \A l \in 1 .. c : Links(n)[c + l] = AggLink(n, l)
      /\ \A l \in 1 .. g : Links(n)[c + c + l] = EdgeLink(n, l)
  BY <1>2, Fattree
<1>5. DOMAIN Links(n) = 1 .. 32 + 8 * d
  BY <1>3, <1>4
<1>6. ASSUME NEW l \in 1 .. 16
      PROVE  /\ CoreLink(n, l) = <<Switch(1, ((l - 1) % 4) + 1), Switch(2, (l - 1) \div 2 + 1)>>
             /\ AggLink(n, l) = <<Switch(2, (l - 1) \div 2 + 1),
                                  Switch(3, 2 * ((l - 1) \div 4) + ((l - 1) % 2) + 1)>>
  <2>1. /\ Aggr(n, l) = ((l - 1) \div 2) % 2 /\ Other(n, l) = (l - 1) % 2
        /\ PodOfLink(n, l) = (l - 1) \div 4
    BY <1>1 DEF Aggr, Other, PodOfLink
  <2>2. /\ Aggr(n, l) * 2 + Other(n, l) = (l - 1) % 4
        /\ PodOfLink(n, l) * 2 + Aggr(n, l) = (l - 1) \div 2
        /\ PodOfLink(n, l) * 2 + Other(n, l) = 2 * ((l - 1) \div 4) + ((l - 1) % 2)
    BY <2>1
  <2>3. QED
    BY <1>1, <2>2 DEF CoreLink, AggLink, AggSwitch, CoreOf
<1>7. ASSUME NEW l \in 17 .. 32
      PROVE  Links(n)[l] = <<Switch(2, (l - 17) \div 2 + 1),
                             Switch(3, 2 * ((l - 17) \div 4) + ((l - 17) % 2) + 1)>>
  <2>1. l - 16 \in 1 .. 16 /\ l = c + (l - 16) /\ (l - 16) - 1 = l - 17
    BY <1>3
  <2>2. Links(n)[l] = AggLink(n, l - 16)
    BY <1>3, <1>4, <2>1
  <2>3. QED
    BY <1>6, <2>1, <2>2
<1>8. ASSUME NEW l \in 33 .. 32 + 8 * d
      PROVE  Links(n)[l] = <<Switch(3, (l - 33) \div d + 1), Host(l - 32)>>
  <2>1. l - 32 \in 1 .. g /\ l = c + c + (l - 32) /\ (l - 32) - 1 = l - 33
    BY <1>3
  <2>2. Links(n)[l] = EdgeLink(n, l - 32)
    BY <1>4, <2>1
  <2>3. QED
    BY <1>2, <2>1, <2>2 DEF EdgeLink
<1>9. \A l \in 1 .. 16 : Links(n)[l] = CoreLink(n, l)
  BY <1>3, <1>4
<1>10. TreeWired(Links(n), d)
  BY <1>3, <1>5, <1>6, <1>7, <1>8, <1>9 DEF TreeWired
<1>11. QED
  BY <1>2, <1>10

(* Which links are a node's.                                               *)
LEMMA TreeLinks ==
  ASSUME NEW links, NEW d, TreeWired(links, d), NEW y
  PROVE  /\ \A l \in 1 .. 16 : l \in LinksOf(links, y) <=>
              y = Switch(1, ((l - 1) % 4) + 1) \/ y = Switch(2, (l - 1) \div 2 + 1)
         /\ \A l \in 17 .. 32 : l \in LinksOf(links, y) <=>
              \/ y = Switch(2, (l - 17) \div 2 + 1)
              \/ y = Switch(3, 2 * ((l - 17) \div 4) + ((l - 17) % 2) + 1)
         /\ \A l \in 33 .. 32 + 8 * d : l \in LinksOf(links, y) <=>
              y = Switch(3, (l - 33) \div d + 1) \/ y = Host(l - 32)
         /\ \A l \in LinksOf(links, y) : l \in 1 .. 16 \/ l \in 17 .. 32 \/ l \in 33 .. 32 + 8 * d
<1>1. d \in Nat \ {0} /\ DOMAIN links = 1 .. 32 + 8 * d
  BY DEF TreeWired
<1>2. ASSUME NEW l \in DOMAIN links
      PROVE  l \in 1 .. 16 \/ l \in 17 .. 32 \/ l \in 33 .. 32 + 8 * d
  <2>1. l \in 1 .. 32 + 8 * d /\ 8 * d \in Nat
    BY <1>1
  <2>2. QED
    BY <2>1
<1>3. /\ \A l \in 1 .. 16 : l \in DOMAIN links
      /\ \A l \in 17 .. 32 : l \in DOMAIN links
      /\ \A l \in 33 .. 32 + 8 * d : l \in DOMAIN links
  BY <1>1
<1>4. \A l : l \in LinksOf(links, y) <=> l \in DOMAIN links /\ (links[l][1] = y \/ links[l][2] = y)
  BY DEF LinksOf
<1>5. ASSUME NEW l \in 1 .. 16
      PROVE  links[l][1] = Switch(1, ((l - 1) % 4) + 1) /\ links[l][2] = Switch(2, (l - 1) \div 2 + 1)
  <2>1. links[l] = <<Switch(1, ((l - 1) % 4) + 1), Switch(2, (l - 1) \div 2 + 1)>>
    BY Zenon DEF TreeWired
  <2>2. QED
    BY <2>1
<1>6. ASSUME NEW l \in 17 .. 32
      PROVE  /\ links[l][1] = Switch(2, (l - 17) \div 2 + 1)
             /\ links[l][2] = Switch(3, 2 * ((l - 17) \div 4) + ((l - 17) % 2) + 1)
  <2>1. links[l] = <<Switch(2, (l - 17) \div 2 + 1),
                     Switch(3, 2 * ((l - 17) \div 4) + ((l - 17) % 2) + 1)>>
    BY Zenon DEF TreeWired
  <2>2. QED
    BY <2>1
<1>7. ASSUME NEW l \in 33 .. 32 + 8 * d
      PROVE  links[l][1] = Switch(3, (l - 33) \div d + 1) /\ links[l][2] = Host(l - 32)
  <2>1. links[l] = <<Switch(3, (l - 33) \div d + 1), Host(l - 32)>>
    BY Zenon DEF TreeWired
  <2>2. QED
    BY <2>1
<1>8. \A l \in 1 .. 16 : l \in LinksOf(links, y) <=>
        y = Switch(1, ((l - 1) % 4) + 1) \/ y = Switch(2, (l - 1) \div 2 + 1)
  BY <1>3, <1>4, <1>5
<1>9. \A l \in 17 .. 32 : l \in LinksOf(links, y) <=>
        \/ y = Switch(2, (l - 17) \div 2 + 1)
        \/ y = Switch(3, 2 * ((l - 17) \div 4) + ((l - 17) % 2) + 1)
  BY <1>3, <1>4, <1>6
<1>10. \A l \in 33 .. 32 + 8 * d : l \in LinksOf(links, y) <=>
         y = Switch(3, (l - 33) \div d + 1) \/ y = Host(l - 32)
  BY <1>3, <1>4, <1>7
<1>11. QED
  BY <1>2, <1>4, <1>8, <1>9, <1>10

LEMMA CoreOwn ==
  ASSUME NEW links, NEW d, TreeWired(links, d), NEW x \in 1 .. 4
  PROVE  \A l : l \in LinksOf(links, Switch(1, x)) <=> l \in 1 .. 16 /\ ((l - 1) % 4) + 1 = x
<1>1. ASSUME NEW l \in 1 .. 16
      PROVE  l \in LinksOf(links, Switch(1, x)) <=> ((l - 1) % 4) + 1 = x
  BY TreeLinks, TreeNodes
<1>2. \A l \in 17 .. 32 : l \notin LinksOf(links, Switch(1, x))
  BY TreeLinks, TreeNodes
<1>3. \A l \in 33 .. 32 + 8 * d : l \notin LinksOf(links, Switch(1, x))
  BY TreeLinks, TreeNodes
<1>4. QED
  BY <1>1, <1>2, <1>3, TreeLinks

LEMMA AggOwn ==
  ASSUME NEW links, NEW d, TreeWired(links, d), NEW x \in 1 .. 8
  PROVE  \A l : l \in LinksOf(links, Switch(2, x)) <=>
                 \/ l \in 1 .. 16 /\ (l - 1) \div 2 + 1 = x
                 \/ l \in 17 .. 32 /\ (l - 17) \div 2 + 1 = x
<1>1. ASSUME NEW l \in 1 .. 16
      PROVE  l \in LinksOf(links, Switch(2, x)) <=> (l - 1) \div 2 + 1 = x
  BY TreeLinks, TreeNodes
<1>2. ASSUME NEW l \in 17 .. 32
      PROVE  l \in LinksOf(links, Switch(2, x)) <=> (l - 17) \div 2 + 1 = x
  BY TreeLinks, TreeNodes
<1>3. \A l \in 33 .. 32 + 8 * d : l \notin LinksOf(links, Switch(2, x))
  BY TreeLinks, TreeNodes
<1>4. QED
  BY <1>1, <1>2, <1>3, TreeLinks

AtEdge(l, d, x) ==
    \/ l \in 17 .. 32 /\ 2 * ((l - 17) \div 4) + ((l - 17) % 2) + 1 = x
    \/ l \in 33 .. 32 + 8 * d /\ (l - 33) \div d + 1 = x

LEMMA EdgeOwn ==
  ASSUME NEW links, NEW d, TreeWired(links, d), NEW x \in 1 .. 8
  PROVE  \A l : l \in LinksOf(links, Switch(3, x)) <=> AtEdge(l, d, x)
<1>1. \A l \in 1 .. 16 : l \notin LinksOf(links, Switch(3, x))
  BY TreeLinks, TreeNodes
<1>2. ASSUME NEW l \in 17 .. 32
      PROVE  l \in LinksOf(links, Switch(3, x)) <=>
               2 * ((l - 17) \div 4) + ((l - 17) % 2) + 1 = x
  BY TreeLinks, TreeNodes
<1>3. ASSUME NEW l \in 33 .. 32 + 8 * d
      PROVE  l \in LinksOf(links, Switch(3, x)) <=> (l - 33) \div d + 1 = x
  BY TreeLinks, TreeNodes
<1>4. QED
  BY <1>1, <1>2, <1>3, TreeLinks DEF AtEdge

LEMMA HostOwn ==
  ASSUME NEW links, NEW d, TreeWired(links, d), NEW i
  PROVE  \A l : l \in LinksOf(links, Host(i)) <=> l \in 33 .. 32 + 8 * d /\ l - 32 = i
<1>1. \A l \in 1 .. 16 : l \notin LinksOf(links, Host(i))
  BY TreeLinks, TreeNodes
<1>2. \A l \in 17 .. 32 : l \notin LinksOf(links, Host(i))
  BY TreeLinks, TreeNodes
<1>3. ASSUME NEW l \in 33 .. 32 + 8 * d
      PROVE  l \in LinksOf(links, Host(i)) <=> l - 32 = i
  BY TreeLinks, TreeNodes, Apart
<1>4. QED
  BY <1>1, <1>2, <1>3, TreeLinks

(* Where the ports of the fat tree lead.                                   *)
LEMMA TreeFacts ==
  ASSUME NEW n \in Networks, n.kind = "fattree", n.fanout = 4
  PROVE  /\ TreeWired(Links(n), Density(n)) /\ Density(n) \in Nat \ {0}
         /\ n.hosts \in Nat /\ 8 * Density(n) <= n.hosts
         /\ \A x \in 1 .. 4 : Switch(1, x) \in Nodes(n)
         /\ \A x \in 1 .. 8 : Switch(2, x) \in Nodes(n) /\ Switch(3, x) \in Nodes(n)
         /\ \A i \in 1 .. n.hosts : Host(i) \in Nodes(n)
<1>1. /\ Half(n) = 2 /\ Edges(n) = 8 /\ Density(n) \in Nat \ {0}
      /\ n.hosts \in Nat /\ Edges(n) * Density(n) \in 0 .. n.hosts
  BY FattreeSizes
<1>2. 8 * Density(n) <= n.hosts
  BY <1>1
<1>3. Half(n) * Half(n) = 4
  BY <1>1
<1>4. /\ \A x \in 1 .. 4 : Switch(1, x) \in Nodes(n)
      /\ \A x \in 1 .. 8 : Switch(2, x) \in Nodes(n) /\ Switch(3, x) \in Nodes(n)
      /\ \A i \in 1 .. n.hosts : Host(i) \in Nodes(n)
  BY <1>1, <1>3 DEF Nodes, Cores
<1>5. QED
  BY <1>1, <1>2, <1>4, FattreeWired

LEMMA FourPorts ==
  ASSUME NEW n \in Networks, NEW x \in Nodes(n), NEW f \in [1 .. 4 -> Nat],
         \A p, q \in 1 .. 4 : p < q => f[p] < f[q],
         LinksOf(Links(n), x) = {f[q] : q \in 1 .. 4}
  PROVE  /\ DOMAIN Ports[n][x] = 1 .. 4
         /\ \A p \in 1 .. 4 : Ports[n][x][p] = FarEnd(Links(n)[f[p]], x)
<1>1. PICK m \in Nat : m = 4
  OBVIOUS
<1>2. /\ m \in Nat /\ f \in [1 .. m -> Nat]
      /\ \A p, q \in 1 .. m : p < q => f[p] < f[q]
      /\ LinksOf(Links(n), x) = {f[q] : q \in 1 .. m}
  BY <1>1
<1>3. DOMAIN Ports[n][x] = 1 .. m
  BY <1>2, PortsAre
<1>4. \A p \in 1 .. m : Ports[n][x][p] = FarEnd(Links(n)[f[p]], x)
  BY <1>2, PortsAre
<1>5. QED
  BY <1>1, <1>3, <1>4

LEMMA CorePorts ==
  ASSUME NEW n \in Networks, n.kind = "fattree", n.fanout = 4, NEW x \in 1 .. 4
  PROVE  /\ DOMAIN Ports[n][Switch(1, x)] = 1 .. 4
         /\ \A p \in 1 .. 4 :
              Ports[n][Switch(1, x)][p] = Switch(2, 2 * (p - 1) + (x - 1) \div 2 + 1)
<1>1. PICK d, links, y : d = Density(n) /\ links = Links(n) /\ y = Switch(1, x)
  OBVIOUS
<1>2. TreeWired(links, d) /\ y \in Nodes(n)
  BY <1>1, TreeFacts
<1>3. PICK f \in [1 .. 4 -> Nat] : \A p \in 1 .. 4 : f[p] = x + 4 * (p - 1)
  <2> DEFINE f == [p \in 1 .. 4 |-> x + 4 * (p - 1)]
  <2>1. f \in [1 .. 4 -> Nat] /\ \A p \in 1 .. 4 : f[p] = x + 4 * (p - 1)
    OBVIOUS
  <2>2. QED
    BY <2>1
<1>4. f \in [1 .. 4 -> Nat]
  BY <1>3
<1>5. \A p, q \in 1 .. 4 : p < q => f[p] < f[q]
  BY <1>3
<1>6. LinksOf(Links(n), y) = {f[q] : q \in 1 .. 4}
  <2>1. \A l : l \in LinksOf(links, y) <=> l \in 1 .. 16 /\ ((l - 1) % 4) + 1 = x
    BY <1>1, <1>2, CoreOwn
  <2>2. ASSUME NEW l \in 1 .. 16, ((l - 1) % 4) + 1 = x PROVE \E q \in 1 .. 4 : l = f[q]
    <3>1. (l - 1) \div 4 + 1 \in 1 .. 4 /\ l = x + 4 * (((l - 1) \div 4 + 1) - 1)
      BY <2>2
    <3>2. QED
      BY <1>3, <3>1
  <2>3. ASSUME NEW q \in 1 .. 4 PROVE f[q] \in 1 .. 16 /\ ((f[q] - 1) % 4) + 1 = x
    BY <1>3
  <2>4. QED
    BY <1>1, <2>1, <2>2, <2>3
<1>7. DOMAIN Ports[n][y] = 1 .. 4
  BY <1>2, <1>4, <1>5, <1>6, FourPorts
<1>8. \A p \in 1 .. 4 : Ports[n][y][p] = FarEnd(Links(n)[f[p]], y)
  BY <1>2, <1>4, <1>5, <1>6, FourPorts
<1>9. ASSUME NEW p \in 1 .. 4
      PROVE  Ports[n][y][p] = Switch(2, 2 * (p - 1) + (x - 1) \div 2 + 1)
  <2>1. f[p] \in 1 .. 16 /\ (f[p] - 1) \div 2 = 2 * (p - 1) + (x - 1) \div 2
        /\ ((f[p] - 1) % 4) + 1 = x
    BY <1>3
  <2>2. links[f[p]] = <<Switch(1, ((f[p] - 1) % 4) + 1), Switch(2, (f[p] - 1) \div 2 + 1)>>
    BY <1>2, <2>1 DEF TreeWired
  <2>3. links[f[p]] = <<y, Switch(2, 2 * (p - 1) + (x - 1) \div 2 + 1)>>
    BY <1>1, <2>1, <2>2
  <2>4. QED
    BY <1>1, <1>8, <2>3 DEF FarEnd
<1>10. QED
  BY <1>1, <1>7, <1>9

LEMMA AggPorts ==
  ASSUME NEW n \in Networks, n.kind = "fattree", n.fanout = 4, NEW x \in 1 .. 8
  PROVE  LET far == Ports[n][Switch(2, x)] IN
         /\ DOMAIN far = 1 .. 4
         /\ far[1] = Switch(1, ((2 * x - 2) % 4) + 1) /\ far[2] = Switch(1, ((2 * x - 1) % 4) + 1)
         /\ far[3] = Switch(3, 2 * ((x - 1) \div 2) + 1)
         /\ far[4] = Switch(3, 2 * ((x - 1) \div 2) + 2)
<1>1. PICK d, links, y : d = Density(n) /\ links = Links(n) /\ y = Switch(2, x)
  OBVIOUS
<1>2. TreeWired(links, d) /\ y \in Nodes(n)
  BY <1>1, TreeFacts
<1>3. PICK f \in [1 .. 4 -> Nat] :
        f[1] = 2 * x - 1 /\ f[2] = 2 * x /\ f[3] = 15 + 2 * x /\ f[4] = 16 + 2 * x
  <2> DEFINE f == [p \in 1 .. 4 |-> IF p <= 2 THEN 2 * x - 2 + p ELSE 12 + 2 * x + p]
  <2>1. f \in [1 .. 4 -> Nat]
    OBVIOUS
  <2>2. f[1] = 2 * x - 1 /\ f[2] = 2 * x /\ f[3] = 15 + 2 * x /\ f[4] = 16 + 2 * x
    OBVIOUS
  <2>3. QED
    BY <2>1, <2>2
<1>4. f \in [1 .. 4 -> Nat]
  BY <1>3
<1>5. \A p, q \in 1 .. 4 : p < q => f[p] < f[q]
  BY <1>3
<1>6. LinksOf(Links(n), y) = {f[q] : q \in 1 .. 4}
  <2>1. \A l : l \in LinksOf(links, y) <=>
                 \/ l \in 1 .. 16 /\ (l - 1) \div 2 + 1 = x
                 \/ l \in 17 .. 32 /\ (l - 17) \div 2 + 1 = x
    <3>1. \A l : l \in LinksOf(links, Switch(2, x)) <=>
                   \/ l \in 1 .. 16 /\ (l - 1) \div 2 + 1 = x
                   \/ l \in 17 .. 32 /\ (l - 17) \div 2 + 1 = x
      BY <1>2, AggOwn
    <3>2. QED
      BY <1>1, <3>1
  <2>2. ASSUME NEW l \in LinksOf(links, y) PROVE \E q \in 1 .. 4 : l = f[q]
    <3>1. l = 2 * x - 1 \/ l = 2 * x \/ l = 15 + 2 * x \/ l = 16 + 2 * x
      BY <2>1
    <3>2. QED
      BY <1>3, <3>1
  <2>3. ASSUME NEW q \in 1 .. 4 PROVE f[q] \in LinksOf(links, y)
    <3>1. \/ f[q] \in 1 .. 16 /\ (f[q] - 1) \div 2 + 1 = x
          \/ f[q] \in 17 .. 32 /\ (f[q] - 17) \div 2 + 1 = x
      BY <1>3
    <3>2. QED
      BY <2>1, <3>1
  <2>4. QED
    BY <1>1, <2>2, <2>3
<1>7. DOMAIN Ports[n][y] = 1 .. 4
  BY <1>2, <1>4, <1>5, <1>6, FourPorts
<1>8. \A p \in 1 .. 4 : Ports[n][y][p] = FarEnd(Links(n)[f[p]], y)
  BY <1>2, <1>4, <1>5, <1>6, FourPorts
<1>9. ASSUME NEW l \in 1 .. 16, (l - 1) \div 2 + 1 = x
      PROVE  FarEnd(links[l], y) = Switch(1, ((l - 1) % 4) + 1)
  <2>1. links[l] = <<Switch(1, ((l - 1) % 4) + 1), y>>
    BY <1>1, <1>2, <1>9 DEF TreeWired
  <2>2. QED
    BY <1>1, <2>1, TreeNodes DEF FarEnd
<1>10. ASSUME NEW l \in 17 .. 32, (l - 17) \div 2 + 1 = x
       PROVE  FarEnd(links[l], y) = Switch(3, 2 * ((l - 17) \div 4) + ((l - 17) % 2) + 1)
  <2>1. links[l] = <<y, Switch(3, 2 * ((l - 17) \div 4) + ((l - 17) % 2) + 1)>>
    BY <1>1, <1>2, <1>10 DEF TreeWired
  <2>2. QED
    BY <2>1 DEF FarEnd
<1>11. /\ Ports[n][y][1] = Switch(1, ((2 * x - 2) % 4) + 1)
       /\ Ports[n][y][2] = Switch(1, ((2 * x - 1) % 4) + 1)
  <2>1. /\ 2 * x - 1 \in 1 .. 16 /\ (2 * x - 1 - 1) \div 2 + 1 = x /\ 2 * x - 1 - 1 = 2 * x - 2
        /\ 2 * x \in 1 .. 16 /\ (2 * x - 1) \div 2 + 1 = x
    OBVIOUS
  <2>2. FarEnd(links[2 * x - 1], y) = Switch(1, ((2 * x - 2) % 4) + 1)
    BY <1>9, <2>1
  <2>3. FarEnd(links[2 * x], y) = Switch(1, ((2 * x - 1) % 4) + 1)
    BY <1>9, <2>1
  <2>4. QED
    BY <1>1, <1>3, <1>8, <2>2, <2>3
<1>12. /\ Ports[n][y][3] = Switch(3, 2 * ((x - 1) \div 2) + 1)
       /\ Ports[n][y][4] = Switch(3, 2 * ((x - 1) \div 2) + 2)
  <2>1. /\ 15 + 2 * x \in 17 .. 32 /\ (15 + 2 * x - 17) \div 2 + 1 = x
        /\ 16 + 2 * x \in 17 .. 32 /\ (16 + 2 * x - 17) \div 2 + 1 = x
    OBVIOUS
  <2>2. /\ 2 * ((15 + 2 * x - 17) \div 4) + ((15 + 2 * x - 17) % 2) + 1 = 2 * ((x - 1) \div 2) + 1
        /\ 2 * ((16 + 2 * x - 17) \div 4) + ((16 + 2 * x - 17) % 2) + 1 = 2 * ((x - 1) \div 2) + 2
    OBVIOUS
  <2>3. FarEnd(links[15 + 2 * x], y) = Switch(3, 2 * ((x - 1) \div 2) + 1)
    BY <1>10, <2>1, <2>2
  <2>4. FarEnd(links[16 + 2 * x], y) = Switch(3, 2 * ((x - 1) \div 2) + 2)
    BY <1>10, <2>1, <2>2
  <2>5. QED
    BY <1>1, <1>3, <1>8, <2>3, <2>4
<1>13. QED
  BY <1>1, <1>7, <1>11, <1>12

LEMMA EdgePorts ==
  ASSUME NEW n \in Networks, n.kind = "fattree", n.fanout = 4, NEW x \in 1 .. 8
  PROVE  LET far == Ports[n][Switch(3, x)] IN
         /\ DOMAIN far = 1 .. 2 + Density(n)
         /\ far[1] = Switch(2, 2 * ((x - 1) \div 2) + 1)
         /\ far[2] = Switch(2, 2 * ((x - 1) \div 2) + 2)
         /\ \A k \in 1 .. Density(n) : far[2 + k] = Host(Density(n) * (x - 1) + k)
<1>1. PICK d, links, y : d = Density(n) /\ links = Links(n) /\ y = Switch(3, x)
  OBVIOUS
<1>2. TreeWired(links, d) /\ y \in Nodes(n) /\ d \in Nat \ {0}
  BY <1>1, TreeFacts
<1>3. PICK b, u, m : b = d * (x - 1) /\ u = 17 + 4 * ((x - 1) \div 2) + ((x - 1) % 2) /\ m = 2 + d
  OBVIOUS
<1>4. /\ b \in Nat /\ b + d <= 8 * d /\ m \in Nat
      /\ u \in 17 .. 32 /\ u + 2 \in 17 .. 32
  <2>1. u \in 17 .. 32 /\ u + 2 \in 17 .. 32
    BY <1>3
  <2>2. d * (x - 1) \in Nat
    BY <1>2
  <2>3. d * (x - 1) + d = d * x
    BY <1>2
  <2>4. d * x <= d * 8
    BY <1>2
  <2>5. QED
    BY <1>2, <1>3, <2>1, <2>2, <2>3, <2>4
<1>5. PICK f \in [1 .. m -> Nat] :
        f[1] = u /\ f[2] = u + 2 /\ \A q \in 3 .. m : f[q] = 30 + b + q
  <2> DEFINE f == [q \in 1 .. m |-> IF q = 1 THEN u ELSE IF q = 2 THEN u + 2 ELSE 30 + b + q]
  <2>1. f \in [1 .. m -> Nat]
    BY <1>4
  <2>2. 1 \in 1 .. m /\ 2 \in 1 .. m
    BY <1>2, <1>3
  <2>3. f[1] = u /\ f[2] = u + 2 /\ \A q \in 3 .. m : f[q] = 30 + b + q
    BY <1>4, <2>2
  <2>4. QED
    BY <2>1, <2>3
<1>6. \A q \in 1 .. m : q = 1 \/ q = 2 \/ q \in 3 .. m
  BY <1>4
<1>7. ASSUME NEW p \in 1 .. m, NEW q \in 1 .. m, p < q PROVE f[p] < f[q]
  <2>1. CASE q = 2
    <3>1. p = 1
      BY <1>4, <1>7, <2>1
    <3>2. QED
      BY <1>4, <1>5, <2>1, <3>1
  <2>2. CASE q \in 3 .. m
    <3>1. f[q] = 30 + b + q /\ q >= 3
      BY <1>4, <1>5, <2>2
    <3>2. f[p] = u \/ f[p] = u + 2 \/ f[p] = 30 + b + p
      BY <1>5, <1>6
    <3>3. QED
      BY <1>4, <1>7, <2>2, <3>1, <3>2
  <2>3. q # 1
    BY <1>4, <1>7
  <2>4. QED
    BY <1>6, <2>1, <2>2, <2>3
<1>8. \A l : l \in LinksOf(links, y) <=> AtEdge(l, d, x)
  <2>1. \A l : l \in LinksOf(links, Switch(3, x)) <=> AtEdge(l, d, x)
    BY <1>2, EdgeOwn
  <2>2. QED
    BY <1>1, <2>1
<1>9. ASSUME NEW l \in 17 .. 32
      PROVE  2 * ((l - 17) \div 4) + ((l - 17) % 2) + 1 = x <=> l \in {u, u + 2}
  BY <1>3
<1>10. ASSUME NEW k \in 1 .. d, NEW l, l = 32 + b + k
       PROVE  l \in 33 .. 32 + 8 * d /\ (l - 33) \div d + 1 = x
  <2>1. (d * (x - 1) + k - 1) \div d = x - 1
    <3>1. x - 1 \in Nat
      OBVIOUS
    <3>2. QED
      BY <1>2, <3>1, InGroup
  <2>2. l - 33 = d * (x - 1) + k - 1
    BY <1>3, <1>4, <1>10
  <2>3. (l - 33) \div d = x - 1
    BY <2>1, <2>2
  <2>4. l \in 33 .. 32 + 8 * d
    BY <1>2, <1>4, <1>10
  <2>5. QED
    BY <2>3, <2>4
<1>11. ASSUME NEW l \in 33 .. 32 + 8 * d, (l - 33) \div d + 1 = x
       PROVE  l - 32 - b \in 1 .. d
  <2>1. PICK i \in Nat \ {0} : i = l - 32
    BY <1>2
  <2>2. i - 1 = l - 33
    BY <1>2, <2>1
  <2>3. PICK g, r : g = (i - 1) \div d /\ r = ((i - 1) % d) + 1
    OBVIOUS
  <2>4. g \in Nat /\ r \in 1 .. d
    BY <1>2, <2>3, Grouped
  <2>5. i = d * g + r
    <3>1. i = d * ((i - 1) \div d) + ((i - 1) % d) + 1
      BY <1>2, Grouped
    <3>2. PICK a : a = (i - 1) % d
      OBVIOUS
    <3>3. a \in Nat /\ r = a + 1
      BY <1>2, <2>3, <3>2
    <3>4. i = d * g + a + 1
      BY <2>3, <3>1, <3>2
    <3>5. d * g \in Nat
      BY <1>2, <2>4
    <3>6. QED
      BY <3>3, <3>4, <3>5
  <2>6. g + 1 = x
    BY <1>11, <2>2, <2>3
  <2>7. g = x - 1
    BY <2>4, <2>6
  <2>8. i = b + r
    BY <1>3, <2>5, <2>7
  <2>9. QED
    BY <1>2, <1>4, <2>1, <2>4, <2>8
<1>12. LinksOf(Links(n), y) = {f[q] : q \in 1 .. m}
  <2>1. ASSUME NEW l \in LinksOf(links, y) PROVE \E q \in 1 .. m : l = f[q]
    <3>1. CASE l \in {u, u + 2}
      <4>1. 1 \in 1 .. m /\ 2 \in 1 .. m
        BY <1>2, <1>3
      <4>2. QED
        BY <1>5, <3>1, <4>1
    <3>2. CASE l \in 33 .. 32 + 8 * d /\ (l - 33) \div d + 1 = x
      <4>1. l - 32 - b \in 1 .. d
        BY <1>11, <3>2
      <4>2. l - 30 - b \in 3 .. m /\ l - 30 - b \in 1 .. m /\ l = 30 + b + (l - 30 - b)
        BY <1>2, <1>3, <1>4, <3>2, <4>1
      <4>3. l = f[l - 30 - b]
        BY <1>5, <4>2
      <4>4. QED
        BY <4>2, <4>3
    <3>3. AtEdge(l, d, x)
      BY <1>8
    <3>4. QED
      BY <1>9, <3>1, <3>2, <3>3 DEF AtEdge
  <2>2. ASSUME NEW q \in 1 .. m PROVE f[q] \in LinksOf(links, y)
    <3>1. u \in LinksOf(links, y) /\ u + 2 \in LinksOf(links, y)
      <4>1. \A l \in {u, u + 2} : AtEdge(l, d, x)
        BY <1>4, <1>9 DEF AtEdge
      <4>2. QED
        BY <1>8, <4>1
    <3>2. CASE q \in 3 .. m
      <4>1. PICK k \in 1 .. d : k = q - 2
        BY <1>2, <1>3, <1>4, <3>2
      <4>2. f[q] = 32 + b + k
        BY <1>2, <1>4, <1>5, <3>2, <4>1
      <4>3. PICK l : l = 32 + b + k
        OBVIOUS
      <4>4. l \in 33 .. 32 + 8 * d /\ (l - 33) \div d + 1 = x
        BY <1>10, <4>1, <4>3
      <4>5. AtEdge(l, d, x)
        BY <4>4 DEF AtEdge
      <4>6. QED
        BY <1>8, <4>2, <4>3, <4>5
    <3>3. QED
      BY <1>5, <1>6, <3>1, <3>2
  <2>3. QED
    BY <1>1, <2>1, <2>2
<1>13. m \in Nat /\ f \in [1 .. m -> Nat]
  BY <1>4, <1>5
<1>14. /\ DOMAIN Ports[n][y] = 1 .. m
       /\ \A p \in 1 .. m : Ports[n][y][p] = FarEnd(Links(n)[f[p]], y)
  <2>1. y \in Nodes(n)
    BY <1>2
  <2>2. \A p, q \in 1 .. m : p < q => f[p] < f[q]
    BY <1>7
  <2>3. DOMAIN Ports[n][y] = 1 .. m
    BY <1>12, <1>13, <2>1, <2>2, PortsAre
  <2>4. \A p \in 1 .. m : Ports[n][y][p] = FarEnd(Links(n)[f[p]], y)
    BY <1>12, <1>13, <2>1, <2>2, PortsAre
  <2>5. QED
    BY <2>3, <2>4
<1>16. /\ Ports[n][y][1] = Switch(2, 2 * ((x - 1) \div 2) + 1)
       /\ Ports[n][y][2] = Switch(2, 2 * ((x - 1) \div 2) + 2)
  <2>1. ASSUME NEW l \in {u, u + 2}
        PROVE  FarEnd(links[l], y) = Switch(2, (l - 17) \div 2 + 1)
    <3>1. l \in 17 .. 32
      BY <1>4
    <3>2. links[l] = <<Switch(2, (l - 17) \div 2 + 1),
                       Switch(3, 2 * ((l - 17) \div 4) + ((l - 17) % 2) + 1)>>
      BY <1>2, <3>1 DEF TreeWired
    <3>3. links[l] = <<Switch(2, (l - 17) \div 2 + 1), y>>
      BY <1>1, <1>9, <3>1, <3>2
    <3>4. QED
      BY <1>1, <3>3, TreeNodes DEF FarEnd
  <2>2. (u - 17) \div 2 = 2 * ((x - 1) \div 2) /\ (u + 2 - 17) \div 2 = 2 * ((x - 1) \div 2) + 1
    BY <1>3
  <2>3. 1 \in 1 .. m /\ 2 \in 1 .. m
    BY <1>2, <1>3
  <2>4. Ports[n][y][1] = FarEnd(links[u], y) /\ Ports[n][y][2] = FarEnd(links[u + 2], y)
    BY <1>1, <1>5, <1>14, <2>3
  <2>5. FarEnd(links[u], y) = Switch(2, 2 * ((x - 1) \div 2) + 1)
    BY <2>1, <2>2
  <2>6. 2 * ((x - 1) \div 2) + 1 + 1 = 2 * ((x - 1) \div 2) + 2
    OBVIOUS
  <2>7. FarEnd(links[u + 2], y) = Switch(2, 2 * ((x - 1) \div 2) + 2)
    <3>1. PICK v : v = u + 2
      OBVIOUS
    <3>2. FarEnd(links[v], y) = Switch(2, (v - 17) \div 2 + 1)
      BY <2>1, <3>1
    <3>3. (v - 17) \div 2 + 1 = 2 * ((x - 1) \div 2) + 2
      BY <1>3, <3>1
    <3>4. QED
      BY <3>1, <3>2, <3>3
  <2>8. QED
    BY <2>4, <2>5, <2>7
<1>17. ASSUME NEW k \in 1 .. d PROVE Ports[n][y][2 + k] = Host(b + k)
  <2>1. 2 + k \in 3 .. m /\ 2 + k \in 1 .. m /\ 30 + b + (2 + k) = 32 + b + k
    BY <1>2, <1>3, <1>4
  <2>2. Ports[n][y][2 + k] = FarEnd(links[32 + b + k], y)
    BY <1>1, <1>5, <1>14, <2>1
  <2>3. PICK l : l = 32 + b + k
    OBVIOUS
  <2>4. l \in 33 .. 32 + 8 * d /\ (l - 33) \div d + 1 = x /\ l - 32 = b + k
    <3>1. l - 32 = b + k
      BY <1>4, <2>3
    <3>2. l \in 33 .. 32 + 8 * d /\ (l - 33) \div d + 1 = x
      BY <1>10, <1>17, <2>3
    <3>3. QED
      BY <3>1, <3>2
  <2>5. links[l] = <<Switch(3, (l - 33) \div d + 1), Host(l - 32)>>
    BY <1>2, <2>4 DEF TreeWired
  <2>6. links[l] = <<y, Host(b + k)>>
    BY <1>1, <2>4, <2>5
  <2>7. QED
    BY <2>2, <2>3, <2>6 DEF FarEnd
<1>18. QED
  BY <1>1, <1>3, <1>14, <1>16, <1>17

(* Hosts beyond those of the last edge switch have no link.                *)
LEMMA TreeHostPorts ==
  ASSUME NEW n \in Networks, n.kind = "fattree", n.fanout = 4, NEW i \in 1 .. n.hosts
  PROVE  IF i <= 8 * Density(n)
         THEN /\ DOMAIN Ports[n][Host(i)] = {1}
              /\ Ports[n][Host(i)][1] = Switch(3, (i - 1) \div Density(n) + 1)
         ELSE DOMAIN Ports[n][Host(i)] = {}
<1>1. PICK d, links : d = Density(n) /\ links = Links(n)
  OBVIOUS
<1>2. TreeWired(links, d) /\ Host(i) \in Nodes(n) /\ d \in Nat \ {0} /\ n.hosts \in Nat
  BY <1>1, TreeFacts
<1>3. \A l : l \in LinksOf(links, Host(i)) <=> l \in 33 .. 32 + 8 * d /\ l - 32 = i
  BY <1>2, HostOwn
<1>4. CASE i <= 8 * d
  <2>1. 32 + i \in 33 .. 32 + 8 * d /\ 32 + i \in Nat /\ (32 + i) - 32 = i /\ (32 + i) - 33 = i - 1
    BY <1>2, <1>4
  <2>2. LinksOf(Links(n), Host(i)) = {32 + i}
    BY <1>1, <1>3, <2>1
  <2>3. DOMAIN Ports[n][Host(i)] = {1} /\ Ports[n][Host(i)][1] = FarEnd(Links(n)[32 + i], Host(i))
    BY <1>2, <2>1, <2>2, OnePort
  <2>4. links[32 + i] = <<Switch(3, (i - 1) \div d + 1), Host(i)>>
    BY <1>2, <2>1 DEF TreeWired
  <2>5. FarEnd(links[32 + i], Host(i)) = Switch(3, (i - 1) \div d + 1)
    BY <2>4, TreeNodes DEF FarEnd
  <2>6. QED
    BY <1>1, <1>4, <2>3, <2>5
<1>5. CASE ~ (i <= 8 * d)
  <2>1. LinksOf(Links(n), Host(i)) = {}
    <3>1. ~ (32 + i \in 33 .. 32 + 8 * d)
      BY <1>2, <1>5
    <3>2. \A l \in 33 .. 32 + 8 * d : l - 32 # i
      BY <1>2, <1>5
    <3>3. QED
      BY <1>1, <1>3, <3>2
  <2>2. DOMAIN Ports[n][Host(i)] = {}
    BY <1>2, <2>1 DEF Ports
  <2>3. QED
    BY <1>1, <1>5, <2>2
<1>6. QED
  BY <1>4, <1>5


-----------------------------------------------------------------------------
(* The number of the edge switch of a host and its place there.            *)
EdgeOf(n, i) == (i - 1) \div Density(n) + 1
PlaceOf(n, i) == ((i - 1) % Density(n)) + 1

LEMMA TreeAddress ==
  ASSUME NEW n \in Networks, n.kind = "fattree", n.fanout = 4, NEW i \in 1 .. n.hosts
  PROVE  /\ Address(n, i) = <<EdgeOf(n, i), 0, PlaceOf(n, i)>> /\ IsAddress(Address(n, i))
         /\ EdgeOf(n, i) \in Nat \ {0} /\ PlaceOf(n, i) \in 1 .. Density(n)
         /\ Density(n) * (EdgeOf(n, i) - 1) + PlaceOf(n, i) = i
         /\ i <= 8 * Density(n) <=> EdgeOf(n, i) <= 8
<1>1. PICK d : d = Density(n)
  OBVIOUS
<1>2. d \in Nat \ {0} /\ i \in Nat \ {0}
  BY <1>1, TreeFacts
<1>3. PICK g, r : g = (i - 1) \div d /\ r = (i - 1) % d
  OBVIOUS
<1>4. g \in Nat /\ r \in 0 .. d - 1 /\ i = d * g + r + 1
  BY <1>2, <1>3
<1>5. EdgeOf(n, i) = g + 1 /\ PlaceOf(n, i) = r + 1
  BY <1>1, <1>3 DEF EdgeOf, PlaceOf
<1>6. Address(n, i) = <<g + 1, 0, r + 1>>
  BY <1>1, <1>3 DEF Address
<1>7. IsAddress(Address(n, i))
  BY <1>4, <1>6, Addressed
<1>8. g + 1 - 1 = g /\ d * g \in Nat
  BY <1>2, <1>4
<1>9. Density(n) * (EdgeOf(n, i) - 1) + PlaceOf(n, i) = i
  <2>1. EdgeOf(n, i) - 1 = g
    BY <1>4, <1>5
  <2>2. Density(n) * (EdgeOf(n, i) - 1) = d * g
    BY <1>1, <2>1
  <2>3. d * g + (r + 1) = i
    BY <1>4, <1>8
  <2>4. QED
    BY <1>5, <2>2, <2>3
<1>10. i <= 8 * d <=> g + 1 <= 8
  <2>1. CASE g <= 7
    <3>1. d * g <= d * 7
      BY <1>2, <1>4, <2>1
    <3>2. QED
      BY <1>2, <1>4, <1>8, <2>1, <3>1
  <2>2. CASE g >= 8
    <3>1. d * g >= d * 8
      BY <1>2, <1>4, <2>2
    <3>2. QED
      BY <1>2, <1>4, <1>8, <2>2, <3>1
  <2>3. QED
    BY <1>4, <2>1, <2>2
<1>11. EdgeOf(n, i) \in Nat \ {0} /\ PlaceOf(n, i) \in 1 .. Density(n)
  BY <1>1, <1>2, <1>4, <1>5
<1>12. Address(n, i) = <<EdgeOf(n, i), 0, PlaceOf(n, i)>>
  BY <1>5, <1>6
<1>13. i <= 8 * Density(n) <=> EdgeOf(n, i) <= 8
  BY <1>1, <1>5, <1>10
<1>14. QED
  BY <1>7, <1>9, <1>11, <1>12, <1>13

(* The flow entries of the switches of a fat tree.                         *)
Up == Entry(10, << >>, 1 .. 2)
LEMMA TreeEntries ==
  ASSUME NEW n \in Networks, n.kind = "fattree", n.fanout = 4
  PROVE  /\ \A c \in 1 .. 4 :
              Entries(n, Switch(1, c)) = {Entry(10, <<k>>, {(k - 1) \div 2 + 1}) : k \in 1 .. 8}
         /\ \A a \in 1 .. 8 :
              Entries(n, Switch(2, a)) = {Entry(40, <<2 * ((a - 1) \div 2) + 1>>, {3}),
                                          Entry(40, <<2 * ((a - 1) \div 2) + 2>>, {4}), Up}
         /\ \A x \in 1 .. 8 :
              Entries(n, Switch(3, x)) =
                {Entry(40, <<x, 0, k>>, {2 + k}) : k \in 1 .. Density(n)} \cup {Up}
<1>1. Half(n) = 2 /\ Edges(n) = 8 /\ Upwards(n) = Up
  <2>1. Half(n) = 2 /\ Edges(n) = 8
    BY FattreeSizes
  <2>2. QED
    BY <2>1 DEF Upwards, Up
<1>2. /\ \A l, x : Level(Switch(l, x)) = l
      /\ \A l : \A x \in 1 .. 8 : NumberOf(Switch(l, x)) = x
  BY DEF Level, Switch, NumberOf
<1>3. \A sw : Entries(n, sw) = FattreeEntries(n, sw)
  BY DEF Entries
<1>4. ASSUME NEW c \in 1 .. 4
      PROVE  Entries(n, Switch(1, c)) =
               {Entry(10, <<k>>, {(k - 1) \div 2 + 1}) : k \in 1 .. 8}
  <2>1. Entries(n, Switch(1, c)) = CoreEntries(n)
    BY <1>2, <1>3 DEF FattreeEntries
  <2>2. QED
    BY <1>1, <2>1 DEF CoreEntries
<1>5. ASSUME NEW a \in 1 .. 8
      PROVE  Entries(n, Switch(2, a)) = {Entry(40, <<2 * ((a - 1) \div 2) + 1>>, {3}),
                                         Entry(40, <<2 * ((a - 1) \div 2) + 2>>, {4}), Up}
  <2>1. Entries(n, Switch(2, a)) = AggEntries(n, a) \cup {Up}
    BY <1>1, <1>2, <1>3 DEF FattreeEntries
  <2>2. \A k \in 1 .. 2 : SubnetList(n, a)[k] = 2 * ((a - 1) \div 2) + k
    BY <1>1 DEF SubnetList
  <2>3. SubnetList(n, a)[1] = 2 * ((a - 1) \div 2) + 1 /\ SubnetList(n, a)[2] = 2 * ((a - 1) \div 2) + 2
    BY <2>2
  <2>4. AggEntries(n, a) = {Entry(40, <<SubnetList(n, a)[k]>>, {2 + k}) : k \in {1, 2}}
    <3>1. 1 .. 2 = {1, 2}
      OBVIOUS
    <3>2. QED
      BY <1>1, <3>1 DEF AggEntries
  <2>5. 2 + 1 = 3 /\ 2 + 2 = 4
    OBVIOUS
  <2>6. AggEntries(n, a) = {Entry(40, <<2 * ((a - 1) \div 2) + 1>>, {3}),
                            Entry(40, <<2 * ((a - 1) \div 2) + 2>>, {4})}
    BY <2>3, <2>4, <2>5
  <2>7. QED
    BY <2>1, <2>6
<1>6. ASSUME NEW x \in 1 .. 8
      PROVE  Entries(n, Switch(3, x)) =
               {Entry(40, <<x, 0, k>>, {2 + k}) : k \in 1 .. Density(n)} \cup {Up}
  <2>1. Entries(n, Switch(3, x)) = EdgeEntries(n, x) \cup {Up}
    BY <1>1, <1>2, <1>3 DEF FattreeEntries
  <2>2. QED
    BY <1>1, <2>1 DEF EdgeEntries
<1>7. QED
  BY <1>4, <1>5, <1>6

LEMMA UpFields ==
  /\ Up.priority = 10 /\ Up.out = 1 .. 2
  /\ \A a : IsAddress(a) => Matches(Up, a)
BY Fields, MatchesAll DEF Up

(* What they look up for a host.                                           *)
LEMMA CoreLookup ==
  ASSUME NEW n \in Networks, n.kind = "fattree", n.fanout = 4,
         NEW i \in 1 .. n.hosts, EdgeOf(n, i) <= 8, NEW c \in 1 .. 4
  PROVE  Lookup(n, Switch(1, c), Address(n, i)) = {(EdgeOf(n, i) - 1) \div 2 + 1}
<1>1. PICK e, a : e = EdgeOf(n, i) /\ a = Address(n, i)
  OBVIOUS
<1>2. IsAddress(a) /\ e \in 1 .. 8 /\ a[1] = e
  BY <1>1, TreeAddress
<1>3. PICK best : best = Entry(10, <<e>>, {(e - 1) \div 2 + 1})
  OBVIOUS
<1>4. best \in Entries(n, Switch(1, c))
  BY <1>2, <1>3, TreeEntries
<1>5. Matches(best, a)
  BY <1>2, <1>3, MatchesNet
<1>6. ASSUME NEW f \in Entries(n, Switch(1, c))
      PROVE  f.priority \in Int /\ (Matches(f, a) => f = best)
  <2>1. PICK k \in 1 .. 8 : f = Entry(10, <<k>>, {(k - 1) \div 2 + 1})
    BY TreeEntries
  <2>2. f.priority = 10
    BY <2>1, Fields
  <2>3. Matches(f, a) => e = k
    BY <1>2, <2>1, MatchesNet
  <2>4. e = k => f = best
    BY <1>3, <2>1
  <2>5. f.priority \in Int
    BY <2>2
  <2>6. QED
    BY <2>3, <2>4, <2>5
<1>7. Lookup(n, Switch(1, c), a) = best.out
  BY <1>4, <1>5, <1>6, Best
<1>8. QED
  BY <1>1, <1>3, <1>7, Fields

LEMMA AggLookup ==
  ASSUME NEW n \in Networks, n.kind = "fattree", n.fanout = 4,
         NEW i \in 1 .. n.hosts, NEW x \in 1 .. 8
  PROVE  Lookup(n, Switch(2, x), Address(n, i)) =
           IF EdgeOf(n, i) = 2 * ((x - 1) \div 2) + 1 THEN {3}
           ELSE IF EdgeOf(n, i) = 2 * ((x - 1) \div 2) + 2 THEN {4} ELSE 1 .. 2
<1>1. PICK e, a, sw, p : /\ e = EdgeOf(n, i) /\ a = Address(n, i) /\ sw = Switch(2, x)
                         /\ p = 2 * ((x - 1) \div 2)
  OBVIOUS
<1>2. IsAddress(a) /\ a[1] = e /\ p \in Int /\ p + 1 # p + 2
  BY <1>1, TreeAddress
<1>3. PICK first, second : first = Entry(40, <<p + 1>>, {3}) /\ second = Entry(40, <<p + 2>>, {4})
  OBVIOUS
<1>4. Entries(n, sw) = {first, second, Up}
  BY <1>1, <1>3, TreeEntries
<1>5. /\ first.priority = 40 /\ first.out = {3} /\ second.priority = 40 /\ second.out = {4}
      /\ Up.priority = 10 /\ Up.out = 1 .. 2
  BY <1>3, Fields, UpFields
<1>6. Matches(Up, a)
  BY <1>2, UpFields
<1>7. (Matches(first, a) <=> e = p + 1) /\ (Matches(second, a) <=> e = p + 2)
  BY <1>2, <1>3, MatchesNet
<1>8. \A f \in Entries(n, sw) : f.priority \in Int
  BY <1>4, <1>5
<1>9. CASE e = p + 1
  <2>1. \A f \in Entries(n, sw) : Matches(f, a) => f = first \/ f.priority < first.priority
    BY <1>2, <1>4, <1>5, <1>7, <1>9
  <2>2. first \in Entries(n, sw) /\ Matches(first, a)
    BY <1>4, <1>7, <1>9
  <2>3. QED
    BY <1>1, <1>5, <1>8, <1>9, <2>1, <2>2, Best
<1>10. CASE e = p + 2
  <2>1. \A f \in Entries(n, sw) : Matches(f, a) => f = second \/ f.priority < second.priority
    BY <1>2, <1>4, <1>5, <1>7, <1>10
  <2>2. second \in Entries(n, sw) /\ Matches(second, a)
    BY <1>4, <1>7, <1>10
  <2>3. QED
    BY <1>1, <1>2, <1>5, <1>8, <1>10, <2>1, <2>2, Best
<1>11. CASE e # p + 1 /\ e # p + 2
  <2>1. \A f \in Entries(n, sw) : Matches(f, a) => f = Up \/ f.priority < Up.priority
    BY <1>4, <1>7, <1>11
  <2>2. Up \in Entries(n, sw)
    BY <1>4
  <2>3. QED
    BY <1>1, <1>5, <1>6, <1>8, <1>11, <2>1, <2>2, Best
<1>12. QED
  BY <1>9, <1>10, <1>11

LEMMA EdgeLookup ==
  ASSUME NEW n \in Networks, n.kind = "fattree", n.fanout = 4,
         NEW i \in 1 .. n.hosts, NEW x \in 1 .. 8
  PROVE  Lookup(n, Switch(3, x), Address(n, i)) =
           IF EdgeOf(n, i) = x THEN {2 + PlaceOf(n, i)} ELSE 1 .. 2
<1>1. PICK e, r, a, sw : /\ e = EdgeOf(n, i) /\ r = PlaceOf(n, i)
                         /\ a = Address(n, i) /\ sw = Switch(3, x)
  OBVIOUS
<1>2. IsAddress(a) /\ a = <<e, 0, r>> /\ r \in 1 .. Density(n) /\ Density(n) \in Nat
  BY <1>1, TreeAddress, TreeFacts
<1>3. Entries(n, sw) = {Entry(40, <<x, 0, k>>, {2 + k}) : k \in 1 .. Density(n)} \cup {Up}
  BY <1>1, TreeEntries
<1>4. Up.priority = 10 /\ Up.out = 1 .. 2 /\ Matches(Up, a)
  BY <1>2, UpFields
<1>5. ASSUME NEW k \in 1 .. Density(n), NEW f, f = Entry(40, <<x, 0, k>>, {2 + k})
      PROVE  /\ f.priority = 40 /\ f.out = {2 + k}
             /\ Matches(f, a) <=> e = x /\ k = r
  <2>1. IsAddress(<<x, 0, k>>)
    <3>1. x \in Int /\ 0 \in Int /\ k \in Int
      BY <1>2
    <3>2. QED
      BY <3>1, Addressed
  <2>2. Matches(f, a) <=> <<x, 0, k>> = a
    BY <1>2, <1>5, <2>1, MatchesHost
  <2>3. f.priority = 40 /\ f.out = {2 + k}
    BY <1>5, Fields
  <2>4. <<x, 0, k>> = <<e, 0, r>> <=> e = x /\ k = r
    OBVIOUS
  <2>5. QED
    BY <1>2, <2>2, <2>3, <2>4
<1>6. ASSUME NEW f \in Entries(n, sw) PROVE f.priority \in Int
  <2>1. f = Up \/ \E k \in 1 .. Density(n) : f = Entry(40, <<x, 0, k>>, {2 + k})
    BY <1>3
  <2>2. f.priority = 10 \/ f.priority = 40
    BY <1>4, <1>5, <2>1
  <2>3. QED
    BY <2>2
<1>7. CASE e = x
  <2>1. PICK best : best = Entry(40, <<x, 0, r>>, {2 + r})
    OBVIOUS
  <2>2. best \in Entries(n, sw) /\ Matches(best, a) /\ best.priority = 40 /\ best.out = {2 + r}
    BY <1>2, <1>3, <1>5, <1>7, <2>1
  <2>3. ASSUME NEW f \in Entries(n, sw), Matches(f, a)
        PROVE  f = best \/ f.priority < best.priority
    <3>1. CASE f = Up
      BY <1>4, <2>2, <3>1
    <3>2. ASSUME NEW k \in 1 .. Density(n), f = Entry(40, <<x, 0, k>>, {2 + k})
          PROVE  f = best
      <4>1. k = r
        BY <1>5, <2>3, <3>2
      <4>2. QED
        BY <2>1, <3>2, <4>1
    <3>3. QED
      BY <1>3, <3>1, <3>2
  <2>4. Lookup(n, sw, a) = best.out
    BY <1>6, <2>2, <2>3, Best
  <2>5. QED
    BY <1>1, <1>7, <2>2, <2>4
<1>8. CASE e # x
  <2>1. \A f \in Entries(n, sw) : Matches(f, a) => f = Up \/ f.priority < Up.priority
    BY <1>3, <1>5, <1>8
  <2>2. Up \in Entries(n, sw)
    BY <1>3
  <2>3. Lookup(n, sw, a) = Up.out
    BY <1>4, <1>6, <2>1, <2>2, Best
  <2>4. QED
    BY <1>1, <1>4, <1>8, <2>3
<1>9. QED
  BY <1>7, <1>8

(* Where the switches of a fat tree send the packets for a host.           *)
Pod(x) == (x - 1) \div 2
LEMMA Pods4 ==
  /\ \A x \in 1 .. 8 : /\ Pod(x) \in 0 .. 3
                       /\ 2 * Pod(x) + 1 \in 1 .. 8 /\ 2 * Pod(x) + 2 \in 1 .. 8
                       /\ Pod(2 * Pod(x) + 1) = Pod(x) /\ Pod(2 * Pod(x) + 2) = Pod(x)
                       /\ x = 2 * Pod(x) + 1 \/ x = 2 * Pod(x) + 2
  /\ \A x \in Nat \ {0}, y \in 1 .. 8 :
       Pod(x) = Pod(y) <=> x = 2 * Pod(y) + 1 \/ x = 2 * Pod(y) + 2
BY DEF Pod

LEMMA EdgeHops ==
  ASSUME NEW n \in Networks, n.kind = "fattree", n.fanout = 4,
         NEW i \in 1 .. n.hosts, NEW x \in 1 .. 8
  PROVE  /\ EdgeOf(n, i) = x => Sends(n, Switch(3, x), i, {Host(i)})
         /\ EdgeOf(n, i) # x =>
              Sends(n, Switch(3, x), i, {Switch(2, 2 * Pod(x) + 1), Switch(2, 2 * Pod(x) + 2)})
<1>1. PICK far, d, sw : far = Ports[n][sw] /\ d = Density(n) /\ sw = Switch(3, x)
  OBVIOUS
<1>2. d \in Nat \ {0}
  BY <1>1, TreeFacts
<1>3. /\ DOMAIN far = 1 .. 2 + d
      /\ far[1] = Switch(2, 2 * Pod(x) + 1) /\ far[2] = Switch(2, 2 * Pod(x) + 2)
  BY <1>1, EdgePorts DEF Pod
<1>4. \A k \in 1 .. d : far[2 + k] = Host(d * (x - 1) + k)
  BY <1>1, EdgePorts
<1>5. CASE EdgeOf(n, i) = x
  <2>1. PICK r : r = PlaceOf(n, i)
    OBVIOUS
  <2>2. r \in 1 .. d /\ d * (x - 1) + r = i
    BY <1>1, <1>5, <2>1, TreeAddress
  <2>3. Lookup(n, sw, Address(n, i)) = {2 + r}
    BY <1>1, <1>5, <2>1, EdgeLookup
  <2>4. 2 + r \in DOMAIN far /\ far[2 + r] = Host(i)
    BY <1>2, <1>3, <1>4, <2>2
  <2>5. QED
    BY <1>1, <1>5, <2>3, <2>4, SendsBy
<1>6. CASE EdgeOf(n, i) # x
  <2>1. Lookup(n, sw, Address(n, i)) = {1, 2}
    <3>1. 1 .. 2 = {1, 2}
      OBVIOUS
    <3>2. QED
      BY <1>1, <1>6, <3>1, EdgeLookup
  <2>2. 1 \in DOMAIN far /\ 2 \in DOMAIN far
    BY <1>2, <1>3
  <2>3. QED
    BY <1>1, <1>3, <1>6, <2>1, <2>2 DEF Sends
<1>7. QED
  BY <1>5, <1>6

LEMMA AggHops ==
  ASSUME NEW n \in Networks, n.kind = "fattree", n.fanout = 4,
         NEW i \in 1 .. n.hosts, NEW x \in 1 .. 8
  PROVE  /\ Pod(EdgeOf(n, i)) = Pod(x) => Sends(n, Switch(2, x), i, {Switch(3, EdgeOf(n, i))})
         /\ Pod(EdgeOf(n, i)) # Pod(x) =>
              Sends(n, Switch(2, x), i, {Switch(1, ((2 * x - 2) % 4) + 1),
                                         Switch(1, ((2 * x - 1) % 4) + 1)})
<1>1. PICK far, e, p, sw : /\ far = Ports[n][sw] /\ sw = Switch(2, x)
                           /\ e = EdgeOf(n, i) /\ p = 2 * Pod(x)
  OBVIOUS
<1>2. /\ DOMAIN far = 1 .. 4
      /\ far[1] = Switch(1, ((2 * x - 2) % 4) + 1) /\ far[2] = Switch(1, ((2 * x - 1) % 4) + 1)
      /\ far[3] = Switch(3, p + 1) /\ far[4] = Switch(3, p + 2)
  BY <1>1, AggPorts DEF Pod
<1>3. 1 \in DOMAIN far /\ 2 \in DOMAIN far /\ 3 \in DOMAIN far /\ 4 \in DOMAIN far
  BY <1>2
<1>4. Lookup(n, sw, Address(n, i)) =
        IF e = p + 1 THEN {3} ELSE IF e = p + 2 THEN {4} ELSE 1 .. 2
  BY <1>1, AggLookup DEF Pod
<1>5. e \in Nat \ {0} /\ (Pod(e) = Pod(x) <=> e = p + 1 \/ e = p + 2)
  BY <1>1, TreeAddress, Pods4
<1>6. p + 1 # p + 2
  BY <1>1, Pods4
<1>7. CASE e = p + 1
  BY <1>1, <1>2, <1>3, <1>4, <1>5, <1>7, SendsBy
<1>8. CASE e = p + 2
  BY <1>1, <1>2, <1>3, <1>4, <1>5, <1>6, <1>8, SendsBy
<1>9. CASE e # p + 1 /\ e # p + 2
  <2>1. Lookup(n, sw, Address(n, i)) = {1, 2}
    <3>1. 1 .. 2 = {1, 2}
      OBVIOUS
    <3>2. QED
      BY <1>4, <1>9, <3>1
  <2>2. QED
    BY <1>1, <1>2, <1>3, <1>5, <1>9, <2>1 DEF Sends
<1>10. QED
  BY <1>7, <1>8, <1>9

LEMMA CoreHops ==
  ASSUME NEW n \in Networks, n.kind = "fattree", n.fanout = 4,
         NEW i \in 1 .. n.hosts, EdgeOf(n, i) <= 8, NEW c \in 1 .. 4
  PROVE  \E a \in 1 .. 8 : /\ Pod(a) = Pod(EdgeOf(n, i))
                           /\ Sends(n, Switch(1, c), i, {Switch(2, a)})
<1>1. PICK far, e, p, sw, a : /\ far = Ports[n][sw] /\ sw = Switch(1, c)
                              /\ e = EdgeOf(n, i) /\ p = Pod(e) + 1
                              /\ a = 2 * (p - 1) + (c - 1) \div 2 + 1
  OBVIOUS
<1>2. e \in 1 .. 8
  BY <1>1, TreeAddress
<1>3. p \in 1 .. 4 /\ a \in 1 .. 8 /\ Pod(a) = Pod(e)
  <2>1. PICK h, b : h = Pod(e) /\ b = (c - 1) \div 2
    OBVIOUS
  <2>2. h \in 0 .. 3 /\ b \in 0 .. 1
    BY <1>2, <2>1, Pods4
  <2>3. p = h + 1 /\ a = 2 * h + b + 1
    BY <1>1, <2>1, <2>2
  <2>4. (a - 1) \div 2 = h
    BY <2>2, <2>3
  <2>5. QED
    BY <2>1, <2>2, <2>3, <2>4 DEF Pod
<1>4. Lookup(n, sw, Address(n, i)) = {p}
  BY <1>1, CoreLookup DEF Pod
<1>5. p \in DOMAIN far /\ far[p] = Switch(2, a)
  BY <1>1, <1>3, CorePorts
<1>6. Sends(n, sw, i, {Switch(2, a)})
  BY <1>1, <1>4, <1>5, SendsBy
<1>7. QED
  BY <1>1, <1>3, <1>6

-----------------------------------------------------------------------------
(* How far a packet is from its host, in links, once it is on its way.     *)
Left(h) ==
    CASE net.kind = "dumbbell" ->
           \/ h = 3 /\ at = Host(src) /\ from = Host(src)
           \/ h = 2 /\ at = OtherSwitch(dst) /\ from # OwnSwitch(dst)
           \/ h = 1 /\ at = OwnSwitch(dst) /\ from # Host(dst)
           \/ h = 0 /\ at = Host(dst)
      [] net.kind = "nonblock" ->
           \/ h = 2 /\ at = Host(src) /\ from = Host(src)
           \/ h = 1 /\ at = West /\ from # Host(dst)
           \/ h = 0 /\ at = Host(dst)
      [] net.kind = "fattree" ->
           LET edge == EdgeOf(net, dst) IN
           \/ h = 6 /\ at = Host(src) /\ from = Host(src)
           \/ /\ h = 5 /\ \E x \in 1 .. 8 : at = Switch(3, x) /\ x # edge
              /\ from = Host(src)
           \/ /\ h = 4 /\ \E a \in 1 .. 8 : at = Switch(2, a) /\ Pod(a) # Pod(edge)
              /\ \E x \in 1 .. 8 : from = Switch(3, x)
           \/ /\ h = 3 /\ \E c \in 1 .. 4 : at = Switch(1, c)
              /\ \E a \in 1 .. 8 : from = Switch(2, a) /\ Pod(a) # Pod(edge)
           \/ /\ h = 2 /\ \E a \in 1 .. 8 : at = Switch(2, a) /\ Pod(a) = Pod(edge)
              /\ from # Switch(3, edge)
           \/ h = 1 /\ at = Switch(3, edge) /\ from # Host(dst)
           \/ h = 0 /\ at = Host(dst)

(* The networks in which every host has its link: in a fat tree those      *)
(* beyond Density hosts at each edge switch have none.                     *)
EveryHostLinked ==
    \A n \in Networks : n.kind = "fattree" => n.fanout = 4 /\ n.hosts = 8 * Density(n)

Underway ==
    /\ net \in Networks /\ src \in 1 .. net.hosts /\ dst \in 1 .. net.hosts /\ src # dst
    /\ \E h \in 0 .. 6 : Left(h)

LEMMA Forwarded ==
  ASSUME NEW Y, Forward, Sends(net, at, dst, Y), from \notin Y
  PROVE  at' \in Y /\ from' = at /\ net' = net /\ src' = src /\ dst' = dst
BY DEF Forward, Sends, SendTo

LEMMA Departed ==
  ASSUME NEW y, Leave, DOMAIN Ports[net][Host(src)] = {1},
         Ports[net][Host(src)][1] = y, y # from
  PROVE  at' = y /\ from' = Host(src) /\ net' = net /\ src' = src /\ dst' = dst
BY DEF Leave, SendTo

LEMMA UnderwayInit == Init => Underway
<1> SUFFICES ASSUME Init PROVE Underway
  OBVIOUS
<1>1. net \in Networks /\ src \in 1 .. net.hosts /\ dst \in 1 .. net.hosts /\ src # dst
  BY DEF Init
<1>2. net.kind \in Kinds
  BY <1>1, NetworksAssumption
<1>3. \E h \in {2, 3, 6} : Left(h)
  <2>1. CASE net.kind = "dumbbell"
    <3>1. Left(3)
      BY <2>1 DEF Init, Left
    <3>2. QED
      BY <3>1
  <2>2. CASE net.kind = "nonblock"
    <3>1. Left(2)
      BY <2>2 DEF Init, Left
    <3>2. QED
      BY <3>1
  <2>3. CASE net.kind = "fattree"
    <3>1. Left(6)
      BY <2>3 DEF Init, Left
    <3>2. QED
      BY <3>1
  <2>4. QED
    BY <1>2, <2>1, <2>2, <2>3 DEF Kinds
<1>4. QED
  BY <1>1, <1>3 DEF Underway

LEMMA Places ==
  /\ \A i : ~ IsSwitch(Host(i)) /\ IsSwitch(West) /\ IsSwitch(East) /\ ~ IsSwitch(Dropped)
  /\ \A i, j : Host(i) = Host(j) => i = j
  /\ \A l \in 1 .. 3 : \A i : IsSwitch(Switch(l, i)) /\ Level(Switch(l, i)) = l
  /\ \A i : Level(Host(i)) = 4
  /\ \A i : /\ OwnSwitch(i) \in {West, East} /\ OtherSwitch(i) \in {West, East}
            /\ OwnSwitch(i) # OtherSwitch(i)
BY Apart DEF IsSwitch, Level, Host, West, East, Switch, Dropped, OwnSwitch, OtherSwitch

(* At its host a packet moves no more.                                     *)
LEMMA Arrived ==
  ASSUME src # dst, at = Host(dst), Next
  PROVE  FALSE
BY Places DEF Next, Leave, Forward

LEMMA DumbbellCloser ==
  ASSUME Underway, Next, net.kind = "dumbbell", NEW h \in 0 .. 6, Left(h)
  PROVE  \E g \in 0 .. h - 1 : Left(g)'
<1>1. /\ net \in Networks /\ src \in 1 .. net.hosts /\ dst \in 1 .. net.hosts /\ src # dst
      /\ Host(src) # Host(dst)
  BY Places DEF Underway
<1>2. CASE h = 3 /\ at = Host(src) /\ from = Host(src)
  <2>1. Leave
    BY <1>2, Places DEF Next, Forward
  <2>2. OwnSwitch(src) # from
    BY <1>2, Places, Apart
  <2>3. at' = OwnSwitch(src) /\ from' = Host(src) /\ net' = net /\ src' = src /\ dst' = dst
    BY <1>1, <2>1, <2>2, DumbbellHops, Departed
  <2>4. CASE OwnSwitch(src) = OwnSwitch(dst)
    <3>1. Left(1)'
      BY <1>1, <2>3, <2>4 DEF Left
    <3>2. QED
      BY <1>2, <3>1
  <2>5. CASE OwnSwitch(src) = OtherSwitch(dst)
    <3>1. Host(src) # OwnSwitch(dst)
      BY Places, Apart
    <3>2. Left(2)'
      BY <2>3, <2>5, <3>1 DEF Left
    <3>3. QED
      BY <1>2, <3>2
  <2>6. QED
    BY <2>4, <2>5, Places
<1>3. CASE h = 2 /\ at = OtherSwitch(dst) /\ from # OwnSwitch(dst)
  <2>1. Forward
    BY <1>3, Places, Apart DEF Next, Leave
  <2>2. Sends(net, at, dst, {OwnSwitch(dst)})
    BY <1>1, <1>3, DumbbellHops
  <2>3. at' = OwnSwitch(dst) /\ from' = at /\ net' = net /\ src' = src /\ dst' = dst
    BY <1>3, <2>1, <2>2, Forwarded
  <2>4. at # Host(dst)
    BY <1>3, Places, Apart
  <2>5. Left(1)'
    BY <2>3, <2>4 DEF Left
  <2>6. QED
    BY <1>3, <2>5
<1>4. CASE h = 1 /\ at = OwnSwitch(dst) /\ from # Host(dst)
  <2>1. Forward
    BY <1>4, Places, Apart DEF Next, Leave
  <2>2. Sends(net, at, dst, {Host(dst)})
    BY <1>1, <1>4, DumbbellHops
  <2>3. at' = Host(dst) /\ net' = net /\ dst' = dst
    BY <1>4, <2>1, <2>2, Forwarded
  <2>4. Left(0)'
    BY <2>3 DEF Left
  <2>5. QED
    BY <1>4, <2>4
<1>5. CASE at = Host(dst)
  BY <1>1, <1>5, Arrived
<1>6. QED
  BY <1>2, <1>3, <1>4, <1>5 DEF Left

LEMMA NonblockCloser ==
  ASSUME Underway, Next, net.kind = "nonblock", NEW h \in 0 .. 6, Left(h)
  PROVE  \E g \in 0 .. h - 1 : Left(g)'
<1>1. /\ net \in Networks /\ src \in 1 .. net.hosts /\ dst \in 1 .. net.hosts /\ src # dst
      /\ Host(src) # Host(dst)
  BY Places DEF Underway
<1>2. CASE h = 2 /\ at = Host(src) /\ from = Host(src)
  <2>1. Leave
    BY <1>2, Places DEF Next, Forward
  <2>2. West # from
    BY <1>2, Apart
  <2>3. at' = West /\ from' = Host(src) /\ net' = net /\ src' = src /\ dst' = dst
    BY <1>1, <2>1, <2>2, NonblockHops, Departed
  <2>4. Left(1)'
    BY <1>1, <2>3 DEF Left
  <2>5. QED
    BY <1>2, <2>4
<1>3. CASE h = 1 /\ at = West /\ from # Host(dst)
  <2>1. Forward
    BY <1>3, Apart DEF Next, Leave
  <2>2. Sends(net, at, dst, {Host(dst)})
    BY <1>1, <1>3, NonblockHops
  <2>3. at' = Host(dst) /\ net' = net /\ dst' = dst
    BY <1>3, <2>1, <2>2, Forwarded
  <2>4. Left(0)'
    BY <2>3 DEF Left
  <2>5. QED
    BY <1>3, <2>4
<1>4. CASE at = Host(dst)
  BY <1>1, <1>4, Arrived
<1>5. QED
  BY <1>2, <1>3, <1>4 DEF Left

LEMMA FattreeCloser ==
  ASSUME Underway, EveryHostLinked, Next, net.kind = "fattree", NEW h \in 0 .. 6, Left(h)
  PROVE  \E g \in 0 .. h - 1 : Left(g)'
<1>1. /\ net \in Networks /\ src \in 1 .. net.hosts /\ dst \in 1 .. net.hosts /\ src # dst
      /\ Host(src) # Host(dst) /\ net.fanout = 4 /\ net.hosts = 8 * Density(net)
  BY Places DEF Underway, EveryHostLinked
<1>2. PICK edge : edge = EdgeOf(net, dst)
  OBVIOUS
<1>3. \A i \in 1 .. net.hosts : EdgeOf(net, i) \in 1 .. 8 /\ i <= 8 * Density(net)
  <2>1. ASSUME NEW i \in 1 .. net.hosts PROVE EdgeOf(net, i) \in 1 .. 8 /\ i <= 8 * Density(net)
    <3>1. i <= 8 * Density(net)
      BY <1>1, TreeFacts
    <3>2. EdgeOf(net, i) \in Nat \ {0} /\ EdgeOf(net, i) <= 8
      BY <1>1, <3>1, TreeAddress
    <3>3. QED
      BY <3>1, <3>2
  <2>2. QED
    BY <2>1
<1>4. edge \in 1 .. 8
  BY <1>1, <1>2, <1>3
<1>5. CASE h = 6 /\ at = Host(src) /\ from = Host(src)
  <2>1. Leave
    BY <1>5, Places DEF Next, Forward
  <2>2. PICK x \in 1 .. 8 : x = EdgeOf(net, src)
    BY <1>1, <1>3
  <2>3. /\ DOMAIN Ports[net][Host(src)] = {1}
        /\ Ports[net][Host(src)][1] = Switch(3, x)
    BY <1>1, <1>3, <2>2, TreeHostPorts DEF EdgeOf
  <2>4. Switch(3, x) # from
    BY <1>5, TreeNodes
  <2>5. at' = Switch(3, x) /\ from' = Host(src) /\ net' = net /\ src' = src /\ dst' = dst
    BY <2>1, <2>3, <2>4, Departed
  <2>6. CASE x = edge
    <3>1. Left(1)'
      BY <1>1, <1>2, <2>5, <2>6 DEF Left
    <3>2. QED
      BY <1>5, <3>1
  <2>7. CASE x # edge
    <3>1. Left(5)'
      BY <1>2, <2>2, <2>5, <2>7 DEF Left
    <3>2. QED
      BY <1>5, <3>1
  <2>8. QED
    BY <2>6, <2>7
<1>6. ASSUME NEW x \in 1 .. 8, h = 5, at = Switch(3, x), x # edge, from = Host(src)
      PROVE  \E g \in 0 .. h - 1 : Left(g)'
  <2>1. Forward
    BY <1>6, TreeNodes DEF Next, Leave
  <2>2. Sends(net, at, dst, {Switch(2, 2 * Pod(x) + 1), Switch(2, 2 * Pod(x) + 2)})
    BY <1>1, <1>2, <1>6, EdgeHops
  <2>3. from \notin {Switch(2, 2 * Pod(x) + 1), Switch(2, 2 * Pod(x) + 2)}
    BY <1>6, TreeNodes
  <2>4. /\ at' \in {Switch(2, 2 * Pod(x) + 1), Switch(2, 2 * Pod(x) + 2)}
        /\ from' = Switch(3, x) /\ net' = net /\ src' = src /\ dst' = dst
    BY <1>6, <2>1, <2>2, <2>3, Forwarded
  <2>5. PICK a \in 1 .. 8 : at' = Switch(2, a) /\ Pod(a) = Pod(x)
    BY <2>4, Pods4
  <2>6. CASE Pod(a) = Pod(edge)
    <3>1. Switch(3, x) # Switch(3, edge)
      BY <1>6, TreeNodes
    <3>2. Left(2)'
      BY <1>2, <2>4, <2>5, <2>6, <3>1 DEF Left
    <3>3. QED
      BY <1>6, <3>2
  <2>7. CASE Pod(a) # Pod(edge)
    <3>1. Left(4)'
      BY <1>2, <2>4, <2>5, <2>7 DEF Left
    <3>2. QED
      BY <1>6, <3>1
  <2>8. QED
    BY <2>6, <2>7
<1>7. ASSUME NEW a \in 1 .. 8, NEW x \in 1 .. 8,
             h = 4, at = Switch(2, a), Pod(a) # Pod(edge), from = Switch(3, x)
      PROVE  \E g \in 0 .. h - 1 : Left(g)'
  <2>1. Forward
    BY <1>7, TreeNodes DEF Next, Leave
  <2>2. Sends(net, at, dst, {Switch(1, ((2 * a - 2) % 4) + 1), Switch(1, ((2 * a - 1) % 4) + 1)})
    BY <1>1, <1>2, <1>7, AggHops
  <2>3. from \notin {Switch(1, ((2 * a - 2) % 4) + 1), Switch(1, ((2 * a - 1) % 4) + 1)}
    BY <1>7, TreeNodes
  <2>4. /\ at' \in {Switch(1, ((2 * a - 2) % 4) + 1), Switch(1, ((2 * a - 1) % 4) + 1)}
        /\ from' = Switch(2, a) /\ net' = net /\ src' = src /\ dst' = dst
    BY <1>7, <2>1, <2>2, <2>3, Forwarded
  <2>5. \E c \in 1 .. 4 : at' = Switch(1, c)
    <3>1. ((2 * a - 2) % 4) + 1 \in 1 .. 4 /\ ((2 * a - 1) % 4) + 1 \in 1 .. 4
      OBVIOUS
    <3>2. QED
      BY <2>4, <3>1
  <2>6. Left(3)'
    BY <1>2, <1>7, <2>4, <2>5 DEF Left
  <2>7. QED
    BY <1>7, <2>6
<1>8. ASSUME NEW c \in 1 .. 4, NEW a \in 1 .. 8,
             h = 3, at = Switch(1, c), from = Switch(2, a), Pod(a) # Pod(edge)
      PROVE  \E g \in 0 .. h - 1 : Left(g)'
  <2>1. Forward
    BY <1>8, TreeNodes DEF Next, Leave
  <2>2. PICK b \in 1 .. 8 : Pod(b) = Pod(edge) /\ Sends(net, at, dst, {Switch(2, b)})
    <3>1. EdgeOf(net, dst) <= 8
      BY <1>2, <1>4
    <3>2. \E b \in 1 .. 8 : /\ Pod(b) = Pod(EdgeOf(net, dst))
                            /\ Sends(net, Switch(1, c), dst, {Switch(2, b)})
      BY <1>1, <1>8, <3>1, CoreHops
    <3>3. QED
      BY <1>2, <1>8, <3>2
  <2>3. from \notin {Switch(2, b)}
    BY <1>8, <2>2, TreeNodes
  <2>4. /\ at' = Switch(2, b) /\ from' = Switch(1, c)
        /\ net' = net /\ src' = src /\ dst' = dst
    BY <1>8, <2>1, <2>2, <2>3, Forwarded
  <2>5. Switch(1, c) # Switch(3, edge)
    BY TreeNodes
  <2>6. Left(2)'
    BY <1>2, <2>2, <2>4, <2>5 DEF Left
  <2>7. QED
    BY <1>8, <2>6
<1>9. ASSUME NEW a \in 1 .. 8,
             h = 2, at = Switch(2, a), Pod(a) = Pod(edge), from # Switch(3, edge)
      PROVE  \E g \in 0 .. h - 1 : Left(g)'
  <2>1. Forward
    BY <1>9, TreeNodes DEF Next, Leave
  <2>2. Sends(net, at, dst, {Switch(3, edge)})
    BY <1>1, <1>2, <1>9, AggHops
  <2>3. /\ at' = Switch(3, edge) /\ from' = Switch(2, a)
        /\ net' = net /\ src' = src /\ dst' = dst
    BY <1>9, <2>1, <2>2, Forwarded
  <2>4. Switch(2, a) # Host(dst)
    BY TreeNodes
  <2>5. Left(1)'
    BY <1>2, <2>3, <2>4 DEF Left
  <2>6. QED
    BY <1>9, <2>5
<1>10. CASE h = 1 /\ at = Switch(3, edge) /\ from # Host(dst)
  <2>1. Forward
    BY <1>10, TreeNodes DEF Next, Leave
  <2>2. Sends(net, at, dst, {Host(dst)})
    BY <1>1, <1>2, <1>4, <1>10, EdgeHops
  <2>3. at' = Host(dst) /\ net' = net /\ dst' = dst
    BY <1>10, <2>1, <2>2, Forwarded
  <2>4. Left(0)'
    BY <2>3 DEF Left
  <2>5. QED
    BY <1>10, <2>4
<1>11. CASE at = Host(dst)
  BY <1>1, <1>11, Arrived
<1>12. QED
  BY <1>2, <1>5, <1>6, <1>7, <1>8, <1>9, <1>10, <1>11 DEF Left

(* Every step brings the packet nearer, on every network.                  *)
LEMMA Nearer ==
  ASSUME Underway, EveryHostLinked, Next, NEW h \in 0 .. 6, Left(h)
  PROVE  \E g \in 0 .. h - 1 : Left(g)'
<1>1. net.kind \in Kinds
  BY NetworksAssumption DEF Underway
<1>2. QED
  BY <1>1, DumbbellCloser, NonblockCloser, FattreeCloser DEF Kinds

LEMMA UnderwayNext == EveryHostLinked /\ Underway /\ [Next]_vars => Underway'
<1> SUFFICES ASSUME EveryHostLinked, Underway, [Next]_vars PROVE Underway'
  OBVIOUS
<1>1. CASE Next
  <2>1. net' = net /\ src' = src /\ dst' = dst
    BY <1>1 DEF Next, Leave, Forward
  <2>2. PICK h \in 0 .. 6 : Left(h)
    BY DEF Underway
  <2>3. PICK g \in 0 .. h - 1 : Left(g)'
    BY <1>1, <2>2, Nearer
  <2>4. g \in 0 .. 6
    BY <2>2, <2>3
  <2>5. QED
    BY <2>1, <2>3, <2>4 DEF Underway
<1>2. CASE UNCHANGED vars
  <2>1. net' = net /\ src' = src /\ dst' = dst /\ at' = at /\ from' = from
    BY <1>2 DEF vars
  <2>2. PICK h \in 0 .. 6 : Left(h)
    BY DEF Underway
  <2>3. Left(h)'
    BY <2>1, <2>2 DEF Left
  <2>4. QED
    BY <2>1, <2>3 DEF Underway
<1>3. QED
  BY <1>1, <1>2

(* In a dumbbell and a nonblocking network of any size, and in a fat tree  *)
(* of fanout 4 whose hosts all have links, no packet is ever dropped,      *)
(* whichever uplinks ECMP selects: an entry matches at every switch, its   *)
(* port exists, and it is not the one the packet came in by.  This is what *)
(* Delivered needs besides fairness, for every pair of hosts.              *)
THEOREM NeverLost == EveryHostLinked => (Spec => [](at # Dropped))
<1> SUFFICES ASSUME EveryHostLinked PROVE Spec => [](at # Dropped)
  OBVIOUS
<1>1. Underway => at # Dropped
  <2> SUFFICES ASSUME Underway PROVE at # Dropped
    OBVIOUS
  <2>1. PICK h \in 0 .. 6 : Left(h)
    BY DEF Underway
  <2>2. net.kind \in Kinds
    BY NetworksAssumption DEF Underway
  <2>3. \A i : Host(i) # Dropped /\ OwnSwitch(i) # Dropped /\ OtherSwitch(i) # Dropped
    BY Places, Apart
  <2>4. West # Dropped /\ \A l \in 1 .. 3 : \A i : Switch(l, i) # Dropped
    BY Places, TreeNodes
  <2>5. CASE net.kind = "dumbbell"
    BY <2>1, <2>3, <2>5 DEF Left
  <2>6. CASE net.kind = "nonblock"
    BY <2>1, <2>3, <2>4, <2>6 DEF Left
  <2>7. CASE net.kind = "fattree"
    <3>1. at = Host(src) \/ at = Host(dst) \/ \E l \in 1 .. 3 : \E i : at = Switch(l, i)
      BY <2>1, <2>7 DEF Left
    <3>2. QED
      BY <2>3, <2>4, <3>1
  <2>8. QED
    BY <2>2, <2>5, <2>6, <2>7 DEF Kinds
<1>2. Underway /\ [Next]_vars => Underway'
  BY UnderwayNext
<1>3. QED
  BY <1>1, <1>2, UnderwayInit, PTL DEF Spec

(* There a packet never turns back: each hop leaves fewer links to its     *)
(* host than the hop before (six at most), so that no choice of uplinks    *)
(* can make it circle.                                                     *)
THEOREM EachHopCloser ==
  EveryHostLinked =>
    (Spec => /\ [](\E h \in 0 .. 6 : Left(h))
             /\ [][\A h \in 0 .. 6 : Left(h) => \E g \in 0 .. h - 1 : Left(g)']_vars)
<1> SUFFICES ASSUME EveryHostLinked
             PROVE  Spec => /\ [](\E h \in 0 .. 6 : Left(h))
                            /\ [][\A h \in 0 .. 6 :
                                     Left(h) => \E g \in 0 .. h - 1 : Left(g)']_vars
  OBVIOUS
<1>1. Underway /\ [Next]_vars =>
        [\A h \in 0 .. 6 : Left(h) => \E g \in 0 .. h - 1 : Left(g)']_vars
  <2>1. ASSUME Underway, Next
        PROVE  \A h \in 0 .. 6 : Left(h) => \E g \in 0 .. h - 1 : Left(g)'
    BY <2>1, Nearer
  <2>2. QED
    BY <2>1
<1>2. Underway /\ [Next]_vars => Underway'
  BY UnderwayNext
<1>3. Underway => \E h \in 0 .. 6 : Left(h)
  BY DEF Underway
<1>4. QED
  BY <1>1, <1>2, <1>3, UnderwayInit, PTL DEF Spec

-----------------------------------------------------------------------------
(* Where the uplinks that ECMP selects from lead.                          *)
AllFanout4 == \A n \in Networks : n.kind = "fattree" => n.fanout = 4

LEMMA PodsAre ==
  ASSUME NEW n \in Networks, n.kind = "fattree", n.fanout = 4, NEW i \in 1 .. n.hosts
  PROVE  PodOf(n, i) = Pod(EdgeOf(n, i))
<1>1. PICK d \in Nat \ {0} : d = Density(n)
  BY TreeFacts
<1>2. PICK g, r : g = (i - 1) \div d /\ r = (i - 1) % d
  OBVIOUS
<1>3. i - 1 \in Nat /\ g \in Nat /\ r \in 0 .. d - 1 /\ i - 1 = d * g + r
  <2>1. d \in Nat \ {0} /\ i \in Nat \ {0}
    <3>1. n.hosts \in Nat
      BY TreeFacts
    <3>2. QED
      BY <1>1, <3>1
  <2>2. g \in Nat /\ r \in 0 .. d - 1 /\ i = d * g + r + 1
    BY <1>2, <2>1
  <2>3. d * g \in Nat
    BY <2>1, <2>2
  <2>4. QED
    BY <2>1, <2>2, <2>3
<1>4. PICK h, b : h = g \div 2 /\ b = g % 2
  OBVIOUS
<1>5. h \in Nat /\ b \in 0 .. 1 /\ g = 2 * h + b
  BY <1>3, <1>4
<1>6. PICK w, k : w = d * 2 /\ k = (IF b = 0 THEN r + 1 ELSE d + r + 1)
  OBVIOUS
<1>7. w \in Nat \ {0} /\ k \in 1 .. w
  BY <1>1, <1>3, <1>5, <1>6
<1>8. d * g + r = w * h + k - 1
  <2>1. d * h \in Nat
    BY <1>1, <1>5
  <2>2. w * h = 2 * (d * h)
    BY <1>1, <1>5, <1>6
  <2>3. CASE b = 0
    <3>1. g = 2 * h
      BY <1>5, <2>3
    <3>2. d * g = 2 * (d * h)
      BY <1>1, <1>5, <3>1
    <3>3. QED
      BY <1>3, <1>6, <2>1, <2>2, <2>3, <3>2
  <2>4. CASE b = 1
    <3>1. g = 2 * h + 1
      BY <1>5, <2>4
    <3>2. d * g = 2 * (d * h) + d
      BY <1>1, <1>5, <3>1
    <3>3. QED
      BY <1>1, <1>3, <1>6, <2>1, <2>2, <2>4, <3>2
  <2>5. QED
    BY <1>5, <2>3, <2>4
<1>9. (w * h + k - 1) \div w = h
  BY <1>5, <1>7, InGroup
<1>10. (i - 1) \div w = h
  BY <1>3, <1>8, <1>9
<1>11. PodOf(n, i) = (i - 1) \div w
  <2>1. Half(n) = 2
    BY FattreeSizes
  <2>2. QED
    BY <1>1, <1>6, <2>1 DEF PodOf
<1>12. EdgeOf(n, i) = g + 1
  BY <1>1, <1>2 DEF EdgeOf
<1>13. Pod(EdgeOf(n, i)) = h
  BY <1>3, <1>4, <1>12 DEF Pod
<1>14. QED
  BY <1>10, <1>11, <1>13

LEMMA AboveAre ==
  ASSUME NEW n, NEW x, NEW i, NEW Y, Sends(n, x, i, Y)
  PROVE  Above(n, x, i) = {y \in Y : IsSwitch(y) /\ Level(y) < Level(x)}
<1>1. NextNodes(n, x, i) = Y
  BY DEF Sends, NextNodes
<1>2. QED
  BY <1>1 DEF Above

LEMMA TreeAbove ==
  ASSUME NEW n \in Networks, n.kind = "fattree", n.fanout = 4,
         NEW i \in 1 .. n.hosts, NEW x \in 1 .. 8
  PROVE  UNION {Above(n, y, i) : y \in Above(n, Switch(3, x), i)} =
           IF Pod(x) = Pod(EdgeOf(n, i)) THEN {} ELSE Cores(n)
<1>1. PICK e, p, one, two : /\ e = EdgeOf(n, i) /\ p = Pod(x)
                            /\ one = Switch(2, 2 * p + 1) /\ two = Switch(2, 2 * p + 2)
  OBVIOUS
<1>2. /\ p \in 0 .. 3 /\ 2 * p + 1 \in 1 .. 8 /\ 2 * p + 2 \in 1 .. 8
      /\ Pod(2 * p + 1) = p /\ Pod(2 * p + 2) = p
  BY <1>1, Pods4
<1>3. CASE e = x
  <2>1. Sends(n, Switch(3, x), i, {Host(i)})
    BY <1>1, <1>3, EdgeHops
  <2>2. Above(n, Switch(3, x), i) = {}
    BY <2>1, AboveAre, Places
  <2>3. QED
    BY <1>1, <1>3, <2>2
<1>4. CASE e # x
  <2>1. Sends(n, Switch(3, x), i, {one, two})
    BY <1>1, <1>4, EdgeHops
  <2>2. \A y \in {one, two} : IsSwitch(y) /\ Level(y) = 2
    BY <1>1, Places
  <2>3. Level(Switch(3, x)) = 3
    BY Places
  <2>4. Above(n, Switch(3, x), i) = {one, two}
    BY <2>1, <2>2, <2>3, AboveAre
  <2>5. CASE Pod(e) = p
    <3>1. Sends(n, one, i, {Switch(3, e)}) /\ Sends(n, two, i, {Switch(3, e)})
      BY <1>1, <1>2, <2>5, AggHops
    <3>2. Level(Switch(3, e)) = 3
      BY Places
    <3>3. Above(n, one, i) = {} /\ Above(n, two, i) = {}
      BY <2>2, <3>1, <3>2, AboveAre
    <3>4. QED
      BY <1>1, <2>4, <2>5, <3>3
  <2>6. CASE Pod(e) # p
    <3>1. /\ Sends(n, one, i, {Switch(1, ((2 * (2 * p + 1) - 2) % 4) + 1),
                               Switch(1, ((2 * (2 * p + 1) - 1) % 4) + 1)})
          /\ Sends(n, two, i, {Switch(1, ((2 * (2 * p + 2) - 2) % 4) + 1),
                               Switch(1, ((2 * (2 * p + 2) - 1) % 4) + 1)})
      BY <1>1, <1>2, <2>6, AggHops
    <3>2. /\ ((2 * (2 * p + 1) - 2) % 4) + 1 = 1 /\ ((2 * (2 * p + 1) - 1) % 4) + 1 = 2
          /\ ((2 * (2 * p + 2) - 2) % 4) + 1 = 3 /\ ((2 * (2 * p + 2) - 1) % 4) + 1 = 4
      BY <1>2
    <3>3. /\ Sends(n, one, i, {Switch(1, 1), Switch(1, 2)})
          /\ Sends(n, two, i, {Switch(1, 3), Switch(1, 4)})
      BY <3>1, <3>2
    <3>4. \A c \in 1 .. 4 : IsSwitch(Switch(1, c)) /\ Level(Switch(1, c)) = 1
      BY Places
    <3>5. /\ Above(n, one, i) = {Switch(1, 1), Switch(1, 2)}
          /\ Above(n, two, i) = {Switch(1, 3), Switch(1, 4)}
      BY <2>2, <3>3, <3>4, AboveAre
    <3>6. Cores(n) = {Switch(1, 1), Switch(1, 2), Switch(1, 3), Switch(1, 4)}
      <4>1. Half(n) * Half(n) = 4
        BY FattreeSizes
      <4>2. 1 .. 4 = {1, 2, 3, 4}
        OBVIOUS
      <4>3. QED
        BY <4>1, <4>2 DEF Cores
    <3>7. QED
      BY <1>1, <2>4, <2>6, <3>5, <3>6
  <2>7. QED
    BY <2>5, <2>6
<1>5. QED
  BY <1>3, <1>4

(* The first switch of a packet is that of its host.                       *)
FromEdge ==
    /\ net \in Networks /\ src \in 1 .. net.hosts /\ dst \in 1 .. net.hosts
    /\ net.kind = "fattree" /\ IsSwitch(at) /\ from = Host(src) =>
         \E x \in 1 .. 8 : x = EdgeOf(net, src) /\ at = Switch(3, x)

LEMMA FromEdgeNext == AllFanout4 /\ FromEdge /\ [Next]_vars => FromEdge'
<1> SUFFICES ASSUME AllFanout4, FromEdge, [Next]_vars PROVE FromEdge'
  OBVIOUS
<1>1. net \in Networks /\ src \in 1 .. net.hosts /\ dst \in 1 .. net.hosts
  BY DEF FromEdge
<1>2. CASE Leave
  <2>1. /\ net' = net /\ src' = src /\ dst' = dst /\ at = Host(src)
        /\ SendTo(Ports[net][Host(src)], 1)
    BY <1>2 DEF Leave
  <2>2. ASSUME net.kind = "fattree", IsSwitch(at')
        PROVE  \E x \in 1 .. 8 : x = EdgeOf(net, src) /\ at' = Switch(3, x)
    <3>1. net.fanout = 4
      BY <1>1, <2>2 DEF AllFanout4
    <3>2. at' = Ports[net][Host(src)][1] /\ 1 \in DOMAIN Ports[net][Host(src)]
      BY <2>1, <2>2, Places DEF SendTo
    <3>3. src <= 8 * Density(net)
      BY <1>1, <2>2, <3>1, <3>2, TreeHostPorts
    <3>4. at' = Switch(3, EdgeOf(net, src))
      BY <1>1, <2>2, <3>1, <3>2, <3>3, TreeHostPorts DEF EdgeOf
    <3>5. EdgeOf(net, src) \in 1 .. 8
      <4>1. EdgeOf(net, src) \in Nat \ {0} /\ EdgeOf(net, src) <= 8
        BY <1>1, <2>2, <3>1, <3>3, TreeAddress
      <4>2. QED
        BY <4>1
    <3>6. QED
      BY <3>4, <3>5
  <2>3. QED
    BY <1>1, <2>1, <2>2 DEF FromEdge
<1>3. CASE Forward
  <2>1. net' = net /\ src' = src /\ dst' = dst /\ IsSwitch(at) /\ from' = at
    BY <1>3 DEF Forward, SendTo
  <2>2. from' # Host(src')
    BY <2>1, Places
  <2>3. QED
    BY <1>1, <2>1, <2>2 DEF FromEdge
<1>4. CASE UNCHANGED vars
  BY <1>4 DEF vars, FromEdge
<1>5. QED
  BY <1>2, <1>3, <1>4 DEF Next

(* EcmpSpreads in fat trees of fanout 4 with any number of hosts: between  *)
(* pods the two groups of _install_proactive reach every core switch, one  *)
(* half each, and inside a pod no packet is sent to a core.                *)
THEOREM Spread == AllFanout4 => (Spec => []EcmpSpreads)
<1> SUFFICES ASSUME AllFanout4 PROVE Spec => []EcmpSpreads
  OBVIOUS
<1>1. Init => FromEdge
  BY Places DEF Init, FromEdge
<1>2. FromEdge /\ [Next]_vars => FromEdge'
  BY FromEdgeNext
<1>3. FromEdge => EcmpSpreads
  <2> SUFFICES ASSUME FromEdge, net.kind = "fattree", IsSwitch(at), from = Host(src)
               PROVE  UNION {Above(net, y, dst) : y \in Above(net, at, dst)} =
                        IF PodOf(net, src) = PodOf(net, dst) THEN {} ELSE Cores(net)
    BY DEF EcmpSpreads
  <2>1. /\ net \in Networks /\ src \in 1 .. net.hosts /\ dst \in 1 .. net.hosts
        /\ net.fanout = 4
    BY DEF FromEdge, AllFanout4
  <2>2. PICK x \in 1 .. 8 : x = EdgeOf(net, src) /\ at = Switch(3, x)
    BY DEF FromEdge
  <2>3. PodOf(net, src) = Pod(x) /\ PodOf(net, dst) = Pod(EdgeOf(net, dst))
    BY <2>1, <2>2, PodsAre
  <2>4. QED
    BY <2>1, <2>2, <2>3, TreeAbove
<1>4. QED
  BY <1>1, <1>2, <1>3, PTL DEF Spec
=============================================================================
