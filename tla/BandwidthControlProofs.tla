----------------------- MODULE BandwidthControlProofs -----------------------
(***************************************************************************)
(* Theorems about BandwidthControl for every number of hosts, steps, inbox *)
(* and ring slots and every setting of the switches.                       *)
(***************************************************************************)
EXTENDS BandwidthControl, TLAPS

(* What the proofs need to know of the index range of host_ctrl_map.       *)
LEMMA HostRange ==
    /\ 1 \in Hosts
    /\ Hosts \subseteq Nat
    /\ \A h \in Hosts : 1 <= h /\ h <= NumHosts
    /\ \A h \in Hosts : h # NumHosts => h + 1 \in Hosts
BY BoundsAssumption DEF Hosts

(* The shared arrays, rings and process states keep their types            *)
(* (BandwidthController, go_ctrl, DCEnv.step).                             *)
THEOREM TypeCorrect == Spec => []TypeOK
<1>1. Init => TypeOK
  <2> SUFFICES ASSUME Init PROVE TypeOK
    OBVIOUS
  <2>1. 1 \in Hosts /\ step \in 0 .. MaxSteps /\ eidx \in 0 .. NumHosts
    BY HostRange, BoundsAssumption DEF Init
  <2>2. inbox \in [Hosts -> Seq(Nat)]
    BY DEF Init
  <2>3. rx \in [Hosts -> 0 .. RingSize]
    BY BoundsAssumption DEF Init
  <2>4. qdisc \in [Hosts -> Nat \cup {Uncontrolled}]
    BY DEF Init
  <2> QED BY <2>1, <2>2, <2>3, <2>4 DEF Init, TypeOK
<1>2. TypeOK /\ [Next]_vars => TypeOK'
  <2> SUFFICES ASSUME TypeOK, [Next]_vars PROVE TypeOK'
    OBVIOUS
  <2> USE DEF envVars, ctrlVars, netVars, hostVars, histVars
  <2>1. CASE EnvStep
    BY <2>1, BoundsAssumption DEF TypeOK, EnvStep
  <2>2. CASE EnvCopy
    <3>1. eidx' \in 0 .. NumHosts
      BY <2>2, BoundsAssumption DEF TypeOK, EnvCopy
    <3>2. step \in Nat
      BY BoundsAssumption DEF TypeOK
    <3>3. tx_rate' \in [Hosts -> Nat]
      BY <2>2, <3>2 DEF TypeOK, EnvCopy
    <3> QED BY <2>2, <3>1, <3>3 DEF TypeOK, EnvCopy
  <2>3. CASE CloseBwCtrl BY <2>3 DEF TypeOK, CloseBwCtrl
  <2>4. CASE CtrlExit BY <2>4 DEF TypeOK, CtrlExit
  <2>5. CASE CtrlBegin BY <2>5, HostRange DEF TypeOK, CtrlBegin
  <2>6. CASE CtrlSend
    <3>1. inbox' \in [Hosts -> Seq(Nat)]
      BY <2>6 DEF TypeOK, CtrlSend
    <3>2. rx' \in [Hosts -> 0 .. RingSize]
      <4>1. rx[idx] \in 0 .. RingSize BY DEF TypeOK
      <4>2. OneMore(rx[idx]) \in 0 .. RingSize
        BY <4>1, BoundsAssumption DEF OneMore
      <4>3. rx' = rx \/ rx' = [rx EXCEPT ![idx] = OneMore(@)]
        BY <2>6 DEF CtrlSend
      <4> QED BY <4>2, <4>3 DEF TypeOK
    <3>3. pc' \in {"send", "await"} /\ idx' \in Hosts
      BY <2>6, HostRange DEF TypeOK, CtrlSend, Advance
    <3>4. missed' \in [Hosts -> BOOLEAN]
      <4>1. CASE Captures(idx)
        <5>1. missed' = [missed EXCEPT ![idx] = FALSE]
          BY <2>6, <4>1 DEF CtrlSend
        <5> QED BY <5>1 DEF TypeOK
      <4>2. CASE ~Captures(idx)
        <5>1. missed' = [missed EXCEPT ![idx] = TRUE]
          BY <2>6, <4>2 DEF CtrlSend
        <5> QED BY <5>1 DEF TypeOK
      <4> QED BY <4>1, <4>2
    <3> QED BY <2>6, <3>1, <3>2, <3>3, <3>4 DEF TypeOK, CtrlSend
  <2>7. CASE CtrlSendFails
    <3>1. missed' \in [Hosts -> BOOLEAN] /\ idx' \in Hosts
      BY <2>7, HostRange DEF CtrlSendFails
    <3> QED BY <2>7, <3>1 DEF TypeOK, CtrlSendFails
  <2>8. CASE CtrlAwait
    <3>1. rx' \in [Hosts -> 0 .. RingSize]
      <4>1. rx' = rx \/ (rx[idx] > 0 /\ rx' = [rx EXCEPT ![idx] = @ - 1])
        BY <2>8 DEF CtrlAwait
      <4>2. rx[idx] > 0 => rx[idx] - 1 \in 0 .. RingSize
        BY BoundsAssumption DEF TypeOK
      <4> QED BY <4>1, <4>2 DEF TypeOK
    <3>2. pc' \in {"await", "commit"} /\ idx' \in Hosts
      BY <2>8, HostRange DEF TypeOK, CtrlAwait, Advance
    <3> QED BY <2>8, <3>1, <3>2 DEF TypeOK, CtrlAwait
  <2>9. CASE CtrlCommit
    <3>1. pc' \in {"commit", "check"} /\ idx' \in Hosts
      BY <2>9, HostRange DEF TypeOK, CtrlCommit, Advance
    <3>2. missed' \in [Hosts -> BOOLEAN]
      BY <2>9 DEF TypeOK, CtrlCommit
    <3>3. active_rate' \in [Hosts -> Nat]
      BY <2>9 DEF TypeOK, CtrlCommit
    <3> QED BY <2>9, <3>1, <3>2, <3>3 DEF TypeOK, CtrlCommit
  <2>10. CASE CtrlInterrupt
    <3>1. missed' \in [Hosts -> BOOLEAN] /\ idx' \in Hosts
      BY <2>10, HostRange DEF CtrlInterrupt
    <3> QED BY <2>10, <3>1 DEF TypeOK, CtrlInterrupt
  <2>11. ASSUME NEW h \in Hosts, Host(h) PROVE TypeOK'
    <3>1. CASE HostReady(h) BY <3>1 DEF TypeOK, HostReady
    <3>2. CASE HostRecv(h)
      <4>1. Head(inbox[h]) \in Nat /\ Tail(inbox[h]) \in Seq(Nat)
        BY <3>2 DEF TypeOK, HostRecv
      <4> QED BY <3>2, <4>1 DEF TypeOK, HostRecv
    <3>3. CASE HostReply(h)
      <4>1. rx' \in [Hosts -> 0 .. RingSize]
        BY <3>3, BoundsAssumption DEF TypeOK, HostReply, OneMore
      <4> QED BY <3>3, <4>1 DEF TypeOK, HostReply
    <3> QED BY <2>11, <3>1, <3>2, <3>3 DEF Host
  <2>12. ASSUME NEW h \in Hosts, HostStop(h) PROVE TypeOK'
    <3>1. inbox' \in [Hosts -> Seq(Nat)]
      BY <2>12 DEF TypeOK, HostStop
    <3>2. qdisc' \in [Hosts -> Nat \cup {Uncontrolled}]
      BY <2>12 DEF TypeOK, HostStop
    <3> QED BY <2>12, <3>1, <3>2 DEF TypeOK, HostStop
  <2>13. ASSUME NEW h \in Hosts, DeleteLink(h) PROVE TypeOK'
    BY <2>13 DEF TypeOK, DeleteLink
  <2>14. CASE UNCHANGED vars BY <2>14 DEF TypeOK, vars
  <2> QED
    BY <2>1, <2>2, <2>3, <2>4, <2>5, <2>6, <2>7, <2>8, <2>9, <2>10, <2>11,
       <2>12, <2>13, <2>14 DEF Next, Ctrl
<1> QED BY <1>1, <1>2, PTL DEF Spec

-----------------------------------------------------------------------------
(* Sending one more request no smaller than those before keeps the order.  *)
LEMMA OrderedAppend ==
    ASSUME NEW s \in Seq(Nat), NEW lo \in Int, NEW hi \in Nat,
           lo <= hi, Ordered(s, lo, hi)
    PROVE  Ordered(Append(s, hi), lo, hi)
<1>1. /\ Len(s) \in Nat /\ Len(Append(s, hi)) = Len(s) + 1
      /\ Append(s, hi)[Len(s) + 1] = hi
      /\ \A i \in 1 .. Len(s) : Append(s, hi)[i] = s[i] /\ s[i] \in Nat
  OBVIOUS
<1>2. SUFFICES ASSUME NEW i \in 1 .. Len(s) + 1, NEW j \in 1 .. i
               PROVE  /\ lo <= Append(s, hi)[i] /\ Append(s, hi)[i] <= hi
                      /\ Append(s, hi)[j] <= Append(s, hi)[i]
  BY <1>1 DEF Ordered
<1>3. CASE i = Len(s) + 1
  BY <1>1, <1>3 DEF Ordered
<1>4. CASE i \in 1 .. Len(s)
  BY <1>1, <1>4 DEF Ordered
<1> QED BY <1>1, <1>3, <1>4

(* Taking the oldest request makes it the bound of the rest.               *)
LEMMA OrderedTail ==
    ASSUME NEW s \in Seq(Nat), NEW lo \in Int, NEW hi \in Nat,
           s # << >>, Ordered(s, lo, hi)
    PROVE  Ordered(Tail(s), Head(s), hi) /\ Head(s) \in Nat /\ Head(s) <= hi
<1>1. /\ Len(s) \in Nat /\ Len(s) >= 1 /\ Len(Tail(s)) = Len(s) - 1
      /\ Head(s) = s[1]
      /\ \A i \in 1 .. Len(s) : s[i] \in Nat
      /\ \A i \in 1 .. Len(s) - 1 : Tail(s)[i] = s[i + 1]
  OBVIOUS
<1>2. ASSUME NEW i \in 1 .. Len(s) - 1, NEW j \in 1 .. i
      PROVE  /\ s[1] <= Tail(s)[i] /\ Tail(s)[i] <= hi
             /\ Tail(s)[j] <= Tail(s)[i]
  <2>1. i + 1 \in 1 .. Len(s) /\ j + 1 \in 1 .. i + 1 /\ 1 \in 1 .. i + 1
    BY <1>1
  <2>2. s[1] <= s[i + 1] /\ s[i + 1] <= hi /\ s[j + 1] <= s[i + 1]
    BY <2>1 DEF Ordered
  <2> QED BY <1>1, <2>1, <2>2
<1>3. Ordered(Tail(s), s[1], hi)
  BY <1>1, <1>2 DEF Ordered
<1>4. s[1] \in Nat /\ s[1] <= hi
  BY <1>1 DEF Ordered
<1> QED BY <1>1, <1>3, <1>4

(* The bounds of an ordered sequence may move apart.                       *)
LEMMA OrderedWiden ==
    ASSUME NEW s \in Seq(Nat), NEW lo \in Int, NEW hi \in Nat,
           NEW l \in Int, NEW u \in Nat,
           l <= lo, hi <= u, Ordered(s, lo, hi)
    PROVE  Ordered(s, l, u)
BY DEF Ordered

(* Each part of Pipeline relates neighbours on the path from the env to    *)
(* the qdisc; together with the types it is inductive.                     *)
LEMMA PipelineStep == TypeOK /\ Pipeline /\ [Next]_vars => Pipeline'
<1> SUFFICES ASSUME TypeOK, Pipeline, [Next]_vars,
                    NEW h \in Hosts
             PROVE  (ArraysOrdered(h) /\ RequestsOrdered(h))'
  BY DEF Pipeline
<1>a. ArraysOrdered(h) /\ RequestsOrdered(h)
  BY DEF Pipeline
<1>b. /\ h \in Nat \ {0} /\ step \in Nat /\ eidx \in Nat
      /\ tx_rate[h] \in Nat /\ active_rate[h] \in Nat
      /\ inbox[h] \in Seq(Nat) /\ qdisc[h] \in Nat \cup {Uncontrolled}
  BY HostRange, BoundsAssumption DEF TypeOK
<1>c. Uncontrolled = -1
  BY DEF Uncontrolled
<1> USE DEF envVars, ctrlVars, netVars, hostVars
<1>1. CASE EnvStep
  BY <1>1, <1>a, <1>b, HostRange DEF EnvStep, ArraysOrdered, RequestsOrdered
<1>2. CASE EnvCopy
  <2>1. tx_rate'[h] = IF h = eidx THEN step ELSE tx_rate[h]
    BY <1>2 DEF EnvCopy, TypeOK
  <2>2. h <= NumHosts /\ NumHosts \in Nat
    BY HostRange, BoundsAssumption
  <2>3. /\ eidx # 0 /\ eidx' = IF eidx = NumHosts THEN 0 ELSE eidx + 1
        /\ UNCHANGED <<step, active_rate, qdisc>>
    BY <1>2 DEF EnvCopy
  <2>4. tx_rate'[h] = IF eidx' # 0 /\ h >= eidx' THEN step - 1 ELSE step
    BY <1>a, <1>b, <2>1, <2>2, <2>3 DEF ArraysOrdered
  <2>5. tx_rate[h] <= tx_rate'[h]
    BY <1>a, <1>b, <2>1 DEF ArraysOrdered
  <2>6. active_rate[h] <= tx_rate'[h]
    BY <1>a, <1>b, <2>1, <2>5 DEF ArraysOrdered
  <2>7. ArraysOrdered(h)'
    BY <1>a, <2>3, <2>4, <2>6 DEF ArraysOrdered
  <2>8. UNCHANGED <<inbox, active_rate, qdisc>>
    BY <1>2 DEF EnvCopy
  <2> QED BY <1>a, <2>7, <2>8 DEF RequestsOrdered
<1>3. CASE UNCHANGED <<step, eidx, tx_rate, active_rate, inbox, qdisc>>
  BY <1>3, <1>a DEF ArraysOrdered, RequestsOrdered
<1>6. CASE CtrlSend
  <2>1. ArraysOrdered(h)'
    BY <1>6, <1>a DEF CtrlSend, ArraysOrdered
  <2>2. inbox'[h] = inbox[h] \/ inbox'[h] = Append(inbox[h], active_rate[h])
    BY <1>6 DEF CtrlSend, TypeOK
  <2>3. UNCHANGED <<qdisc, active_rate>>
    BY <1>6 DEF CtrlSend
  <2>4. CASE inbox'[h] = inbox[h]
    BY <1>a, <2>1, <2>3, <2>4 DEF RequestsOrdered
  <2>5. CASE inbox'[h] = Append(inbox[h], active_rate[h])
    <3>1. Ordered(inbox'[h], qdisc[h], active_rate[h])
      BY <1>a, <1>b, <1>c, <2>5, OrderedAppend
         DEF RequestsOrdered, ArraysOrdered
    <3> QED BY <2>1, <2>3, <3>1 DEF RequestsOrdered
  <2> QED BY <2>2, <2>4, <2>5
<1>9. CASE CtrlCommit
  <2>1. active_rate'[h] \in {active_rate[h], tx_rate[h]}
    BY <1>9 DEF CtrlCommit, TypeOK
  <2>2. active_rate[h] <= active_rate'[h] /\ active_rate'[h] <= tx_rate[h]
    BY <1>a, <1>b, <2>1 DEF ArraysOrdered
  <2>3. UNCHANGED <<step, eidx, tx_rate, inbox, qdisc>>
    BY <1>9 DEF CtrlCommit
  <2>4. ArraysOrdered(h)'
    BY <1>a, <1>b, <1>c, <2>1, <2>2, <2>3 DEF ArraysOrdered
  <2>5. Ordered(inbox[h], qdisc[h], active_rate'[h])
    BY <1>a, <1>b, <1>c, <2>1, <2>2, OrderedWiden DEF RequestsOrdered
  <2>6. RequestsOrdered(h)'
    BY <2>3, <2>5 DEF RequestsOrdered
  <2> QED BY <2>4, <2>6
<1>11. ASSUME NEW g \in Hosts, HostRecv(g)
       PROVE  (ArraysOrdered(h) /\ RequestsOrdered(h))'
  <2>1. CASE g # h
    <3>1. UNCHANGED <<inbox[h], qdisc[h]>>
      BY <1>11, <2>1 DEF HostRecv, TypeOK
    <3>2. UNCHANGED <<step, eidx, tx_rate, active_rate>>
      BY <1>11 DEF HostRecv
    <3> QED BY <1>a, <3>1, <3>2 DEF ArraysOrdered, RequestsOrdered
  <2>2. CASE g = h
    <3>1. /\ inbox[h] # << >>
          /\ inbox'[h] = Tail(inbox[h]) /\ qdisc'[h] = Head(inbox[h])
      BY <1>11, <2>2 DEF HostRecv, TypeOK
    <3>2. /\ Ordered(inbox'[h], qdisc'[h], active_rate[h])
          /\ qdisc'[h] \in Nat /\ qdisc'[h] <= active_rate[h]
      <4>1. Ordered(inbox[h], qdisc[h], active_rate[h])
        BY <1>a DEF RequestsOrdered
      <4>2. qdisc[h] \in Int
        BY <1>b, <1>c
      <4>3. /\ Ordered(Tail(inbox[h]), Head(inbox[h]), active_rate[h])
            /\ Head(inbox[h]) \in Nat /\ Head(inbox[h]) <= active_rate[h]
        BY <1>b, <3>1, <4>1, <4>2, OrderedTail
      <4> QED BY <3>1, <4>3
    <3>3. UNCHANGED <<step, eidx, tx_rate, active_rate>>
      BY <1>11 DEF HostRecv
    <3>4. ArraysOrdered(h)'
      BY <1>a, <3>2, <3>3 DEF ArraysOrdered
    <3>5. RequestsOrdered(h)'
      BY <3>2, <3>3 DEF RequestsOrdered
    <3> QED BY <3>4, <3>5
  <2> QED BY <2>1, <2>2
<1>12. ASSUME NEW g \in Hosts, HostStop(g)
       PROVE  (ArraysOrdered(h) /\ RequestsOrdered(h))'
  <2>1. qdisc'[h] \in {qdisc[h], Uncontrolled}
    BY <1>12 DEF HostStop, TypeOK
  <2>2. inbox'[h] \in {inbox[h], << >>} /\ Len(<< >>) = 0
    BY <1>12 DEF HostStop, TypeOK
  <2>3. UNCHANGED <<step, eidx, tx_rate, active_rate>>
    BY <1>12 DEF HostStop
  <2>4. ArraysOrdered(h)'
    BY <1>a, <1>b, <1>c, <2>1, <2>3 DEF ArraysOrdered
  <2>5. Ordered(inbox'[h], qdisc'[h], active_rate[h])
    <3>1. CASE inbox'[h] = << >>
      BY <2>2, <3>1 DEF Ordered
    <3>2. CASE inbox'[h] = inbox[h]
      BY <1>a, <1>b, <1>c, <2>1, <3>2, OrderedWiden DEF RequestsOrdered
    <3> QED BY <2>2, <3>1, <3>2
  <2>6. RequestsOrdered(h)'
    BY <2>3, <2>5 DEF RequestsOrdered
  <2> QED BY <2>4, <2>6
<1> QED
  BY <1>1, <1>2, <1>3, <1>6, <1>9, <1>11, <1>12
     DEF Next, Ctrl, Host, CloseBwCtrl, CtrlExit, CtrlBegin, CtrlSendFails,
         CtrlAwait, CtrlInterrupt, HostReady, HostReply, DeleteLink, vars

(* The actions of a host are strung out in order from tx_rate to the qdisc *)
(* (DCEnv.step, broadcast_bw, ctrl_loop), torn copies and losses included. *)
THEOREM PipelineOrdered == Spec => []Pipeline
<1>1. Init => Pipeline
  BY DEF Init, Pipeline, ArraysOrdered, RequestsOrdered, Ordered, Uncontrolled
<1> QED BY <1>1, TypeCorrect, PipelineStep, PTL DEF Spec

(* No host returns to an older action while its go_ctrl lives: requests    *)
(* reach change_qdisc in the order in which the actions were chosen.       *)
THEOREM ActionsNeverRegress == Spec => NoRegress
<1> DEFINE Step == \A h \in Hosts : qdisc'[h] < qdisc[h] => host'[h] = "dead"
<1>1. TypeOK /\ Pipeline /\ [Next]_vars => [Step]_vars
  <2> SUFFICES ASSUME TypeOK, Pipeline, Next, NEW h \in Hosts,
                      qdisc'[h] < qdisc[h]
               PROVE  host'[h] = "dead"
    OBVIOUS
  <2>a. qdisc[h] \in Nat \cup {Uncontrolled} /\ Uncontrolled = -1
    BY DEF TypeOK, Uncontrolled
  <2> USE DEF envVars, ctrlVars, netVars, hostVars
  <2>1. ASSUME qdisc'[h] = qdisc[h] PROVE FALSE
    BY <2>1, <2>a
  <2>2. ASSUME NEW g \in Hosts, HostRecv(g) PROVE FALSE
    <3>1. CASE g # h
      BY <2>2, <2>1, <3>1 DEF HostRecv, TypeOK
    <3>2. CASE g = h
      <4>1. qdisc'[h] = Head(inbox[h]) /\ inbox[h] # << >> /\ inbox[h] \in Seq(Nat)
        BY <2>2, <3>2 DEF HostRecv, TypeOK
      <4>2. Ordered(inbox[h], qdisc[h], active_rate[h])
        BY DEF Pipeline, RequestsOrdered
      <4>3. qdisc[h] <= Head(inbox[h])
        BY <4>1, <4>2 DEF Ordered
      <4>4. Head(inbox[h]) \in Nat
        BY <4>1
      <4> QED BY <2>a, <4>1, <4>3, <4>4
    <3> QED BY <3>1, <3>2
  <2>3. ASSUME NEW g \in Hosts, HostStop(g) PROVE host'[h] = "dead"
    <3>1. CASE g = h
      BY <2>3, <3>1 DEF HostStop, TypeOK
    <3>2. CASE g # h
      BY <2>3, <2>1, <3>2 DEF HostStop, TypeOK
    <3> QED BY <3>1, <3>2
  <2> QED
    BY <2>1, <2>2, <2>3
       DEF Next, Ctrl, Host, EnvStep, EnvCopy, CloseBwCtrl, CtrlExit, CtrlBegin,
           CtrlSend, CtrlSendFails, CtrlAwait, CtrlCommit, CtrlInterrupt,
           HostReady, HostReply, DeleteLink
<1> QED BY <1>1, TypeCorrect, PipelineOrdered, PTL DEF Spec, NoRegress

-----------------------------------------------------------------------------
(* A host that was sent the action that is in active_rate and whose element *)
(* is not copied yet.                                                      *)
Sent(h) == \/ pc = "send" /\ h < idx
           \/ pc = "await"
           \/ pc = "commit" /\ h >= idx
SentIsGiven == \A h \in Hosts : Sent(h) => Given(h)

(* The newest request of a host is the last to leave its buffer: as long   *)
(* as go_ctrl lives, taking a request leaves Newest as it is.              *)
LEMMA NewestStays ==
    ASSUME TypeOK, NEW h \in Hosts, NEW g \in Hosts, HostRecv(g)
    PROVE  Newest(h)' = Newest(h)
<1>1. CASE g # h
  BY <1>1 DEF HostRecv, TypeOK, Newest
<1>2. CASE g = h
  <2>1. PICK s \in Seq(Nat) : s = inbox[h]
    BY DEF TypeOK
  <2>2. s # << >> /\ inbox'[h] = Tail(s) /\ qdisc'[h] = Head(s)
    BY <1>2, <2>1 DEF HostRecv, TypeOK
  <2>3. CASE Tail(s) = << >>
    <3>a. Len(Tail(s)) = 0
      <4>1. ASSUME NEW t \in Seq(Nat), t = << >> PROVE Len(t) = 0
        BY <4>1
      <4>2. Tail(s) \in Seq(Nat)
        BY <2>2
      <4> QED BY <2>3, <4>1, <4>2
    <3>b. Len(Tail(s)) = Len(s) - 1 /\ Len(s) \in Nat
      BY <2>2
    <3>1. Len(s) = 1
      BY <3>a, <3>b
    <3>2. s[Len(s)] = Head(s)
      BY <2>2, <3>1
    <3> QED BY <2>1, <2>2, <2>3, <3>2 DEF Newest
  <2>4. CASE Tail(s) # << >>
    <3>1. Tail(s)[Len(Tail(s))] = s[Len(s)]
      BY <2>2, <2>4
    <3> QED BY <2>1, <2>2, <2>4, <3>1 DEF Newest
  <2> QED BY <2>3, <2>4
<1> QED BY <1>1, <1>2

(* Between the send to a host and the copy of its element nothing takes    *)
(* back what the host was given, whatever frames the controller took for   *)
(* replies (broadcast_bw, ctrl_loop).                                      *)
LEMMA SentStep ==
    ASSUME TypeOK, SentIsGiven, [Next]_vars
    PROVE  SentIsGiven'
<1> SUFFICES ASSUME NEW h \in Hosts, Sent(h)' PROVE Given(h)'
  BY DEF SentIsGiven
<1>a. Sent(h) => Given(h)
  BY DEF SentIsGiven
<1>b. /\ h \in Nat /\ idx \in Nat /\ NumHosts \in Nat /\ idx \in Hosts
      /\ 1 <= h /\ h <= NumHosts /\ 1 <= idx /\ idx <= NumHosts
  BY HostRange, BoundsAssumption DEF TypeOK
<1> USE DEF envVars, ctrlVars, netVars, hostVars, histVars
<1>1. CASE UNCHANGED <<pc, idx, active_rate, inbox, host, qdisc, missed>>
  BY <1>1, <1>a DEF Sent, Given, Newest
<1>2. CASE CtrlBegin
  BY <1>2, <1>b DEF CtrlBegin, Sent
<1>3. CASE CtrlSend
  <2>1. Sent(h) \/ h = idx
    BY <1>3, <1>b DEF CtrlSend, Advance, Sent
  <2>2. UNCHANGED <<active_rate, host, qdisc>>
    BY <1>3 DEF CtrlSend
  <2>3. CASE h # idx
    <3>1. inbox'[h] = inbox[h] /\ missed'[h] = missed[h]
      BY <1>3, <2>3 DEF CtrlSend, TypeOK
    <3> QED BY <1>a, <2>1, <2>2, <2>3, <3>1 DEF Given, Newest
  <2>4. CASE h = idx /\ ~Captures(idx)
    <3>1. missed'[h]
      BY <1>3, <2>4 DEF CtrlSend, TypeOK
    <3> QED BY <3>1 DEF Given
  <2>5. CASE h = idx /\ Captures(idx)
    <3>1. inbox'[h] = Append(inbox[h], active_rate[h])
      BY <1>3, <2>5 DEF CtrlSend, TypeOK
    <3>2. PICK s \in Seq(Nat), r \in Nat : s = inbox[h] /\ r = active_rate[h]
      BY DEF TypeOK
    <3>3. Append(s, r) # << >> /\ Append(s, r)[Len(Append(s, r))] = r
      OBVIOUS
    <3>4. Newest(h)' = active_rate'[h]
      BY <2>2, <3>1, <3>2, <3>3 DEF Newest
    <3> QED BY <3>4 DEF Given
  <2> QED BY <2>3, <2>4, <2>5
<1>4. CASE CtrlAwait
  <2>1. UNCHANGED <<active_rate, inbox, host, qdisc, missed>> /\ Sent(h)
    BY <1>4 DEF CtrlAwait, Sent
  <2> QED BY <1>a, <2>1 DEF Given, Newest
<1>5. CASE CtrlCommit
  <2>1. h # idx /\ Sent(h)
    BY <1>5, <1>b DEF CtrlCommit, Advance, Sent
  <2>2. active_rate'[h] = active_rate[h] /\ missed'[h] = missed[h]
    BY <1>5, <2>1 DEF CtrlCommit, TypeOK
  <2>3. UNCHANGED <<inbox, host, qdisc>>
    BY <1>5 DEF CtrlCommit
  <2> QED BY <1>a, <2>1, <2>2, <2>3 DEF Given, Newest
<1>6. ASSUME NEW g \in Hosts, HostRecv(g) PROVE Given(h)'
  <2>1. UNCHANGED <<active_rate, pc, idx, missed>>
    BY <1>6 DEF HostRecv
  <2>2. host[h] = "dead" => host'[h] = "dead"
    BY <1>6 DEF HostRecv, TypeOK
  <2>3. Newest(h)' = Newest(h)
    BY <1>6, NewestStays
  <2> QED BY <1>a, <2>1, <2>2, <2>3 DEF Sent, Given
<1>7. ASSUME NEW g \in Hosts, HostReady(g) \/ HostReply(g) PROVE Given(h)'
  <2>1. UNCHANGED <<active_rate, inbox, qdisc, pc, idx, missed>>
    BY <1>7 DEF HostReady, HostReply
  <2>2. host[h] = "dead" => host'[h] = "dead"
    BY <1>7 DEF HostReady, HostReply, TypeOK
  <2> QED BY <1>a, <2>1, <2>2 DEF Sent, Given, Newest
<1>8. ASSUME NEW g \in Hosts, HostStop(g) PROVE Given(h)'
  <2>1. UNCHANGED <<active_rate, pc, idx>>
    BY <1>8 DEF HostStop
  <2>2. CASE g = h
    BY <1>8, <2>2 DEF HostStop, TypeOK, Given
  <2>3. CASE g # h
    <3>1. UNCHANGED <<inbox[h], qdisc[h], host[h], missed[h]>>
      BY <1>8, <2>3 DEF HostStop, TypeOK
    <3> QED BY <1>a, <2>1, <3>1 DEF Sent, Given, Newest
  <2> QED BY <2>2, <2>3
<1> QED
  <2>1. CASE CtrlExit \/ CtrlSendFails \/ CtrlInterrupt
    BY <2>1 DEF CtrlExit, CtrlSendFails, CtrlInterrupt, Sent
  <2>2. ASSUME NEW g \in Hosts, DeleteLink(g) PROVE Given(h)'
    BY <2>2, <1>1 DEF DeleteLink
  <2>3. CASE EnvStep \/ EnvCopy \/ CloseBwCtrl \/ UNCHANGED vars
    BY <2>3, <1>1 DEF EnvStep, EnvCopy, CloseBwCtrl, vars
  <2> QED BY <1>2, <1>3, <1>4, <1>5, <1>6, <1>7, <1>8,
             <2>1, <2>2, <2>3 DEF Next, Ctrl, Host

(* No action leaves active_rate before every host that still has one there *)
(* was given it, or could not be (broadcast_bw: send to all, await a frame *)
(* each, then copy): on every ring, those that take requests for replies   *)
(* included, and with any loss, death or interrupt.                        *)
THEOREM ActionsAreHandedOver == Spec => HandedOver
<1> DEFINE Step == \A h \in Hosts : active_rate'[h] # active_rate[h]
                                       => \A g \in h .. NumHosts : Given(g)
<1>1. Init => SentIsGiven
  BY DEF Init, SentIsGiven, Sent
<1>2. Spec => []SentIsGiven
  BY <1>1, TypeCorrect, SentStep, PTL DEF Spec
<1>3. TypeOK /\ SentIsGiven /\ [Next]_vars => [Step]_vars
  <2> SUFFICES ASSUME TypeOK, SentIsGiven, Next, NEW h \in Hosts,
                      active_rate'[h] # active_rate[h], NEW g \in h .. NumHosts
               PROVE  Given(g)
    OBVIOUS
  <2>1. CtrlCommit
    BY DEF Next, Ctrl, Host, EnvStep, EnvCopy, CloseBwCtrl, CtrlExit, CtrlBegin,
           CtrlSend, CtrlSendFails, CtrlAwait, CtrlInterrupt, HostReady,
           HostRecv, HostReply, HostStop, DeleteLink, ctrlVars
  <2>2. pc = "commit" /\ h = idx
    BY <2>1 DEF CtrlCommit, TypeOK
  <2>3. g \in Hosts /\ g >= idx
    BY <2>2, BoundsAssumption DEF Hosts
  <2> QED BY <2>2, <2>3 DEF SentIsGiven, Sent
<1> QED BY <1>2, <1>3, TypeCorrect, PTL DEF Spec, HandedOver

-----------------------------------------------------------------------------
(* Steps of the controller, the rings and the copies that RatePromise does *)
(* not see change neither tx_rate nor a qdisc nor what Mode is made of.    *)
LEMMA PromiseStep ==
    TypeOK /\ Pipeline /\ [Next]_vars => [RP!Next]_(RP!vars)
<1> SUFFICES ASSUME TypeOK, Pipeline, [Next]_vars
             PROVE  RP!Next \/ UNCHANGED <<tx_rate, qdisc, Mode>>
  BY DEF RP!vars
<1> USE DEF envVars, ctrlVars, netVars, hostVars
<1>1. CASE EnvCopy
  <2>1. eidx \in Hosts /\ step \in 0 .. MaxSteps
    BY <1>1, HostRange, BoundsAssumption DEF EnvCopy, TypeOK, Hosts
  <2>2. tx_rate[eidx] = step - 1
    <3>1. eidx \in Nat /\ ArraysOrdered(eidx)
      BY <2>1, HostRange DEF Pipeline
    <3> QED BY <1>1, <3>1 DEF ArraysOrdered, EnvCopy
  <2>3. step > tx_rate[eidx] /\ tx_rate' = [tx_rate EXCEPT ![eidx] = step]
    BY <1>1, <2>1, <2>2 DEF EnvCopy
  <2>4. UNCHANGED <<qdisc, Mode>>
    BY <1>1 DEF EnvCopy, Mode
  <2>5. RP!Choose(eidx)
    BY <2>1, <2>3, <2>4 DEF RP!Choose
  <2> QED BY <2>1, <2>5 DEF RP!Next
<1>2. ASSUME NEW g \in Hosts, HostRecv(g) PROVE RP!Next
  <2> DEFINE v == Head(inbox[g])
  <2>1. /\ host[g] = "idle" /\ inbox[g] \in Seq(Nat) /\ inbox[g] # << >>
        /\ qdisc' = [qdisc EXCEPT ![g] = v]
        /\ host' = [host EXCEPT ![g] = "replying"]
        /\ UNCHANGED <<tx_rate, kill, pc>>
    BY <1>2 DEF HostRecv, TypeOK
  <2>2. ArraysOrdered(g) /\ Ordered(inbox[g], qdisc[g], active_rate[g])
    BY DEF Pipeline, RequestsOrdered
  <2>3. /\ v \in Nat /\ active_rate[g] \in Nat /\ tx_rate[g] \in Nat
        /\ step \in 0 .. MaxSteps /\ eidx \in Nat /\ g \in Nat /\ MaxSteps \in Nat
    <3>1. v \in Nat
      BY <2>1
    <3>2. active_rate[g] \in Nat /\ tx_rate[g] \in Nat
      BY DEF TypeOK
    <3>3. step \in 0 .. MaxSteps /\ eidx \in Nat
      BY BoundsAssumption DEF TypeOK
    <3> QED BY <3>1, <3>2, <3>3, HostRange, BoundsAssumption
  <2>4. qdisc[g] <= v /\ v <= active_rate[g]
    BY <2>1, <2>2 DEF Ordered
  <2>5. v <= tx_rate[g] /\ tx_rate[g] <= step
    BY <2>2, <2>3, <2>4 DEF ArraysOrdered
  <2>6. v \in 0 .. MaxSteps
    BY <2>3, <2>5
  <2>7. Mode' = Mode /\ Mode[g] # "released"
    <3>1. \A h \in Hosts : (host'[h] = "dead") <=> (host[h] = "dead")
      BY <2>1 DEF TypeOK
    <3> QED BY <2>1, <3>1 DEF Mode
  <2>8. RP!Enforce(g)
    BY <2>1, <2>4, <2>5, <2>6, <2>7 DEF RP!Enforce
  <2> QED BY <2>8 DEF RP!Next
<1>3. ASSUME NEW g \in Hosts, HostStop(g) PROVE RP!Next
  <2>1. /\ host' = [host EXCEPT ![g] = "dead"]
        /\ qdisc' \in {qdisc, [qdisc EXCEPT ![g] = Uncontrolled]}
        /\ UNCHANGED <<tx_rate, kill, pc>>
    BY <1>3 DEF HostStop
  <2>2. Mode' = [Mode EXCEPT ![g] = "released"]
    BY <2>1 DEF Mode, TypeOK
  <2>3. RP!Release(g)
    BY <2>1, <2>2 DEF RP!Release
  <2> QED BY <2>3 DEF RP!Next
<1>4. CASE CloseBwCtrl \/ CtrlSendFails \/ CtrlInterrupt
  <2>1. UNCHANGED <<tx_rate, qdisc, host>>
    BY <1>4 DEF CloseBwCtrl, CtrlSendFails, CtrlInterrupt
  <2>2. kill' \/ pc' = "exited"
    BY <1>4 DEF CloseBwCtrl, CtrlSendFails, CtrlInterrupt
  <2>3. Mode' = [h \in Hosts |->
                   IF Mode[h] = "promised" THEN "stopping" ELSE Mode[h]]
    BY <2>1, <2>2 DEF Mode
  <2>4. RP!Stop
    BY <2>1, <2>3 DEF RP!Stop
  <2> QED BY <2>4 DEF RP!Next
<1>5. CASE CtrlExit
  BY <1>5 DEF CtrlExit, Mode
<1>6. CASE CtrlBegin \/ CtrlSend \/ CtrlAwait \/ CtrlCommit
  <2>1. UNCHANGED <<tx_rate, qdisc, host, kill>>
        /\ pc # "exited" /\ pc' # "exited"
    BY <1>6 DEF CtrlBegin, CtrlSend, CtrlAwait, CtrlCommit, Advance
  <2> QED BY <2>1 DEF Mode
<1>7. ASSUME NEW g \in Hosts, HostReady(g) \/ HostReply(g) \/ DeleteLink(g)
      PROVE  UNCHANGED <<tx_rate, qdisc, Mode>>
  <2>1. UNCHANGED <<tx_rate, qdisc, kill, pc>>
    BY <1>7 DEF HostReady, HostReply, DeleteLink
  <2>2. \A h \in Hosts : (host'[h] = "dead") <=> (host[h] = "dead")
    BY <1>7 DEF HostReady, HostReply, DeleteLink, TypeOK
  <2> QED BY <2>1, <2>2 DEF Mode
<1>8. CASE EnvStep \/ UNCHANGED vars
  BY <1>8 DEF EnvStep, vars, Mode
<1> QED
  BY <1>1, <1>2, <1>3, <1>4, <1>5, <1>6, <1>7, <1>8 DEF Next, Ctrl, Host

(* Rings, processes and unlocked copies keep the promise made to the agent *)
(* (RatePromise): every choice a host enforces was made for it and they    *)
(* come in the order in which they were made.                              *)
THEOREM PromiseKept == Spec => KeepsPromise
<1>1. Init => RP!Init
  BY DEF Init, RP!Init, Mode
<1> QED
  BY <1>1, PromiseStep, TypeCorrect, PipelineOrdered, PTL
     DEF Spec, KeepsPromise, RP!Safety
=============================================================================
