-------------------------- MODULE BandwidthControl --------------------------
(***************************************************************************)
(* The rate control path of the environment: DCEnv.step writes the action  *)
(* into the shared array tx_rate; the BandwidthController process          *)
(* broadcasts active_rate to the host controllers (go_ctrl), waits for one *)
(* packet per host on the rx rings and copies tx_rate into active_rate;    *)
(* each host controller sets the rate of its fq qdisc and replies.         *)
(*                                                                         *)
(* A rate is represented by the number of the env step that chose it: 0 is *)
(* the content of the zeroed arrays before the first step, Uncontrolled is *)
(* a qdisc that no request has set yet (or that has been deleted).         *)
(***************************************************************************)
EXTENDS Integers, Sequences

CONSTANTS NumHosts,      \* hosts, in the order of host_ctrl_map
          MaxSteps,      \* bound: env steps of a run
          InboxCap,      \* bound: packets the pcap buffer of a host holds
          RingSize,      \* bound: frames of an rx ring (2048 in the code)
          WaitForHosts,  \* is the 0.5 s pause of _init_services enough for
                         \* every host controller to open its capture?
          HostsMayFail   \* may a host controller end before close()?

Hosts == 1 .. NumHosts
Uncontrolled == -1

ASSUME BoundsAssumption ==
    /\ NumHosts \in Nat \ {0}
    /\ MaxSteps \in Nat
    /\ InboxCap \in Nat \ {0}
    /\ RingSize \in Nat \ {0}
ASSUME SwitchesAssumption ==
    /\ WaitForHosts \in BOOLEAN
    /\ HostsMayFail \in BOOLEAN

VARIABLES
    step,         \* env steps taken
    eidx,         \* next element the env copies into tx_rate, 0: not copying
    tx_rate,      \* shared array written by the env, read by the controller
    active_rate,  \* shared array written by the controller, read by both
    closing,      \* DCEnv.close has called bw_ctrl.close()
    kill,         \* the controller's kill event
    pc,           \* where the controller is in run() and broadcast_bw()
    idx,          \* the host (or element) its current loop is at
    link,         \* link[h]: the control interface of h exists
    inbox,        \* inbox[h]: requests captured by go_ctrl, not yet read
    rx,           \* rx[h]: frames in the controller's rx ring for h
    host,         \* host[h]: state of the go_ctrl process on h
    qdisc,        \* qdisc[h]: the rate the qdisc of h enforces
    missed        \* history: missed[h] says that no capture of h had room
                  \* for the request of this broadcast; forgotten once the
                  \* element of h is copied, or nobody waits for it

envVars == <<step, eidx, tx_rate>>
ctrlVars == <<active_rate, kill, pc, idx>>
netVars == <<link, inbox, rx>>
hostVars == <<host, qdisc>>
histVars == <<missed>>
vars == <<envVars, ctrlVars, netVars, hostVars, closing, histVars>>

Init ==
    /\ step = 0 /\ eidx = 0
    /\ tx_rate = [h \in Hosts |-> 0]
    /\ active_rate = [h \in Hosts |-> 0]
    /\ closing = FALSE /\ kill = FALSE
    /\ pc = "check" /\ idx = 1
    /\ link = [h \in Hosts |-> TRUE]
    /\ inbox = [h \in Hosts |-> << >>]
    /\ rx = [h \in Hosts |-> 0]
    /\ host = [h \in Hosts |-> "starting"]
    /\ qdisc = [h \in Hosts |-> Uncontrolled]
    /\ missed = [h \in Hosts |-> FALSE]

-----------------------------------------------------------------------------
(* The environment                                                         *)

(* DCEnv.step up to the copy: a new action exists.                         *)
EnvStep ==
    /\ eidx = 0 /\ ~closing /\ step < MaxSteps
    /\ step' = step + 1
    /\ eidx' = 1
    /\ UNCHANGED <<tx_rate, ctrlVars, netVars, hostVars, closing, histVars>>

(* tx_rate[:] = action, one element at a time, with no lock.               *)
EnvCopy ==
    /\ eidx # 0
    /\ tx_rate' = [tx_rate EXCEPT ![eidx] = step]
    /\ eidx' = IF eidx = NumHosts THEN 0 ELSE eidx + 1
    /\ UNCHANGED <<step, ctrlVars, netVars, hostVars, closing, histVars>>

(* DCEnv.close reaches bw_ctrl.close(): the event is set, nobody joins.    *)
CloseBwCtrl ==
    /\ eidx = 0 /\ ~closing
    /\ closing' = TRUE
    /\ kill' = TRUE
    /\ UNCHANGED <<envVars, active_rate, pc, idx, netVars, hostVars, histVars>>

(* net_man.stop_network(), after traffic_gen.close() killed the hosts.     *)
DeleteLink(h) ==
    /\ closing /\ link[h]
    /\ \A g \in Hosts : host[g] = "dead"
    /\ link' = [link EXCEPT ![h] = FALSE]
    /\ UNCHANGED <<envVars, ctrlVars, inbox, rx, hostVars, closing, histVars>>

-----------------------------------------------------------------------------
(* The BandwidthController process                                         *)

CtrlExit ==
    /\ pc = "check" /\ kill
    /\ pc' = "exited"
    /\ UNCHANGED <<envVars, active_rate, kill, idx, netVars, hostVars, closing, histVars>>

CtrlBegin ==
    /\ pc = "check" /\ ~kill
    /\ WaitForHosts => \A h \in Hosts : host[h] # "starting"
    /\ pc' = "send" /\ idx' = 1
    /\ UNCHANGED <<envVars, active_rate, kill, netVars, hostVars, closing, histVars>>

(* The loops of broadcast_bw go through the hosts in order.                *)
Advance(next) ==
    IF idx = NumHosts THEN pc' = next /\ idx' = 1
                      ELSE pc' = pc /\ idx' = idx + 1

Listening(h) == host[h] \in {"idle", "replying"}
Captures(h) == Listening(h) /\ Len(inbox[h]) < InboxCap

(* Faulty variant: the ring is taken to be unbounded.                      *)
OneMoreUnbounded(n) == n + 1

OneMore(n) == IF n < RingSize THEN n + 1 ELSE n

(* Faulty variant: the request carries the action that is not admitted yet. *)
CtrlSendAhead ==
    /\ pc = "send" /\ link[idx]
    /\ inbox' = IF Captures(idx)
                  THEN [inbox EXCEPT ![idx] = Append(@, tx_rate[idx])]
                  ELSE inbox
    /\ missed' = [missed EXCEPT ![idx] = ~Captures(idx)]
    /\ UNCHANGED rx \/ rx' = [rx EXCEPT ![idx] = OneMore(@)]
    /\ Advance("await")
    /\ UNCHANGED <<envVars, active_rate, kill, link, hostVars, closing>>

(* send_cntrl_pckt succeeds.  The request is lost when no capture is open  *)
(* on the host or its buffer is full.  The rx ring of the interface may    *)
(* see it pass: every ring is bound to ETH_P_ALL, and the filter, dst port *)
(* 20130, fits requests as well as replies.  Whether it does is up to the  *)
(* kernel and the interface.                                               *)
CtrlSend ==
    /\ pc = "send" /\ link[idx]
    /\ inbox' = IF Captures(idx)
                  THEN [inbox EXCEPT ![idx] = Append(@, active_rate[idx])]
                  ELSE inbox
    /\ missed' = [missed EXCEPT ![idx] = ~Captures(idx)]
    /\ UNCHANGED rx \/ rx' = [rx EXCEPT ![idx] = OneMore(@)]
    /\ Advance("await")
    /\ UNCHANGED <<envVars, active_rate, kill, link, hostVars, closing>>

(* sendto fails: the broadcast is given up and the kill event set.         *)
CtrlSendFails ==
    /\ pc = "send" /\ ~link[idx]
    /\ kill' = TRUE /\ pc' = "check" /\ idx' = 1
    /\ UNCHANGED <<envVars, active_rate, netVars, hostVars, closing>>
    /\ missed' = [h \in Hosts |-> FALSE]

(* Faulty variant: poll is retried although the interface is gone.         *)
CtrlAwaitForever ==
    /\ pc = "await"
    /\ rx[idx] > 0 /\ rx' = [rx EXCEPT ![idx] = @ - 1]
    /\ Advance("commit")
    /\ UNCHANGED <<envVars, active_rate, kill, link, inbox, hostVars, closing, histVars>>

(* wait_for_reply returns (see PacketRing): with a frame of the ring, or   *)
(* without one when the interface is gone.  broadcast_bw does not look at  *)
(* the difference.                                                         *)
CtrlAwait ==
    /\ pc = "await"
    /\ \/ rx[idx] > 0 /\ rx' = [rx EXCEPT ![idx] = @ - 1]
       \/ ~link[idx] /\ UNCHANGED rx
    /\ Advance("commit")
    /\ UNCHANGED <<envVars, active_rate, kill, link, inbox, hostVars, closing, histVars>>

(* Faulty variant: the copy stops one element short.                       *)
CtrlCommitShort ==
    /\ pc = "commit"
    /\ active_rate' = IF idx = NumHosts
                        THEN active_rate
                        ELSE [active_rate EXCEPT ![idx] = tx_rate[idx]]
    /\ Advance("check")
    /\ UNCHANGED <<envVars, kill, netVars, hostVars, closing, histVars>>

(* active_rate[:] = tx_rate, one element at a time, with no lock.          *)
CtrlCommit ==
    /\ pc = "commit"
    /\ active_rate' = [active_rate EXCEPT ![idx] = tx_rate[idx]]
    /\ Advance("check")
    /\ UNCHANGED <<envVars, kill, netVars, hostVars, closing>>
    /\ missed' = [missed EXCEPT ![idx] = FALSE]

(* A KeyboardInterrupt: run() catches it inside broadcast_bw and sets the  *)
(* kill event; in the loop's test nothing catches it.                      *)
CtrlInterrupt ==
    /\ pc # "exited"
    /\ IF pc = "check" THEN pc' = "exited" /\ UNCHANGED kill
                       ELSE pc' = "check" /\ kill' = TRUE
    /\ idx' = 1
    /\ UNCHANGED <<envVars, active_rate, netVars, hostVars, closing>>
    /\ missed' = [h \in Hosts |-> FALSE]

Ctrl == \/ CtrlExit \/ CtrlBegin \/ CtrlSend \/ CtrlSendFails
        \/ CtrlAwait \/ CtrlCommit

-----------------------------------------------------------------------------
(* The host controllers (go_ctrl)                                          *)

(* main: the qdisc is set up with max_rate and the capture is open.        *)
HostReady(h) ==
    /\ host[h] = "starting"
    /\ host' = [host EXCEPT ![h] = "idle"]
    /\ UNCHANGED <<envVars, ctrlVars, netVars, qdisc, closing, histVars>>

(* Faulty variant: the newest request is served first.                     *)
HostRecvNewest(h) ==
    /\ host[h] = "idle" /\ inbox[h] # << >>
    /\ qdisc' = [qdisc EXCEPT ![h] = inbox[h][Len(inbox[h])]]
    /\ inbox' = [inbox EXCEPT ![h] = SubSeq(@, 1, Len(@) - 1)]
    /\ host' = [host EXCEPT ![h] = "replying"]
    /\ UNCHANGED <<envVars, ctrlVars, link, rx, closing, histVars>>

(* ctrl_loop takes the next request and changes the qdisc.                 *)
HostRecv(h) ==
    /\ host[h] = "idle" /\ inbox[h] # << >>
    /\ qdisc' = [qdisc EXCEPT ![h] = Head(inbox[h])]
    /\ inbox' = [inbox EXCEPT ![h] = Tail(@)]
    /\ host' = [host EXCEPT ![h] = "replying"]
    /\ UNCHANGED <<envVars, ctrlVars, link, rx, closing, histVars>>

(* Faulty variant: a reply that fails runs the exit handler, not the exit. *)
HostReplyUnlimits(h) ==
    /\ host[h] = "replying"
    /\ host' = [host EXCEPT ![h] = "idle"]
    /\ \/ rx' = [rx EXCEPT ![h] = OneMore(@)] /\ UNCHANGED qdisc
       \/ qdisc' = [qdisc EXCEPT ![h] = Uncontrolled] /\ UNCHANGED rx
    /\ UNCHANGED <<envVars, ctrlVars, link, inbox, closing, histVars>>

(* send_response: the ports are swapped and the packet goes back.          *)
HostReply(h) ==
    /\ host[h] = "replying"
    /\ host' = [host EXCEPT ![h] = "idle"]
    /\ rx' = [rx EXCEPT ![h] = OneMore(@)]
    /\ UNCHANGED <<envVars, ctrlVars, link, inbox, qdisc, closing, histVars>>

(* The process ends: SIGTERM and SIGKILL from close(), or an error.  The   *)
(* exit handler deletes the qdisc, an error or a SIGKILL leaves it.        *)
HostStop(h) ==
    /\ closing \/ HostsMayFail
    /\ host[h] # "dead"
    /\ host' = [host EXCEPT ![h] = "dead"]
    /\ inbox' = [inbox EXCEPT ![h] = << >>]
    /\ qdisc' \in {qdisc, [qdisc EXCEPT ![h] = Uncontrolled]}
    /\ UNCHANGED <<envVars, ctrlVars, link, rx, closing>>
    /\ missed' = [missed EXCEPT ![h] = FALSE]

-----------------------------------------------------------------------------
Host(h) == HostReady(h) \/ HostRecv(h) \/ HostReply(h)

Next ==
    \/ EnvStep \/ EnvCopy \/ CloseBwCtrl
    \/ Ctrl \/ CtrlInterrupt
    \/ \E h \in Hosts : Host(h) \/ HostStop(h) \/ DeleteLink(h)

(* Processes that can run do run, close() goes on to its end, a started    *)
(* copy finishes.  Nobody owes a step, an interrupt, a failure or close(). *)
Fairness ==
    /\ WF_vars(Ctrl) /\ WF_vars(EnvCopy)
    /\ \A h \in Hosts : /\ WF_vars(Host(h))
                        /\ WF_vars(closing /\ HostStop(h))
                        /\ WF_vars(DeleteLink(h))

Spec == Init /\ [][Next]_vars
FairSpec == Spec /\ Fairness

-----------------------------------------------------------------------------
(* Types of the shared arrays, the rings and the processes.                *)
TypeOK ==
    /\ step \in 0 .. MaxSteps
    /\ eidx \in 0 .. NumHosts
    /\ tx_rate \in [Hosts -> Nat]
    /\ active_rate \in [Hosts -> Nat]
    /\ closing \in BOOLEAN /\ kill \in BOOLEAN
    /\ pc \in {"check", "send", "await", "commit", "exited"}
    /\ idx \in Hosts
    /\ link \in [Hosts -> BOOLEAN]
    /\ inbox \in [Hosts -> Seq(Nat)]
    /\ rx \in [Hosts -> 0 .. RingSize]
    /\ host \in [Hosts -> {"starting", "idle", "replying", "dead"}]
    /\ qdisc \in [Hosts -> Nat \cup {Uncontrolled}]
    /\ missed \in [Hosts -> BOOLEAN]

(* The actions of a host are strung out along the path in order: the qdisc *)
(* is never ahead of a request still unread, requests are never ahead of   *)
(* active_rate nor out of order, and that is never ahead of tx_rate, which *)
(* is behind the step exactly where the env's copy has not got to yet      *)
(* (DCEnv.step, broadcast_bw, ctrl_loop).                                  *)
ArraysOrdered(h) ==
    /\ tx_rate[h] = IF eidx # 0 /\ h >= eidx THEN step - 1 ELSE step
    /\ active_rate[h] <= tx_rate[h]
    /\ qdisc[h] <= active_rate[h]
Ordered(s, lo, hi) ==
    \A i \in 1 .. Len(s) : /\ lo <= s[i] /\ s[i] <= hi
                           /\ \A j \in 1 .. i : s[j] <= s[i]
RequestsOrdered(h) == Ordered(inbox[h], qdisc[h], active_rate[h])
Pipeline == \A h \in Hosts : ArraysOrdered(h) /\ RequestsOrdered(h)

(* A host never goes back to an older action, whatever is torn, lost or    *)
(* late, unless its controller ends and deletes the qdisc (change_qdisc).  *)
NoRegress ==
    [][\A h \in Hosts : qdisc'[h] < qdisc[h] => host'[h] = "dead"]_vars

(* The wait of broadcast_bw is not a barrier: a ring may take the request   *)
(* itself for the reply, and active_rate moves on before the host enforces *)
(* what it replaces.  What the order of its three loops does promise: no   *)
(* action leaves active_rate before every host that still has one there    *)
(* was given it.  The host enforces it, or has it last in its buffer, or   *)
(* is gone, or had no capture or no room left for it.                      *)
Newest(h) == IF inbox[h] = << >> THEN qdisc[h] ELSE inbox[h][Len(inbox[h])]
Given(h) == host[h] = "dead" \/ missed[h] \/ Newest(h) = active_rate[h]
HandedOver ==
    [][\A h \in Hosts : active_rate'[h] # active_rate[h]
          => \A g \in h .. NumHosts : Given(g)]_vars

(* close() reaches the controller wherever it is, even inside poll, also   *)
(* when hosts have failed or requests were lost (run, stop_network).       *)
ControllerStops == closing ~> (pc = "exited")

(* The promise of rate control to the agent.                               *)
Mode == [h \in Hosts |-> IF host[h] = "dead" THEN "released"
                         ELSE IF kill \/ pc = "exited" THEN "stopping"
                         ELSE "promised"]
RP == INSTANCE RatePromise WITH
        Choices <- 0 .. MaxSteps,
        chosen <- tx_rate, enforced <- qdisc, mode <- Mode

(* Hosts enforce choices in order and never one that was not made.         *)
KeepsPromise == RP!Safety
(* As long as no host fails before close() and all listen before the first *)
(* broadcast, every action reaches every host, or a later one does         *)
(* (step, broadcast_bw, ctrl_loop).                                        *)
Healthy ==
    \A h \in Hosts : /\ host[h] = "dead" => closing
                     /\ host[h] = "starting" => pc = "check"
DeliversActions == []Healthy => RP!Delivers
=============================================================================
