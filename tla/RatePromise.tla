---------------------------- MODULE RatePromise ----------------------------
(***************************************************************************)
(* What rate control promises the agent, without rings, packets or copies. *)
(* The agent chooses a rate for every host; the host enforces chosen rates *)
(* in the order in which they were chosen, perhaps late, perhaps skipping  *)
(* some, and never one that was not chosen.  A rate is named by the number *)
(* of the environment step that chose it, so a later choice is a larger    *)
(* number.  The promise ends for a host when control is told to stop, and  *)
(* a host that is released is never limited again by a later choice.       *)
(***************************************************************************)
EXTENDS Integers

CONSTANTS Hosts,         \* the hosts whose sending rate is controlled
          Choices,       \* the choices the agent may make; 0 stands for what the
                         \* arrays hold before the first one
          Uncontrolled   \* enforced: no choice of the agent limits the host

VARIABLES chosen,        \* chosen[h]: the step that last chose a rate for h
          enforced,      \* enforced[h]: the choice that limits h now
          mode           \* mode[h]: is the promise in force for h?

vars == <<chosen, enforced, mode>>

Init ==
    /\ chosen = [h \in Hosts |-> 0]
    /\ enforced = [h \in Hosts |-> Uncontrolled]
    /\ mode = [h \in Hosts |-> "promised"]

(* The agent chooses again for one host.                                   *)
Choose(h) ==
    /\ \E v \in Choices : v > chosen[h] /\ chosen' = [chosen EXCEPT ![h] = v]
    /\ UNCHANGED <<enforced, mode>>

(* The host takes up a choice no older than the one it enforces.           *)
Enforce(h) ==
    /\ mode[h] # "released"
    /\ \E v \in Choices : /\ v >= enforced[h]
                          /\ v <= chosen[h]
                          /\ enforced' = [enforced EXCEPT ![h] = v]
    /\ UNCHANGED <<chosen, mode>>

(* Control stops: nothing new is promised, what is under way may arrive.   *)
Stop ==
    /\ mode' = [h \in Hosts |->
                  IF mode[h] = "promised" THEN "stopping" ELSE mode[h]]
    /\ UNCHANGED <<chosen, enforced>>

(* The host's controller ends and keeps or lifts the limit.                *)
Release(h) ==
    /\ mode' = [mode EXCEPT ![h] = "released"]
    /\ enforced' \in {enforced, [enforced EXCEPT ![h] = Uncontrolled]}
    /\ UNCHANGED chosen

Next == Stop \/ \E h \in Hosts : Choose(h) \/ Enforce(h) \/ Release(h)

Safety == Init /\ [][Next]_vars

(* Every choice for a host is enforced, or overtaken by a later one that   *)
(* is, unless the promise ends for that host.                              *)
Delivers ==
    \A h \in Hosts : \A v \in Choices \ {0} :
        (chosen[h] >= v) ~> (enforced[h] >= v \/ mode[h] # "promised")
=============================================================================
