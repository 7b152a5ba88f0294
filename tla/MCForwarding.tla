---------------------------- MODULE MCForwarding ----------------------------
(* Networks for TLC: the fat tree of fanout 4 as the code ships it, and    *)
(* small, odd and half-used instances of the others.                       *)
EXTENDS Forwarding

Shipped ==
    {[kind |-> "fattree", hosts |-> 16, fanout |-> 4],
     [kind |-> "fattree", hosts |-> 8, fanout |-> 4],
     [kind |-> "dumbbell", hosts |-> 4, fanout |-> 4],
     [kind |-> "dumbbell", hosts |-> 7, fanout |-> 4],
     [kind |-> "nonblock", hosts |-> 5, fanout |-> 4]}

Fanout8 == {[kind |-> "fattree", hosts |-> 32, fanout |-> 8]}
=============================================================================
