----------------------------- MODULE PacketRing -----------------------------
(***************************************************************************)
(* The rx ring of one control interface: the kernel stores frames from its *)
(* head on, wait_for_reply takes the frame at p_offset, or sleeps in poll  *)
(* until there is one, the interface goes away or a SIGINT comes.  While   *)
(* it runs, SIGINT is handled in C; Python learns of it afterwards.        *)
(*                                                                         *)
(* A frame is represented by its number in the order of arrival.           *)
(***************************************************************************)
EXTENDS Integers

CONSTANTS RdNum,      \* frames of the ring
          MaxFrames   \* bound: frames stored in a run

ASSUME RingAssumption == RdNum \in Nat \ {0} /\ MaxFrames \in Nat

Slots == 0 .. RdNum - 1

VARIABLES
    status,    \* status[i]: tp_status of the frame, "kernel" or "user"
    frame,     \* frame[i]: the number of the frame stored in slot i last
    head,      \* the slot the kernel stores the next frame in
    arrived,   \* frames stored so far
    p_offset,  \* the slot walk_ring looks at
    last,      \* number of the frame that was taken last
    wpc,       \* where wait_for_reply is; "out": not called
    sigint,    \* the flag set by sighandler (and never cleared)
    handler,   \* who handles SIGINT, "python" or "c"
    pending,   \* the Python handler has been called
    link       \* the interface: "up", "down" or "gone"

kernelVars == <<frame, head, arrived>>
signalVars == <<sigint, handler, pending>>
vars == <<status, kernelVars, p_offset, last, wpc, signalVars, link>>

Init ==
    /\ status = [i \in Slots |-> "kernel"] /\ frame = [i \in Slots |-> 0]
    /\ head = 0 /\ arrived = 0 /\ p_offset = 0 /\ last = 0
    /\ wpc = "out" /\ link = "up"
    /\ sigint = FALSE /\ handler = "python" /\ pending = FALSE

(* Faulty variants: the end of the ring comes too late, or too early.      *)
FollowingOpen(i) == i + 1
FollowingShort(i) == IF i >= RdNum - 2 THEN 0 ELSE i + 1

(* (p_offset + 1) % rd_num; the kernel's head moves in the same way.       *)
Following(i) == IF i = RdNum - 1 THEN 0 ELSE i + 1
Previous(i) == IF i = 0 THEN RdNum - 1 ELSE i - 1

-----------------------------------------------------------------------------
(* The kernel stores a frame, unless the next slot has not been freed: the *)
(* frame is then lost and nothing changes.                                 *)
Arrive ==
    /\ link = "up" /\ arrived < MaxFrames /\ status[head] = "kernel"
    /\ status' = [status EXCEPT ![head] = "user"]
    /\ frame' = [frame EXCEPT ![head] = arrived + 1]
    /\ arrived' = arrived + 1
    /\ head' = IF head = RdNum - 1 THEN 0 ELSE head + 1
    /\ UNCHANGED <<p_offset, last, wpc, signalVars, link>>

(* The interface is taken down, then unregistered.                         *)
LinkGoes ==
    /\ link # "gone"
    /\ link' = IF link = "up" THEN "down" ELSE "gone"
    /\ UNCHANGED <<status, kernelVars, p_offset, last, wpc, signalVars>>

(* SIGINT.  Inside poll it ends the call; just before the call it does     *)
(* not, and poll sleeps although the flag is set.                          *)
Signal ==
    /\ IF handler = "c" THEN sigint' = TRUE /\ UNCHANGED pending
                        ELSE pending' = TRUE /\ UNCHANGED sigint
    /\ \/ UNCHANGED wpc
       \/ wpc = "poll" /\ wpc' = "lookup"
    /\ UNCHANGED <<status, kernelVars, p_offset, last, handler, link>>

-----------------------------------------------------------------------------
(* wait_for_reply takes over SIGINT.  The interpreter would have raised a  *)
(* pending interrupt before it came to the call.                           *)
Enter ==
    /\ wpc = "out" /\ ~pending
    /\ handler' = "c" /\ wpc' = "test"
    /\ UNCHANGED <<status, kernelVars, p_offset, last, sigint, pending, link>>

(* The loop's test and the look at the frame.                              *)
Test ==
    /\ wpc = "test"
    /\ wpc' = IF sigint THEN "restore"
              ELSE IF status[p_offset] = "user" THEN "release" ELSE "poll"
    /\ UNCHANGED <<status, kernelVars, p_offset, last, signalVars, link>>

(* poll returns when the frame before the head is the user's, and at once  *)
(* when the interface has gone down (POLLERR).                             *)
Poll ==
    /\ wpc = "poll"
    /\ status[Previous(head)] = "user" \/ link # "up"
    /\ wpc' = "lookup"
    /\ UNCHANGED <<status, kernelVars, p_offset, last, signalVars, link>>

(* Faulty variant: the result of if_indextoname is not looked at.          *)
LookupUnchecked ==
    /\ wpc = "lookup"
    /\ wpc' = "test"
    /\ UNCHANGED <<status, kernelVars, p_offset, last, signalVars, link>>

(* Faulty variant: what ended poll is taken to be a frame.                 *)
LookupTrusting ==
    /\ wpc = "lookup"
    /\ wpc' = IF link = "gone" THEN "restore" ELSE "release"
    /\ UNCHANGED <<status, kernelVars, p_offset, last, signalVars, link>>

(* if_indextoname: the wait is over when the interface is gone.            *)
Lookup ==
    /\ wpc = "lookup"
    /\ wpc' = IF link = "gone" THEN "restore" ELSE "test"
    /\ UNCHANGED <<status, kernelVars, p_offset, last, signalVars, link>>

(* Faulty variant: the next frame is given back, not the one read.         *)
ReleaseNext ==
    /\ wpc = "release"
    /\ status' = [status EXCEPT ![Following(p_offset)] = "kernel"]
    /\ last' = frame[p_offset]
    /\ wpc' = "advance"
    /\ UNCHANGED <<kernelVars, p_offset, signalVars, link>>

(* The frame is given back to the kernel ...                               *)
Release ==
    /\ wpc = "release"
    /\ status' = [status EXCEPT ![p_offset] = "kernel"]
    /\ last' = frame[p_offset]
    /\ wpc' = "advance"
    /\ UNCHANGED <<kernelVars, p_offset, signalVars, link>>

(* ... which may fill it again before walk_ring goes on to the next.       *)
Advance ==
    /\ wpc = "advance"
    /\ p_offset' = Following(p_offset)
    /\ wpc' = "restore"
    /\ UNCHANGED <<status, kernelVars, last, signalVars, link>>

(* Faulty variant: the signal is raised before Python's handler is back.   *)
RestoreLate ==
    /\ wpc = "restore"
    /\ wpc' = "out" /\ handler' = "python"
    /\ UNCHANGED <<status, kernelVars, p_offset, last, sigint, pending, link>>

Restore ==
    /\ wpc = "restore"
    /\ handler' = "python" /\ wpc' = "raise"
    /\ UNCHANGED <<status, kernelVars, p_offset, last, sigint, pending, link>>

(* raise(SIGINT), now for Python.                                          *)
Raise ==
    /\ wpc = "raise"
    /\ pending' = (pending \/ sigint) /\ wpc' = "out"
    /\ UNCHANGED <<status, kernelVars, p_offset, last, sigint, handler, link>>

-----------------------------------------------------------------------------
Walk == Test \/ Poll \/ Lookup \/ Release \/ Advance \/ Restore \/ Raise

Next == Arrive \/ LinkGoes \/ Signal \/ Enter \/ Walk

(* A call that has begun goes on when it can; the rest may stay away.      *)
Spec == Init /\ [][Next]_vars /\ WF_vars(Walk)

-----------------------------------------------------------------------------
(* Types of the ring and of the signal state.                              *)
TypeOK ==
    /\ status \in [Slots -> {"kernel", "user"}]
    /\ frame \in [Slots -> Nat]
    /\ head \in Slots /\ p_offset \in Slots
    /\ arrived \in Nat /\ last \in Nat
    /\ wpc \in {"out", "test", "poll", "lookup", "release", "advance",
                "restore", "raise"}
    /\ sigint \in BOOLEAN /\ pending \in BOOLEAN
    /\ handler \in {"python", "c"} /\ link \in {"up", "down", "gone"}

(* The user's slots run from the one walk_ring will look at next up to the *)
(* kernel's head, around the end, and hold the frames since last in order; *)
(* so no frame is skipped, taken twice or overwritten unread (walk_ring).  *)
Unread == arrived - last
NextOffset == IF wpc = "advance" THEN Following(p_offset) ELSE p_offset
Distance(i) == IF i >= NextOffset THEN i - NextOffset
                                  ELSE i - NextOffset + RdNum
RingOrdered ==
    /\ Unread \in 0 .. RdNum
    /\ head = NextOffset + Unread \/ head = NextOffset + Unread - RdNum
    /\ \A i \in Slots : (status[i] = "user") <=> (Distance(i) < Unread)
    /\ \A i \in Slots : status[i] = "user" => frame[i] = last + 1 + Distance(i)
    /\ wpc = "release" => Unread > 0

(* Waits take the frames in the order of arrival and leave out none.       *)
TakesNextFrame == [][last' # last => last' = last + 1]_vars

(* What BandwidthControl relies on: a ring is a counter and a wait takes   *)
(* one, unless it was interrupted or the interface is gone.                *)
RB == INSTANCE ReplyBuffer WITH
        Capacity <- RdNum, frames <- Unread,
        waiting <- wpc \in {"test", "poll", "lookup", "release"},
        interrupted <- sigint, connected <- link # "gone"
IsReplyBuffer == RB!Spec

(* No wake-up is missed: a wait ends when a frame is there or the          *)
(* interface is gone (poll, if_indextoname).                               *)
WaitsEnd == (Unread > 0 \/ link = "gone") ~> (wpc = "out")

(* An interrupt that C swallowed reaches Python, at the latest when the    *)
(* interface goes (wait_for_reply raises it again).                        *)
InterruptsSurface == (sigint /\ link = "gone") ~> pending
=============================================================================
