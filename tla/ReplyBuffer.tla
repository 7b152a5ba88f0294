---------------------------- MODULE ReplyBuffer ----------------------------
(***************************************************************************)
(* What broadcast_bw expects of wait_for_reply, without rings and signals: *)
(* frames are counted up to a capacity; a wait takes exactly one of them,  *)
(* or is abandoned, which happens only after an interrupt or when the      *)
(* interface is gone.  BandwidthControl counts frames in this way (rx).    *)
(***************************************************************************)
EXTENDS Integers

CONSTANT Capacity     \* frames that can be kept

VARIABLES frames,       \* frames kept
          waiting,      \* a wait has begun and not ended
          interrupted,  \* a wait has been interrupted
          connected     \* the interface exists

vars == <<frames, waiting, interrupted, connected>>

Init == /\ frames = 0 /\ waiting = FALSE
        /\ interrupted = FALSE /\ connected = TRUE

(* A frame arrives; one that finds the buffer full is not seen at all.     *)
Arrive == /\ connected /\ frames < Capacity
          /\ frames' = frames + 1
          /\ UNCHANGED <<waiting, interrupted, connected>>

Begin == /\ ~waiting /\ waiting' = TRUE
         /\ UNCHANGED <<frames, interrupted, connected>>

Take == /\ waiting /\ frames > 0
        /\ frames' = frames - 1 /\ waiting' = FALSE
        /\ UNCHANGED <<interrupted, connected>>

Abandon == /\ waiting /\ (interrupted \/ ~connected)
           /\ waiting' = FALSE
           /\ UNCHANGED <<frames, interrupted, connected>>

Interrupt == /\ interrupted' = TRUE
             /\ UNCHANGED <<frames, waiting, connected>>

Disconnect == /\ connected' = FALSE
              /\ UNCHANGED <<frames, waiting, interrupted>>

Next == Arrive \/ Begin \/ Take \/ Abandon \/ Interrupt \/ Disconnect

Spec == Init /\ [][Next]_vars
=============================================================================
