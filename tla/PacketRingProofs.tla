-------------------------- MODULE PacketRingProofs --------------------------
(***************************************************************************)
(* Theorems about the rx ring, for rings of every size.                    *)
(***************************************************************************)
EXTENDS PacketRing, TLAPS

(* What the steps of walk_ring and of the kernel do to slot numbers.       *)
LEMMA SlotArithmetic ==
    /\ RdNum \in Nat \ {0} /\ \A i \in Slots : i \in 0 .. RdNum - 1
    /\ \A i \in Slots : Following(i) \in Slots
BY RingAssumption DEF Slots, Following

(* Slots stay slots and numbers stay numbers.                              *)
THEOREM TypeCorrect == Spec => []TypeOK
<1>1. Init => TypeOK
  <2> SUFFICES ASSUME Init PROVE TypeOK
    OBVIOUS
  <2>1. head \in Slots /\ p_offset \in Slots /\ arrived \in Nat /\ last \in Nat
    BY RingAssumption DEF Init, Slots
  <2>2. status \in [Slots -> {"kernel", "user"}] /\ frame \in [Slots -> Nat]
    BY DEF Init
  <2>3. wpc = "out" /\ link = "up" /\ handler = "python"
    BY DEF Init
  <2>4. sigint \in BOOLEAN /\ pending \in BOOLEAN
    BY DEF Init
  <2> QED BY <2>1, <2>2, <2>3, <2>4 DEF TypeOK
<1>2. TypeOK /\ [Next]_vars => TypeOK'
  <2> SUFFICES ASSUME TypeOK, [Next]_vars PROVE TypeOK'
    OBVIOUS
  <2> USE DEF kernelVars, signalVars
  <2>1. CASE Arrive
    <3>1. head' \in Slots
      BY <2>1, RingAssumption DEF Arrive, TypeOK, Slots
    <3>2. arrived' \in Nat /\ frame' \in [Slots -> Nat]
      BY <2>1 DEF Arrive, TypeOK
    <3> QED BY <2>1, <3>1, <3>2 DEF Arrive, TypeOK
  <2>2. CASE LinkGoes BY <2>2 DEF LinkGoes, TypeOK
  <2>3. CASE Signal BY <2>3 DEF Signal, TypeOK
  <2>4. CASE Enter BY <2>4 DEF Enter, TypeOK
  <2>5. CASE Test BY <2>5 DEF Test, TypeOK
  <2>6. CASE Poll BY <2>6 DEF Poll, TypeOK
  <2>7. CASE Lookup BY <2>7 DEF Lookup, TypeOK
  <2>8. CASE Release BY <2>8 DEF Release, TypeOK
  <2>9. CASE Advance BY <2>9, SlotArithmetic DEF Advance, TypeOK
  <2>10. CASE Restore BY <2>10 DEF Restore, TypeOK
  <2>11. CASE Raise BY <2>11 DEF Raise, TypeOK
  <2>12. CASE UNCHANGED vars BY <2>12 DEF TypeOK, vars
  <2> QED BY <2>1, <2>2, <2>3, <2>4, <2>5, <2>6, <2>7, <2>8, <2>9, <2>10,
             <2>11, <2>12 DEF Next, Walk
<1> QED BY <1>1, <1>2, PTL DEF Spec

-----------------------------------------------------------------------------
(* The slot to be released is the oldest unread one.                       *)
LEMMA OldestFirst ==
    ASSUME TypeOK, RingOrdered, wpc = "release"
    PROVE  /\ status[p_offset] = "user" /\ frame[p_offset] = last + 1
           /\ NextOffset = p_offset /\ Distance(p_offset) = 0
<1>1. NextOffset = p_offset /\ p_offset \in Slots /\ p_offset \in Int
  BY SlotArithmetic DEF NextOffset, TypeOK
<1>2. Distance(p_offset) = 0
  BY <1>1 DEF Distance
<1>3. Unread > 0 /\ last \in Nat
  BY DEF RingOrdered, TypeOK
<1>4. status[p_offset] = "user"
  BY <1>1, <1>2, <1>3 DEF RingOrdered
<1>5. frame[p_offset] = last + 1 + 0
  BY <1>1, <1>2, <1>4 DEF RingOrdered
<1> QED BY <1>1, <1>2, <1>3, <1>4, <1>5

(* The kernel extends the run of unread slots at one end ...               *)
LEMMA ArriveStep ==
    ASSUME TypeOK, RingOrdered, Arrive PROVE RingOrdered'
<1> DEFINE N == RdNum
<1>1. /\ N \in Nat \ {0} /\ NextOffset \in 0 .. N - 1 /\ head \in 0 .. N - 1
      /\ arrived \in Nat /\ last \in Nat
  BY SlotArithmetic DEF NextOffset, TypeOK
<1>2. Unread \in 0 .. N /\ (head = NextOffset + Unread \/ head = NextOffset + Unread - N)
  BY DEF RingOrdered
<1>3. Distance(head) \in 0 .. N - 1
  BY <1>1 DEF Distance
<1>4. ~(Distance(head) < Unread)
  BY DEF RingOrdered, Arrive, TypeOK
<1>5. Unread < N /\ Distance(head) = Unread
  <2>1. Distance(head) = IF head >= NextOffset THEN head - NextOffset
                                               ELSE head - NextOffset + N
    BY DEF Distance
  <2>2. CASE head = NextOffset + Unread
    BY <1>1, <1>2, <2>1, <2>2
  <2>3. CASE head = NextOffset + Unread - N
    BY <1>1, <1>2, <1>4, <2>1, <2>3
  <2> QED BY <1>2, <2>2, <2>3
<1>6. /\ Unread' = Unread + 1 /\ NextOffset' = NextOffset
      /\ last' = last /\ wpc' = wpc
      /\ \A i \in Slots : Distance(i)' = Distance(i)
  BY <1>1 DEF Arrive, Unread, NextOffset, Distance, Following
<1>7. Unread' \in 0 .. N
  BY <1>1, <1>2, <1>5, <1>6
<1>8. head' = NextOffset' + Unread' \/ head' = NextOffset' + Unread' - N
  BY <1>1, <1>2, <1>5, <1>6 DEF Arrive
<1>9. ASSUME NEW i \in Slots
      PROVE  /\ (status'[i] = "user") <=> (Distance(i)' < Unread')
             /\ status'[i] = "user" => frame'[i] = last' + 1 + Distance(i)'
  <2>1. Distance(i) \in 0 .. N - 1 /\ i \in 0 .. N - 1
    BY <1>1, SlotArithmetic DEF Distance
  <2>2. i # head => Distance(i) # Distance(head)
    BY <1>1, <2>1 DEF Distance
  <2>3. /\ (status[i] = "user") <=> (Distance(i) < Unread)
        /\ status[i] = "user" => frame[i] = last + 1 + Distance(i)
    BY DEF RingOrdered
  <2>4. CASE i = head
    <3>1. status'[i] = "user" /\ frame'[i] = arrived + 1
      BY <2>4 DEF Arrive, TypeOK
    <3>2. arrived = last + Unread
      BY <1>1 DEF Unread
    <3> QED BY <1>1, <1>2, <1>5, <1>6, <2>4, <3>1, <3>2
  <2>5. CASE i # head
    <3>1. status'[i] = status[i] /\ frame'[i] = frame[i]
      BY <2>5 DEF Arrive, TypeOK
    <3>2. Distance(i) # Unread
      BY <1>5, <2>2, <2>5
    <3> QED BY <1>2, <1>6, <2>1, <2>3, <3>1, <3>2
  <2> QED BY <2>4, <2>5
<1>10. wpc' = "release" => Unread' > 0
  BY <1>2, <1>6
<1> QED BY <1>7, <1>8, <1>9, <1>10 DEF RingOrdered

(* ... and walk_ring shortens it at the other.                             *)
LEMMA ReleaseStep ==
    ASSUME TypeOK, RingOrdered, Release PROVE RingOrdered'
<1> DEFINE N == RdNum
<1>1. /\ N \in Nat \ {0} /\ p_offset \in 0 .. N - 1 /\ head \in 0 .. N - 1
      /\ arrived \in Nat /\ last \in Nat
  BY SlotArithmetic DEF TypeOK
<1>2. /\ status[p_offset] = "user" /\ frame[p_offset] = last + 1
      /\ NextOffset = p_offset /\ wpc = "release"
  BY OldestFirst DEF Release
<1>3. /\ Unread \in 1 .. N
      /\ head = p_offset + Unread \/ head = p_offset + Unread - N
  BY <1>1, <1>2 DEF RingOrdered
<1>4. last' = last + 1 /\ UNCHANGED <<arrived, head, frame, p_offset>>
      /\ wpc' = "advance"
  BY <1>2 DEF Release, kernelVars
<1>5. Unread' = Unread - 1
  BY <1>1, <1>4 DEF Unread
<1>6. NextOffset' = Following(p_offset)
  BY <1>4 DEF NextOffset, Following
<1>7. NextOffset' = IF p_offset = N - 1 THEN 0 ELSE p_offset + 1
  BY <1>6 DEF Following
<1>8. Unread' \in 0 .. N
  BY <1>1, <1>3, <1>5
<1>9. head' = NextOffset' + Unread' \/ head' = NextOffset' + Unread' - N
  BY <1>1, <1>3, <1>4, <1>5, <1>7
<1>10. ASSUME NEW i \in Slots
       PROVE  /\ (status'[i] = "user") <=> (Distance(i)' < Unread')
              /\ status'[i] = "user" => frame'[i] = last' + 1 + Distance(i)'
  <2>1. i \in 0 .. N - 1
    BY SlotArithmetic
  <2>2. /\ (status[i] = "user") <=> (Distance(i) < Unread)
        /\ status[i] = "user" => frame[i] = last + 1 + Distance(i)
    BY DEF RingOrdered
  <2>3. CASE i = p_offset
    <3>1. status'[i] = "kernel"
      BY <2>3 DEF Release, TypeOK
    <3>2. Distance(i)' = N - 1
      BY <1>1, <1>7, <2>1, <2>3 DEF Distance
    <3> QED BY <1>1, <1>3, <1>5, <3>1, <3>2
  <2>4. CASE i # p_offset
    <3>1. status'[i] = status[i] /\ frame'[i] = frame[i]
      BY <1>4, <2>4 DEF Release, TypeOK
    <3>2. Distance(i)' = Distance(i) - 1 /\ Distance(i) \in Int
      BY <1>1, <1>2, <1>7, <2>1, <2>4 DEF Distance
    <3> QED BY <1>1, <1>3, <1>4, <1>5, <2>2, <3>1, <3>2
  <2> QED BY <2>3, <2>4
<1> QED BY <1>4, <1>8, <1>9, <1>10 DEF RingOrdered

(* The ring is ordered in every state of every run.                        *)
LEMMA RingOrderedStep ==
    ASSUME TypeOK, RingOrdered, [Next]_vars PROVE RingOrdered'
<1> USE DEF kernelVars, signalVars
<1> DEFINE Same == UNCHANGED <<status, frame, head, arrived, last>>
<1>1. ASSUME Same, NextOffset' = NextOffset,
             wpc' = "release" => Unread > 0
      PROVE  RingOrdered'
  <2>1. Unread' = Unread /\ \A i \in Slots : Distance(i)' = Distance(i)
    BY <1>1 DEF Unread, Distance
  <2> QED BY <1>1, <2>1 DEF RingOrdered
<1>2. ASSUME Same, UNCHANGED p_offset, wpc # "advance", wpc' # "advance",
             wpc' = "release" => Unread > 0
      PROVE  RingOrdered'
  <2>1. NextOffset' = NextOffset
    BY <1>2 DEF NextOffset
  <2> QED BY <1>1, <1>2, <2>1
<1>3. CASE Test
  <2>1. wpc' = "release" => Unread > 0
    <3>1. ASSUME wpc' = "release" PROVE Unread > 0
      <4>1. status[p_offset] = "user" /\ p_offset \in Slots /\ p_offset \in Int
        BY <1>3, <3>1, SlotArithmetic DEF Test, TypeOK
      <4>2. Distance(p_offset) = 0
        BY <1>3, <4>1 DEF Test, NextOffset, Distance
      <4>3. Distance(p_offset) < Unread
        BY <4>1 DEF RingOrdered
      <4> QED BY <4>2, <4>3
    <3> QED BY <3>1
  <2> QED BY <1>2, <1>3, <2>1 DEF Test
<1>4. CASE Advance
  <2>1. NextOffset' = NextOffset /\ wpc' # "release"
    BY <1>4 DEF Advance, NextOffset, Following
  <2> QED BY <1>1, <1>4, <2>1 DEF Advance
<1>5. CASE Signal \/ LinkGoes \/ UNCHANGED vars
  <2>1. Same /\ UNCHANGED p_offset
        /\ (wpc' = wpc \/ (wpc = "poll" /\ wpc' = "lookup"))
    BY <1>5 DEF Signal, LinkGoes, vars
  <2>2. NextOffset' = NextOffset /\ (wpc' = "release" => wpc = "release")
    BY <2>1 DEF NextOffset, Following
  <2> QED BY <1>1, <2>1, <2>2 DEF RingOrdered
<1>6. CASE Enter \/ Poll \/ Lookup \/ Restore \/ Raise
  BY <1>2, <1>6 DEF Enter, Poll, Lookup, Restore, Raise
<1> QED BY <1>3, <1>4, <1>5, <1>6, ArriveStep, ReleaseStep DEF Next, Walk

(* No frame is skipped, taken twice or overwritten unread, however often   *)
(* the ring wraps around.                                                  *)
THEOREM RingStaysOrdered == Spec => []RingOrdered
<1>1. Init => RingOrdered
  BY RingAssumption
     DEF Init, RingOrdered, Unread, NextOffset, Distance, Slots
<1> QED BY <1>1, TypeCorrect, RingOrderedStep, PTL DEF Spec

(* Waits take the frames in the order of arrival and leave out none.       *)
THEOREM FramesTakenInOrder == Spec => TakesNextFrame
<1>1. TypeOK /\ RingOrdered /\ [Next]_vars => [last' # last => last' = last + 1]_vars
  <2> SUFFICES ASSUME TypeOK, RingOrdered, Next, last' # last
               PROVE  last' = last + 1
    OBVIOUS
  <2>1. Release
    BY DEF Next, Walk, Arrive, LinkGoes, Signal, Enter, Test, Poll, Lookup,
           Advance, Restore, Raise
  <2> QED BY <2>1, OldestFirst DEF Release
<1> QED BY <1>1, TypeCorrect, RingStaysOrdered, PTL DEF Spec, TakesNextFrame

-----------------------------------------------------------------------------
(* The ring implements the counter that BandwidthControl uses for it.      *)
LEMMA BufferStep ==
    TypeOK /\ RingOrdered /\ [Next]_vars => [RB!Next]_(RB!vars)
<1> DEFINE waiting == wpc \in {"test", "poll", "lookup", "release"}
           connected == link # "gone"
<1> SUFFICES ASSUME TypeOK, RingOrdered, [Next]_vars
             PROVE  RB!Next \/ UNCHANGED <<Unread, waiting, sigint, connected>>
  BY DEF RB!vars
<1> USE DEF kernelVars, signalVars
<1>a. arrived \in Nat /\ last \in Nat /\ RdNum \in Nat \ {0}
  BY RingAssumption DEF TypeOK
<1>1. CASE Arrive
  <2>1. Unread' = Unread + 1 /\ Unread < RdNum
    <3>1. RingOrdered' BY <1>1, ArriveStep
    <3>2. Unread' = Unread + 1 /\ Unread \in Int
      BY <1>1, <1>a DEF Arrive, Unread
    <3>3. Unread' \in 0 .. RdNum
      BY <3>1 DEF RingOrdered
    <3> QED BY <1>a, <3>2, <3>3
  <2>2. UNCHANGED <<waiting, sigint, connected>> /\ connected
    BY <1>1 DEF Arrive
  <2> QED BY <2>1, <2>2 DEF RB!Next, RB!Arrive
<1>2. CASE LinkGoes
  <2>1. UNCHANGED <<Unread, waiting, sigint>> /\ connected' \in {connected, FALSE}
    BY <1>2 DEF LinkGoes, Unread
  <2> QED BY <2>1 DEF RB!Next, RB!Disconnect
<1>3. CASE Signal
  <2>1. UNCHANGED <<Unread, waiting, connected>> /\ (sigint' = TRUE \/ sigint' = sigint)
    BY <1>3 DEF Signal, Unread
  <2> QED BY <2>1 DEF RB!Next, RB!Interrupt
<1>4. CASE Enter
  <2>1. UNCHANGED <<Unread, sigint, connected>> /\ ~waiting /\ waiting'
    BY <1>4 DEF Enter, Unread
  <2> QED BY <2>1 DEF RB!Next, RB!Begin
<1>5. CASE Test
  <2>1. UNCHANGED <<Unread, sigint, connected>> /\ waiting
        /\ (waiting' \/ (sigint /\ ~waiting'))
    BY <1>5 DEF Test, Unread
  <2> QED BY <2>1 DEF RB!Next, RB!Abandon
<1>6. CASE Poll
  BY <1>6 DEF Poll, Unread
<1>7. CASE Lookup
  <2>1. UNCHANGED <<Unread, sigint, connected>> /\ waiting
        /\ (waiting' \/ (~connected /\ ~waiting'))
    BY <1>7 DEF Lookup, Unread
  <2> QED BY <2>1 DEF RB!Next, RB!Abandon
<1>8. CASE Release
  <2>1. last' = last + 1 /\ Unread > 0
    BY <1>8, OldestFirst DEF Release, RingOrdered
  <2>2. Unread' = Unread - 1
    BY <1>8, <1>a, <2>1 DEF Release, Unread
  <2>3. UNCHANGED <<sigint, connected>> /\ waiting /\ ~waiting'
    BY <1>8 DEF Release
  <2> QED BY <2>1, <2>2, <2>3 DEF RB!Next, RB!Take
<1>9. CASE Advance \/ Restore \/ Raise \/ UNCHANGED vars
  BY <1>9 DEF Advance, Restore, Raise, vars, Unread
<1> QED BY <1>1, <1>2, <1>3, <1>4, <1>5, <1>6, <1>7, <1>8, <1>9 DEF Next, Walk

(* A ring of any size is a counter of unread frames, and a wait takes one  *)
(* frame unless it is interrupted or the interface is gone.                *)
THEOREM RingIsReplyBuffer == Spec => IsReplyBuffer
<1>1. Init => RB!Init
  BY DEF Init, RB!Init, Unread
<1> QED BY <1>1, BufferStep, TypeCorrect, RingStaysOrdered, PTL
        DEF Spec, IsReplyBuffer, RB!Spec
=============================================================================
