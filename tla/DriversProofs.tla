--------------------------- MODULE DriversProofs ----------------------------
(***************************************************************************)
(* Proofs about the programs of Drivers, for every number of envs,         *)
(* episodes and clients and every suite of tests, whichever of them fail   *)
(* and wherever.                                                           *)
(*                                                                         *)
(* IInv: NoOrphans is inductive with the types of the fields and with the  *)
(* fact that the main thread is in an env that exists.  The drivers only   *)
(* decide which action of EnvLifecycle comes next, except for Clean.       *)
(* AInv says where the main thread is while it works in an env, and whose  *)
(* switches are left.  LInv adds the stages of an env's life: which        *)
(* managers it has when, that close() goes through them in order, and      *)
(* whose clients run.  AInv and LInv hold wherever exceptions are raised.  *)
(* That a closed env holds nothing (Closed) and what is left at the end    *)
(* (Over) need the hypotheses that nothing is raised inside a manager's    *)
(* constructor (the run lifecycle_unwound shows why) nor inside close(),   *)
(* which ends the closing for good.                                        *)
(***************************************************************************)
EXTENDS Drivers, SequenceFacts, TLAPS

Fields == <<held, up, killed>>
Typed ==
    /\ made \in 0 .. NumEnvs /\ at \in 1 .. 5
    /\ held \in [Envs -> SUBSET Managers] /\ up \in [Envs -> SUBSET Managers]
    /\ killed \in [Envs -> SUBSET Children]
    /\ phase # "idle" => env \in Envs
IInv == Typed /\ NoOrphans

LEMMA Orders ==
  /\ Len(StartOrder) = 5 /\ Len(CloseOrder) = 5
  /\ \A i \in 1 .. 5 : StartOrder[i] \in Managers /\ CloseOrder[i] \in Managers
  /\ Children \subseteq Managers /\ Managers \ Children = {"net", "traffic"}
<1>1. Len(StartOrder) = 5 /\ Len(CloseOrder) = 5
  BY DEF StartOrder, CloseOrder
<1>2. \A i \in 1 .. 5 : i = 1 \/ i = 2 \/ i = 3 \/ i = 4 \/ i = 5
  OBVIOUS
<1>3. \A i \in 1 .. 5 : StartOrder[i] \in Managers /\ CloseOrder[i] \in Managers
  BY <1>2 DEF StartOrder, CloseOrder, Managers
<1>4. QED
  BY <1>1, <1>3 DEF Children, Managers

(* A step that leaves the fields alone and starts outside a constructor    *)
(* orphans nothing.                                                        *)
LEMMA FieldsAlone ==
  ASSUME IInv, UNCHANGED Fields, phase # "constructor"
  PROVE  NoOrphans'
BY DEF IInv, NoOrphans, Fields

(* Neither does one in which things only end, inside a constructor or not. *)
LEMMA ThingsEnd ==
  ASSUME IInv, UNCHANGED <<held, killed, thread>>,
         \A e \in Envs : up'[e] \subseteq up[e]
  PROVE  NoOrphans'
BY DEF IInv, NoOrphans, thread

LEMMA Initially == Init => IInv
<1> SUFFICES ASSUME Init PROVE IInv
  OBVIOUS
<1>1. NumEnvs \in Nat
  BY LifecycleAssumption
<1>2. QED
  BY <1>1 DEF Init, EnvInit, IInv, Typed, NoOrphans

(* The actions of the main thread that do not touch the managers.          *)
LEMMA NewEnvKeeps == ASSUME IInv, NewEnv PROVE IInv'
<1>1. Typed'
  BY LifecycleAssumption DEF IInv, Typed, NewEnv, mgrVars, Envs
<1>2. QED
  BY <1>1, FieldsAlone DEF IInv, NewEnv, mgrVars, Fields

LEMMA ResetKeeps == ASSUME IInv, Reset PROVE IInv'
<1>1. Typed'
  BY LifecycleAssumption DEF IInv, Typed, Reset, mgrVars, Envs
<1>2. QED
  BY <1>1, FieldsAlone DEF IInv, Reset, mgrVars, Fields

LEMMA CloseKeeps == ASSUME IInv, NEW e, Close(e) PROVE IInv'
<1>1. Typed'
  BY LifecycleAssumption DEF IInv, Typed, Close, mgrVars, Envs
<1>2. QED
  BY <1>1, FieldsAlone DEF IInv, Close, mgrVars, Fields

LEMMA SkipKeeps == ASSUME IInv, SkipManager PROVE IInv'
<1>1. Typed'
  BY Orders DEF IInv, Typed, SkipManager, NextManager, mgrVars
<1>2. QED
  BY <1>1, FieldsAlone DEF IInv, SkipManager, mgrVars, Fields

(* What leaves the call that is running, and the steps of an episode.      *)
LEMMA EpisodeKeeps ==
  ASSUME IInv, Started \/ Step \/ Truncate \/ \E c \in Clients : StartClient(c)
  PROVE  IInv'
<1>1. UNCHANGED <<made, env, at, mgrVars>> /\ phase \in {"generators", "episode"}
  BY DEF Started, Step, Truncate, StartClient, thread
<1>2. Typed'
  BY <1>1 DEF IInv, Typed, mgrVars
<1>3. QED
  BY <1>1, <1>2, FieldsAlone DEF IInv, mgrVars, Fields

LEMMA RaiseKeeps ==
  ASSUME IInv, Raise, "constructor" \notin UnwindAt
  PROVE  IInv'
<1>1. Typed'
  BY DEF IInv, Typed, Raise, mgrVars
<1>2. QED
  BY <1>1, FieldsAlone DEF IInv, Raise, mgrVars, Fields

(* What a constructor starts is what it is the constructor of ...          *)
LEMMA ConstructKeeps == ASSUME IInv, Construct PROVE IInv'
<1> DEFINE m == StartOrder[at]
<1>1. m \in Managers /\ env \in Envs
  BY Orders DEF IInv, Typed, Construct
<1>2. phase = "managers" /\ phase' = "constructor"
      /\ UNCHANGED <<made, env, at, held, killed>>
  BY DEF Construct
<1>3. up' = up \/ up' = [up EXCEPT ![env] = @ \cup {m}]
  BY DEF Construct
<1> HIDE DEF m
<1>4. \A e \in Envs : up'[e] \subseteq up[e] \/ (e = env /\ up'[e] = up[e] \cup {m})
  BY <1>1, <1>3 DEF IInv, Typed
<1>5. Typed'
  BY <1>1, <1>2, <1>3 DEF IInv, Typed
<1>6. m = StartOrder'[at']
  BY <1>2 DEF m, StartOrder
<1>7. QED
  BY <1>2, <1>4, <1>5, <1>6 DEF IInv, NoOrphans

(* ... and the field is set to that.                                       *)
LEMMA SetFieldKeeps == ASSUME IInv, SetField PROVE IInv'
<1> DEFINE m == StartOrder[at]
<1>1. m \in Managers /\ env \in Envs
  BY Orders DEF IInv, Typed, SetField
<1>2. /\ held' = [held EXCEPT ![env] = @ \cup {m}]
      /\ up' = [up EXCEPT ![env] = @ \cup {m}]
      /\ UNCHANGED <<made, env, killed>>
  BY DEF SetField
<1>3. at' \in 1 .. 5
  BY Orders DEF IInv, Typed, SetField, NextManager
<1>4. \A e \in Envs : \A x \in up[e] : x \in held[e] \cup killed[e] \/ (e = env /\ x = m)
  BY DEF IInv, NoOrphans
<1> HIDE DEF m
<1>5. Typed'
  BY <1>1, <1>2, <1>3 DEF IInv, Typed
<1>6. \A e \in Envs : \A x \in up'[e] : x \in held'[e] \cup killed'[e]
  BY <1>1, <1>2, <1>4 DEF IInv, Typed
<1>7. QED
  BY <1>5, <1>6 DEF IInv, NoOrphans

LEMMA NoPatternKeeps == ASSUME IInv, NoPattern PROVE IInv'
<1>1. /\ up' = [up EXCEPT ![env] = @ \ {"traffic"}] /\ env \in Envs
      /\ UNCHANGED <<made, env, at, held, killed>>
      /\ phase = "generators" /\ phase' = "idle"
  BY DEF NoPattern, IInv, Typed
<1>2. Typed'
  BY <1>1 DEF IInv, Typed
<1>3. \A e \in Envs : up'[e] \subseteq up[e]
  BY <1>1 DEF IInv, Typed
<1>4. \A e \in Envs : \A x \in up[e] : x \in held[e] \cup killed[e]
  BY <1>1 DEF IInv, NoOrphans
<1>5. QED
  BY <1>1, <1>2, <1>3, <1>4 DEF IInv, NoOrphans

(* close() drops a field only when the child has been told to end, or when *)
(* it has ended what the field stands for.                                 *)
LEMMA CloseManagerKeeps == ASSUME IInv, CloseManager PROVE IInv'
<1> DEFINE m == CloseOrder[at]
<1>1. m \in Managers /\ env \in Envs /\ phase = "closing"
  BY Orders DEF IInv, Typed, CloseManager
<1>2. /\ killed' = IF m \in held[env] \cap Children
                   THEN [killed EXCEPT ![env] = @ \cup {m}] ELSE killed
      /\ up' = IF m \in held[env] THEN Stopped(m) ELSE up
      /\ held' = [held EXCEPT ![env] = @ \ {m}]
      /\ UNCHANGED <<made, env>>
  BY DEF CloseManager
<1>3. at' \in 1 .. 5
  BY Orders DEF IInv, Typed, CloseManager, NextClose
<1>4. \A e \in Envs : \A x \in up[e] : x \in held[e] \cup killed[e]
  BY <1>1 DEF IInv, NoOrphans
<1> HIDE DEF m
<1>5. /\ Stopped(m) \in [Envs -> SUBSET Managers]
      /\ \A e \in Envs : Stopped(m)[e] \subseteq up[e]
      /\ m \notin Children => m \notin Stopped(m)[env]
  <2>1. CASE m = "net"
    BY <1>1, <2>1 DEF Stopped, NetworkStopped, IInv, Typed
  <2>2. CASE m = "traffic"
    BY <1>1, <2>2 DEF Stopped, IInv, Typed
  <2>3. CASE m \notin {"net", "traffic"}
    <3>1. Stopped(m) = up
      BY <2>3 DEF Stopped
    <3>2. m \in Children
      BY <1>1, <2>3, Orders
    <3>3. QED
      BY <3>1, <3>2 DEF IInv, Typed
  <2>4. QED
    BY <2>1, <2>2, <2>3
<1>6. Typed'
  <2>1. killed' \in [Envs -> SUBSET Children]
    BY <1>1, <1>2 DEF IInv, Typed
  <2>2. up' \in [Envs -> SUBSET Managers]
    BY <1>2, <1>5 DEF IInv, Typed
  <2>3. held' \in [Envs -> SUBSET Managers]
    BY <1>1, <1>2 DEF IInv, Typed
  <2>4. QED
    BY <1>1, <1>2, <1>3, <2>1, <2>2, <2>3 DEF IInv, Typed
<1>7. ASSUME NEW e \in Envs, NEW x \in up'[e]
      PROVE  x \in held'[e] \cup killed'[e]
  <2>1. x \in up[e] /\ x \in held[e] \cup killed[e]
    BY <1>2, <1>4, <1>5, <1>7
  <2>2. killed[e] \subseteq killed'[e]
    BY <1>1, <1>2 DEF IInv, Typed
  <2>3. CASE e # env \/ x # m
    BY <1>1, <1>2, <2>1, <2>2, <2>3 DEF IInv, Typed
  <2>4. CASE e = env /\ x = m
    <3>1. CASE m \notin held[env]
      BY <2>1, <2>2, <2>4, <3>1
    <3>2. CASE m \in held[env]
      <4>1. m \in Children
        BY <1>2, <1>5, <1>7, <2>4, <3>2
      <4>2. QED
        BY <1>1, <1>2, <2>4, <3>2, <4>1 DEF IInv, Typed
    <3>3. QED
      BY <3>1, <3>2
  <2>5. QED
    BY <2>3, <2>4
<1>8. QED
  BY <1>6, <1>7 DEF IInv, NoOrphans

(* Beside the main thread things only end.                                 *)
LEMMA OthersKeep ==
  ASSUME IInv, NEW e \in Envs,
         \/ \E k \in 1 .. Episodes, c \in Clients : ClientEnds(e, k, c)
         \/ \E m \in Children : ChildEnds(e, m)
         \/ SwitchesGo(e)
  PROVE  IInv'
<1>1. /\ UNCHANGED <<made, held, killed, thread>>
      /\ up' = up \/ \E m \in Children : up' = [up EXCEPT ![e] = @ \ {m}]
  BY DEF ClientEnds, ChildEnds, SwitchesGo, mgrVars
<1>2. Typed'
  BY <1>1 DEF IInv, Typed, thread
<1>3. \A d \in Envs : up'[d] \subseteq up[d]
  BY <1>1 DEF IInv, Typed
<1>4. QED
  BY <1>1, <1>2, <1>3, ThingsEnd DEF IInv

(* Neither does the big hammer start anything.                             *)
LEMMA CleanKeeps == ASSUME IInv, Clean PROVE IInv'
<1>1. /\ UNCHANGED <<made, held, killed, thread>>
      /\ up' = [e \in Envs |-> up[e] \ {"net", "traffic"}]
  BY DEF Clean
<1>2. Typed'
  BY <1>1 DEF IInv, Typed, thread
<1>3. \A d \in Envs : up'[d] \subseteq up[d]
  BY <1>1 DEF IInv, Typed
<1>4. QED
  BY <1>1, <1>2, <1>3, ThingsEnd DEF IInv

LEMMA StutterKeeps == ASSUME IInv, UNCHANGED envVars PROVE IInv'
<1>1. UNCHANGED <<made, held, killed, up, thread>>
  BY DEF envVars, mgrVars
<1>2. QED
  BY <1>1 DEF IInv, Typed, NoOrphans, thread

(* A step of the program preserves the invariant.                          *)
LEMMA StepKeeps ==
  ASSUME IInv, [Next]_vars, "constructor" \notin UnwindAt
  PROVE  IInv'
<1>1. CASE Launch
  BY <1>1, NewEnvKeeps DEF Launch
<1>2. CASE Episode
  BY <1>2, ResetKeeps DEF Episode
<1>3. CASE InEnv
  BY <1>3, SkipKeeps, ConstructKeeps, SetFieldKeeps, EpisodeKeeps,
     CloseManagerKeeps DEF InEnv
<1>4. CASE CutShort
  BY <1>4, EpisodeKeeps DEF CutShort
<1>5. CASE Cleanup \/ AtExit
  BY <1>5, CloseKeeps DEF Cleanup, AtExit
<1>6. CASE CleanedUp \/ Plot \/ Exit \/ Join \/ UNCHANGED vars
  BY <1>6, StutterKeeps DEF CleanedUp, Plot, Exit, Join, vars
<1>7. CASE TestFails \/ Exits
  BY <1>7, RaiseKeeps DEF TestFails, Exits
<1>8. CASE ExitsWithoutPattern
  BY <1>8, NoPatternKeeps DEF ExitsWithoutPattern
<1>9. CASE WaitForOvs
  BY <1>9, CleanKeeps, StutterKeeps DEF WaitForOvs
<1>10. CASE \E e \in Envs : \/ \E k \in 1 .. Episodes, c \in Clients : Client(e, k, c)
                            \/ \E m \in Children : Child(e, m)
                            \/ Switches(e)
  BY <1>10, OthersKeep DEF Client, Child, Switches
<1>11. QED
  BY <1>1, <1>2, <1>3, <1>4, <1>5, <1>6, <1>7, <1>8, <1>9, <1>10 DEF Next, Main

(* Whatever exists is held, told to end or being constructed: of all that  *)
(* _start_managers starts, close() and atexit know (NoOrphans).            *)
THEOREM NothingOrphaned ==
  ASSUME "constructor" \notin UnwindAt
  PROVE  Spec => []NoOrphans
<1>1. IInv => NoOrphans
  BY DEF IInv
<1>2. QED
  BY Initially, StepKeeps, <1>1, PTL DEF Spec

-----------------------------------------------------------------------------
(* Networks.  The main thread works in an env only during its test, which  *)
(* is the last one made; a test starts with no switches, so those there    *)
(* are belong to the last env.                                             *)
Busy == {"managers", "constructor", "generators", "episode"}
AInv ==
    /\ main = "test" => env = made
    /\ phase \in Busy => main = "test"
    /\ main = "launch" => bridges = {}
    /\ bridges \subseteq {made}

LEMMA ApartInitially == Init => AInv
BY DEF Init, EnvInit, AInv, Busy

LEMMA ApartInEnv == ASSUME AInv, InEnv PROVE AInv'
<1>1. UNCHANGED <<main, made, env>>
  BY DEF InEnv, drvVars, SkipManager, Construct, SetField, Started, Step,
         CloseManager, StartClient, thread
<1>2. /\ phase' \in Busy => phase \in Busy
      /\ bridges' \subseteq bridges \/ (phase \in Busy /\ bridges' \subseteq bridges \cup {env})
  <2>1. CASE SkipManager
    BY <2>1 DEF SkipManager, NextManager, Busy, mgrVars
  <2>2. CASE Construct
    BY <2>2 DEF Construct, Busy
  <2>3. CASE SetField
    BY <2>3 DEF SetField, NextManager, Busy
  <2>4. CASE Started \/ Step \/ \E c \in Clients : StartClient(c)
    BY <2>4 DEF Started, Step, StartClient, Busy, mgrVars, thread
  <2>5. CASE CloseManager
    BY <2>5 DEF CloseManager, NextClose, Busy
  <2>6. QED
    BY <2>1, <2>2, <2>3, <2>4, <2>5 DEF InEnv
<1>3. QED
  BY <1>1, <1>2 DEF AInv, Busy

(* What ends a call, a test or the program leaves no call behind.          *)
LEMMA ApartEnds ==
  ASSUME AInv, TestFails \/ Exits \/ ExitsWithoutPattern \/ CleanedUp
               \/ CutShort \/ Cleanup \/ AtExit \/ Plot \/ Exit \/ Join
  PROVE  AInv'
<1>1. UNCHANGED <<made, bridges>> /\ phase' \notin Busy
  <2>1. CASE TestFails \/ Exits \/ ExitsWithoutPattern
    BY <2>1 DEF TestFails, Exits, ExitsWithoutPattern, Raise, NoPattern, Busy, mgrVars
  <2>2. CASE CleanedUp
    BY <2>2 DEF CleanedUp, Busy, envVars, mgrVars, thread
  <2>3. CASE CutShort \/ Cleanup \/ AtExit
    BY <2>3 DEF CutShort, Cleanup, AtExit, Truncate, Close, Busy, mgrVars
  <2>4. CASE Plot \/ Exit \/ Join
    BY <2>4 DEF Plot, Exit, Join, AInv, Busy, envVars, mgrVars, thread
  <2>5. QED
    BY <2>1, <2>2, <2>3, <2>4
<1>2. main' # "launch" \/ main' = main
  BY DEF TestFails, Exits, ExitsWithoutPattern, CleanedUp, CutShort, Cleanup,
         AtExit, Plot, Exit, Join, EndTest, Abort, Goto, drvVars
<1>3. main' # "test" \/ (main = "test" /\ env' = env)
  BY DEF TestFails, Exits, ExitsWithoutPattern, CleanedUp, CutShort, Cleanup,
         AtExit, Plot, Exit, Join, EndTest, Abort, Goto, drvVars, Truncate, Close
<1>4. QED
  BY <1>1, <1>2, <1>3 DEF AInv

(* The next test starts when no switch is left, by itself or by force.     *)
LEMMA ApartWaits == ASSUME AInv, WaitForOvs PROVE AInv'
<1>1. UNCHANGED <<made, thread>> /\ bridges' \subseteq bridges
  BY DEF WaitForOvs, Clean, envVars, mgrVars
<1>2. main' = "wait" \/ (main' \in {"launch", "plot"} /\ bridges' = {})
  BY DEF WaitForOvs, NextTest, Goto, Clean, envVars, mgrVars
<1>3. phase \notin Busy
  BY DEF AInv, WaitForOvs
<1>4. QED
  BY <1>1, <1>2, <1>3 DEF AInv, thread

LEMMA ApartStep == ASSUME AInv, [Next]_vars PROVE AInv'
<1>1. CASE Launch
  BY <1>1 DEF Launch, NewEnv, Goto, AInv, Busy, mgrVars
<1>2. CASE Episode
  BY <1>2 DEF Episode, Reset, AInv, drvVars, mgrVars
<1>3. CASE InEnv
  BY <1>3, ApartInEnv
<1>4. CASE TestFails \/ Exits \/ ExitsWithoutPattern \/ CleanedUp
           \/ CutShort \/ Cleanup \/ AtExit \/ Plot \/ Exit \/ Join
  BY <1>4, ApartEnds
<1>5. CASE WaitForOvs
  BY <1>5, ApartWaits
<1>6. CASE \E e \in Envs : \/ \E k \in 1 .. Episodes, c \in Clients : Client(e, k, c)
                           \/ \E m \in Children : Child(e, m)
                           \/ Switches(e)
  <2>1. UNCHANGED <<made, main, thread>> /\ bridges' \subseteq bridges
    BY <1>6 DEF Client, Child, Switches, ClientEnds, ChildEnds, SwitchesGo,
                drvVars, mgrVars
  <2>2. QED
    BY <2>1 DEF AInv, thread
<1>7. CASE UNCHANGED vars
  BY <1>7 DEF AInv, vars, envVars, drvVars, mgrVars, thread
<1>8. QED
  BY <1>1, <1>2, <1>3, <1>4, <1>5, <1>6, <1>7 DEF Next, Main

(* A test never starts beside a network with switches of the same names,   *)
(* whichever tests before it have failed (wait_for_ovs, clean).            *)
THEOREM TestsApart == Spec => []NetworksApart
<1>1. AInv => NetworksApart
  BY DEF AInv, NetworksApart
<1>2. QED
  BY ApartInitially, ApartStep, <1>1, PTL DEF Spec

-----------------------------------------------------------------------------
(* Types, wherever exceptions are raised.                                  *)
States == {"none", "running", "over"}
TInv == TypeOK /\ (phase # "idle" => env \in 1 .. made)

LEMMA Sorts ==
  ASSUME TInv
  PROVE  /\ made \in 0 .. NumEnvs /\ env \in 0 .. made /\ NumEnvs \in Nat
         /\ 1 .. made \subseteq Envs /\ at \in 1 .. 5 /\ phase \in Phases
         /\ held \in [Envs -> SUBSET Managers] /\ up \in [Envs -> SUBSET Managers]
         /\ killed \in [Envs -> SUBSET Children]
         /\ bridges \subseteq Envs /\ terminated \subseteq Envs
         /\ episode \in [Envs -> 0 .. Episodes] /\ Episodes \in Nat
         /\ procs \in [Envs -> SUBSET Clients]
         /\ client \in [Envs -> [1 .. Episodes -> [Clients -> States]]]
         /\ phase # "idle" => env \in 1 .. made
<1>1. NumEnvs \in Nat /\ Episodes \in Nat
  BY LifecycleAssumption
<1>2. 1 .. made \subseteq Envs
  BY <1>1 DEF TInv, TypeOK, EnvTypeOK, Envs
<1>3. QED
  BY <1>1, <1>2, Orders DEF TInv, TypeOK, EnvTypeOK, States

(* SIGTERM is for the clients of the last episode the list names.          *)
LEMMA Terminating ==
  ASSUME TInv, env \in Envs, StopTraffic
  PROVE  /\ client' \in [Envs -> [1 .. Episodes -> [Clients -> States]]]
         /\ procs' \in [Envs -> SUBSET Clients]
         /\ \A e \in Envs : e # env => procs'[e] = procs[e]
         /\ \A e \in Envs, k \in 1 .. Episodes, c \in Clients :
              client'[e][k][c] = "running" =>
                /\ client[e][k][c] = "running"
                /\ e = env /\ "traffic" \in held[env] => c \notin procs[env] \/ k # episode[env]
<1>1. CASE "traffic" \notin held[env]
  BY <1>1, Sorts DEF StopTraffic, trafficVars
<1>2. CASE "traffic" \in held[env]
  <2> DEFINE new == [k \in 1 .. Episodes |-> [c \in Clients |->
                       IF c \in procs[env] /\ k = episode[env]
                       THEN Told(client[env][k][c]) ELSE client[env][k][c]]]
  <2>1. client' = [client EXCEPT ![env] = new] /\ procs' = [procs EXCEPT ![env] = {}]
    BY <1>2 DEF StopTraffic
  <2>2. \A k \in 1 .. Episodes, c \in Clients :
          client[env][k][c] \in States /\ Told(client[env][k][c]) \in {"none", "over"}
    BY Sorts DEF States, Told
  <2>3. new \in [1 .. Episodes -> [Clients -> States]]
    BY <2>2 DEF States
  <2>4. \A k \in 1 .. Episodes, c \in Clients :
          new[k][c] = "running" =>
            client[env][k][c] = "running" /\ (c \notin procs[env] \/ k # episode[env])
    BY <2>2
  <2> HIDE DEF new
  <2>5. client' \in [Envs -> [1 .. Episodes -> [Clients -> States]]]
        /\ client'[env] = new /\ \A e \in Envs : e # env => client'[e] = client[e]
    BY <2>1, <2>3, Sorts
  <2>6. procs' \in [Envs -> SUBSET Clients]
        /\ \A e \in Envs : e # env => procs'[e] = procs[e]
    BY <2>1, Sorts
  <2>7. QED
    BY <2>4, <2>5, <2>6
<1>3. QED
  BY <1>1, <1>2

LEMMA TypesInitially == Init => TInv
<1> SUFFICES ASSUME Init PROVE TInv
  OBVIOUS
<1>1. NumEnvs \in Nat /\ Episodes \in Nat /\ Polls \in Nat
  BY LifecycleAssumption, DriversAssumption
<1>2. client \in [Envs -> [1 .. Episodes -> [Clients -> {"none", "running", "over"}]]]
  BY DEF Init, EnvInit
<1>3. EnvTypeOK
  BY <1>1, <1>2, Orders DEF Init, EnvInit, EnvTypeOK, Phases
<1>4. program \in Programs /\ polls \in 0 .. Polls /\ aborted \in BOOLEAN
      /\ main = "launch" /\ phase = "idle"
  <2>1. /\ program \in Programs /\ polls = Polls /\ aborted = FALSE
        /\ main = "launch" /\ phase = "idle"
    BY DEF Init, EnvInit
  <2>2. polls \in 0 .. Polls
    BY <1>1, <2>1
  <2>3. QED
    BY <2>1, <2>2
<1>5. QED
  BY <1>3, <1>4 DEF TInv, TypeOK

(* What the main thread does in an env keeps the types of the env ...      *)
LEMMA TypesInCall ==
  ASSUME TInv, InEnv \/ Episode \/ CutShort \/ Launch \/ Cleanup \/ AtExit
  PROVE  EnvTypeOK' /\ (phase' # "idle" => env' \in 1 .. made')
<1>1. EnvTypeOK /\ NumEnvs \in Nat /\ Episodes \in Nat
  BY Sorts DEF TInv, TypeOK
<1>2. CASE SkipManager \/ Started \/ Step \/ Truncate
  <2>1. /\ UNCHANGED <<made, env, mgrVars, terminated, episode, pattern, trafficVars>>
        /\ phase # "idle"
    BY <1>2 DEF SkipManager, Started, Step, Truncate
  <2>2. phase' \in Phases /\ at' \in 1 .. 5
    BY <1>2, Sorts, Orders DEF SkipManager, NextManager, Started, Step, Truncate, Phases
  <2>3. QED
    BY <1>1, <2>1, <2>2, Orders DEF EnvTypeOK, TInv, mgrVars, trafficVars
<1>3. CASE Construct
  <2> DEFINE m == StartOrder[at]
  <2>1. m \in Managers /\ env \in Envs /\ env \in 1 .. made
    BY <1>3, Sorts, Orders DEF Construct
  <2>2. /\ up' = up \/ up' = [up EXCEPT ![env] = @ \cup {m}]
        /\ bridges' = bridges \/ bridges' = bridges \cup {env}
        /\ phase' = "constructor"
        /\ UNCHANGED <<made, env, at, held, killed, terminated, episode, pattern, trafficVars>>
    BY <1>3 DEF Construct
  <2> HIDE DEF m
  <2>3. up' \in [Envs -> SUBSET Managers] /\ bridges' \subseteq Envs
    BY <2>1, <2>2, Sorts
  <2>4. QED
    BY <1>1, <2>1, <2>2, <2>3 DEF EnvTypeOK, Phases, trafficVars
<1>4. CASE SetField
  <2> DEFINE m == StartOrder[at]
  <2>1. m \in Managers /\ env \in Envs /\ env \in 1 .. made
    BY <1>4, Sorts, Orders DEF SetField
  <2>2. /\ held' = [held EXCEPT ![env] = @ \cup {m}]
        /\ up' = [up EXCEPT ![env] = @ \cup {m}]
        /\ UNCHANGED <<made, env, bridges, killed, terminated, episode, pattern, trafficVars>>
    BY <1>4 DEF SetField
  <2> HIDE DEF m
  <2>3. phase' \in Phases /\ at' \in 1 .. Len(StartOrder)
    BY <1>4, Sorts, Orders DEF SetField, NextManager, Phases
  <2>4. held' \in [Envs -> SUBSET Managers] /\ up' \in [Envs -> SUBSET Managers]
    BY <2>1, <2>2, Sorts
  <2>5. QED
    BY <1>1, <2>1, <2>2, <2>3, <2>4 DEF EnvTypeOK, trafficVars
<1>5. CASE \E c \in Clients : StartClient(c)
  <2>1. PICK c \in Clients : StartClient(c)
    BY <1>5
  <2>2. /\ client' = [client EXCEPT ![env][episode[env]][c] = "running"]
        /\ procs' = [procs EXCEPT ![env] = @ \cup {c}] /\ phase = "generators"
        /\ UNCHANGED <<made, env, phase, at, held, up, bridges, killed, terminated, episode, pattern>>
    BY <2>1 DEF StartClient, thread, mgrVars
  <2>3. client' \in [Envs -> [1 .. Episodes -> [Clients -> States]]]
        /\ procs' \in [Envs -> SUBSET Clients]
    BY <2>2, Sorts DEF States
  <2>4. QED
    BY <1>1, <2>2, <2>3 DEF EnvTypeOK, TInv, States
<1>6. CASE CloseManager
  <2> DEFINE m == CloseOrder[at]
  <2>1. m \in Managers /\ env \in Envs /\ env \in 1 .. made
    BY <1>6, Sorts, Orders DEF CloseManager
  <2>2. /\ killed' = IF m \in held[env] \cap Children
                     THEN [killed EXCEPT ![env] = @ \cup {m}] ELSE killed
        /\ up' = IF m \in held[env] THEN Stopped(m) ELSE up
        /\ held' = [held EXCEPT ![env] = @ \ {m}]
        /\ StopTraffic \/ UNCHANGED trafficVars
        /\ UNCHANGED <<made, env, bridges, terminated, episode, pattern>>
    BY <1>6 DEF CloseManager
  <2> HIDE DEF m
  <2>3. phase' \in Phases /\ at' \in 1 .. Len(StartOrder)
    BY <1>6, Sorts, Orders DEF CloseManager, NextClose, Phases
  <2>4. Stopped(m) \in [Envs -> SUBSET Managers]
    BY <2>1, Sorts DEF Stopped, NetworkStopped
  <2>5. held' \in [Envs -> SUBSET Managers] /\ up' \in [Envs -> SUBSET Managers]
        /\ killed' \in [Envs -> SUBSET Children]
    BY <2>1, <2>2, <2>4, Sorts
  <2>6. client' \in [Envs -> [1 .. Episodes -> [Clients -> States]]]
        /\ procs' \in [Envs -> SUBSET Clients]
    BY <2>1, <2>2, Sorts, Terminating DEF trafficVars
  <2>7. QED
    BY <1>1, <2>1, <2>2, <2>3, <2>5, <2>6 DEF EnvTypeOK, States
<1>7. CASE Reset
  <2>1. /\ StopTraffic /\ env \in 1 .. made \ terminated /\ episode[env] < Episodes
        /\ episode' = [episode EXCEPT ![env] = @ + 1]
        /\ phase' = "managers" /\ at' = 1
        /\ UNCHANGED <<made, env, held, up, bridges, killed, terminated, pattern>>
    BY <1>7 DEF Reset, mgrVars
  <2>2. env \in Envs
    BY <2>1, Sorts
  <2>3. client' \in [Envs -> [1 .. Episodes -> [Clients -> States]]]
        /\ procs' \in [Envs -> SUBSET Clients]
    BY <2>1, <2>2, Terminating
  <2>4. episode' \in [Envs -> 0 .. Episodes]
    BY <2>1, <2>2, Sorts
  <2>5. at' \in 1 .. Len(StartOrder) /\ phase' \in Phases
    BY <2>1, Orders DEF Phases
  <2>6. QED
    BY <1>1, <2>1, <2>3, <2>4, <2>5 DEF EnvTypeOK, States
<1>8. CASE NewEnv
  <2>1. /\ made' = made + 1 /\ env' = made + 1 /\ made + 1 \in Envs
        /\ UNCHANGED <<phase, at, held, up, bridges, killed, terminated, episode, pattern, client, procs>>
        /\ phase = "idle"
    BY <1>8 DEF NewEnv, mgrVars, trafficVars
  <2>2. made' \in 0 .. NumEnvs /\ env' \in 0 .. made'
    BY <2>1, Sorts DEF Envs
  <2>3. QED
    BY <1>1, <2>1, <2>2 DEF EnvTypeOK
<1>9. CASE \E e : Close(e)
  <2>1. PICK e : Close(e)
    BY <1>9
  <2>2. /\ e \in 1 .. made /\ terminated' = terminated \cup {e}
        /\ env' = e /\ phase' = "closing" /\ at' = 1
        /\ UNCHANGED <<made, held, up, bridges, killed, episode, pattern, client, procs>>
    BY <2>1 DEF Close, mgrVars, trafficVars
  <2>3. terminated' \subseteq Envs /\ env' \in 0 .. made /\ env' \in 1 .. made
    BY <2>2, Sorts
  <2>4. at' \in 1 .. Len(StartOrder) /\ phase' \in Phases
    BY <2>2, Orders DEF Phases
  <2>5. QED
    BY <1>1, <2>2, <2>3, <2>4 DEF EnvTypeOK
<1>10. QED
  BY <1>2, <1>3, <1>4, <1>5, <1>6, <1>7, <1>8, <1>9
     DEF InEnv, Episode, CutShort, Launch, Cleanup, AtExit

(* ... and so does what goes on beside it or between the calls.            *)
LEMMA TypesBeside ==
  ASSUME TInv, NEW e \in Envs, UNCHANGED drvVars,
         \/ \E k \in 1 .. Episodes, c \in Clients : ClientEnds(e, k, c)
         \/ \E m \in Children : ChildEnds(e, m)
         \/ SwitchesGo(e)
  PROVE  TInv'
<1>1. /\ UNCHANGED <<made, env, phase, at, held, killed, terminated, episode, pattern, procs,
                     program, main, polls, aborted>>
      /\ bridges' \subseteq bridges
  BY DEF ClientEnds, ChildEnds, SwitchesGo, thread, mgrVars, trafficVars, drvVars
<1>2. up' \in [Envs -> SUBSET Managers]
  <2>1. up' = up \/ \E m \in Children : up' = [up EXCEPT ![e] = @ \ {m}]
    BY DEF ClientEnds, ChildEnds, SwitchesGo, mgrVars
  <2>2. QED
    BY <2>1, Sorts
<1>3. client' \in [Envs -> [1 .. Episodes -> [Clients -> States]]]
  <2>1. client' = client \/ \E k \in 1 .. Episodes, c \in Clients :
                              client' = [client EXCEPT ![e][k][c] = "over"]
    BY DEF ClientEnds, ChildEnds, SwitchesGo, trafficVars
  <2>2. CASE client' = client
    BY <2>2, Sorts
  <2>3. CASE client' # client
    <3>1. PICK k \in 1 .. Episodes, c \in Clients : client' = [client EXCEPT ![e][k][c] = "over"]
      BY <2>1, <2>3
    <3>2. QED
      BY <3>1, Sorts DEF States
  <2>4. QED
    BY <2>2, <2>3
<1>4. QED
  BY <1>1, <1>2, <1>3 DEF TInv, TypeOK, EnvTypeOK, States

LEMMA TypesOfClean ==
  ASSUME TInv, Clean
  PROVE  EnvTypeOK' /\ UNCHANGED <<made, thread>>
<1>1. /\ UNCHANGED <<made, env, phase, at, held, killed, terminated, episode, pattern, procs>>
      /\ bridges' = {} /\ up' = [e \in Envs |-> up[e] \ {"net", "traffic"}]
      /\ client' = [e \in Envs |-> [k \in 1 .. Episodes |->
                      [c \in Clients |-> Told(client[e][k][c])]]]
  BY DEF Clean, thread
<1>2. up' \in [Envs -> SUBSET Managers]
  BY <1>1, Sorts
<1>3. \A e \in Envs, k \in 1 .. Episodes, c \in Clients : Told(client[e][k][c]) \in States
  <2>1. \A e \in Envs, k \in 1 .. Episodes, c \in Clients : client[e][k][c] \in States
    BY Sorts
  <2>2. QED
    BY <2>1 DEF Told, States
<1>4. client' \in [Envs -> [1 .. Episodes -> [Clients -> States]]]
  BY <1>1, <1>3
<1>5. QED
  BY <1>1, <1>2, <1>4 DEF TInv, TypeOK, EnvTypeOK, States, thread

Mains == {"launch", "test", "wait", "plot", "exiting", "joining", "exited"}
LEMMA TypesStep == ASSUME TInv, [Next]_vars PROVE TInv'
<1> DEFINE Env == EnvTypeOK' /\ (phase' # "idle" => env' \in 1 .. made')
           Drv == program' = program /\ polls' \in 0 .. Polls /\ aborted' \in BOOLEAN
                  /\ main' \in Mains
<1>1. Env /\ Drv => TInv'
  BY DEF TInv, TypeOK, Mains
<1>2. polls \in 0 .. Polls /\ Polls \in Nat /\ main \in Mains /\ aborted \in BOOLEAN
  BY DriversAssumption DEF TInv, TypeOK, Mains
<1>3. UNCHANGED envVars => Env
  BY DEF TInv, TypeOK, EnvTypeOK, envVars, thread, mgrVars, trafficVars
<1>4. UNCHANGED drvVars => Drv
  BY <1>2 DEF drvVars
<1>5. CASE InEnv \/ Episode \/ CutShort \/ Launch \/ Cleanup \/ AtExit
  <2>1. Env
    BY <1>5, TypesInCall
  <2>2. Drv
    BY <1>2, <1>4, <1>5 DEF InEnv, Episode, CutShort, Launch, Cleanup, AtExit, Goto, Mains
  <2>3. QED
    BY <1>1, <2>1, <2>2
<1>6. CASE TestFails \/ Exits \/ ExitsWithoutPattern
  <2>1. /\ UNCHANGED <<made, env, at, held, killed, bridges, terminated, episode, pattern, client, procs>>
        /\ phase' = "idle"
        /\ up' = up \/ up' = [up EXCEPT ![env] = @ \ {"traffic"}]
    BY <1>6 DEF TestFails, Exits, ExitsWithoutPattern, Raise, NoPattern, mgrVars, trafficVars
  <2>2. up' \in [Envs -> SUBSET Managers]
    BY <2>1, Sorts
  <2>3. Env
    BY <2>1, <2>2 DEF TInv, TypeOK, EnvTypeOK, Phases
  <2>4. Drv
    <3>1. CASE TestFails
      BY <1>2, <3>1 DEF TestFails, EndTest, Mains
    <3>2. CASE Exits \/ ExitsWithoutPattern
      BY <1>2, <3>2 DEF Exits, ExitsWithoutPattern, Abort, Mains
    <3>3. QED
      BY <1>6, <3>1, <3>2
  <2>5. QED
    BY <1>1, <2>3, <2>4
<1>7. CASE CleanedUp \/ Plot \/ Exit \/ Join
  <2>1. Drv
    BY <1>2, <1>7 DEF CleanedUp, Plot, Exit, Join, EndTest, Goto, Mains
  <2>2. QED
    BY <1>1, <1>3, <1>7, <2>1 DEF CleanedUp, Plot, Exit, Join
<1>8. CASE WaitForOvs
  <2>1. Drv
    BY <1>2, <1>8 DEF WaitForOvs, NextTest, Goto, Mains
  <2>2. Env
    <3>1. CASE Clean
      BY <3>1, TypesOfClean DEF TInv, thread
    <3>2. CASE UNCHANGED envVars
      BY <3>2, <1>3
    <3>3. QED
      BY <1>8, <3>1, <3>2 DEF WaitForOvs
  <2>3. QED
    BY <1>1, <2>1, <2>2
<1>9. CASE \E e \in Envs : \/ \E k \in 1 .. Episodes, c \in Clients : Client(e, k, c)
                           \/ \E m \in Children : Child(e, m)
                           \/ Switches(e)
  BY <1>9, TypesBeside DEF Client, Child, Switches
<1>10. CASE UNCHANGED vars
  BY <1>1, <1>3, <1>4, <1>10 DEF vars
<1>11. QED
  BY <1>5, <1>6, <1>7, <1>8, <1>9, <1>10 DEF Next, Main

(* Types, wherever an exception is raised.                                 *)
THEOREM TypeCorrect == Spec => []TypeOK
<1>1. TInv => TypeOK
  BY DEF TInv
<1>2. QED
  BY TypesInitially, TypesStep, <1>1, PTL DEF Spec

-----------------------------------------------------------------------------
(* The life of an env, wherever exceptions are raised.                     *)
(* An env that has not been made has nothing.                              *)
Born ==
    /\ terminated \subseteq 1 .. made
    /\ \A e \in Envs : e > made => up[e] = {} /\ held[e] = {}

(* The managers are held in the order of their start.                      *)
InTurn ==
    /\ phase \in Busy => env \notin terminated
    /\ phase \in {"managers", "constructor"} =>
         \A i \in 1 .. at - 1 : StartOrder[i] \in held[env]
    /\ phase = "generators" => {"net", "traffic"} \subseteq held[env]

(* close() lets go of them in its own order; it is called by cleanup() or  *)
(* atexit, and the env of the last test is the first one atexit closes.    *)
Closing ==
    phase = "closing" =>
        /\ main \in {"test", "exiting"}
        /\ env \in terminated /\ (env # made => made \in terminated)
        /\ \A i \in 1 .. at - 1 : CloseOrder[i] \notin held[env]

(* A network has switches, and the env of a test has its network.          *)
Network ==
    /\ \A e \in Envs : "net" \in up[e] => e \in bridges
    /\ phase = "constructor" /\ at = 1 => "net" \in up[env]
    /\ \A e \in Envs : main = "test" /\ e = made /\ e \notin terminated /\ "net" \in held[e]
                         => "net" \in up[e]

(* A client runs for the last episode of the last env, which has it on its *)
(* list, and until the program comes to its end in its network.            *)
Running == {"launch", "test", "wait", "plot"}
OwnClients ==
    \A e \in Envs, k \in 1 .. Episodes, c \in Clients :
        client[e][k][c] = "running" =>
            /\ c \in procs[e] /\ k = episode[e] /\ "traffic" \in held[e]
            /\ e = made /\ (main \in Running => "net" \in up[e])

LInv == Born /\ InTurn /\ Closing /\ Network /\ OwnClients
Known == TInv /\ AInv /\ LInv

LEMMA Positions ==
  /\ StartOrder[1] = "net" /\ StartOrder[2] = "traffic"
  /\ \A i \in 1 .. 5 : StartOrder[i] = "net" => i = 1
  /\ CloseOrder[4] = "traffic" /\ CloseOrder[5] = "net"
  /\ \A i \in 1 .. 5 : (CloseOrder[i] = "net" => i = 5) /\ (CloseOrder[i] = "traffic" => i = 4)
  /\ \A m \in Managers : \E i \in 1 .. 5 : CloseOrder[i] = m
<1>1. \A i \in 1 .. 5 : i = 1 \/ i = 2 \/ i = 3 \/ i = 4 \/ i = 5
  OBVIOUS
<1>2. /\ StartOrder[1] = "net" /\ StartOrder[2] = "traffic" /\ StartOrder[3] = "state"
      /\ StartOrder[4] = "sampler" /\ StartOrder[5] = "bw"
      /\ CloseOrder[1] = "state" /\ CloseOrder[2] = "bw" /\ CloseOrder[3] = "sampler"
      /\ CloseOrder[4] = "traffic" /\ CloseOrder[5] = "net"
  BY DEF StartOrder, CloseOrder
<1>3. QED
  BY <1>1, <1>2 DEF Managers

LEMMA MaxIs ==
  ASSUME NEW n \in Nat, NEW S, S \subseteq 1 .. n, n \in S
  PROVE  Max(S) = n
<1>1. \A y \in S : n >= y
  OBVIOUS
<1>2. \A x \in S : (\A y \in S : x >= y) => x = n
  <2> SUFFICES ASSUME NEW x \in S, \A y \in S : x >= y PROVE x = n
    OBVIOUS
  <2>1. x >= n /\ n >= x /\ x \in Nat
    BY <1>1
  <2>2. QED
    BY <2>1
<1> DEFINE P(x) == \A y \in S : x >= y
<1>3. P(n) /\ \A x \in S : P(x) => x = n
  BY <1>1, <1>2
<1> HIDE DEF P
<1>4. (CHOOSE x \in S : P(x)) = n
  BY <1>3
<1>5. QED
  BY <1>4 DEF Max, P

-----------------------------------------------------------------------------
LEMMA LInitially == Init => LInv
<1> SUFFICES ASSUME Init PROVE LInv
  OBVIOUS
<1>1. \A e \in Envs : up[e] = {} /\ held[e] = {} /\ \A k \in 1 .. Episodes, c \in Clients : client[e][k][c] = "none"
  BY DEF Init, EnvInit
<1>2. phase = "idle" /\ terminated = {}
  BY DEF Init, EnvInit
<1>3. Born /\ InTurn /\ Closing /\ Network
  BY <1>1, <1>2 DEF Born, InTurn, Closing, Network, Busy
<1>4. OwnClients
  BY <1>1 DEF OwnClients
<1>5. QED
  BY <1>3, <1>4 DEF LInv

(* A test starts with no network and so with no client.                    *)
LEMMA NoNetNoClients ==
  ASSUME Known, bridges = {}, main \in Running
  PROVE  \A e \in Envs : /\ "net" \notin up[e]
                         /\ \A k \in 1 .. Episodes, c \in Clients : client[e][k][c] # "running"
BY DEF Known, LInv, Network, OwnClients

LEMMA LaunchKeepsL == ASSUME Known, Launch PROVE LInv'
<1>1. /\ made' = made + 1 /\ main = "launch" /\ phase = "idle" /\ phase' = "idle"
      /\ UNCHANGED <<at, held, up, bridges, terminated, episode, client, procs>>
  BY DEF Launch, NewEnv, mgrVars, trafficVars
<1>2. bridges = {} /\ made \in Nat /\ main \in Running
  BY <1>1, Sorts DEF Known, AInv, Running
<1>3. Born'
  BY <1>1, <1>2, Sorts DEF Known, LInv, Born, Envs
<1>4. InTurn' /\ Closing'
  BY <1>1 DEF Known, LInv, InTurn, Closing, Busy
<1>5. Network'
  <2>1. \A e \in Envs : "net" \notin up[e]
    BY <1>2, NoNetNoClients
  <2>2. \A e \in Envs : e = made' => held[e] = {}
    BY <1>1, <1>2 DEF Known, LInv, Born
  <2>3. QED
    BY <1>1, <2>1, <2>2 DEF Network
<1>6. OwnClients'
  BY <1>1, <1>2, NoNetNoClients DEF OwnClients
<1>7. QED
  BY <1>3, <1>4, <1>5, <1>6 DEF LInv

LEMMA EpisodeKeepsL == ASSUME Known, Episode PROVE LInv'
<1>1. /\ main = "test" /\ main' = main /\ phase = "idle" /\ phase' = "managers" /\ at' = 1
      /\ env \in 1 .. made \ terminated /\ StopTraffic
      /\ UNCHANGED <<made, env, held, up, bridges, terminated>>
  BY DEF Episode, Reset, mgrVars, drvVars
<1>2. env = made /\ env \in Envs
  BY <1>1, Sorts DEF Known, AInv
<1>3. Born' /\ Closing' /\ Network'
  BY <1>1 DEF Known, LInv, Born, Closing, Network, Busy
<1>4. InTurn'
  BY <1>1 DEF InTurn, Busy
<1>5. OwnClients'
  <2>1. \A e \in Envs, k \in 1 .. Episodes, c \in Clients : client'[e][k][c] # "running"
    BY <1>1, <1>2, Terminating DEF Known, LInv, OwnClients
  <2>2. QED
    BY <2>1 DEF OwnClients
<1>6. QED
  BY <1>3, <1>4, <1>5 DEF LInv

LEMMA SkipKeepsL == ASSUME Known, SkipManager, UNCHANGED drvVars PROVE LInv'
<1>1. /\ phase = "managers" /\ StartOrder[at] \in held[env] /\ NextManager
      /\ UNCHANGED <<made, env, held, up, bridges, terminated, episode, client, procs, main>>
  BY DEF SkipManager, mgrVars, trafficVars, drvVars
<1>2. at \in 1 .. 5 /\ Len(StartOrder) = 5
  BY Sorts, Orders DEF Known
<1>3. phase' \in {"managers", "generators"} /\ env \notin terminated
  BY <1>1 DEF NextManager, Known, LInv, InTurn, Busy
<1>4. \A i \in 1 .. at : StartOrder[i] \in held[env]
  BY <1>1, <1>2 DEF Known, LInv, InTurn
<1>5. InTurn'
  <2>1. CASE at = 5
    BY <1>1, <1>2, <1>3, <1>4, <2>1, Positions DEF NextManager, InTurn
  <2>2. CASE at # 5
    BY <1>1, <1>2, <1>3, <1>4, <2>2 DEF NextManager, InTurn
  <2>3. QED
    BY <2>1, <2>2
<1>6. Born' /\ Closing' /\ Network' /\ OwnClients'
  BY <1>1, <1>3 DEF Known, LInv, Born, Closing, Network, OwnClients
<1>7. QED
  BY <1>5, <1>6 DEF LInv

LEMMA ConstructKeepsL == ASSUME Known, Construct, UNCHANGED drvVars PROVE LInv'
<1> DEFINE m == StartOrder[at]
<1>1. /\ phase = "managers" /\ phase' = "constructor"
      /\ up' = IF m \in InConstructor THEN [up EXCEPT ![env] = @ \cup {m}] ELSE up
      /\ bridges' = IF m = "net" THEN bridges \cup {env} ELSE bridges
      /\ UNCHANGED <<made, env, at, held, terminated, episode, client, procs, main>>
  BY DEF Construct, trafficVars, drvVars
<1>2. at \in 1 .. 5 /\ m \in Managers /\ env \in Envs /\ env \in 1 .. made
      /\ made \in Nat /\ up \in [Envs -> SUBSET Managers]
  BY <1>1, Sorts, Orders DEF Known
<1>3. /\ at = 1 => m = "net"
      /\ m = "net" => m \in InConstructor
  BY Positions DEF InConstructor
<1>4. main = "test" /\ env = made /\ env \notin terminated
  BY <1>1 DEF Known, AInv, LInv, InTurn, Busy
<1> HIDE DEF m
<1>5. \A e \in Envs : /\ up[e] \subseteq up'[e]
                      /\ e # env => up'[e] = up[e]
                      /\ up'[e] \subseteq up[e] \cup {m}
                      /\ m \in InConstructor /\ e = env => m \in up'[e]
  BY <1>1, <1>2
<1>6. Born'
  BY <1>1, <1>2, <1>5 DEF Known, LInv, Born
<1>7. InTurn' /\ Closing'
  BY <1>1, <1>4 DEF Known, LInv, InTurn, Closing
<1>8. Network'
  BY <1>1, <1>2, <1>3, <1>5 DEF Known, LInv, Network
<1>9. OwnClients'
  BY <1>1, <1>5 DEF Known, LInv, OwnClients
<1>10. QED
  BY <1>6, <1>7, <1>8, <1>9 DEF LInv

LEMMA SetFieldKeepsL == ASSUME Known, SetField, UNCHANGED drvVars PROVE LInv'
<1> DEFINE m == StartOrder[at]
<1>1. /\ phase = "constructor" /\ NextManager
      /\ held' = [held EXCEPT ![env] = @ \cup {m}]
      /\ up' = [up EXCEPT ![env] = @ \cup {m}]
      /\ UNCHANGED <<made, env, bridges, terminated, episode, client, procs, main>>
  BY DEF SetField, trafficVars, drvVars
<1>2. at \in 1 .. 5 /\ Len(StartOrder) = 5 /\ m \in Managers /\ env \in Envs
      /\ env \in 1 .. made /\ made \in Nat
  BY <1>1, Sorts, Orders DEF Known
<1>3. m = "net" => at = 1
  BY <1>2, Positions
<1>4. main = "test" /\ env = made /\ env \notin terminated
  BY <1>1 DEF Known, AInv, LInv, InTurn, Busy
<1>5. phase' \in {"managers", "generators"}
  BY <1>1 DEF NextManager
<1>6. \A i \in 1 .. at - 1 : StartOrder[i] \in held[env]
  BY <1>1 DEF Known, LInv, InTurn
<1>7. /\ m \in held'[env] /\ m \in up'[env]
      /\ \A e \in Envs : /\ held[e] \subseteq held'[e] /\ up[e] \subseteq up'[e]
                         /\ e # env => up'[e] = up[e] /\ held'[e] = held[e]
                         /\ up'[e] \subseteq up[e] \cup {m}
                         /\ held'[e] \subseteq held[e] \cup {m}
  BY <1>1, <1>2, Sorts DEF Known
<1>8. \A i \in 1 .. at : StartOrder[i] \in held'[env]
  BY <1>2, <1>6, <1>7
<1> HIDE DEF m
<1>9. InTurn'
  <2>1. CASE at = 5
    BY <1>1, <1>2, <1>4, <1>5, <1>8, <2>1, Positions DEF NextManager, InTurn
  <2>2. CASE at # 5
    BY <1>1, <1>2, <1>4, <1>5, <1>8, <2>2 DEF NextManager, InTurn
  <2>3. QED
    BY <2>1, <2>2
<1>10. Born'
  BY <1>1, <1>2, <1>7 DEF Known, LInv, Born
<1>11. Closing'
  BY <1>1, <1>4, <1>5, <1>7, Sorts DEF Known, LInv, Closing
<1>12. Network'
  BY <1>1, <1>3, <1>5, <1>7 DEF Known, LInv, Network
<1>13. OwnClients'
  BY <1>1, <1>7 DEF Known, LInv, OwnClients
<1>14. QED
  BY <1>9, <1>10, <1>11, <1>12, <1>13 DEF LInv

LEMMA StartClientKeepsL ==
  ASSUME Known, NEW c \in Clients, StartClient(c), UNCHANGED drvVars
  PROVE  LInv'
<1>1. /\ phase = "generators"
      /\ client' = [client EXCEPT ![env][episode[env]][c] = "running"]
      /\ procs' = [procs EXCEPT ![env] = @ \cup {c}]
      /\ UNCHANGED <<made, env, phase, at, held, up, bridges, terminated, episode, main>>
  BY DEF StartClient, thread, mgrVars, drvVars
<1>2. env \in Envs /\ env = made /\ main = "test" /\ env \notin terminated
      /\ "traffic" \in held[env] /\ "net" \in up[env]
  BY <1>1, Sorts DEF Known, AInv, LInv, InTurn, Network, Busy
<1>3. \A e \in Envs : procs[e] \subseteq procs'[e] /\ c \in procs'[env]
  BY <1>1, <1>2, Sorts DEF Known
<1>4. ASSUME NEW e \in Envs, NEW k \in 1 .. Episodes, NEW d \in Clients,
             client'[e][k][d] = "running"
      PROVE  client[e][k][d] = "running" \/ (e = env /\ k = episode[env] /\ d = c)
  BY <1>1, <1>2, <1>4, Sorts DEF Known, States
<1>5. OwnClients'
  BY <1>1, <1>2, <1>3, <1>4 DEF Known, LInv, OwnClients
<1>6. Born' /\ InTurn' /\ Closing' /\ Network'
  BY <1>1 DEF Known, LInv, Born, InTurn, Closing, Network
<1>7. QED
  BY <1>5, <1>6 DEF LInv

(* A step in which the main thread goes on in its episode, leaves a call   *)
(* other than close(), or stays where it is, and no network goes.          *)
LEMMA QuietKeepsL ==
  ASSUME Known,
         UNCHANGED <<made, held, terminated, episode, procs>>,
         main' = "test" => main = "test",
         main' \in Running => main \in Running,
         main' = main \/ phase' # "closing",
         \A e \in Envs : up'[e] \subseteq up[e] /\ ("net" \in up[e] => "net" \in up'[e]),
         \A e \in Envs : "net" \in up[e] => e \in bridges',
         \A e \in Envs, k \in 1 .. Episodes, c \in Clients :
           client'[e][k][c] = "running" => client[e][k][c] = "running",
         \/ UNCHANGED thread
         \/ phase' = "idle"
         \/ phase \in Busy /\ phase' = "episode" /\ env' = env
  PROVE  LInv'
<1>1. Born'
  BY DEF Known, LInv, Born
<1>2. InTurn'
  BY DEF Known, LInv, InTurn, Busy, thread
<1>3. Closing'
  BY DEF Known, LInv, Closing, Busy, thread
<1>4. Network'
  <2>1. \A e \in Envs : "net" \in up'[e] => e \in bridges'
    OBVIOUS
  <2>2. phase' = "constructor" /\ at' = 1 => "net" \in up'[env']
    <3> SUFFICES ASSUME phase' = "constructor", at' = 1 PROVE "net" \in up'[env']
      OBVIOUS
    <3>1. UNCHANGED thread
      OBVIOUS
    <3>2. "net" \in up[env] /\ env \in Envs /\ env' = env
      BY <3>1, Sorts DEF Known, LInv, Network, thread
    <3>3. QED
      BY <3>2
  <2>3. \A e \in Envs : main' = "test" /\ e = made' /\ e \notin terminated' /\ "net" \in held'[e]
                         => "net" \in up'[e]
    BY DEF Known, LInv, Network
  <2>4. QED
    BY <2>1, <2>2, <2>3 DEF Network
<1>5. OwnClients'
  BY DEF Known, LInv, OwnClients
<1>6. QED
  BY <1>1, <1>2, <1>3, <1>4, <1>5 DEF LInv

LEMMA CallKeepsL ==
  ASSUME Known,
         \/ InEnv /\ (Started \/ Step)
         \/ CutShort \/ TestFails \/ Exits \/ ExitsWithoutPattern
  PROVE  LInv'
<1>1. /\ UNCHANGED <<made, held, bridges, terminated, episode, procs, client>>
      /\ main' = "test" => main = "test"
      /\ main' \in Running => main \in Running
      /\ up' = up \/ up' = [up EXCEPT ![env] = @ \ {"traffic"}]
  BY DEF Running, InEnv, CutShort, TestFails, Exits, ExitsWithoutPattern, Started, Step, Truncate,
         Raise, NoPattern, EndTest, Abort, drvVars, mgrVars, trafficVars
<1>2. \/ phase' = "idle"
      \/ phase \in Busy /\ phase' = "episode" /\ env' = env
  BY DEF InEnv, CutShort, TestFails, Exits, ExitsWithoutPattern, Started, Step, Truncate,
         Raise, NoPattern, Busy
<1>3. \A e \in Envs : up'[e] \subseteq up[e] /\ ("net" \in up[e] => "net" \in up'[e])
  BY <1>1, Sorts DEF Known
<1>4. \A e \in Envs : "net" \in up[e] => e \in bridges'
  BY <1>1 DEF Known, LInv, Network
<1>5. QED
  BY <1>1, <1>2, <1>3, <1>4, QuietKeepsL

LEMMA BetweenKeepsL ==
  ASSUME Known, CleanedUp \/ Plot \/ Exit \/ Join \/ (WaitForOvs /\ UNCHANGED envVars)
                \/ UNCHANGED vars
  PROVE  LInv'
<1>1. /\ UNCHANGED <<made, held, up, bridges, terminated, episode, procs, client, thread>>
      /\ main' = "test" => main = "test"
      /\ main' \in Running => main \in Running
      /\ main' = main \/ main \notin {"test", "exiting"} \/ phase = "idle"
  BY DEF CleanedUp, Plot, Exit, Join, WaitForOvs, EndTest, Goto, NextTest, vars, envVars,
         drvVars, mgrVars, trafficVars, Running
<1>2. \A e \in Envs : "net" \in up[e] => e \in bridges'
  BY <1>1 DEF Known, LInv, Network
<1>3. main' = main \/ phase' # "closing"
  BY <1>1 DEF Known, LInv, Closing, thread
<1>4. QED
  BY <1>1, <1>2, <1>3, QuietKeepsL

LEMMA BesideKeepsL ==
  ASSUME Known, NEW e \in Envs,
         \/ \E k \in 1 .. Episodes, c \in Clients : Client(e, k, c)
         \/ \E m \in Children : Child(e, m)
         \/ Switches(e)
  PROVE  LInv'
<1>1. /\ UNCHANGED <<made, held, terminated, episode, procs, thread, main>>
      /\ up' = up \/ \E m \in Children : up' = [up EXCEPT ![e] = @ \ {m}]
      /\ bridges' = bridges \/ (bridges' = bridges \ {e} /\ "net" \notin up[e])
  BY DEF Client, Child, Switches, ClientEnds, ChildEnds, SwitchesGo, drvVars, mgrVars,
         trafficVars
<1>2. \A d \in Envs : up'[d] \subseteq up[d] /\ ("net" \in up[d] => "net" \in up'[d])
  BY <1>1, Sorts DEF Known, Children
<1>3. \A d \in Envs : "net" \in up[d] => d \in bridges'
  BY <1>1 DEF Known, LInv, Network
<1>4. ASSUME NEW d \in Envs, NEW j \in 1 .. Episodes, NEW b \in Clients,
             client'[d][j][b] = "running"
      PROVE  client[d][j][b] = "running"
  <2>1. client' = client \/ \E k \in 1 .. Episodes, c \in Clients :
                              client' = [client EXCEPT ![e][k][c] = "over"]
    BY DEF Client, Child, Switches, ClientEnds, ChildEnds, SwitchesGo, trafficVars
  <2>2. CASE client' = client
    BY <1>4, <2>2
  <2>3. CASE client' # client
    <3>1. PICK k \in 1 .. Episodes, c \in Clients : client' = [client EXCEPT ![e][k][c] = "over"]
      BY <2>1, <2>3
    <3>2. QED
      BY <1>4, <3>1, Sorts DEF Known, States
  <2>4. QED
    BY <2>2, <2>3
<1>5. QED
  BY <1>1, <1>2, <1>3, <1>4, QuietKeepsL

(* The big hammer is used between tests, with no call running.             *)
LEMMA CleanKeepsL == ASSUME Known, WaitForOvs, Clean PROVE LInv'
<1>1. /\ main = "wait" /\ main' # "test"
      /\ UNCHANGED <<made, env, phase, at, held, terminated, episode, procs>>
      /\ bridges' = {} /\ up' = [e \in Envs |-> up[e] \ {"net", "traffic"}]
      /\ client' = [e \in Envs |-> [k \in 1 .. Episodes |->
                      [c \in Clients |-> Told(client[e][k][c])]]]
  BY DEF WaitForOvs, Clean, NextTest, Goto, thread, envVars, mgrVars, trafficVars
<1>2. phase \notin Busy
  BY <1>1 DEF Known, AInv
<1>3. \A e \in Envs : up'[e] \subseteq up[e] /\ "net" \notin up'[e]
  BY <1>1
<1>4. \A e \in Envs, k \in 1 .. Episodes, c \in Clients : client'[e][k][c] # "running"
  BY <1>1 DEF Told
<1>5. Born' /\ InTurn' /\ Closing' /\ Network'
  BY <1>1, <1>2, <1>3 DEF Known, LInv, Born, InTurn, Closing, Network, Busy
<1>6. OwnClients'
  BY <1>4 DEF OwnClients
<1>7. QED
  BY <1>5, <1>6 DEF LInv

(* cleanup() closes the env of the last test, atexit the last one first.   *)
LEMMA CloseKeepsL == ASSUME Known, Cleanup \/ AtExit PROVE LInv'
<1>1. PICK e \in 1 .. made \ terminated : Close(e) /\ (e # made => made \in terminated)
  <2>1. CASE Cleanup
    BY <2>1 DEF Cleanup, Close, Known, AInv
  <2>2. CASE AtExit
    <3> DEFINE left == 1 .. made \ terminated
    <3>1. Close(Max(left)) /\ Max(left) \in left
      BY <2>2 DEF AtExit, NextRegistered, Close
    <3>2. made \in Nat /\ left \subseteq 1 .. made /\ left # {}
      BY <3>1, Sorts DEF Known
    <3>3. left = 1 .. made \ terminated
      OBVIOUS
    <3> HIDE DEF left
    <3>4. made \in left => Max(left) = made
      BY <3>2, MaxIs
    <3>5. made \in 1 .. made
      BY <3>2, <3>3
    <3>6. QED
      BY <3>1, <3>3, <3>4, <3>5
  <2>3. QED
    BY <2>1, <2>2
<1>2. /\ phase = "idle" /\ phase' = "closing" /\ at' = 1 /\ env' = e
      /\ terminated' = terminated \cup {e} /\ main' = main /\ main \in {"test", "exiting"}
      /\ UNCHANGED <<made, held, up, bridges, episode, client, procs>>
  BY <1>1 DEF Close, Cleanup, AtExit, drvVars, mgrVars, trafficVars
<1>3. Born' /\ InTurn'
  BY <1>1, <1>2 DEF Known, LInv, Born, InTurn, Busy
<1>4. Closing'
  BY <1>1, <1>2 DEF Known, LInv, Closing
<1>5. Network' /\ OwnClients'
  BY <1>2 DEF Known, LInv, Network, OwnClients
<1>6. QED
  BY <1>3, <1>4, <1>5 DEF LInv

(* close() of the traffic generator tells the clients to end before the    *)
(* network goes.                                                           *)
LEMMA ClosedClients ==
  ASSUME Known, CloseManager, CloseOrder[at] \in {"traffic", "net"}, env = made
  PROVE  \A e \in Envs, k \in 1 .. Episodes, c \in Clients : client'[e][k][c] # "running"
<1>1. env \in Envs /\ at \in 1 .. 5 /\ phase = "closing"
      /\ (CloseOrder[at] = "traffic" => StopTraffic)
      /\ (CloseOrder[at] # "traffic" => UNCHANGED trafficVars)
  BY Sorts DEF Known, CloseManager
<1>2. ASSUME NEW e \in Envs, NEW k \in 1 .. Episodes, NEW c \in Clients,
             client'[e][k][c] = "running"
      PROVE  FALSE
  <2>1. client[e][k][c] = "running"
    BY <1>1, <1>2, Terminating DEF Known, trafficVars
  <2>2. e = made /\ c \in procs[e] /\ k = episode[e] /\ "traffic" \in held[e]
    BY <2>1 DEF Known, LInv, OwnClients
  <2>4. CASE CloseOrder[at] = "traffic"
    BY <1>1, <1>2, <2>2, <2>4, Terminating DEF Known
  <2>5. CASE CloseOrder[at] = "net"
    <3>1. at = 5
      BY <1>1, <2>5, Positions
    <3>2. CloseOrder[4] \notin held[env]
      BY <1>1, <3>1 DEF Known, LInv, Closing
    <3>3. QED
      BY <2>2, <2>5, <3>2, Positions
  <2>6. QED
    BY <2>4, <2>5
<1>3. QED
  BY <1>2

(* The close() of an earlier env, at exit, leaves those of the last alone. *)
LEMMA OthersClosed ==
  ASSUME Known, CloseManager, UNCHANGED drvVars, env # made
  PROVE  OwnClients'
<1>1. /\ env \in Envs /\ phase = "closing" /\ held' = [held EXCEPT ![env] = @ \ {CloseOrder[at]}]
      /\ (CloseOrder[at] = "traffic" => StopTraffic)
      /\ (CloseOrder[at] # "traffic" => UNCHANGED trafficVars)
      /\ UNCHANGED <<made, episode, main>>
  BY Sorts DEF Known, CloseManager, drvVars
<1>2. main' \notin Running
  BY <1>1 DEF Known, LInv, Closing, AInv, Running
<1>3. \A e \in Envs : e # env => procs'[e] = procs[e] /\ held'[e] = held[e]
  BY <1>1, Sorts DEF Known, StopTraffic, trafficVars
<1>4. ASSUME NEW e \in Envs, NEW k \in 1 .. Episodes, NEW c \in Clients,
             client'[e][k][c] = "running"
      PROVE  client[e][k][c] = "running"
  BY <1>1, <1>4, Terminating DEF Known, trafficVars
<1>5. QED
  BY <1>1, <1>2, <1>3, <1>4 DEF Known, LInv, OwnClients

LEMMA CloseManagerKeepsL == ASSUME Known, CloseManager, UNCHANGED drvVars PROVE LInv'
<1> DEFINE m == CloseOrder[at]
<1>1. /\ phase = "closing" /\ NextClose
      /\ up' = IF m \in held[env] THEN Stopped(m) ELSE up
      /\ m # "traffic" => UNCHANGED trafficVars
      /\ held' = [held EXCEPT ![env] = @ \ {m}]
      /\ UNCHANGED <<made, env, bridges, terminated, episode, main>>
  BY DEF CloseManager, drvVars
<1>2. at \in 1 .. 5 /\ Len(CloseOrder) = 5 /\ m \in Managers /\ env \in Envs
      /\ env \in 1 .. made /\ made \in Nat
  BY <1>1, Sorts, Orders DEF Known
<1>3. env \in terminated /\ \A i \in 1 .. at - 1 : CloseOrder[i] \notin held[env]
  BY <1>1 DEF Known, LInv, Closing
<1>4. \A e \in Envs : /\ held'[e] = IF e = env THEN held[e] \ {m} ELSE held[e]
                      /\ up'[e] \subseteq up[e]
                      /\ m # "net" => ("net" \in up[e] => "net" \in up'[e])
  <2>1. CASE m = "net"
    BY <1>1, <1>2, <2>1, Sorts DEF Known, Stopped, NetworkStopped
  <2>2. CASE m # "net"
    BY <1>1, <1>2, <2>2, Sorts DEF Known, Stopped
  <2>3. QED
    BY <2>1, <2>2
<1>5. ASSUME NEW i \in 1 .. at PROVE CloseOrder[i] \notin held'[env]
  <2>1. CASE i = at
    BY <1>2, <1>4, <2>1
  <2>2. CASE i # at
    <3>1. i \in 1 .. at - 1
      BY <1>2, <2>2
    <3>2. QED
      BY <1>2, <1>3, <1>4, <3>1
  <2>3. QED
    BY <2>1, <2>2
<1>6. (phase' = "closing" /\ at' = at + 1) \/ (phase' = "idle" /\ at = 5)
  BY <1>1, <1>2 DEF NextClose
<1>7. Closing'
  <2>1. CASE phase' = "closing" /\ at' = at + 1
    BY <1>1, <1>2, <1>4, <1>5, <2>1, Sorts DEF Known, LInv, Closing
  <2>2. CASE phase' = "idle"
    BY <2>2 DEF Closing
  <2>3. QED
    BY <1>6, <2>1, <2>2
<1>8. OwnClients'
  <2>1. CASE m \in {"traffic", "net"} /\ env = made
    BY <2>1, ClosedClients DEF OwnClients
  <2>2. CASE m \notin {"traffic", "net"}
    <3>1. UNCHANGED <<client, procs, episode, made>>
      BY <1>1, <2>2 DEF trafficVars
    <3>2. \A e \in Envs : /\ "traffic" \in held[e] => "traffic" \in held'[e]
                          /\ "net" \in up[e] => "net" \in up'[e]
      BY <1>4, <2>2
    <3>3. QED
      BY <1>1, <3>1, <3>2 DEF Known, LInv, OwnClients
  <2>3. CASE m = "traffic" /\ env # made
    BY <2>3, OthersClosed
  <2>4. CASE m = "net" /\ env # made
    BY <2>4, OthersClosed
  <2>5. QED
    BY <2>1, <2>2, <2>3, <2>4
<1> HIDE DEF m
<1>9. Born'
  BY <1>1, <1>4 DEF Known, LInv, Born
<1>10. InTurn'
  BY <1>6 DEF InTurn, Busy
<1>11. Network'
  <2>1. main = "test" => env = made
    BY DEF Known, AInv
  <2>2. \A e \in Envs : "net" \in up'[e] => e \in bridges'
    BY <1>1, <1>4 DEF Known, LInv, Network
  <2>3. QED
    BY <1>1, <1>3, <1>6, <2>1, <2>2 DEF Network
<1>12. QED
  BY <1>7, <1>8, <1>9, <1>10, <1>11 DEF LInv

(* The strengthened invariant of the drivers.                              *)
LEMMA LStep == ASSUME Known, [Next]_vars PROVE LInv'
<1>1. CASE Launch \/ Episode
  BY <1>1, LaunchKeepsL, EpisodeKeepsL
<1>2. CASE InEnv
  <2>1. UNCHANGED drvVars
    BY <1>2 DEF InEnv
  <2>2. CASE SkipManager \/ Construct \/ SetField \/ CloseManager
    BY <2>1, <2>2, SkipKeepsL, ConstructKeepsL, SetFieldKeepsL, CloseManagerKeepsL
  <2>3. CASE Started \/ Step
    BY <1>2, <2>3, CallKeepsL
  <2>4. CASE \E c \in Clients : StartClient(c)
    BY <2>1, <2>4, StartClientKeepsL
  <2>5. QED
    BY <1>2, <2>2, <2>3, <2>4 DEF InEnv
<1>3. CASE CutShort \/ TestFails \/ Exits \/ ExitsWithoutPattern
  BY <1>3, CallKeepsL
<1>4. CASE Cleanup \/ AtExit
  BY <1>4, CloseKeepsL
<1>5. CASE CleanedUp \/ Plot \/ Exit \/ Join \/ UNCHANGED vars
  BY <1>5, BetweenKeepsL
<1>6. CASE WaitForOvs
  <2>1. Clean \/ UNCHANGED envVars
    BY <1>6 DEF WaitForOvs
  <2>2. QED
    BY <1>6, <2>1, CleanKeepsL, BetweenKeepsL
<1>7. CASE \E e \in Envs : \/ \E k \in 1 .. Episodes, c \in Clients : Client(e, k, c)
                           \/ \E m \in Children : Child(e, m)
                           \/ Switches(e)
  BY <1>7, BesideKeepsL
<1>8. QED
  BY <1>1, <1>2, <1>3, <1>4, <1>5, <1>6, <1>7 DEF Next, Main

LEMMA KnownInitially == Init => Known
BY TypesInitially, ApartInitially, LInitially DEF Known

LEMMA KnownStep == ASSUME Known, [Next]_vars PROVE Known'
BY TypesStep, ApartStep, LStep DEF Known

(* No client of an earlier episode or test runs on untold beside the new   *)
(* ones (_stop_traffic in reset() and close(), clean() after a failure).   *)
THEOREM EpisodesApart == Spec => []OneEpisodeAtATime
<1>1. Known => OneEpisodeAtATime
  <2> SUFFICES ASSUME Known PROVE OneEpisodeAtATime
    OBVIOUS
  <2>1. made \in Nat /\ 1 .. made \subseteq Envs /\ episode \in [Envs -> 0 .. Episodes]
        /\ Episodes \in Nat
    BY Sorts DEF Known
  <2>2. QED
    BY <2>1 DEF Known, LInv, OwnClients, OneEpisodeAtATime
<1>2. QED
  BY KnownInitially, KnownStep, <1>1, PTL DEF Spec

-----------------------------------------------------------------------------
(* What follows needs that every constructor returns and that every        *)
(* close() that is begun comes to its end: then a closed env holds nothing *)
(* and nothing is orphaned.                                                *)
Unbroken == UnwindAt \cap {"constructor", "closing"} = {}
Closed == \A e \in terminated : held[e] = {} \/ (e = env /\ phase = "closing")
Tidy == Known /\ NoOrphans /\ Closed

LEMMA ClosedStep == ASSUME Known, Closed, [Next]_vars, Unbroken PROVE Closed'
<1>1. CASE Launch
  BY <1>1 DEF Launch, NewEnv, mgrVars, Closed
<1>2. CASE Episode \/ Cleanup \/ AtExit
  <2>1. phase = "idle" /\ held' = held
    BY <1>2 DEF Episode, Reset, Cleanup, AtExit, Close, mgrVars
  <2>2. \/ terminated' = terminated
        \/ terminated' = terminated \cup {env'} /\ phase' = "closing"
    BY <1>2 DEF Episode, Reset, Cleanup, AtExit, Close
  <2>3. QED
    BY <2>1, <2>2 DEF Closed
<1>3. CASE SkipManager \/ Construct \/ Started \/ Step \/ CutShort \/ ExitsWithoutPattern
           \/ \E c \in Clients : StartClient(c)
  BY <1>3 DEF SkipManager, Construct, Started, Step, CutShort, Truncate, ExitsWithoutPattern,
              NoPattern, StartClient, mgrVars, thread, Closed
<1>4. CASE SetField
  <2>1. env \notin terminated /\ env \in Envs /\ terminated \subseteq Envs
    BY <1>4, Sorts DEF SetField, Known, LInv, InTurn, Busy
  <2>2. QED
    BY <1>4, <2>1, Sorts DEF SetField, Known, Closed
<1>5. CASE CloseManager
  <2>1. env \in Envs /\ at \in 1 .. 5 /\ Len(CloseOrder) = 5
        /\ held' = [held EXCEPT ![env] = @ \ {CloseOrder[at]}]
        /\ phase = "closing" /\ NextClose /\ UNCHANGED <<env, terminated>>
        /\ terminated \subseteq Envs
    BY <1>5, Sorts, Orders DEF Known, CloseManager
  <2>2. \A e \in terminated : e # env => held'[e] = {}
    BY <2>1, Sorts DEF Known, Closed
  <2>3. CASE at # 5
    BY <2>1, <2>2, <2>3 DEF NextClose, Closed
  <2>4. CASE at = 5
    <3>1. \A i \in 1 .. at - 1 : CloseOrder[i] \notin held[env]
      BY <2>1 DEF Known, LInv, Closing
    <3>2. \A i \in 1 .. 5 : i \in 1 .. at - 1 \/ i = at
      BY <2>1, <2>4
    <3>3. held'[env] \subseteq held[env] /\ CloseOrder[at] \notin held'[env]
          /\ held[env] \subseteq Managers
      BY <2>1, Sorts DEF Known
    <3>4. held'[env] = {}
      BY <3>1, <3>2, <3>3, Positions
    <3>5. QED
      BY <2>1, <2>2, <3>4 DEF Closed
  <2>5. QED
    BY <2>3, <2>4
<1>6. CASE TestFails \/ Exits
  BY <1>6 DEF TestFails, Exits, Raise, Unbroken, mgrVars, Closed
<1>7. CASE CleanedUp \/ Plot \/ Exit \/ Join \/ WaitForOvs \/ UNCHANGED vars
  BY <1>7 DEF CleanedUp, Plot, Exit, Join, WaitForOvs, Clean, vars, envVars, mgrVars, thread,
              Closed
<1>8. CASE \E e \in Envs : \/ \E k \in 1 .. Episodes, c \in Clients : Client(e, k, c)
                           \/ \E m \in Children : Child(e, m)
                           \/ Switches(e)
  BY <1>8 DEF Client, Child, Switches, ClientEnds, ChildEnds, SwitchesGo, mgrVars, thread,
              Closed
<1>9. QED
  BY <1>1, <1>2, <1>3, <1>4, <1>5, <1>6, <1>7, <1>8 DEF Next, Main, InEnv

LEMMA TidyInitially == Init => Tidy
BY KnownInitially, Initially DEF Tidy, IInv, Init, EnvInit, Closed

LEMMA TidyStep == ASSUME Tidy, [Next]_vars, Unbroken PROVE Tidy'
<1>1. Known' /\ Closed'
  BY KnownStep, ClosedStep DEF Tidy
<1>2. NoOrphans'
  <2>1. Typed
    BY Sorts DEF Tidy, Known, Typed, Envs
  <2>2. "constructor" \notin UnwindAt
    BY DEF Unbroken
  <2>3. QED
    BY <2>1, <2>2, StepKeeps DEF Tidy, IInv
<1>3. QED
  BY <1>1, <1>2 DEF Tidy

(* close() of an env deletes switches by name: had an env been closed      *)
(* before the last one, it would have deleted the last one's network.      *)
LEMMA OtherNetworks ==
  ASSUME Tidy, phase = "closing", NEW e \in Envs, e # env
  PROVE  "net" \notin up[e]
<1> SUFFICES ASSUME "net" \in up[e] PROVE FALSE
  OBVIOUS
<1>1. e = made
  BY DEF Tidy, Known, LInv, Network, AInv
<1>2. held[e] = {}
  BY <1>1 DEF Tidy, Known, LInv, Closing, Closed
<1>3. "net" \in killed[e]
  BY <1>2 DEF Tidy, NoOrphans
<1>4. QED
  BY <1>3, Sorts DEF Tidy, Known, Children

(* A network goes by its own env's close() or by the hammer.               *)
THEOREM NetworkIsKept ==
  ASSUME Unbroken
  PROVE  Spec => NetworkStays
<1> DEFINE Kept == \A e \in Envs : "net" \in up[e] /\ "net" \notin up'[e]
                                   => main = "wait" \/ (env = e /\ phase = "closing")
<1>1. ASSUME Tidy, [Next]_vars PROVE [Kept]_vars
  <2>1. CASE Launch \/ Episode
    BY <2>1 DEF Launch, Episode, NewEnv, Reset, mgrVars
  <2>2. CASE InEnv
    <3>1. CASE Construct \/ SetField
      <4>1. /\ env \in Envs
            /\ up' = up \/ \E m \in Managers : up' = [up EXCEPT ![env] = @ \cup {m}]
        BY <3>1, <1>1, Sorts, Orders DEF Tidy, Known, Construct, SetField
      <4>2. QED
        BY <1>1, <4>1, Sorts DEF Tidy, Known
    <3>2. CASE CloseManager
      BY <1>1, <3>2, OtherNetworks DEF CloseManager
    <3>3. CASE SkipManager \/ Started \/ Step \/ \E c \in Clients : StartClient(c)
      BY <3>3 DEF SkipManager, Started, Step, StartClient, mgrVars
    <3>4. QED
      BY <2>2, <3>1, <3>2, <3>3 DEF InEnv
  <2>3. CASE CutShort \/ TestFails \/ Exits \/ Cleanup \/ AtExit
    BY <2>3 DEF CutShort, TestFails, Exits, Cleanup, AtExit, Truncate, Raise, Close, mgrVars
  <2>4. CASE ExitsWithoutPattern
    BY <1>1, <2>4, Sorts DEF Tidy, Known, ExitsWithoutPattern, NoPattern
  <2>5. CASE CleanedUp \/ Plot \/ Exit \/ Join
    BY <2>5 DEF CleanedUp, Plot, Exit, Join, envVars, mgrVars
  <2>6. CASE WaitForOvs
    BY <2>6 DEF WaitForOvs
  <2>7. CASE \E e \in Envs : \/ \E k \in 1 .. Episodes, c \in Clients : Client(e, k, c)
                             \/ \E m \in Children : Child(e, m)
                             \/ Switches(e)
    <3>1. \/ up' = up
          \/ \E e \in Envs, m \in Children : up' = [up EXCEPT ![e] = @ \ {m}]
      BY <2>7 DEF Client, Child, Switches, ClientEnds, ChildEnds, SwitchesGo, mgrVars
    <3>2. QED
      BY <1>1, <3>1, Sorts DEF Tidy, Known, Children
  <2>8. CASE UNCHANGED vars
    BY <2>8
  <2>9. QED
    BY <1>1, <2>1, <2>2, <2>3, <2>4, <2>5, <2>6, <2>7, <2>8 DEF Next, Main
<1>2. QED
  BY TidyInitially, TidyStep, <1>1, PTL DEF Spec, NetworkStays

-----------------------------------------------------------------------------
(* What is over when the program comes to its end.                         *)
Over ==
    /\ main \in {"joining", "exited"} => phase = "idle" /\ 1 .. made \subseteq terminated
    /\ main = "exited" => \A e \in Envs : up[e] \cap Children = {}
    /\ main = "plot" => bridges = {}
    /\ program = "benchmark" /\ ~aborted /\ main \in {"exiting", "joining", "exited"}
         => bridges = {}

LEMMA OverStep == ASSUME Known, Over, [Next]_vars PROVE Over'
<1>1. program' = program
  BY DEF Next, Main, vars, drvVars, Launch, Episode, InEnv, Cleanup, CleanedUp,
         ExitsWithoutPattern, WaitForOvs, Plot, AtExit, Exit, Join, CutShort, TestFails,
         Exits, Client, Child, Switches, EndTest, Abort, Goto, NextTest
<1>2. CASE Launch \/ Episode \/ Cleanup
  BY <1>2 DEF Over, Launch, Episode, Cleanup, Goto, drvVars
<1>3. CASE InEnv \/ CutShort
  <2>1. phase # "idle" /\ UNCHANGED <<main, program, aborted>>
    BY <1>3 DEF InEnv, CutShort, SkipManager, Construct, SetField, Started, Step, CloseManager,
                StartClient, Truncate, drvVars
  <2>2. bridges' = bridges \/ main = "test"
    BY <1>3 DEF InEnv, CutShort, SkipManager, Construct, SetField, Started, Step, CloseManager,
                StartClient, Truncate, mgrVars, Known, AInv, Busy
  <2>3. QED
    BY <2>1, <2>2 DEF Over
<1>4. CASE TestFails \/ CleanedUp
  <2>1. program # "benchmark" \/ main' = "wait"
    BY <1>4 DEF TestFails, CleanedUp, EndTest
  <2>2. main' \in {"wait", "exiting"}
    BY <1>4 DEF TestFails, CleanedUp, EndTest
  <2>3. QED
    BY <1>1, <2>1, <2>2 DEF Over
<1>5. CASE Exits \/ ExitsWithoutPattern
  BY <1>5 DEF Over, Exits, ExitsWithoutPattern, Abort
<1>6. CASE WaitForOvs
  <2>1. main' = "wait" \/ (main' \in {"launch", "plot"} /\ bridges' = {})
    BY <1>6 DEF WaitForOvs, NextTest, Goto, Clean, envVars, mgrVars
  <2>2. QED
    BY <2>1 DEF Over
<1>7. CASE Plot
  BY <1>7 DEF Over, Plot, Goto, envVars, mgrVars
<1>8. CASE AtExit
  BY <1>8 DEF Over, AtExit, Close, drvVars, mgrVars
<1>9. CASE Exit \/ Join
  BY <1>9 DEF Over, Exit, Join, Goto, envVars, mgrVars, thread
<1>10. CASE \/ \E e \in Envs : \/ \E k \in 1 .. Episodes, c \in Clients : Client(e, k, c)
                               \/ \E m \in Children : Child(e, m)
                               \/ Switches(e)
            \/ UNCHANGED vars
  <2>1. /\ UNCHANGED <<main, program, aborted, phase, made, terminated>>
        /\ bridges' \subseteq bridges
        /\ up' = up \/ \E e \in Envs, m \in Children : up' = [up EXCEPT ![e] = @ \ {m}]
    BY <1>10 DEF Client, Child, Switches, ClientEnds, ChildEnds, SwitchesGo, drvVars, mgrVars,
                 thread, vars, envVars
  <2>2. \A e \in Envs : up'[e] \subseteq up[e]
    BY <2>1, Sorts DEF Known
  <2>3. QED
    BY <2>1, <2>2 DEF Over
<1>11. QED
  BY <1>2, <1>3, <1>4, <1>5, <1>6, <1>7, <1>8, <1>9, <1>10 DEF Next, Main

(* When the program is over nothing of it is left, whichever tests failed  *)
(* and wherever it was interrupted but inside a constructor or close().    *)
THEOREM NothingIsLeft ==
  ASSUME Unbroken
  PROVE  Spec => []NothingLeftBehind
<1>1. Init => Over
  BY DEF Init, Over
<1>2. ASSUME Tidy, Over PROVE NothingLeftBehind
  <2> SUFFICES ASSUME main = "exited" PROVE
        /\ \A e \in Envs : up[e] = {}
        /\ \A e \in Envs, k \in 1 .. Episodes, c \in Clients : client[e][k][c] # "running"
        /\ program = "benchmark" /\ ~aborted => bridges = {}
    BY DEF NothingLeftBehind
  <2>1. ASSUME NEW e \in Envs PROVE held[e] = {}
    <3>1. phase = "idle" /\ 1 .. made \subseteq terminated
      BY <1>2 DEF Over
    <3>2. e \in 1 .. made \/ e > made
      BY <1>2, Sorts DEF Tidy, Known, Envs
    <3>3. QED
      BY <1>2, <3>1, <3>2 DEF Tidy, Known, LInv, Born, Closed
  <2>2. ASSUME NEW e \in Envs PROVE up[e] = {}
    <3>1. phase = "idle" /\ up[e] \cap Children = {}
      BY <1>2 DEF Over
    <3>2. up[e] \subseteq killed[e]
      BY <1>2, <2>1, <3>1 DEF Tidy, Known, NoOrphans
    <3>3. killed[e] \subseteq Children
      BY <1>2, Sorts DEF Tidy, Known
    <3>4. QED
      BY <3>1, <3>2, <3>3
  <2>3. \A e \in Envs, k \in 1 .. Episodes, c \in Clients : client[e][k][c] # "running"
    BY <1>2, <2>1 DEF Tidy, Known, LInv, OwnClients
  <2>4. program = "benchmark" /\ ~aborted => bridges = {}
    BY <1>2 DEF Over
  <2>5. QED
    BY <2>2, <2>3, <2>4
<1>3. Tidy => Known
  BY DEF Tidy
<1>4. QED
  BY TidyInitially, TidyStep, OverStep, <1>1, <1>2, <1>3, PTL DEF Spec

-----------------------------------------------------------------------------
(* The folders of the tests of one run, of all runs, and the last test.    *)
Listed ==
    {Folder(t, run, a) : t \in ToSet(Transports), run \in 0 .. Runs - 1,
                         a \in ToSet(RlAlgos)}
      \cup {Folder("tcp", run, a) : run \in 0 .. Runs - 1, a \in ToSet(TcpAlgos)}

LEMMA RunIs ==
  ASSUME NEW run \in 0 .. Runs - 1
  PROVE  /\ RunOf(run) \in Seq(Listed)
         /\ ToSet(RunOf(run)) =
              {Folder(t, run, a) : t \in ToSet(Transports), a \in ToSet(RlAlgos)}
                \cup {Folder("tcp", run, a) : a \in ToSet(TcpAlgos)}
<1> DEFINE one(t) == [a \in DOMAIN RlAlgos |-> Folder(Transports[t], run, RlAlgos[a])]
           rl == [t \in DOMAIN Transports |-> one(t)]
           tcp == [a \in DOMAIN TcpAlgos |-> Folder("tcp", run, TcpAlgos[a])]
<1>1. /\ Len(Transports) \in Nat /\ DOMAIN Transports = 1 .. Len(Transports)
      /\ Len(RlAlgos) \in Nat /\ DOMAIN RlAlgos = 1 .. Len(RlAlgos)
      /\ Len(TcpAlgos) \in Nat /\ DOMAIN TcpAlgos = 1 .. Len(TcpAlgos)
  BY DriversAssumption
<1>2. /\ \A t \in DOMAIN Transports, a \in DOMAIN RlAlgos :
           Folder(Transports[t], run, RlAlgos[a]) \in Listed
      /\ \A a \in DOMAIN TcpAlgos : Folder("tcp", run, TcpAlgos[a]) \in Listed
  BY DEF Listed, ToSet
<1>3. ASSUME NEW t \in DOMAIN Transports PROVE one(t) \in Seq(Listed)
  BY <1>1, <1>2
<1>4. tcp \in Seq(Listed)
  BY <1>1, <1>2
<1>5. \A t \in DOMAIN Transports :
        ToSet(one(t)) = {Folder(Transports[t], run, a) : a \in ToSet(RlAlgos)}
  BY DEF ToSet
<1>6. ToSet(tcp) = {Folder("tcp", run, a) : a \in ToSet(TcpAlgos)}
  BY DEF ToSet
<1> HIDE DEF one, tcp
<1>7. rl \in Seq(Seq(Listed)) /\ DOMAIN rl = DOMAIN Transports
      /\ \A t \in DOMAIN rl : rl[t] = one(t)
  BY <1>1, <1>3
<1> HIDE DEF rl
<1>8. RunOf(run) = FlattenSeq(rl) \o tcp
  BY DEF RunOf, rl, one, tcp
<1>9. /\ FlattenSeq(rl) \in Seq(Listed)
      /\ ToSet(FlattenSeq(rl)) = UNION {ToSet(rl[t]) : t \in DOMAIN rl}
  BY <1>7, Flattened
<1>10. ToSet(FlattenSeq(rl)) =
         {Folder(t, run, a) : t \in ToSet(Transports), a \in ToSet(RlAlgos)}
  <2>1. ASSUME NEW x \in ToSet(FlattenSeq(rl))
        PROVE  x \in {Folder(t, run, a) : t \in ToSet(Transports), a \in ToSet(RlAlgos)}
    <3>1. PICK i \in DOMAIN Transports : x \in ToSet(one(i))
      BY <1>7, <1>9, <2>1
    <3>2. PICK a \in ToSet(RlAlgos) : x = Folder(Transports[i], run, a)
      BY <1>5, <3>1
    <3>3. Transports[i] \in ToSet(Transports)
      BY DEF ToSet
    <3>4. QED
      BY <3>2, <3>3
  <2>2. ASSUME NEW t \in ToSet(Transports), NEW a \in ToSet(RlAlgos)
        PROVE  Folder(t, run, a) \in ToSet(FlattenSeq(rl))
    <3>1. PICK i \in DOMAIN Transports : t = Transports[i]
      BY DEF ToSet
    <3>2. Folder(t, run, a) \in ToSet(rl[i])
      BY <1>5, <1>7, <3>1
    <3>3. QED
      BY <1>7, <1>9, <3>2
  <2>3. QED
    BY <2>1, <2>2
<1>11. QED
  BY <1>4, <1>6, <1>8, <1>9, <1>10, Concatenated

LEMMA SuiteIs == Suite \in Seq(Listed) /\ ToSet(Suite) = Listed
<1> DEFINE runs == [r \in 1 .. Runs |-> RunOf(r - 1)]
<1>1. Runs \in Nat
  BY DriversAssumption
<1>2. \A r \in 1 .. Runs : r - 1 \in 0 .. Runs - 1
  BY <1>1
<1>3. \A run \in 0 .. Runs - 1 : run + 1 \in 1 .. Runs /\ (run + 1) - 1 = run
  BY <1>1
<1>4. runs \in Seq(Seq(Listed)) /\ DOMAIN runs = 1 .. Runs
  BY <1>1, <1>2, RunIs
<1>5. Suite = FlattenSeq(runs)
  BY DEF Suite
<1>6. Suite \in Seq(Listed) /\ ToSet(Suite) = UNION {ToSet(runs[r]) : r \in DOMAIN runs}
  BY <1>4, <1>5, Flattened
<1>7. UNION {ToSet(runs[r]) : r \in 1 .. Runs} = UNION {ToSet(RunOf(run)) : run \in 0 .. Runs - 1}
  <2>1. \A r \in 1 .. Runs : runs[r] = RunOf(r - 1)
    OBVIOUS
  <2> HIDE DEF runs
  <2>2. ASSUME NEW r \in 1 .. Runs
        PROVE  \E run \in 0 .. Runs - 1 : runs[r] = RunOf(run)
    BY <1>2, <2>1
  <2>3. ASSUME NEW run \in 0 .. Runs - 1
        PROVE  \E r \in 1 .. Runs : runs[r] = RunOf(run)
    BY <1>3, <2>1
  <2>4. QED
    BY <2>2, <2>3
<1>8. UNION {ToSet(RunOf(run)) : run \in 0 .. Runs - 1} = Listed
  <2>1. ASSUME NEW run \in 0 .. Runs - 1 PROVE ToSet(RunOf(run)) \subseteq Listed
    <3>1. RunOf(run) \in Seq(Listed)
      BY RunIs
    <3>2. QED
      BY <3>1 DEF ToSet
  <2>2. ASSUME NEW x \in Listed PROVE \E run \in 0 .. Runs - 1 : x \in ToSet(RunOf(run))
    <3>1. CASE \E t \in ToSet(Transports), run \in 0 .. Runs - 1, a \in ToSet(RlAlgos) :
                 x = Folder(t, run, a)
      BY <3>1, RunIs
    <3>2. CASE \E run \in 0 .. Runs - 1, a \in ToSet(TcpAlgos) : x = Folder("tcp", run, a)
      BY <3>2, RunIs
    <3>3. QED
      BY <2>2, <3>1, <3>2 DEF Listed
  <2>3. QED
    BY <2>1, <2>2
<1>9. QED
  BY <1>4, <1>6, <1>7, <1>8

(* The tests are made one after the other until there is none left.        *)
Counted ==
    /\ main = "launch" => made < Tests
    /\ main \in {"test", "wait"} => made <= Tests
    /\ main = "wait" => program = "benchmark"
    /\ main = "plot" => made = Tests /\ program = "benchmark"

LEMMA CountedStep == ASSUME TInv, Counted, [Next]_vars PROVE Counted'
<1>1. made \in Nat /\ Tests \in Nat
  BY Sorts, SuiteIs DEF Tests
<1>2. program' = program /\ Tests' = Tests
  <2>1. program' = program
    BY DEF Next, Main, vars, drvVars, Launch, Episode, InEnv, Cleanup, CleanedUp,
           ExitsWithoutPattern, WaitForOvs, Plot, AtExit, Exit, Join, CutShort, TestFails,
           Exits, Client, Child, Switches, EndTest, Abort, Goto, NextTest
  <2>2. QED
    BY <2>1 DEF Tests
<1>3. CASE Launch
  BY <1>1, <1>2, <1>3 DEF Counted, Launch, NewEnv, Goto
<1>4. CASE \/ Episode \/ InEnv \/ CutShort \/ Cleanup \/ AtExit
           \/ \E e \in Envs : \/ \E k \in 1 .. Episodes, c \in Clients : Client(e, k, c)
                              \/ \E m \in Children : Child(e, m)
                              \/ Switches(e)
           \/ UNCHANGED vars
  <2>1. UNCHANGED <<main, made>>
    BY <1>4 DEF Episode, InEnv, CutShort, Cleanup, AtExit, Client, Child, Switches, vars,
                envVars, drvVars, Reset, SkipManager, Construct, SetField, Started, Step,
                CloseManager, StartClient, Truncate, Close, ClientEnds, ChildEnds, SwitchesGo
  <2>2. QED
    BY <1>2, <2>1 DEF Counted
<1>5. CASE TestFails \/ CleanedUp
  BY <1>1, <1>2, <1>5 DEF Counted, TestFails, CleanedUp, EndTest, Raise, envVars
<1>6. CASE Exits \/ ExitsWithoutPattern \/ Plot \/ Exit \/ Join
  <2>1. main' \in {"exiting", "joining", "exited"}
    BY <1>6 DEF Exits, ExitsWithoutPattern, Plot, Exit, Join, Abort, Goto
  <2>2. QED
    BY <2>1 DEF Counted
<1>7. CASE WaitForOvs
  <2>1. made' = made /\ main = "wait"
        /\ (main' = main \/ main' = IF made < Tests THEN "launch" ELSE "plot")
    BY <1>7 DEF WaitForOvs, NextTest, Goto, Clean, envVars
  <2>2. QED
    BY <1>1, <1>2, <2>1 DEF Counted
<1>8. QED
  BY <1>3, <1>4, <1>5, <1>6, <1>7 DEF Next, Main

(* What plot reads and what the tests write, list by list.                 *)
LEMMA PathsAgree ==
  ASSUME \A t \in ToSet(Transports) : Lower[t] = t
  PROVE  /\ Plotted \subseteq Listed
         /\ Transports # << >> /\ ToSet(RlAlgos) \cap ToSet(TcpAlgos) = {}
              => Listed \subseteq Plotted
<1>1. ASSUME NEW t \in ToSet(Transports), NEW run \in 0 .. Runs - 1,
             NEW a \in ToSet(RlAlgos) \cup ToSet(TcpAlgos)
      PROVE  Folder(IF a \in ToSet(TcpAlgos) THEN "tcp" ELSE Lower[t], run, a) \in Listed
  <2>1. CASE a \in ToSet(TcpAlgos)
    BY <2>1 DEF Listed
  <2>2. CASE a \notin ToSet(TcpAlgos)
    BY <2>2 DEF Listed
  <2>3. QED
    BY <2>1, <2>2
<1>2. ASSUME Transports # << >>, ToSet(RlAlgos) \cap ToSet(TcpAlgos) = {},
             NEW x \in Listed
      PROVE  x \in Plotted
  <2>1. CASE \E t \in ToSet(Transports), run \in 0 .. Runs - 1, a \in ToSet(RlAlgos) :
               x = Folder(t, run, a)
    <3>1. PICK t \in ToSet(Transports), run \in 0 .. Runs - 1, a \in ToSet(RlAlgos) :
            x = Folder(t, run, a)
      BY <2>1
    <3>2. a \notin ToSet(TcpAlgos) /\ Lower[t] = t
      BY <1>2
    <3>3. x = Folder(IF a \in ToSet(TcpAlgos) THEN "tcp" ELSE Lower[t], run, a)
      BY <3>1, <3>2
    <3>4. QED
      BY <3>3 DEF Plotted
  <2>2. CASE \E run \in 0 .. Runs - 1, a \in ToSet(TcpAlgos) : x = Folder("tcp", run, a)
    <3>1. PICK run \in 0 .. Runs - 1, a \in ToSet(TcpAlgos) : x = Folder("tcp", run, a)
      BY <2>2
    <3>2. Transports \in Seq(ToSet(Transports))
      BY DriversAssumption
    <3>3. PICK t \in ToSet(Transports) : TRUE
      BY <1>2, <3>2 DEF ToSet
    <3>4. x = Folder(IF a \in ToSet(TcpAlgos) THEN "tcp" ELSE Lower[t], run, a)
      BY <3>1
    <3>5. QED
      BY <3>4 DEF Plotted
  <2>3. QED
    BY <1>2, <2>1, <2>2 DEF Listed
<1>3. QED
  BY <1>1, <1>2 DEF Plotted

(* plot reads no folder that the tests have not written, and none is left  *)
(* out (run_tests, plot, preprocess_data): for every list of transports in *)
(* lower case and of algorithms and every number of runs, the second if    *)
(* there is a transport and the lists of algorithms have none in common.   *)
THEOREM PlotFindsAll == Spec => []PlotFindsTests
<1>1. Init => Counted
  BY SuiteIs, DriversAssumption DEF Init, EnvInit, Counted, Tests
<1>2. Counted => PlotFindsTests
  <2> SUFFICES ASSUME Counted, main = "plot",
                      \A t \in ToSet(Transports) : Lower[t] = t
               PROVE  /\ Plotted \subseteq Written
                      /\ Transports # << >> /\ ToSet(RlAlgos) \cap ToSet(TcpAlgos) = {}
                           => Written \subseteq Plotted
    BY DEF PlotFindsTests
  <2>1. made = Len(Suite) /\ DOMAIN Suite = 1 .. Len(Suite)
    BY SuiteIs DEF Counted, Tests
  <2>2. Written = Listed
    BY <2>1, SuiteIs DEF ToSet, Written
  <2>3. QED
    BY <2>2, PathsAgree
<1>3. QED
  BY TypesInitially, TypesStep, CountedStep, <1>1, <1>2, PTL DEF Spec
=============================================================================
