------------------------------ MODULE Drivers -------------------------------
(***************************************************************************)
(* The programs around the DCEnv: benchmark.py, which calls run_ray.main   *)
(* once per test in one process and then plots, and run_basic.py, one test *)
(* without a net.  A test makes an env, runs its episodes and closes it;   *)
(* an exception ends the test, not the program; wait_for_ovs separates two *)
(* tests; exit(1) and Ctrl-C unwind everything, atexit closes the envs and *)
(* multiprocessing joins the children.                                     *)
(*                                                                         *)
(* The agents here keep their env in the process (MaxAgent, RandomAgent).  *)
(***************************************************************************)
EXTENDS EnvLifecycle, SequencesExt

CONSTANTS Programs,      \* of "benchmark" and "basic"
          Transports, RlAlgos, TcpAlgos,  \* sequences of names (benchmark.py)
          Lower,         \* Lower[name]: the name in lower case
          Runs,          \* repetitions of each test
          Polls          \* polls of wait_for_ovs before it cleans up (30)

-----------------------------------------------------------------------------
(* The folder of results of a test; run_ray writes and plot reads the name *)
(* of the algorithm in lower case.                                         *)
Folder(transport, run, algo) ==
    [transport |-> transport, run |-> run, algo |-> Lower[algo]]

(* Faulty variant: TCP algorithms get a folder of a transport, too.        *)
RunOfTransport(run) ==
    FlattenSeq([t \in DOMAIN Transports |-> [a \in DOMAIN (RlAlgos \o TcpAlgos) |->
                   Folder(Transports[t], run, (RlAlgos \o TcpAlgos)[a])]])

(* run_tests: the tests in their order, each named by its folder.          *)
RunOf(run) ==
    FlattenSeq([t \in DOMAIN Transports |-> [a \in DOMAIN RlAlgos |->
                   Folder(Transports[t], run, RlAlgos[a])]])
      \o [a \in DOMAIN TcpAlgos |-> Folder("tcp", run, TcpAlgos[a])]
Suite == FlattenSeq([r \in 1 .. Runs |-> RunOf(r - 1)])

(* plot, preprocess_data: the folders whose statistics are drawn.  For     *)
(* each transport all algorithms are read, those of TCP from the folder of *)
(* tcp; the transport is put in lower case, other than by run_tests.       *)
Plotted ==
    {Folder(IF a \in ToSet(TcpAlgos) THEN "tcp" ELSE Lower[t], run, a) :
        t \in ToSet(Transports), run \in 0 .. Runs - 1,
        a \in ToSet(RlAlgos) \cup ToSet(TcpAlgos)}

ASSUME DriversAssumption ==
    /\ Programs \subseteq {"benchmark", "basic"} /\ Polls \in Nat
    /\ \A names \in {Transports, RlAlgos, TcpAlgos} :
          names \in Seq(ToSet(names)) /\ ToSet(names) \subseteq DOMAIN Lower
    /\ Runs \in Nat /\ NumEnvs >= 1
    /\ "benchmark" \in Programs => Len(Suite) \in 1 .. NumEnvs

VARIABLES program,  \* what was started
          main,     \* what the program does between calls of the env
          polls,    \* polls wait_for_ovs has left
          aborted   \* ended by exit(1) or an interrupt, or not caught

drvVars == <<program, main, polls, aborted>>
vars == <<envVars, drvVars>>

Tests == IF program = "benchmark" THEN Len(Suite) ELSE 1

Init ==
    /\ EnvInit
    /\ program \in Programs /\ main = "launch"
    /\ polls = Polls /\ aborted = FALSE

Goto(place) == main' = place /\ UNCHANGED <<program, polls, aborted>>
Abort == main' = "exiting" /\ aborted' = TRUE /\ UNCHANGED <<program, polls>>

-----------------------------------------------------------------------------
(* launch_test, run_ray: the agent makes the env ...                       *)
Launch == main = "launch" /\ NewEnv /\ Goto("test")

(* ... each train() is an episode ...                                      *)
Episode == main = "test" /\ Reset /\ UNCHANGED drvVars
InEnv ==
    /\ \/ SkipManager \/ Construct \/ SetField \/ Started \/ Step \/ CloseManager
       \/ \E c \in Clients : StartClient(c)
    /\ UNCHANGED drvVars
CutShort == Truncate /\ UNCHANGED drvVars

(* ... and cleanup() closes it.                                            *)
Cleanup ==
    /\ main = "test" /\ episode[env] = Episodes /\ Close(env)
    /\ UNCHANGED drvVars

(* The end of a test, reached or by an exception: run_ray.main waits, and  *)
(* run_basic is over.                                                      *)
EndTest ==
    /\ main' = IF program = "benchmark" THEN "wait" ELSE "exiting"
    /\ polls' = Polls
    /\ UNCHANGED <<program, aborted>>

CleanedUp ==
    /\ main = "test" /\ phase = "idle" /\ env \in terminated
    /\ EndTest /\ UNCHANGED envVars

(* "except Exception": the env is left as it is.                           *)
TestFails == main = "test" /\ Raise /\ EndTest

(* exit(1), Ctrl-C, and in run_basic every exception.                      *)
Exits == main \in {"launch", "test", "wait", "plot"} /\ Raise /\ Abort
ExitsWithoutPattern == NoPattern /\ Abort

-----------------------------------------------------------------------------
NextTest == Goto(IF made < Tests THEN "launch" ELSE "plot")

(* Faulty variant: one look is enough.                                     *)
WaitForOvsOnce ==
    /\ main = "wait" /\ NextTest
    /\ UNCHANGED envVars

(* Faulty variant: the clients of the test are forgotten.                  *)
CleanNetworks ==
    /\ up' = [e \in Envs |-> up[e] \ {"net", "traffic"}]
    /\ bridges' = {}
    /\ UNCHANGED <<made, thread, held, killed, terminated, episode, pattern, trafficVars>>

(* clean(): mn -c deletes every network and kills its shells; clients and  *)
(* host controllers are killed by name.                                    *)
Clean ==
    /\ up' = [e \in Envs |-> up[e] \ {"net", "traffic"}]
    /\ bridges' = {}
    /\ client' = [e \in Envs |-> [k \in 1 .. Episodes |->
                    [c \in Clients |-> Told(client[e][k][c])]]]
    /\ UNCHANGED <<made, thread, held, killed, terminated, episode, pattern, procs>>

(* wait_for_ovs: one poll a second until no switch is listed or the big    *)
(* hammer has done its work.                                               *)
WaitForOvs ==
    /\ main = "wait"
    /\ \/ bridges = {} /\ NextTest /\ UNCHANGED envVars
       \/ /\ bridges # {} /\ polls > 0
          /\ polls' = polls - 1
          /\ UNCHANGED <<envVars, program, main, aborted>>
       \/ bridges # {} /\ polls = 0 /\ Clean /\ NextTest

(* plot() reads the folders or fails: the program is over.                 *)
Plot == main = "plot" /\ Goto("exiting") /\ UNCHANGED envVars

-----------------------------------------------------------------------------
(* Faulty variant: first registered, first called.                         *)
FirstRegistered(envs) == Min(envs)

(* atexit calls close() of the env registered last first ...               *)
NextRegistered(envs) == Max(envs)
AtExit ==
    /\ main = "exiting" /\ 1 .. made \ terminated # {}
    /\ Close(NextRegistered(1 .. made \ terminated))
    /\ UNCHANGED drvVars

(* ... then multiprocessing joins the children that are left.              *)
Exit ==
    /\ main = "exiting" /\ phase = "idle" /\ 1 .. made \subseteq terminated
    /\ Goto("joining") /\ UNCHANGED envVars
Join ==
    /\ main = "joining" /\ \A e \in Envs : up[e] \cap Children = {}
    /\ Goto("exited") /\ UNCHANGED envVars

-----------------------------------------------------------------------------
Main == \/ Launch \/ Episode \/ InEnv \/ Cleanup \/ CleanedUp
        \/ ExitsWithoutPattern \/ WaitForOvs \/ Plot \/ AtExit \/ Exit \/ Join

Client(e, k, c) == ClientEnds(e, k, c) /\ UNCHANGED drvVars
Child(e, m) == ChildEnds(e, m) /\ UNCHANGED drvVars
Switches(e) == SwitchesGo(e) /\ UNCHANGED drvVars

Next ==
    \/ Main \/ CutShort \/ TestFails \/ Exits
    \/ \E e \in Envs : \/ \E k \in 1 .. Episodes, c \in Clients : Client(e, k, c)
                       \/ \E m \in Children : Child(e, m)
                       \/ Switches(e)

(* The main thread goes on; clients end; children end when told, the       *)
(* controller at the latest when the network is gone.  Switches may stay.  *)
Spec ==
    /\ Init /\ [][Next]_vars
    /\ WF_vars(Main)
    /\ \A e \in Envs :
         /\ \A k \in 1 .. Episodes, c \in Clients : WF_vars(Client(e, k, c))
         /\ \A m \in Children : WF_vars((m = "bw" => "net" \notin up[e]) /\ Child(e, m))

-----------------------------------------------------------------------------
(* Types of the envs' fields, the processes they started and the program.  *)
TypeOK ==
    /\ EnvTypeOK
    /\ program \in Programs /\ polls \in 0 .. Polls /\ aborted \in BOOLEAN
    /\ main \in {"launch", "test", "wait", "plot", "exiting", "joining", "exited"}

(* Whatever exists is in a field that close() will look at, or has been    *)
(* told to end, or is being constructed (_start_managers, close).          *)
NoOrphans ==
    \A e \in Envs : \A m \in up[e] :
        \/ m \in held[e] \cup killed[e]
        \/ e = env /\ phase = "constructor" /\ m = StartOrder[at]

(* When the program is over nothing of it is left: no network, service,    *)
(* child, and no client that was not told to end, whichever tests failed   *)
(* and wherever it was interrupted (close, atexit, clean); no switch       *)
(* either, unless it was aborted before wait_for_ovs (run_ray.main).       *)
NothingLeftBehind ==
    main = "exited" =>
        /\ \A e \in Envs : up[e] = {}
        /\ \A e \in Envs, k \in 1 .. Episodes, c \in Clients :
               client[e][k][c] # "running"
        /\ program = "benchmark" /\ ~aborted => bridges = {}

(* No client of an earlier episode, of this test or of an earlier one that *)
(* failed, runs on untold beside the new ones (reset, clean).              *)
OneEpisodeAtATime ==
    \A e \in 1 .. made, k \in 1 .. Episodes, c \in Clients :
        e < made \/ k < episode[e] => client[e][k][c] # "running"

(* Two networks with switches of the same names never exist at once:       *)
(* a test starts when those of the tests before it, failed ones included,  *)
(* are gone ("Wait until the topology is torn down completely").           *)
NetworksApart == \A e1, e2 \in bridges : e1 = e2

(* A network goes by its own env's close() or by the hammer: the close of  *)
(* a failed test's env, late in atexit, never deletes the running one's.   *)
NetworkStays ==
    [][\A e \in Envs : "net" \in up[e] /\ "net" \notin up'[e]
          => main = "wait" \/ (env = e /\ phase = "closing")]_vars

(* Every program ends, interrupted or not, with tests that failed and      *)
(* switches that stay: no episode, wait or join lasts for ever.            *)
ProgramEnds == <>(main = "exited")

(* The two build the paths on their own (run_tests, preprocess_data), and  *)
(* they agree if the transports are named in lower case: plot reads no     *)
(* folder that the tests have not written, and leaves none out unless      *)
(* there is no transport or an algorithm is in both lists.                 *)
Written == {Suite[i] : i \in 1 .. made}
PlotFindsTests ==
    main = "plot" /\ (\A t \in ToSet(Transports) : Lower[t] = t) =>
        /\ Plotted \subseteq Written
        /\ Transports # << >> /\ ToSet(RlAlgos) \cap ToSet(TcpAlgos) = {}
             => Written \subseteq Plotted
=============================================================================
