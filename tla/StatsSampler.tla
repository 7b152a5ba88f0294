---------------------------- MODULE StatsSampler ----------------------------
(***************************************************************************)
(* The StatsSampler process and the shelf it shares with its parent.  The  *)
(* shelf is opened with writeback before the fork, so parent and child     *)
(* each have a cache of it; the child appends samples to its own cache and *)
(* writes them at the end (_flush), the parent writes its empty lists when *)
(* it closes the shelf (StatsSampler.close).  A write of a key replaces    *)
(* what the file holds for the key, whoever wrote it.                      *)
(*                                                                         *)
(* A sampled value is represented by the env step that produced it.        *)
(***************************************************************************)
EXTENDS Integers, Sequences

CONSTANTS MaxSteps,     \* bound: env steps
          MaxSamples,   \* bound: samples taken
          Interrupts    \* may the child receive a KeyboardInterrupt?

ASSUME SamplerAssumption ==
    MaxSteps \in Nat /\ MaxSamples \in Nat /\ Interrupts \in BOOLEAN

Keys == <<"reward", "actions", "stats", "num_samples">>  \* order of the cache
Empty == [reward |-> << >>, actions |-> << >>, stats |-> << >>, num_samples |-> 0]

VARIABLES
    reward,    \* DCEnv.reward: the step that wrote it last
    action,    \* tx_rate: the step that wrote it last
    cache,     \* the child's cache of the shelf
    file,      \* the shelf on disk
    kill,      \* the kill event
    pc,        \* the statement of run() or _checkpoint the child is at
    fkey,      \* the key the child's sync writes next
    parent,    \* "open", "sync" or "closed": the parent's shelf
    pkey,      \* the key the parent's sync writes next
    late       \* history: the child's sync began after the parent's ended

envVars == <<reward, action>>
childVars == <<cache, pc, fkey, late>>
parentVars == <<parent, pkey>>
vars == <<envVars, childVars, parentVars, file, kill>>

Init ==
    /\ reward = 0 /\ action = 0
    /\ cache = Empty /\ file = Empty
    /\ kill = FALSE /\ pc = "check" /\ fkey = 1
    /\ parent = "open" /\ pkey = 1 /\ late = FALSE

-----------------------------------------------------------------------------
(* The parent: DCEnv.step writes the reward, later the action.             *)
EnvReward ==
    /\ parent = "open" /\ reward = action /\ reward < MaxSteps
    /\ reward' = reward + 1
    /\ UNCHANGED <<action, childVars, parentVars, file, kill>>

EnvAction ==
    /\ action < reward
    /\ action' = reward
    /\ UNCHANGED <<reward, childVars, parentVars, file, kill>>

(* StatsSampler.close: the event is set, then the parent's shelf closed.   *)
Close ==
    /\ parent = "open" /\ reward = action
    /\ kill' = TRUE
    /\ parent' = "sync" /\ pkey' = 1
    /\ UNCHANGED <<envVars, childVars, file>>

(* Shelf.close writes the parent's cache, which nobody ever added to.      *)
ParentSync ==
    /\ parent = "sync"
    /\ file' = [file EXCEPT ![Keys[pkey]] = Empty[Keys[pkey]]]
    /\ IF pkey = Len(Keys) THEN parent' = "closed" /\ UNCHANGED pkey
                           ELSE pkey' = pkey + 1 /\ UNCHANGED parent
    /\ UNCHANGED <<envVars, childVars, kill>>

-----------------------------------------------------------------------------
(* The child                                                               *)

(* The loop of run(): another sample, or _clean and _flush.                *)
Check ==
    /\ pc = "check"
    /\ \/ kill /\ pc' = "flush" /\ late' = (parent = "closed")
       \/ ~kill /\ Len(cache.stats) < MaxSamples
          /\ pc' = "stats" /\ UNCHANGED late
    /\ UNCHANGED <<envVars, cache, fkey, parentVars, file, kill>>

(* Faulty variant: each list is also written to the file, before the       *)
(* append instead of after it.                                             *)
AppendSampleThrough(key, value, next) ==
    /\ pc = key
    /\ cache' = [cache EXCEPT ![key] = Append(@, value)]
    /\ file' = [file EXCEPT ![key] = cache[key]]
    /\ pc' = next
    /\ UNCHANGED <<envVars, fkey, late, parentVars, kill>>

(* One statement of _checkpoint: append a copy of the shared value.        *)
AppendSample(key, value, next) ==
    /\ pc = key
    /\ cache' = [cache EXCEPT ![key] = Append(@, value)]
    /\ pc' = next
    /\ UNCHANGED <<envVars, fkey, late, parentVars, file, kill>>

(* Faulty variant: the actions are read before the reward.                 *)
CheckpointSwapped ==
    \/ AppendSample("stats", reward, "actions")
    \/ AppendSample("actions", action, "reward")
    \/ AppendSample("reward", reward, "num_samples")

Checkpoint ==
    \/ AppendSample("stats", reward, "reward")
    \/ AppendSample("reward", reward, "actions")
    \/ AppendSample("actions", action, "num_samples")

(* num_samples += 1 assigns to the shelf: this key is written through.     *)
Count ==
    /\ pc = "num_samples"
    /\ cache' = [cache EXCEPT !.num_samples = @ + 1]
    /\ file' = [file EXCEPT !.num_samples = cache.num_samples + 1]
    /\ pc' = "sleep"
    /\ UNCHANGED <<envVars, fkey, late, parentVars, kill>>

(* Faulty variant: the sleep ends when there is more to sample only.       *)
WakeUnlessKilled ==
    /\ pc = "sleep" /\ ~kill
    /\ pc' = "check"
    /\ UNCHANGED <<envVars, cache, fkey, late, parentVars, file, kill>>

Wake ==
    /\ pc = "sleep"
    /\ pc' = "check"
    /\ UNCHANGED <<envVars, cache, fkey, late, parentVars, file, kill>>

(* Faulty variant: the last key is not written.                            *)
FlushShort ==
    /\ pc = "flush"
    /\ file' = [file EXCEPT ![Keys[fkey]] = cache[Keys[fkey]]]
    /\ IF fkey = Len(Keys) - 1 THEN pc' = "exited" /\ UNCHANGED fkey
                               ELSE fkey' = fkey + 1 /\ UNCHANGED pc
    /\ UNCHANGED <<envVars, cache, late, parentVars, kill>>

(* Faulty variant: the end of the keys is not noticed.                     *)
FlushPast ==
    /\ pc = "flush"
    /\ file' = [file EXCEPT ![Keys[fkey]] = cache[Keys[fkey]]]
    /\ fkey' = fkey + 1
    /\ UNCHANGED <<envVars, cache, pc, late, parentVars, kill>>

(* _flush: Shelf.sync writes the child's cache key by key.                 *)
Flush ==
    /\ pc = "flush"
    /\ file' = [file EXCEPT ![Keys[fkey]] = cache[Keys[fkey]]]
    /\ IF fkey = Len(Keys) THEN pc' = "exited" /\ UNCHANGED fkey
                           ELSE fkey' = fkey + 1 /\ UNCHANGED pc
    /\ UNCHANGED <<envVars, cache, late, parentVars, kill>>

(* run() catches a KeyboardInterrupt inside _checkpoint only: in the test, *)
(* the sleep or the flush it ends the process where it is.                 *)
Interrupt ==
    /\ Interrupts
    /\ \/ /\ pc \in {"stats", "reward", "actions", "num_samples"}
          /\ kill' = TRUE /\ pc' = "sleep"
       \/ /\ pc \in {"check", "sleep", "flush"}
          /\ pc' = "crashed" /\ UNCHANGED kill
    /\ UNCHANGED <<envVars, cache, fkey, late, parentVars, file>>

-----------------------------------------------------------------------------
Child == Check \/ Checkpoint \/ Count \/ Wake \/ Flush

Next == EnvReward \/ EnvAction \/ Close \/ ParentSync \/ Child \/ Interrupt

(* The child and a close() that has begun go on; nobody owes the rest.     *)
Spec == Init /\ [][Next]_vars /\ WF_vars(Child) /\ WF_vars(ParentSync)

-----------------------------------------------------------------------------
(* Types; Keys fixes the domain of both shelves.                           *)
TypeOK ==
    LET Steps == 0 .. MaxSteps
        Shelf == [reward : Seq(Steps), actions : Seq(Steps), stats : Seq(Steps),
                  num_samples : 0 .. MaxSamples]
    IN /\ reward \in Steps /\ action \in Steps
       /\ cache \in Shelf /\ file \in Shelf
       /\ kill \in BOOLEAN /\ late \in BOOLEAN
       /\ pc \in {"check", "stats", "reward", "actions", "num_samples",
                  "sleep", "flush", "exited", "crashed"}
       /\ fkey \in 1 .. Len(Keys) /\ pkey \in 1 .. Len(Keys)
       /\ parent \in {"open", "sync", "closed"}

(* What plot.py zips together belongs together: position i of the three    *)
(* lists is one sample, taken while steps go on: its reward is no older    *)
(* than its stats, its actions at most one step older than its reward, and *)
(* an interrupted _checkpoint leaves at most the last sample incomplete.   *)
SamplesAligned ==
    /\ Len(cache.stats) >= Len(cache.reward)
    /\ Len(cache.reward) >= Len(cache.actions)
    /\ Len(cache.actions) >= cache.num_samples
    /\ cache.num_samples >= Len(cache.stats) - 1
    /\ \A i \in 1 .. Len(cache.reward) : cache.stats[i] <= cache.reward[i]
    /\ \A i \in 1 .. Len(cache.actions) : cache.actions[i] >= cache.reward[i] - 1

(* Whatever the order of the two syncs, a list in the file is the child's  *)
(* or empty, never a part of it (_flush, close).                           *)
ListsWhole ==
    (pc \in {"exited", "crashed"} /\ parent = "closed") =>
        \A k \in {"reward", "actions", "stats"} : file[k] \in {Empty[k], cache[k]}

(* A flush that begins when the parent is done saves everything.           *)
LateFlushSaves == (pc = "exited" /\ late) => file = cache

(* The child ends after close(), asleep or not (run, stop).                *)
SamplerStops == kill ~> (pc \in {"exited", "crashed"})

(* Statistics reported as saved ("Done saving statistics...") stay saved.  *)
SavedStatisticsStay == [][pc = "exited" => file' = file]_vars
=============================================================================
