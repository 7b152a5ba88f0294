------------------------- MODULE StatsSamplerProofs -------------------------
(***************************************************************************)
(* Proofs about what the sampler's lists and file hold, for every number   *)
(* of steps and samples, interrupted or not, and every order of the two    *)
(* syncs of the shelf.                                                     *)
(*                                                                         *)
(* The invariant says how long the lists are at each statement of          *)
(* _checkpoint (InTurn), how old the values in them are (Values), and what *)
(* of the cache is in the file (Written).                                  *)
(***************************************************************************)
EXTENDS StatsSampler, SequenceTheorems, TLAPS

Steps == 0 .. MaxSteps
Shelf == [reward : Seq(Steps), actions : Seq(Steps), stats : Seq(Steps),
          num_samples : 0 .. MaxSamples]
Lists == {"reward", "actions", "stats"}
Ended == {"flush", "exited", "crashed"}   \* no sample is taken any more

(* The action of a step follows its reward.                                *)
Clock == action <= reward /\ reward <= action + 1

Even(s, r, a, n) == s = r /\ r = a /\ a = n
Ragged(s, r, a, n) == s >= r /\ r >= a /\ a >= n /\ n >= s - 1
InTurn ==
    LET s == Len(cache.stats)     r == Len(cache.reward)
        a == Len(cache.actions)   n == cache.num_samples
    IN /\ s <= MaxSamples
       /\ pc = "stats" => Even(s, r, a, n) /\ s < MaxSamples
       /\ pc = "reward" => Even(s, r + 1, a + 1, n + 1)
       /\ pc = "actions" => Even(s, r, a + 1, n + 1)
       /\ pc = "num_samples" => Even(s, r, a, n + 1)
       /\ pc \in {"check", "sleep"} /\ ~kill => Even(s, r, a, n)
       /\ Ragged(s, r, a, n)

Values ==
    /\ \A i \in 1 .. Len(cache.stats) : cache.stats[i] <= reward
    /\ \A i \in 1 .. Len(cache.reward) :
         cache.reward[i] <= reward /\ cache.stats[i] <= cache.reward[i]
    /\ \A i \in 1 .. Len(cache.actions) : cache.actions[i] >= cache.reward[i] - 1

Written ==
    /\ \A k \in Lists : file[k] = << >> \/ (pc \in Ended /\ file[k] = cache[k])
    /\ pc \notin Ended => fkey = 1
    /\ late => pc \in Ended /\ parent = "closed"
    /\ late /\ pc = "flush" => \A i \in 1 .. fkey - 1 : file[Keys[i]] = cache[Keys[i]]
    /\ late /\ pc = "exited" => \A i \in 1 .. 4 : file[Keys[i]] = cache[Keys[i]]

IInv == TypeOK /\ Clock /\ InTurn /\ Values /\ Written

-----------------------------------------------------------------------------
LEMMA KeysAre ==
  /\ Len(Keys) = 4
  /\ Keys[1] = "reward" /\ Keys[2] = "actions"
  /\ Keys[3] = "stats" /\ Keys[4] = "num_samples"
  /\ \A i \in 1 .. 4 : i = 1 \/ i = 2 \/ i = 3 \/ i = 4
BY DEF Keys

LEMMA Sizes ==
  ASSUME TypeOK
  PROVE  /\ cache \in Shelf /\ file \in Shelf
         /\ cache.stats \in Seq(Steps) /\ cache.reward \in Seq(Steps)
         /\ cache.actions \in Seq(Steps)
         /\ Len(cache.stats) \in Nat /\ Len(cache.reward) \in Nat
         /\ Len(cache.actions) \in Nat /\ cache.num_samples \in Nat
         /\ reward \in Nat /\ action \in Nat /\ MaxSamples \in Nat
         /\ \A i \in 1 .. Len(cache.stats) : cache.stats[i] \in Nat
         /\ \A i \in 1 .. Len(cache.reward) : cache.reward[i] \in Nat
         /\ \A i \in 1 .. Len(cache.actions) : cache.actions[i] \in Nat
<1>1. cache \in Shelf /\ file \in Shelf /\ reward \in Steps /\ action \in Steps
  BY DEF TypeOK, Shelf, Steps
<1>2. /\ cache.stats \in Seq(Steps) /\ cache.reward \in Seq(Steps)
      /\ cache.actions \in Seq(Steps) /\ cache.num_samples \in 0 .. MaxSamples
  BY <1>1 DEF Shelf
<1>3. \A q \in Seq(Steps) : Len(q) \in Nat /\ \A i \in 1 .. Len(q) : q[i] \in Nat
  BY SamplerAssumption, ElementOfSeq, LenProperties DEF Steps
<1>4. QED
  BY <1>1, <1>2, <1>3, SamplerAssumption DEF Steps

LEMMA Initially == Init => IInv
<1> SUFFICES ASSUME Init PROVE IInv
  OBVIOUS
<1>1. /\ Empty.reward = << >> /\ Empty.actions = << >> /\ Empty.stats = << >>
      /\ Empty.num_samples = 0 /\ Empty \in Shelf
  BY SamplerAssumption DEF Empty, Shelf
<1>2. TypeOK
  <2>1. cache \in Shelf /\ file \in Shelf
    BY <1>1 DEF Init
  <2>2. reward \in Steps /\ action \in Steps
    BY SamplerAssumption DEF Init, Steps
  <2>3. /\ kill \in BOOLEAN /\ late \in BOOLEAN /\ pc = "check" /\ parent = "open"
        /\ fkey \in 1 .. Len(Keys) /\ pkey \in 1 .. Len(Keys)
    <3>1. fkey = 1 /\ pkey = 1 /\ kill = FALSE /\ late = FALSE /\ pc = "check" /\ parent = "open"
      BY DEF Init
    <3>2. 1 \in 1 .. Len(Keys)
      BY KeysAre
    <3>3. QED
      BY <3>1, <3>2
  <2>4. QED
    BY <2>1, <2>2, <2>3 DEF TypeOK, Shelf, Steps
<1>3. Clock /\ InTurn /\ Values
  BY <1>1, SamplerAssumption DEF Init, Clock, InTurn, Even, Ragged, Values
<1>4. Written
  BY <1>1 DEF Init, Written, Lists, Ended
<1>5. QED
  BY <1>2, <1>3, <1>4 DEF IInv

-----------------------------------------------------------------------------
(* The parent                                                              *)
LEMMA EnvKeeps == ASSUME IInv, EnvReward \/ EnvAction PROVE IInv'
<1>1. UNCHANGED <<cache, pc, fkey, late, parent, pkey, file, kill>>
  BY DEF EnvReward, EnvAction, childVars, parentVars
<1>2. reward' \in Steps /\ action' \in Steps /\ reward <= reward' /\ Clock'
  <2>1. reward \in Nat /\ action \in Nat /\ reward <= MaxSteps /\ Clock
    BY Sizes DEF IInv, TypeOK
  <2>2. CASE EnvReward
    BY <2>1, <2>2, SamplerAssumption DEF EnvReward, Clock, Steps
  <2>3. CASE EnvAction
    BY <2>1, <2>3, SamplerAssumption DEF EnvAction, Clock, Steps
  <2>4. QED
    BY <2>2, <2>3
<1>3. TypeOK'
  BY <1>1, <1>2 DEF IInv, TypeOK, Steps
<1>4. InTurn' /\ Written'
  BY <1>1 DEF IInv, InTurn, Written
<1>5. Values'
  <2>1. reward \in Nat /\ reward' \in Nat
    BY <1>2, Sizes, SamplerAssumption DEF IInv, Steps
  <2>2. \A i \in 1 .. Len(cache.stats) : cache.stats[i] <= reward'
    BY <1>2, <2>1, Sizes DEF IInv, Values
  <2>3. \A i \in 1 .. Len(cache.reward) : cache.reward[i] <= reward'
    BY <1>2, <2>1, Sizes DEF IInv, Values
  <2>4. QED
    BY <1>1, <2>2, <2>3 DEF IInv, Values
<1>6. QED
  BY <1>2, <1>3, <1>4, <1>5 DEF IInv

LEMMA CloseKeeps == ASSUME IInv, Close PROVE IInv'
<1>1. /\ UNCHANGED <<reward, action, cache, pc, fkey, late, file>>
      /\ kill' = TRUE /\ parent = "open" /\ parent' = "sync" /\ pkey' = 1
  BY DEF Close, envVars, childVars
<1>2. TypeOK'
  BY <1>1, KeysAre DEF IInv, TypeOK
<1>3. InTurn'
  BY <1>1 DEF IInv, InTurn
<1>4. QED
  BY <1>1, <1>2, <1>3 DEF IInv, Clock, Values, Written

(* The parent writes what it has, which is nothing.                        *)
LEMMA ParentKeeps == ASSUME IInv, ParentSync PROVE IInv'
<1>1. /\ UNCHANGED <<reward, action, cache, pc, fkey, late, kill>>
      /\ file' = [file EXCEPT ![Keys[pkey]] = Empty[Keys[pkey]]]
      /\ parent = "sync" /\ parent' \in {"sync", "closed"}
  BY DEF ParentSync, envVars, childVars, IInv, TypeOK
<1>2. pkey' \in 1 .. 4 /\ pkey \in 1 .. 4
  BY KeysAre DEF ParentSync, IInv, TypeOK
<1>3. /\ file' \in Shelf
      /\ \A k \in Lists : file'[k] \in {file[k], << >>}
  <2>1. pkey = 1 \/ pkey = 2 \/ pkey = 3 \/ pkey = 4
    BY <1>2
  <2>2. file \in Shelf
    BY Sizes DEF IInv
  <2>3. << >> \in Seq(Steps) /\ 0 \in 0 .. MaxSamples
    BY SamplerAssumption
  <2>4. CASE pkey \in {1, 2, 3}
    <3>1. Keys[pkey] \in Lists /\ Empty[Keys[pkey]] = << >>
      BY <2>4, KeysAre DEF Empty, Lists
    <3>2. file' = [file EXCEPT ![Keys[pkey]] = << >>]
      BY <1>1, <3>1
    <3>3. QED
      BY <2>2, <2>3, <3>1, <3>2 DEF Shelf, Lists
  <2>5. CASE pkey = 4
    <3>1. file' = [file EXCEPT !["num_samples"] = 0]
      BY <1>1, <2>5, KeysAre DEF Empty
    <3>2. QED
      BY <2>2, <2>3, <3>1 DEF Shelf, Lists
  <2>6. QED
    BY <2>1, <2>4, <2>5
<1>4. TypeOK'
  BY <1>1, <1>2, <1>3, KeysAre DEF IInv, TypeOK, Shelf, Steps
<1>5. Written'
  <2>1. ~late
    BY <1>1 DEF IInv, Written
  <2>2. QED
    BY <1>1, <1>3, <2>1 DEF IInv, Written
<1>6. QED
  BY <1>1, <1>4, <1>5 DEF IInv, Clock, InTurn, Values

-----------------------------------------------------------------------------
(* The child.  Only when nobody has told it to end does another sample     *)
(* begin, so the lists are even then.                                      *)
LEMMA CheckKeeps == ASSUME IInv, Check PROVE IInv'
<1>1. /\ UNCHANGED <<reward, action, cache, fkey, parent, pkey, file, kill>>
      /\ pc = "check" /\ pc' \in {"flush", "stats"}
      /\ pc' = "flush" => kill /\ late' = (parent = "closed")
      /\ pc' = "stats" => ~kill /\ Len(cache.stats) < MaxSamples /\ late' = late
  BY DEF Check, envVars, parentVars
<1>2. TypeOK'
  BY <1>1 DEF IInv, TypeOK
<1>3. InTurn'
  BY <1>1 DEF IInv, InTurn
<1>4. Written'
  <2>1. fkey = 1
    BY <1>1 DEF IInv, Written, Ended
  <2>2. \A i \in 1 .. fkey - 1 : FALSE
    BY <2>1
  <2>3. ~late /\ \A k \in Lists : file[k] = << >>
    BY <1>1 DEF IInv, Written, Ended
  <2>4. late' => pc' = "flush" /\ parent' = "closed"
    BY <1>1, <2>3
  <2>5. QED
    BY <1>1, <2>1, <2>2, <2>3, <2>4 DEF Written, Ended
<1>5. QED
  BY <1>1, <1>2, <1>3, <1>4 DEF IInv, Clock, Values

(* What an append does to the list of its key and to the others.           *)
LEMMA Appended ==
  ASSUME TypeOK, NEW key \in Lists, NEW value \in Steps,
         cache' = [cache EXCEPT ![key] = Append(@, value)]
  PROVE  /\ cache' \in Shelf
         /\ \A k \in Lists \ {key} : cache'[k] = cache[k]
         /\ cache'.num_samples = cache.num_samples
         /\ Len(cache'[key]) = Len(cache[key]) + 1
         /\ \A i \in 1 .. Len(cache[key]) : cache'[key][i] = cache[key][i]
         /\ cache'[key][Len(cache[key]) + 1] = value
<1>1. cache \in Shelf
  BY Sizes
<1>2. cache[key] \in Seq(Steps)
  BY <1>1 DEF Shelf, Lists
<1> DEFINE q == Append(cache[key], value)
<1>3. /\ q \in Seq(Steps) /\ Len(q) = Len(cache[key]) + 1
      /\ \A i \in 1 .. Len(cache[key]) : q[i] = cache[key][i]
      /\ q[Len(cache[key]) + 1] = value
  BY <1>2, AppendProperties
<1>4. cache' = [cache EXCEPT ![key] = q]
  OBVIOUS
<1> HIDE DEF q
<1>5. cache' \in Shelf
  BY <1>1, <1>3, <1>4 DEF Shelf, Lists
<1>6. /\ cache'[key] = q /\ cache'.num_samples = cache.num_samples
      /\ \A k \in Lists \ {key} : cache'[k] = cache[k]
  BY <1>1, <1>4 DEF Shelf, Lists
<1>7. QED
  BY <1>3, <1>5, <1>6

(* A statement of _checkpoint touches neither the file nor its history.    *)
LEMMA FileAlone ==
  ASSUME IInv, pc \notin Ended, pc' \notin Ended, UNCHANGED <<fkey, late, file>>
  PROVE  Written'
BY DEF IInv, Written

LEMMA AppendTypes ==
  ASSUME IInv, cache' \in Shelf,
         UNCHANGED <<reward, action, fkey, late, parent, pkey, file, kill>>,
         pc' \in {"reward", "actions", "num_samples"}
  PROVE  TypeOK'
BY DEF IInv, TypeOK, Shelf, Steps

LEMMA StatsKeep == ASSUME IInv, AppendSample("stats", reward, "reward") PROVE IInv'
<1>1. /\ UNCHANGED <<reward, action, fkey, late, parent, pkey, file, kill>>
      /\ cache' = [cache EXCEPT !["stats"] = Append(@, reward)]
      /\ pc = "stats" /\ pc' = "reward"
  BY DEF AppendSample, envVars, parentVars
<1>2. /\ cache' \in Shelf /\ cache'.num_samples = cache.num_samples
      /\ cache'.reward = cache.reward /\ cache'.actions = cache.actions
      /\ Len(cache'.stats) = Len(cache.stats) + 1
      /\ \A i \in 1 .. Len(cache.stats) : cache'.stats[i] = cache.stats[i]
      /\ cache'.stats[Len(cache.stats) + 1] = reward
  <2>1. reward \in Steps
    BY DEF IInv, TypeOK, Steps
  <2>2. QED
    BY <1>1, <2>1, Appended DEF IInv, Lists
<1>3. TypeOK' /\ Written'
  BY <1>1, <1>2, AppendTypes, FileAlone DEF Ended
<1>4. InTurn'
  BY <1>1, <1>2, Sizes DEF IInv, InTurn, Even, Ragged
<1>5. Values'
  <2>1. \A i \in 1 .. Len(cache'.stats) : i \in 1 .. Len(cache.stats) \/ i = Len(cache.stats) + 1
    BY <1>2, Sizes DEF IInv
  <2>2. ASSUME NEW i \in 1 .. Len(cache'.stats) PROVE cache'.stats[i] <= reward
    <3>1. reward \in Nat
      BY Sizes DEF IInv
    <3>2. CASE i \in 1 .. Len(cache.stats)
      <4>1. cache'.stats[i] = cache.stats[i]
        BY <1>2, <3>2
      <4>2. cache.stats[i] <= reward
        BY <3>2 DEF IInv, Values
      <4>3. QED
        BY <4>1, <4>2
    <3>3. CASE i = Len(cache.stats) + 1
      BY <1>2, <3>1, <3>3
    <3>4. QED
      BY <2>1, <3>2, <3>3
  <2>3. \A i \in 1 .. Len(cache.reward) : i \in 1 .. Len(cache.stats)
    BY <1>1, Sizes DEF IInv, InTurn, Even
  <2>4. QED
    BY <1>1, <1>2, <2>2, <2>3 DEF IInv, Values
<1>6. QED
  BY <1>1, <1>3, <1>4, <1>5 DEF IInv, Clock

(* Rewards only get newer, so this one is no older than the stats.         *)
LEMMA RewardKeeps == ASSUME IInv, AppendSample("reward", reward, "actions") PROVE IInv'
<1>1. /\ UNCHANGED <<reward, action, fkey, late, parent, pkey, file, kill>>
      /\ cache' = [cache EXCEPT !["reward"] = Append(@, reward)]
      /\ pc = "reward" /\ pc' = "actions"
  BY DEF AppendSample, envVars, parentVars
<1>2. /\ cache' \in Shelf /\ cache'.num_samples = cache.num_samples
      /\ cache'.stats = cache.stats /\ cache'.actions = cache.actions
      /\ Len(cache'.reward) = Len(cache.reward) + 1
      /\ \A i \in 1 .. Len(cache.reward) : cache'.reward[i] = cache.reward[i]
      /\ cache'.reward[Len(cache.reward) + 1] = reward
  <2>1. reward \in Steps
    BY DEF IInv, TypeOK, Steps
  <2>2. QED
    BY <1>1, <2>1, Appended DEF IInv, Lists
<1>3. TypeOK' /\ Written'
  BY <1>1, <1>2, AppendTypes, FileAlone DEF Ended
<1>4. InTurn'
  BY <1>1, <1>2, Sizes DEF IInv, InTurn, Even, Ragged
<1>5. Values'
  <2>1. \A i \in 1 .. Len(cache'.reward) : i \in 1 .. Len(cache.reward) \/ i = Len(cache.reward) + 1
    BY <1>2, Sizes DEF IInv
  <2>2. /\ Len(cache.stats) = Len(cache.reward) + 1
        /\ Len(cache.reward) + 1 \in 1 .. Len(cache.stats)
    BY <1>1, Sizes DEF IInv, InTurn, Even
  <2>3. cache.stats[Len(cache.reward) + 1] <= reward
    BY <2>2 DEF IInv, Values
  <2>4. \A i \in 1 .. Len(cache'.reward) :
          cache'.reward[i] <= reward /\ cache.stats[i] <= cache'.reward[i]
    <3>1. ASSUME NEW i \in 1 .. Len(cache.reward)
          PROVE  cache'.reward[i] <= reward /\ cache.stats[i] <= cache'.reward[i]
      BY <1>2, <3>1 DEF IInv, Values
    <3>2. reward <= reward
      BY Sizes DEF IInv
    <3>3. QED
      BY <1>2, <2>1, <2>3, <3>1, <3>2
  <2>5. \A i \in 1 .. Len(cache.actions) : i \in 1 .. Len(cache.reward)
    BY <1>1, Sizes DEF IInv, InTurn, Even
  <2>6. QED
    BY <1>1, <1>2, <2>4, <2>5 DEF IInv, Values
<1>6. QED
  BY <1>1, <1>3, <1>4, <1>5 DEF IInv, Clock

(* The action of now is at most one step behind any reward.                *)
LEMMA ActionKeeps == ASSUME IInv, AppendSample("actions", action, "num_samples") PROVE IInv'
<1>1. /\ UNCHANGED <<reward, action, fkey, late, parent, pkey, file, kill>>
      /\ cache' = [cache EXCEPT !["actions"] = Append(@, action)]
      /\ pc = "actions" /\ pc' = "num_samples"
  BY DEF AppendSample, envVars, parentVars
<1>2. /\ cache' \in Shelf /\ cache'.num_samples = cache.num_samples
      /\ cache'.stats = cache.stats /\ cache'.reward = cache.reward
      /\ Len(cache'.actions) = Len(cache.actions) + 1
      /\ \A i \in 1 .. Len(cache.actions) : cache'.actions[i] = cache.actions[i]
      /\ cache'.actions[Len(cache.actions) + 1] = action
  <2>1. action \in Steps
    BY DEF IInv, TypeOK, Steps
  <2>2. QED
    BY <1>1, <2>1, Appended DEF IInv, Lists
<1>3. TypeOK' /\ Written'
  BY <1>1, <1>2, AppendTypes, FileAlone DEF Ended
<1>4. InTurn'
  BY <1>1, <1>2, Sizes DEF IInv, InTurn, Even, Ragged
<1>5. Values'
  <2>1. \A i \in 1 .. Len(cache'.actions) : i \in 1 .. Len(cache.actions) \/ i = Len(cache.actions) + 1
    BY <1>2, Sizes DEF IInv
  <2>2. Len(cache.actions) + 1 \in 1 .. Len(cache.reward)
    BY <1>1, Sizes DEF IInv, InTurn, Even
  <2>3. cache.reward[Len(cache.actions) + 1] <= reward
    BY <2>2 DEF IInv, Values
  <2>4. action >= cache.reward[Len(cache.actions) + 1] - 1
    BY <2>2, <2>3, Sizes DEF IInv, Clock
  <2>5. \A i \in 1 .. Len(cache'.actions) : cache'.actions[i] >= cache.reward[i] - 1
    BY <1>2, <2>1, <2>4 DEF IInv, Values
  <2>6. QED
    BY <1>1, <1>2, <2>5 DEF IInv, Values
<1>6. QED
  BY <1>1, <1>3, <1>4, <1>5 DEF IInv, Clock

LEMMA CountKeeps == ASSUME IInv, Count PROVE IInv'
<1>1. /\ UNCHANGED <<reward, action, fkey, late, parent, pkey, kill>>
      /\ cache' = [cache EXCEPT !.num_samples = @ + 1]
      /\ file' = [file EXCEPT !.num_samples = cache.num_samples + 1]
      /\ pc = "num_samples" /\ pc' = "sleep"
  BY DEF Count, envVars, parentVars
<1>2. cache.num_samples + 1 \in 0 .. MaxSamples
  BY <1>1, Sizes DEF IInv, InTurn, Even
<1>3. /\ cache' \in Shelf /\ file' \in Shelf
      /\ \A k \in Lists : cache'[k] = cache[k] /\ file'[k] = file[k]
      /\ cache'.num_samples = cache.num_samples + 1
  BY <1>1, <1>2, Sizes DEF IInv, Shelf, Lists
<1>4. /\ cache'.stats = cache.stats /\ cache'.reward = cache.reward
      /\ cache'.actions = cache.actions
  BY <1>3 DEF Lists
<1>5. TypeOK'
  BY <1>1, <1>3 DEF IInv, TypeOK, Shelf, Steps
<1>6. InTurn'
  BY <1>1, <1>3, <1>4, Sizes DEF IInv, InTurn, Even, Ragged
<1>7. Written'
  BY <1>1, <1>3 DEF IInv, Written, Ended
<1>8. Clock' /\ Values'
  BY <1>1, <1>4 DEF IInv, Clock, Values
<1>9. QED
  BY <1>5, <1>6, <1>7, <1>8 DEF IInv

LEMMA WakeKeeps == ASSUME IInv, Wake PROVE IInv'
<1>1. /\ UNCHANGED <<reward, action, cache, fkey, late, parent, pkey, file, kill>>
      /\ pc = "sleep" /\ pc' = "check"
  BY DEF Wake, envVars, parentVars
<1>2. TypeOK' /\ Written'
  BY <1>1 DEF IInv, TypeOK, Written, Ended
<1>3. QED
  BY <1>1, <1>2 DEF IInv, Clock, InTurn, Values

(* Key by key the file becomes the cache; a flush that is late has nobody  *)
(* beside it.                                                              *)
LEMMA FlushKeeps == ASSUME IInv, Flush PROVE IInv'
<1>1. /\ UNCHANGED <<reward, action, cache, late, parent, pkey, kill>>
      /\ file' = [file EXCEPT ![Keys[fkey]] = cache[Keys[fkey]]]
      /\ pc = "flush"
      /\ IF fkey = 4 THEN pc' = "exited" /\ fkey' = fkey
                     ELSE fkey' = fkey + 1 /\ pc' = pc
  BY KeysAre DEF Flush, envVars, parentVars
<1>2. fkey = 1 \/ fkey = 2 \/ fkey = 3 \/ fkey = 4
  BY KeysAre DEF IInv, TypeOK
<1>3. fkey \in 1 .. 4 /\ fkey' \in 1 .. 4
  BY <1>1, <1>2
<1>4. cache \in Shelf /\ file \in Shelf
  BY Sizes DEF IInv
<1>5. /\ file' \in Shelf
      /\ \A k \in Lists : file'[k] \in {file[k], cache[k]}
  BY <1>1, <1>2, <1>4, KeysAre DEF Shelf, Lists
<1>6. \A i \in 1 .. 4 : file'[Keys[i]] = IF i = fkey THEN cache[Keys[i]] ELSE file[Keys[i]]
  BY <1>1, <1>2, <1>4, KeysAre DEF Shelf
<1>7. TypeOK'
  BY <1>1, <1>3, <1>5, KeysAre DEF IInv, TypeOK, Shelf, Steps
<1>8. InTurn'
  BY <1>1 DEF IInv, InTurn
<1>9. Written'
  <2>1. \A k \in Lists : file'[k] = << >> \/ (pc' \in Ended /\ file'[k] = cache'[k])
    BY <1>1, <1>5 DEF IInv, Written, Ended
  <2>2. ASSUME late
        PROVE  \A i \in 1 .. fkey : file'[Keys[i]] = cache[Keys[i]]
    <3>1. \A i \in 1 .. fkey - 1 : file[Keys[i]] = cache[Keys[i]]
      BY <1>1, <2>2 DEF IInv, Written
    <3>2. \A i \in 1 .. fkey : i \in 1 .. 4 /\ (i = fkey \/ i \in 1 .. fkey - 1)
      BY <1>3
    <3>3. QED
      BY <1>6, <3>1, <3>2
  <2>3. pc' \in Ended /\ (late' => parent' = "closed")
    BY <1>1 DEF IInv, Written, Ended
  <2>4. late' /\ pc' = "flush" => \A i \in 1 .. fkey' - 1 : file'[Keys[i]] = cache'[Keys[i]]
    <3>1. pc' = "flush" => fkey' = fkey + 1
      BY <1>1
    <3>2. fkey' = fkey + 1 => fkey' - 1 = fkey
      BY <1>3
    <3>3. QED
      BY <1>1, <2>2, <3>1, <3>2
  <2>5. late' /\ pc' = "exited" => \A i \in 1 .. 4 : file'[Keys[i]] = cache'[Keys[i]]
    BY <1>1, <2>2
  <2>6. QED
    BY <2>1, <2>3, <2>4, <2>5 DEF Written
<1>10. QED
  BY <1>1, <1>7, <1>8, <1>9 DEF IInv, Clock, Values

(* An interrupt leaves the lists as they are and no other sample follows.  *)
LEMMA InterruptKeeps == ASSUME IInv, Interrupt PROVE IInv'
<1>1. /\ UNCHANGED <<reward, action, cache, fkey, late, parent, pkey, file>>
      /\ \/ pc \notin Ended /\ kill' = TRUE /\ pc' = "sleep"
         \/ pc' = "crashed" /\ UNCHANGED kill
  BY DEF Interrupt, envVars, parentVars, Ended
<1>2. TypeOK'
  BY <1>1 DEF IInv, TypeOK
<1>3. InTurn'
  BY <1>1 DEF IInv, InTurn
<1>4. Written'
  BY <1>1 DEF IInv, Written, Ended
<1>5. QED
  BY <1>1, <1>2, <1>3, <1>4 DEF IInv, Clock, Values

LEMMA StepKeeps == ASSUME IInv, [Next]_vars PROVE IInv'
<1>1. CASE UNCHANGED vars
  BY <1>1 DEF vars, envVars, childVars, parentVars, IInv, TypeOK, Clock, InTurn,
              Values, Written
<1>2. QED
  BY <1>1, EnvKeeps, CloseKeeps, ParentKeeps, CheckKeeps, StatsKeep, RewardKeeps,
     ActionKeeps, CountKeeps, WakeKeeps, FlushKeeps, InterruptKeeps
     DEF Next, Child, Checkpoint

LEMMA Invariant == Spec => []IInv
BY Initially, StepKeeps, PTL DEF Spec

-----------------------------------------------------------------------------
(* Types, with no more samples counted than begun.                         *)
THEOREM TypeCorrect == Spec => []TypeOK
<1>1. IInv => TypeOK
  BY DEF IInv
<1>2. QED
  BY Invariant, <1>1, PTL

(* Position i of the three lists is one sample, whatever steps and         *)
(* interrupts come between the statements of _checkpoint.                  *)
THEOREM Aligned == Spec => []SamplesAligned
<1>1. IInv => SamplesAligned
  BY DEF IInv, InTurn, Ragged, Values, SamplesAligned
<1>2. QED
  BY Invariant, <1>1, PTL

(* Whichever of the two syncs of the shelf writes a list last, the file    *)
(* holds all of it or nothing (_flush, StatsSampler.close).                *)
THEOREM ListsStayWhole == Spec => []ListsWhole
<1>1. IInv => ListsWhole
  <2>1. \A k \in Lists : Empty[k] = << >>
    BY DEF Lists, Empty
  <2>2. QED
    BY <2>1 DEF IInv, Written, Lists, ListsWhole
<1>2. QED
  BY Invariant, <1>1, PTL

(* A child that comes to its flush when the parent is done loses nothing.  *)
THEOREM LateFlushIsWhole == Spec => []LateFlushSaves
<1>1. IInv => LateFlushSaves
  <2> SUFFICES ASSUME IInv, pc = "exited", late PROVE file = cache
    BY DEF LateFlushSaves
  <2>1. /\ file.reward = cache.reward /\ file.actions = cache.actions
        /\ file.stats = cache.stats /\ file.num_samples = cache.num_samples
    BY KeysAre DEF IInv, Written
  <2>2. QED
    BY <2>1, Sizes DEF IInv, Shelf
<1>2. QED
  BY Invariant, <1>1, PTL
=============================================================================
