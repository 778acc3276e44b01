-------------------------- MODULE DeliveryProofs ---------------------------
(***************************************************************************)
(* Proofs that what is handed over arrives.  DataLoader, for every set of  *)
(* callers and keys and every batch_size, concurrency, delay and lag.      *)
(* FfmpegIo, for bytes in any number, any size of the AVIO buffer, any     *)
(* capacity of the channel and reads of any length.                        *)
(***************************************************************************)
EXTENDS DataLoader, FfmpegIo, TLAPS

----------------------------------------------------------------------------
(* DataLoader: what a caller has so far is what the batches it has awaited *)
(* say, and those have ended, so nothing changes them any more.            *)

BatchType  == [items : SUBSET Key, state : {"filling", "spawned", "running", "set", "ended"},
               values : [kind : {"unset", "none", "some"}, found : SUBSET Key]]
WaiterType == [keys : SUBSET Key, batch : Nat]

LoaderTypeOK ==
    /\ keys \in [Caller -> Seq(Key)] /\ batches \in Seq(BatchType) /\ open \in BOOLEAN
    /\ pc \in [Caller -> {"idle", "adding", "waiting", "ok", "err", "dropped"}]
    /\ pos \in [Caller -> Nat] /\ waiters \in [Caller -> Seq(WaiterType)]
    /\ DOMAIN results = Caller

\* The first n waiters that got k
Found(ws, bs, n, k) == {w \in 1..n : k \in ws[w].keys /\ k \in bs[ws[w].batch].values.found}

\* What the first n waiters give
Given(ws, bs, n) ==
    {<<k, ws[Max(Found(ws, bs, n, k))].batch>> : k \in {x \in Key : Found(ws, bs, n, x) # {}}}

\* The mutex keeps the current batch for the caller that adds to it.
LockInv ==
    /\ open => batches # << >> /\ batches[Last].state = "filling"
    /\ \A c \in Caller :
          pc[c] = "adding" =>
             /\ lock = c
             /\ open /\ waiters[c] # << >> => waiters[c][Len(waiters[c])].batch = Last

\* The first n keys of a caller wait in some batch
Asked(c, n) == \A i \in 1..n : \E w \in DOMAIN waiters[c] : keys[c][i] \in waiters[c][w].keys

Ended(c, n) ==
    \A w \in 1..n : LET b == batches[waiters[c][w].batch] IN b.state = "ended" /\ b.values.kind = "some"

CallerInv(c) ==
    /\ \A w \in DOMAIN waiters[c] :
          /\ waiters[c][w].batch \in DOMAIN batches
          /\ waiters[c][w].keys \subseteq batches[waiters[c][w].batch].items
    /\ pc[c] = "idle" => pos[c] = 0 /\ waiters[c] = << >> /\ results[c] = {}
    /\ pc[c] = "adding" => pos[c] <= Len(keys[c]) /\ Asked(c, pos[c]) /\ results[c] = {}
    /\ pc[c] \in {"waiting", "ok", "err"} => Asked(c, Len(keys[c])) /\ pos[c] <= Len(waiters[c])
    /\ pc[c] \in {"waiting", "ok"} =>
          Ended(c, pos[c]) /\ results[c] = Given(waiters[c], batches, pos[c])
    /\ pc[c] = "ok" => pos[c] = Len(waiters[c])
    /\ pc[c] = "err" =>
          \E w \in DOMAIN waiters[c] : LET b == batches[waiters[c][w].batch]
                                       IN  b.state = "ended" /\ b.values.kind # "some"

LoaderInv == LoaderTypeOK /\ LockInv /\ \A c \in Caller : CallerInv(c)

\* An upper bound that is an element is the maximum.
LEMMA MaxIs ==
    ASSUME NEW S \in SUBSET Nat, NEW m \in S, \A x \in S : x <= m
    PROVE  Max(S) = m
<1>1. \A x \in S : m >= x
    OBVIOUS
<1>2. Max(S) \in S /\ \A x \in S : Max(S) >= x
    BY <1>1, Zenon DEF Max
<1>3. Max(S) >= m /\ m >= Max(S) /\ Max(S) \in Nat /\ m \in Nat
    BY <1>1, <1>2, Zenon
<1> QED
    BY <1>3

\* Given depends on the batches that were awaited and on no other.
LEMMA GivenSame ==
    ASSUME NEW ws, NEW bs, NEW cs, NEW n, \A w \in 1..n : bs[ws[w].batch] = cs[ws[w].batch]
    PROVE  Given(ws, bs, n) = Given(ws, cs, n)
<1>1. ASSUME NEW k PROVE Found(ws, bs, n, k) = Found(ws, cs, n, k)
    BY Zenon DEF Found
<1>2. ASSUME NEW x PROVE x \in Given(ws, bs, n) <=> x \in Given(ws, cs, n)
    BY <1>1, Zenon DEF Given
<1> QED
    BY <1>2, Zenon

\* One more batch replaces what it found, and leaves the rest.
LEMMA GivenNext ==
    ASSUME NEW ws, NEW bs, NEW n \in Nat, NEW F \in SUBSET Key,
           F = ws[n + 1].keys \cap bs[ws[n + 1].batch].values.found
    PROVE  Given(ws, bs, n + 1) = Inserted(Given(ws, bs, n), F, ws[n + 1].batch)
<1>1. n + 1 \in 1 .. n + 1 /\ (\A w \in 1..n : w \in 1 .. n + 1) /\ (\A w \in 1 .. n + 1 : w \in 1..n \/ w = n + 1)
      /\ \A w \in 1 .. n + 1 : w \in Nat /\ w <= n + 1
    OBVIOUS
<1>2. ASSUME NEW k \in F PROVE Found(ws, bs, n + 1, k) # {} /\ Max(Found(ws, bs, n + 1, k)) = n + 1
    <2>1. PICK S : S = Found(ws, bs, n + 1, k)
        BY Zenon
    <2>2. n + 1 \in S
        BY <1>1, <2>1, Zenon DEF Found
    <2>3. S \in SUBSET Nat /\ \A x \in S : x <= n + 1
        BY <1>1, <2>1, Zenon DEF Found
    <2>4. Max(S) = n + 1
        BY <2>2, <2>3, MaxIs, Zenon
    <2> QED
        BY <2>1, <2>2, <2>4, Zenon
<1>3. ASSUME NEW k, k \notin F PROVE Found(ws, bs, n + 1, k) = Found(ws, bs, n, k)
    BY <1>1, <1>3, ZenonT(40) DEF Found
<1>4. ASSUME NEW x, x \in Given(ws, bs, n + 1)
      PROVE  x \in {y \in Given(ws, bs, n) : y[1] \notin F} \cup {<<k, ws[n + 1].batch>> : k \in F}
    <2>1. PICK k \in Key : Found(ws, bs, n + 1, k) # {} /\ x = <<k, ws[Max(Found(ws, bs, n + 1, k))].batch>>
        BY <1>4, Zenon DEF Given
    <2>2. CASE k \in F
        BY <1>2, <2>1, <2>2, Zenon
    <2>3. CASE k \notin F
        <3>1. Found(ws, bs, n, k) # {} /\ x = <<k, ws[Max(Found(ws, bs, n, k))].batch>>
            BY <1>3, <2>1, <2>3, Zenon
        <3>2. x \in Given(ws, bs, n)
            BY <3>1, Zenon DEF Given
        <3>3. x[1] = k
            BY <3>1
        <3> QED
            BY <2>3, <3>2, <3>3, Zenon
    <2> QED
        BY <2>2, <2>3
<1>5. ASSUME NEW x \in Given(ws, bs, n), x[1] \notin F PROVE x \in Given(ws, bs, n + 1)
    <2>1. PICK k \in Key : Found(ws, bs, n, k) # {} /\ x = <<k, ws[Max(Found(ws, bs, n, k))].batch>>
        BY Zenon DEF Given
    <2>2. x[1] = k
        BY <2>1
    <2>3. Found(ws, bs, n + 1, k) = Found(ws, bs, n, k)
        BY <1>3, <1>5, <2>2, Zenon
    <2> QED
        BY <2>1, <2>3, Zenon DEF Given
<1>6. ASSUME NEW k \in F PROVE <<k, ws[n + 1].batch>> \in Given(ws, bs, n + 1)
    <2>1. Found(ws, bs, n + 1, k) # {} /\ Max(Found(ws, bs, n + 1, k)) = n + 1 /\ k \in Key
        BY <1>2, SMTT(20), Z3T(20)
    <2> QED
        BY <2>1, Zenon DEF Given
<1>7. ASSUME NEW x, x \in Inserted(Given(ws, bs, n), F, ws[n + 1].batch) PROVE x \in Given(ws, bs, n + 1)
    <2>1. x \in {y \in Given(ws, bs, n) : y[1] \notin F} \/ x \in {<<k, ws[n + 1].batch>> : k \in F}
        BY <1>7, Zenon DEF Inserted
    <2>2. CASE x \in {y \in Given(ws, bs, n) : y[1] \notin F}
        BY <1>5, <2>2, Zenon
    <2>3. CASE x \in {<<k, ws[n + 1].batch>> : k \in F}
        BY <1>6, <2>3, Zenon
    <2> QED
        BY <2>1, <2>2, <2>3
<1>8. ASSUME NEW x, x \in Given(ws, bs, n + 1) PROVE x \in Inserted(Given(ws, bs, n), F, ws[n + 1].batch)
    BY <1>4, <1>8, ZenonT(40) DEF Inserted
<1> QED
    BY <1>7, <1>8, ZenonT(40)

\* No step takes a key out of a batch or touches one that has ended.
Grow ==
    \A b \in DOMAIN batches :
        /\ b \in DOMAIN batches' /\ batches[b].items \subseteq batches'[b].items
        /\ batches[b].state = "ended" => batches'[b] = batches[b]

\* So a caller that takes no step is as right as before.
LEMMA CallerFrame ==
    ASSUME LoaderTypeOK, NEW c \in Caller, CallerInv(c), Grow, keys' = keys, pc'[c] = pc[c], pos'[c] = pos[c],
           waiters'[c] = waiters[c], results'[c] = results[c]
    PROVE  CallerInv(c)'
<1>1. PICK ws \in Seq(WaiterType) : ws = waiters[c]
    BY Zenon DEF LoaderTypeOK
<1>2. PICK n \in Nat : n = pos[c]
    BY Zenon DEF LoaderTypeOK
<1>3. Len(ws) \in Nat /\ DOMAIN ws = 1..Len(ws)
    OBVIOUS
<1>4. \A w \in DOMAIN ws : /\ ws[w].batch \in DOMAIN batches'
                           /\ ws[w].keys \subseteq batches'[ws[w].batch].items
    BY <1>1, Zenon DEF CallerInv, Grow
<1>5. \A w \in DOMAIN ws : batches[ws[w].batch].state = "ended" => batches'[ws[w].batch] = batches[ws[w].batch]
    BY <1>1, Zenon DEF CallerInv, Grow
<1>6. \A m : Asked(c, m)' <=> Asked(c, m)
    BY Zenon DEF Asked
<1>7. ASSUME pc[c] \in {"waiting", "ok"}
      PROVE  Ended(c, n)' /\ results[c] = Given(ws, batches, n)'
    <2>1. n <= Len(ws) /\ Ended(c, n) /\ results[c] = Given(ws, batches, n)
        BY <1>1, <1>2, <1>7 DEF CallerInv
    <2>2. \A w \in 1..n : w \in DOMAIN ws
        BY <1>3, <2>1
    <2>3. \A w \in 1..n : batches[ws[w].batch] = batches'[ws[w].batch]
        BY <1>1, <1>5, <2>1, <2>2, Zenon DEF Ended
    <2>4. Ended(c, n)'
        BY <1>1, <2>1, <2>3, ZenonT(40) DEF Ended
    <2> QED
        BY <2>1, <2>3, <2>4, GivenSame, ZenonT(30)
<1>8. ASSUME pc[c] = "err"
      PROVE  \E w \in DOMAIN ws : batches'[ws[w].batch].state = "ended" /\ batches'[ws[w].batch].values.kind # "some"
    BY <1>1, <1>5, <1>8, Zenon DEF CallerInv
<1> QED
    BY <1>1, <1>2, <1>4, <1>6, <1>7, <1>8, Zenon DEF CallerInv

InPlace(q, b, r, p) ==
    /\ p \in Seq(BatchType) /\ Len(p) = Len(q) /\ DOMAIN p = DOMAIN q /\ p[b] = r
    /\ \A a \in DOMAIN q : a # b => p[a] = q[a]

\* A batch in its place with something else in it.
LEMMA BatchSet ==
    ASSUME NEW q \in Seq(BatchType), NEW b \in DOMAIN q, NEW r \in BatchType
    PROVE  InPlace(q, b, r, [q EXCEPT ![b] = r])
BY DEF InPlace

\* The task of a batch changes that batch, which neither is the current one nor
\* has ended.
LEMMA TaskChanges ==
    ASSUME LoaderInv, NEW b \in DOMAIN batches, TaskStep(b)
    PROVE  /\ batches' \in Seq(BatchType) /\ Len(batches') = Len(batches) /\ Grow
           /\ open => batches'[Last].state = "filling"
           /\ UNCHANGED <<keys, open, lock, callers>>
<1>1. batches \in Seq(BatchType) /\ batches[b] \in BatchType
    BY DEF LoaderInv, LoaderTypeOK
<1>2. batches[b].state \notin {"ended", "filling"} /\ UNCHANGED <<keys, open, lock, callers>>
    BY Zenon DEF TaskStep, Acquire, SetValues, End, Panic
<1>3. PICK r \in BatchType : batches' = [batches EXCEPT ![b] = r] /\ r.items = batches[b].items
    <2>1. CASE Acquire(b)
        <3>1. [batches[b] EXCEPT !.state = "running"] \in BatchType
            BY <1>1 DEF BatchType
        <3> QED
            BY <2>1, <3>1, Zenon DEF Acquire, BatchType
    <2>2. CASE SetValues(b)
        <3>1. PICK v : /\ v \in {Failed} \cup {Some(found) : found \in SUBSET Key}
                       /\ batches' = [batches EXCEPT ![b].state = "set", ![b].values = v]
            BY <2>2, Zenon DEF SetValues
        <3>2. v \in [kind : {"unset", "none", "some"}, found : SUBSET Key]
            BY <3>1 DEF Failed, Some
        <3>3. PICK r : r = [batches[b] EXCEPT !.state = "set", !.values = v]
            BY Zenon
        <3>4. r \in BatchType /\ r.items = batches[b].items
            BY <1>1, <3>2, <3>3, Zenon DEF BatchType
        <3>5. batches' = [batches EXCEPT ![b] = r]
            BY <1>1, <3>1, <3>3, Zenon
        <3> QED
            BY <3>4, <3>5, Zenon
    <2>3. CASE End(b) \/ Panic(b)
        <3>1. [batches[b] EXCEPT !.state = "ended"] \in BatchType
            BY <1>1 DEF BatchType
        <3> QED
            BY <2>3, <3>1 DEF End, Panic, BatchType
    <2> QED
        BY <2>1, <2>2, <2>3 DEF TaskStep
<1>4. /\ batches' \in Seq(BatchType) /\ Len(batches') = Len(batches) /\ DOMAIN batches' = DOMAIN batches
      /\ batches'[b] = r /\ \A a \in DOMAIN batches : a # b => batches'[a] = batches[a]
    <2>1. InPlace(batches, b, r, batches')
        BY <1>1, <1>3, BatchSet, Zenon
    <2> QED
        BY <2>1, Zenon DEF InPlace
<1>5. Grow
    BY <1>2, <1>3, <1>4, Zenon DEF Grow
<1>6. open => batches'[Last].state = "filling"
    <2>1. open => batches # << >> /\ batches[Last].state = "filling"
        BY DEF LoaderInv, LockInv
    <2>2. open => Last \in DOMAIN batches
        BY <1>1, <2>1 DEF Last
    <2> QED
        BY <1>2, <1>4, <2>1, <2>2, Zenon
<1> QED
    BY <1>2, <1>4, <1>5, <1>6

\* The task of a batch, for all callers.
LEMMA LoaderTask == ASSUME LoaderInv, NEW b \in DOMAIN batches, TaskStep(b) PROVE LoaderInv'
<1>1. /\ batches' \in Seq(BatchType) /\ Len(batches') = Len(batches) /\ Grow
      /\ open => batches'[Last].state = "filling"
      /\ UNCHANGED <<keys, open, lock, callers>>
    BY TaskChanges
<1>2. LoaderTypeOK'
    BY <1>1 DEF LoaderInv, LoaderTypeOK, callers
<1>3. open => batches' # << >>
    <2>1. batches \in Seq(BatchType) /\ (open => batches # << >>)
        BY DEF LoaderInv, LoaderTypeOK, LockInv
    <2> QED
        BY <1>1, <2>1
<1>4. LockInv'
    BY <1>1, <1>3, Zenon DEF LoaderInv, LockInv, Last, callers
<1>5. ASSUME NEW c \in Caller PROVE CallerInv(c)'
    BY <1>1, CallerFrame DEF LoaderInv, callers
<1> QED
    BY <1>2, <1>4, <1>5 DEF LoaderInv

\* tokio::spawn of the current batch.
LEMMA SpawnedFacts ==
    ASSUME NEW q \in Seq(BatchType), q # << >>
    PROVE  /\ Spawned(q) \in Seq(BatchType) /\ Len(Spawned(q)) = Len(q) /\ DOMAIN Spawned(q) = DOMAIN q
           /\ Spawned(q)[Len(q)].items = q[Len(q)].items
           /\ \A a \in DOMAIN q : a # Len(q) => Spawned(q)[a] = q[a]
<1>1. Len(q) \in DOMAIN q /\ q[Len(q)] \in BatchType
    OBVIOUS
<1>2. PICK r : r = [q[Len(q)] EXCEPT !.state = "spawned"]
    BY Zenon
<1>3. r \in BatchType /\ r.items = q[Len(q)].items
    BY <1>1, <1>2 DEF BatchType
<1>4. Spawned(q) = [q EXCEPT ![Len(q)] = r]
    BY <1>1, <1>2 DEF Spawned
<1>5. InPlace(q, Len(q), r, Spawned(q))
    BY <1>1, <1>3, <1>4, BatchSet, Zenon
<1> QED
    BY <1>3, <1>5, Zenon DEF InPlace

\* batch_loop spawns the current batch, or does not.
LEMMA LoaderLoop == LoaderInv /\ LoopRound => LoaderInv'
<1> SUFFICES ASSUME LoaderInv, LoopRound PROVE LoaderInv'
    OBVIOUS
<1>1. batches \in Seq(BatchType) /\ open \in BOOLEAN /\ (open => batches # << >> /\ batches[Last].state = "filling")
    BY DEF LoaderInv, LoaderTypeOK, LockInv
<1>2. lock = Free /\ UNCHANGED <<keys, lock, callers>>
    BY DEF LoopRound
<1>3. \A c \in Caller : pc[c] # "adding"
    BY <1>2, DataLoaderAssumption DEF LoaderInv, LockInv
<1>4. batches' \in Seq(BatchType) /\ open' \in BOOLEAN /\ Grow /\ (open' => batches' = batches /\ open)
    <2>1. CASE batches' = batches /\ open' = open
        BY <1>1, <2>1 DEF Grow
    <2>2. CASE open /\ batches' = Spawned(batches) /\ open' = FALSE
        <3>1. /\ batches' \in Seq(BatchType) /\ DOMAIN batches' = DOMAIN batches
              /\ batches'[Len(batches)].items = batches[Len(batches)].items
              /\ \A a \in DOMAIN batches : a # Len(batches) => batches'[a] = batches[a]
            BY <1>1, <2>2, SpawnedFacts, Zenon
        <3>2. Grow
            BY <1>1, <2>2, <3>1, Zenon DEF Grow, Last
        <3> QED
            BY <2>2, <3>1, <3>2, Zenon
    <2> QED
        BY <2>1, <2>2, Zenon DEF LoopRound
<1>5. LoaderTypeOK'
    BY <1>2, <1>4 DEF LoaderInv, LoaderTypeOK, callers
<1>6. LockInv'
    BY <1>1, <1>2, <1>3, <1>4, Zenon DEF LockInv, Last, callers
<1>7. ASSUME NEW c \in Caller PROVE CallerInv(c)'
    BY <1>2, <1>4, CallerFrame DEF LoaderInv, callers
<1> QED
    BY <1>5, <1>6, <1>7 DEF LoaderInv

\* A step of one caller that leaves the batches alone.
LEMMA CallerAlone ==
    ASSUME LoaderInv, NEW c \in Caller, UNCHANGED <<keys, batches, open>>, LoaderTypeOK', LockInv', CallerInv(c)',
           \A d \in Caller : d # c => /\ pc'[d] = pc[d] /\ pos'[d] = pos[d] /\ waiters'[d] = waiters[d]
                                      /\ results'[d] = results[d]
    PROVE  LoaderInv'
<1>1. Grow
    BY DEF Grow
<1>2. ASSUME NEW d \in Caller PROVE CallerInv(d)'
    BY <1>1, CallerFrame DEF LoaderInv
<1> QED
    BY <1>2 DEF LoaderInv

\* The caller has the mutex; nobody else has.
LEMMA LoaderLock == ASSUME LoaderInv, NEW c \in Caller, Lock(c) PROVE LoaderInv'
<1>1. LoaderTypeOK /\ LockInv /\ CallerInv(c)
    BY DEF LoaderInv
<1>2. /\ pc[c] = "idle" /\ lock = Free /\ lock' = c /\ pc' = [pc EXCEPT ![c] = "adding"]
      /\ UNCHANGED <<keys, batches, open, pos, waiters, results>>
    BY DEF Lock
<1>3. LoaderTypeOK'
    BY <1>1, <1>2 DEF LoaderTypeOK
<1>4. pc'[c] = "adding" /\ \A d \in Caller : d # c => pc'[d] = pc[d] /\ pc[d] # "adding"
    BY <1>1, <1>2, DataLoaderAssumption DEF LoaderTypeOK, LockInv
<1>5. pos[c] = 0 /\ waiters[c] = << >> /\ results[c] = {}
    BY <1>1, <1>2 DEF CallerInv
<1>6. LockInv'
    BY <1>1, <1>2, <1>4, <1>5, Zenon DEF LockInv, Last
<1>7. 0 <= Len(keys[c]) /\ Asked(c, 0)'
    BY <1>1 DEF Asked, LoaderTypeOK
<1>8. CallerInv(c)'
    BY <1>1, <1>2, <1>4, <1>5, <1>7 DEF CallerInv
<1> QED
    BY <1>2, <1>3, <1>4, <1>6, <1>8, CallerAlone

\* All keys are added: the mutex is free and nothing was awaited yet.
LEMMA LoaderUnlock == ASSUME LoaderInv, NEW c \in Caller, Unlock(c) PROVE LoaderInv'
<1>1. LoaderTypeOK /\ LockInv /\ CallerInv(c)
    BY DEF LoaderInv
<1>2. /\ pc[c] = "adding" /\ pos[c] = Len(keys[c]) /\ lock' = Free /\ pc' = [pc EXCEPT ![c] = "waiting"]
      /\ pos' = [pos EXCEPT ![c] = 0] /\ UNCHANGED <<keys, batches, open, waiters, results>>
    BY DEF Unlock
<1>3. LoaderTypeOK'
    BY <1>1, <1>2 DEF LoaderTypeOK
<1>4. pc'[c] = "waiting" /\ pos'[c] = 0
      /\ \A d \in Caller : d # c => pc'[d] = pc[d] /\ pos'[d] = pos[d] /\ pc[d] # "adding"
    BY <1>1, <1>2 DEF LoaderTypeOK, LockInv
<1>5. LockInv'
    BY <1>1, <1>2, <1>4, Zenon DEF LockInv, Last
<1>6. Asked(c, Len(keys[c]))' /\ results[c] = {} /\ Len(waiters[c]) >= 0 /\ Ended(c, 0)'
    BY <1>1, <1>2 DEF Asked, CallerInv, LoaderTypeOK, Ended
<1>7. Given(waiters[c], batches, 0) = {}
    <2>1. \A k : Found(waiters[c], batches, 0, k) = {}
        BY SMTT(20), Z3T(20) DEF Found
    <2> QED
        BY <2>1, Zenon DEF Given
<1>8. CallerInv(c)'
    BY <1>1, <1>2, <1>4, <1>6, <1>7 DEF CallerInv
<1> QED
    BY <1>2, <1>3, <1>4, <1>5, <1>8, CallerAlone

\* One waiter more: its batch has ended, and gives what it found or the error.
LEMMA LoaderAwait == ASSUME LoaderInv, NEW c \in Caller, Await(c) PROVE LoaderInv'
<1>1. LoaderTypeOK /\ LockInv /\ CallerInv(c)
    BY DEF LoaderInv
<1>2. PICK ws \in Seq(WaiterType) : ws = waiters[c]
    BY <1>1, Zenon DEF LoaderTypeOK
<1>3. PICK n \in Nat : n = pos[c]
    BY <1>1, Zenon DEF LoaderTypeOK
<1>4. PICK b : b = ws[n + 1].batch
    BY Zenon
<1>5. pc[c] = "waiting" /\ n < Len(ws) /\ batches[b].state = "ended"
      /\ UNCHANGED <<keys, batches, open, lock, waiters>>
    BY <1>2, <1>3, <1>4, Zenon DEF Await
<1>6. n + 1 \in 1..Len(ws) /\ n + 1 \in DOMAIN ws /\ n + 1 <= Len(ws) /\ n + 1 \in Nat
    BY <1>5
<1>7. CASE batches[b].values.kind = "some"
    <2>1. PICK F : F = ws[n + 1].keys \cap batches[b].values.found
        BY Zenon
    <2>2. /\ results' = [results EXCEPT ![c] = Inserted(results[c], F, b)]
          /\ pos' = [pos EXCEPT ![c] = n + 1] /\ pc' = pc
        BY <1>2, <1>3, <1>4, <1>7, <2>1, Zenon DEF Await
    <2>3. LoaderTypeOK'
        BY <1>1, <1>5, <1>6, <2>2 DEF LoaderTypeOK
    <2>4. F \in SUBSET Key
        <3>1. ws[n + 1] \in WaiterType
            BY <1>6
        <3> QED
            BY <2>1, <3>1 DEF WaiterType
    <2>5. results'[c] = Inserted(results[c], F, b) /\ pos'[c] = n + 1
          /\ \A d \in Caller : d # c => results'[d] = results[d] /\ pos'[d] = pos[d]
        BY <1>1, <2>2 DEF LoaderTypeOK
    <2>6. results[c] = Given(ws, batches, n) /\ Ended(c, n) /\ Asked(c, Len(keys[c]))
        BY <1>1, <1>2, <1>3, <1>5 DEF CallerInv
    <2>7. results'[c] = Given(ws, batches, n + 1)
        <3>1. Given(ws, batches, n + 1) = Inserted(Given(ws, batches, n), F, ws[n + 1].batch)
            BY <1>4, <2>1, <2>4, GivenNext, Zenon
        <3> QED
            BY <1>4, <2>5, <2>6, <3>1, Zenon
    <2>8. Ended(c, n + 1)'
        <3>1. \A w \in 1 .. n + 1 : w \in 1..n \/ w = n + 1
            OBVIOUS
        <3> QED
            BY <1>2, <1>4, <1>5, <1>7, <2>6, <3>1, Zenon DEF Ended
    <2>9. LockInv'
        BY <1>1, <1>5, <2>2, Zenon DEF LockInv, Last
    <2>10. Asked(c, Len(keys[c]))'
        BY <1>5, <2>6, Zenon DEF Asked
    <2>11. CallerInv(c)'
        BY <1>1, <1>2, <1>5, <1>6, <2>2, <2>5, <2>7, <2>8, <2>10, Zenon DEF CallerInv
    <2> QED
        BY <1>5, <2>2, <2>3, <2>5, <2>9, <2>11, CallerAlone
<1>8. CASE batches[b].values.kind # "some"
    <2>1. pc' = [pc EXCEPT ![c] = "err"] /\ UNCHANGED <<results, pos>>
        BY <1>2, <1>3, <1>4, <1>8 DEF Await
    <2>2. LoaderTypeOK'
        BY <1>1, <1>5, <2>1 DEF LoaderTypeOK
    <2>3. pc'[c] = "err" /\ \A d \in Caller : d # c => pc'[d] = pc[d]
        BY <1>1, <2>1 DEF LoaderTypeOK
    <2>4. LockInv'
        BY <1>1, <1>5, <2>1, <2>3, Zenon DEF LockInv, Last
    <2>5. Asked(c, Len(keys[c]))'
        BY <1>1, <1>5, Zenon DEF Asked, CallerInv
    <2>6. CallerInv(c)'
        BY <1>1, <1>2, <1>4, <1>5, <1>6, <1>8, <2>1, <2>3, <2>5, Zenon DEF CallerInv
    <2> QED
        BY <1>5, <2>1, <2>2, <2>3, <2>4, <2>6, CallerAlone, SMTT(20), Z3T(20)
<1> QED
    BY <1>7, <1>8

\* The call returns, or its future is dropped.
LEMMA LoaderLeaves == ASSUME LoaderInv, NEW c \in Caller, Return(c) \/ DropCall(c) PROVE LoaderInv'
<1>1. LoaderTypeOK /\ LockInv /\ CallerInv(c)
    BY DEF LoaderInv
<1>2. PICK s \in {"ok", "dropped"} : pc' = [pc EXCEPT ![c] = s]
    BY DEF Return, DropCall
<1>3. pc[c] # "adding" /\ UNCHANGED <<keys, batches, open, lock, pos, waiters, results>>
      /\ (s = "ok" => pc[c] = "waiting" /\ pos[c] = Len(waiters[c]))
    <2>1. pc[c] \in {"idle", "waiting"} /\ pc'[c] = s
        BY <1>1, <1>2 DEF Return, DropCall, LoaderTypeOK
    <2> QED
        BY <1>1, <2>1 DEF Return, DropCall, LoaderTypeOK
<1>4. LoaderTypeOK'
    BY <1>1, <1>2, <1>3 DEF LoaderTypeOK
<1>5. pc'[c] = s /\ \A d \in Caller : d # c => pc'[d] = pc[d]
    BY <1>1, <1>2 DEF LoaderTypeOK
<1>6. LockInv'
    BY <1>1, <1>3, <1>5, Zenon DEF LockInv, Last
<1>7. \A m : (Asked(c, m)' <=> Asked(c, m)) /\ (Ended(c, m)' <=> Ended(c, m))
    BY <1>3, ZenonT(30) DEF Asked, Ended
<1>8. CallerInv(c)'
    BY <1>1, <1>3, <1>5, <1>7 DEF CallerInv
<1> QED
    BY <1>3, <1>4, <1>5, <1>6, <1>8, CallerAlone

\* The current batch has the key, or a new one has.
LEMMA WithKeyFacts ==
    ASSUME LoaderInv, NEW k \in Key
    PROVE  /\ WithKey(k) \in Seq(BatchType) /\ WithKey(k) # << >>
           /\ open => Len(WithKey(k)) = Last
           /\ k \in WithKey(k)[Len(WithKey(k))].items /\ WithKey(k)[Len(WithKey(k))].state = "filling"
           /\ \A b \in DOMAIN batches : /\ b \in DOMAIN WithKey(k) /\ batches[b].items \subseteq WithKey(k)[b].items
                                        /\ batches[b].state = "ended" => WithKey(k)[b] = batches[b] /\ b # Len(WithKey(k))
<1>1. PICK bs : bs = WithKey(k)
    BY Zenon
<1>2. batches \in Seq(BatchType) /\ (open => batches # << >> /\ batches[Last].state = "filling")
    BY DEF LoaderInv, LoaderTypeOK, LockInv
<1>3. CASE open
    <2>1. Last \in DOMAIN batches /\ batches[Last] \in BatchType
        BY <1>2, <1>3 DEF Last
    <2>2. PICK r : r = [batches[Last] EXCEPT !.items = @ \cup {k}]
        BY Zenon
    <2>3. r \in BatchType /\ r.items = batches[Last].items \cup {k} /\ r.state = "filling"
        BY <1>2, <1>3, <2>1, <2>2 DEF BatchType
    <2>4. bs = [batches EXCEPT ![Last] = r]
        BY <1>1, <1>3, <2>1, <2>2 DEF WithKey
    <2>5. InPlace(batches, Last, r, bs)
        BY <1>2, <2>1, <2>3, <2>4, BatchSet, Zenon
    <2>6. Len(bs) = Last /\ bs[Last] = r /\ bs \in Seq(BatchType) /\ DOMAIN bs = DOMAIN batches
          /\ \A a \in DOMAIN batches : a # Last => bs[a] = batches[a]
        BY <2>5, Zenon DEF InPlace, Last
    <2>7. \A b \in DOMAIN batches : /\ b \in DOMAIN bs /\ batches[b].items \subseteq bs[b].items
                                    /\ batches[b].state = "ended" => bs[b] = batches[b] /\ b # Last
        BY <1>2, <1>3, <2>3, <2>6
    <2>8. bs # << >>
        BY <2>1, <2>6
    <2> QED
        BY <1>1, <1>3, <2>3, <2>6, <2>7, <2>8, Zenon
<1>4. CASE ~open
    <2>1. PICK r : r = [items |-> {k}, state |-> "filling", values |-> Unset]
        BY Zenon
    <2>2. r \in BatchType /\ r.items = {k} /\ r.state = "filling"
        BY <2>1 DEF BatchType, Unset
    <2>3. bs = Append(batches, r)
        BY <1>1, <1>4, <2>1, Zenon DEF WithKey
    <2>4. bs \in Seq(BatchType) /\ Len(bs) = Len(batches) + 1 /\ bs[Len(batches) + 1] = r
          /\ \A b \in DOMAIN batches : b \in DOMAIN bs /\ bs[b] = batches[b] /\ b # Len(batches) + 1
        BY <1>2, <2>2, <2>3
    <2>5. bs # << >>
        BY <1>2, <2>4
    <2> QED
        BY <1>1, <1>4, <2>2, <2>4, <2>5, Zenon
<1> QED
    BY <1>3, <1>4

Joined(ws, k, n, vs) ==
    /\ vs \in Seq(WaiterType) /\ vs # << >> /\ vs[Len(vs)].batch = n /\ k \in vs[Len(vs)].keys
    /\ \A w \in DOMAIN ws : w \in DOMAIN vs /\ ws[w].keys \subseteq vs[w].keys
    /\ \A w \in DOMAIN vs : \/ w \in DOMAIN ws /\ vs[w] = ws[w]
                            \/ vs[w].batch = n /\ vs[w].keys = {k}
                            \/ w \in DOMAIN ws /\ vs[w].batch = n /\ ws[w].batch = n /\ vs[w].keys = ws[w].keys \cup {k}

\* A caller's list has the key with the batch it went into, and lost nothing.
LEMMA WaitersJoin ==
    ASSUME NEW c, NEW k \in Key, NEW n \in Nat, waiters[c] \in Seq(WaiterType),
           open /\ waiters[c] # << >> => waiters[c][Len(waiters[c])].batch = n
    PROVE  Joined(waiters[c], k, n, WaitersWith(c, k, n))
<1>1. PICK ws \in Seq(WaiterType) : ws = waiters[c]
    BY Zenon
<1>2. PICK vs : vs = WaitersWith(c, k, n)
    BY Zenon
<1>3. CASE ws = << >> \/ ~open
    <2>1. PICK v : v = [keys |-> {k}, batch |-> n]
        BY Zenon
    <2>2. v \in WaiterType /\ v.keys = {k} /\ v.batch = n
        BY <2>1 DEF WaiterType
    <2>3. vs = Append(ws, v)
        BY <1>1, <1>2, <1>3, <2>1, Zenon DEF WaitersWith
    <2>4. vs \in Seq(WaiterType) /\ Len(vs) = Len(ws) + 1 /\ vs[Len(ws) + 1] = v /\ vs # << >>
          /\ (\A w \in DOMAIN ws : w \in DOMAIN vs /\ vs[w] = ws[w])
          /\ \A w \in DOMAIN vs : w \in DOMAIN ws \/ w = Len(ws) + 1
        BY <2>2, <2>3, SMTT(20), Z3T(20)
    <2>5. Joined(ws, k, n, vs)
        BY <2>2, <2>4, Zenon DEF Joined
    <2> QED
        BY <1>1, <1>2, <2>5, Zenon
<1>4. CASE ws # << >> /\ open
    <2>1. Len(ws) \in DOMAIN ws /\ ws[Len(ws)] \in WaiterType /\ ws[Len(ws)].batch = n
        BY <1>1, <1>4
    <2>2. PICK v : v = [ws[Len(ws)] EXCEPT !.keys = @ \cup {k}]
        BY Zenon
    <2>3. v \in WaiterType /\ v.keys = ws[Len(ws)].keys \cup {k} /\ v.batch = n
        BY <2>1, <2>2 DEF WaiterType
    <2>4. vs = [ws EXCEPT ![Len(ws)] = v]
        BY <1>1, <1>2, <1>4, <2>1, <2>2 DEF WaitersWith
    <2>5. vs \in Seq(WaiterType) /\ Len(vs) = Len(ws) /\ vs[Len(ws)] = v /\ DOMAIN vs = DOMAIN ws
          /\ \A w \in DOMAIN ws : w # Len(ws) => vs[w] = ws[w]
        BY <2>1, <2>3, <2>4
    <2>6. vs # << >>
        BY <2>1, <2>5
    <2>7. Joined(ws, k, n, vs)
        BY <2>1, <2>3, <2>5, <2>6 DEF Joined
    <2> QED
        BY <1>1, <1>2, <2>7, Zenon
<1> QED
    BY <1>3, <1>4

\* One key is added, and the batch spawned if it is full.
LEMMA LoaderAddKey == ASSUME LoaderInv, NEW c \in Caller, AddKey(c) PROVE LoaderInv'
<1>1. LoaderTypeOK /\ LockInv /\ CallerInv(c)
    BY DEF LoaderInv
<1>2. PICK p \in Nat : p = pos[c]
    BY <1>1, Zenon DEF LoaderTypeOK
<1>3. PICK k : k = keys[c][p + 1]
    BY Zenon
<1>4. PICK bs : bs = WithKey(k)
    BY Zenon
<1>5. PICK n : n = Len(bs)
    BY Zenon
<1>6. PICK vs : vs = WaitersWith(c, k, n)
    BY Zenon
<1>7. /\ pc[c] = "adding" /\ p < Len(keys[c]) /\ pos' = [pos EXCEPT ![c] = p + 1]
      /\ waiters' = [waiters EXCEPT ![c] = vs]
      /\ \/ batches' = Spawned(bs) /\ open' = FALSE
         \/ batches' = bs /\ open' = TRUE
      /\ UNCHANGED <<keys, lock, pc, results>>
    BY <1>2, <1>3, <1>4, <1>5, <1>6, Zenon DEF AddKey
<1>8. keys[c] \in Seq(Key) /\ k \in Key /\ p + 1 \in Nat /\ p + 1 <= Len(keys[c])
    <2>1. keys[c] \in Seq(Key)
        BY <1>1 DEF LoaderTypeOK
    <2> QED
        BY <1>3, <1>7, <2>1
<1>9. /\ bs \in Seq(BatchType) /\ bs # << >> /\ (open => n = Last) /\ k \in bs[n].items /\ bs[n].state = "filling"
      /\ \A b \in DOMAIN batches : /\ b \in DOMAIN bs /\ batches[b].items \subseteq bs[b].items
                                   /\ batches[b].state = "ended" => bs[b] = batches[b] /\ b # n
    BY <1>4, <1>5, <1>8, WithKeyFacts, Zenon
<1>10. n \in Nat /\ n \in DOMAIN bs
    BY <1>5, <1>9
<1>11. /\ batches' \in Seq(BatchType) /\ batches' # << >> /\ Len(batches') = n /\ DOMAIN batches' = DOMAIN bs
       /\ batches'[n].items = bs[n].items /\ \A b \in DOMAIN bs : b # n => batches'[b] = bs[b]
    <2>1. CASE batches' = bs
        BY <1>5, <1>9, <2>1
    <2>2. CASE batches' = Spawned(bs)
        <3>1. /\ batches' \in Seq(BatchType) /\ Len(batches') = n /\ DOMAIN batches' = DOMAIN bs
              /\ batches'[n].items = bs[n].items /\ \A b \in DOMAIN bs : b # n => batches'[b] = bs[b]
            BY <1>5, <1>9, <2>2, SpawnedFacts, Zenon
        <3> QED
            BY <1>10, <3>1
    <2> QED
        BY <1>7, <2>1, <2>2
<1>12. Grow
    BY <1>9, <1>11, Zenon DEF Grow
<1>13. waiters[c] \in Seq(WaiterType) /\ (open /\ waiters[c] # << >> => waiters[c][Len(waiters[c])].batch = n)
    BY <1>1, <1>7, <1>9 DEF LoaderTypeOK, LockInv
<1>14. Joined(waiters[c], k, n, vs)
    BY <1>6, <1>8, <1>10, <1>13, WaitersJoin, Zenon
<1>15. vs \in Seq(WaiterType) /\ vs # << >> /\ vs[Len(vs)].batch = n /\ k \in vs[Len(vs)].keys
    BY <1>14, Zenon DEF Joined
<1>16. waiters'[c] = vs /\ pos'[c] = p + 1
       /\ \A d \in Caller : d # c => waiters'[d] = waiters[d] /\ pos'[d] = pos[d]
    BY <1>1, <1>7 DEF LoaderTypeOK
<1>17. LoaderTypeOK'
    BY <1>1, <1>7, <1>8, <1>11, <1>15, Zenon DEF LoaderTypeOK
<1>18. \A d \in Caller : d # c => pc[d] # "adding"
    BY <1>1, <1>7 DEF LockInv
<1>19. LockInv'
    <2>1. open' => batches' # << >> /\ batches'[Len(batches')].state = "filling"
        BY <1>7, <1>9, <1>11, Zenon
    <2>2. lock = c
        BY <1>1, <1>7, Zenon DEF LockInv
    <2> QED
        BY <1>7, <1>11, <1>15, <1>16, <1>18, <2>1, <2>2, Zenon DEF LockInv, Last
<1>20. CallerInv(c)'
    <2>1. \A w \in DOMAIN vs : vs[w].batch \in DOMAIN batches' /\ vs[w].keys \subseteq batches'[vs[w].batch].items
        <3>1. \A w \in DOMAIN waiters[c] : /\ waiters[c][w].batch \in DOMAIN batches'
                                           /\ waiters[c][w].keys \subseteq batches'[waiters[c][w].batch].items
            BY <1>1, <1>12, Zenon DEF CallerInv, Grow
        <3>2. n \in DOMAIN batches' /\ k \in batches'[n].items
            BY <1>9, <1>10, <1>11, Zenon
        <3> SUFFICES ASSUME NEW w \in DOMAIN vs
                     PROVE  vs[w].batch \in DOMAIN batches' /\ vs[w].keys \subseteq batches'[vs[w].batch].items
            BY Zenon
        <3>3. \/ w \in DOMAIN waiters[c] /\ vs[w] = waiters[c][w]
              \/ vs[w].batch = n /\ vs[w].keys = {k}
              \/ /\ w \in DOMAIN waiters[c] /\ vs[w].batch = n /\ waiters[c][w].batch = n
                 /\ vs[w].keys = waiters[c][w].keys \cup {k}
            BY <1>14, Zenon DEF Joined
        <3> QED
            BY <3>1, <3>2, <3>3, Zenon
    <2>2. Asked(c, p + 1)'
        <3>1. Asked(c, p) /\ p \in Nat
            BY <1>1, <1>2, <1>7 DEF CallerInv
        <3>2. \A i \in 1 .. p + 1 : i \in 1..p \/ i = p + 1
            BY <3>1
        <3>3. \A w \in DOMAIN waiters[c] : w \in DOMAIN vs /\ waiters[c][w].keys \subseteq vs[w].keys
            BY <1>14, Zenon DEF Joined
        <3>4. Len(vs) \in DOMAIN vs
            BY <1>15
        <3> SUFFICES ASSUME NEW i \in 1 .. p + 1 PROVE \E w \in DOMAIN vs : keys[c][i] \in vs[w].keys
            BY <1>7, <1>16, Zenon DEF Asked
        <3> QED
            BY <1>3, <1>15, <3>1, <3>2, <3>3, <3>4, ZenonT(30) DEF Asked
    <2>3. results[c] = {}
        BY <1>1, <1>7 DEF CallerInv
    <2> QED
        BY <1>7, <1>8, <1>16, <2>1, <2>2, <2>3 DEF CallerInv
<1>21. ASSUME NEW d \in Caller, d # c PROVE CallerInv(d)'
    BY <1>7, <1>12, <1>16, <1>21, CallerFrame DEF LoaderInv
<1> QED
    BY <1>17, <1>19, <1>20, <1>21 DEF LoaderInv

\* Nobody has called, and there is no batch.
LEMMA LoaderInit == Init => LoaderInv
<1> SUFFICES ASSUME Init PROVE LoaderInv
    OBVIOUS
<1>1. << >> \in Seq(BatchType) /\ << >> \in Seq(WaiterType) /\ DOMAIN << >> = {}
    OBVIOUS
<1>2. LoaderTypeOK
    BY <1>1, DataLoaderAssumption, Zenon DEF Init, LoaderTypeOK
<1>3. LockInv
    BY DEF Init, LockInv
<1>4. ASSUME NEW c \in Caller PROVE CallerInv(c)
    BY <1>1 DEF Init, CallerInv
<1> QED
    BY <1>2, <1>3, <1>4 DEF LoaderInv

\* A step that changes neither a batch nor a caller
LEMMA LoaderIdle == LoaderInv /\ UNCHANGED <<keys, batches, open, lock, callers>> => LoaderInv'
<1> SUFFICES ASSUME LoaderInv, UNCHANGED <<keys, batches, open, lock, callers>> PROVE LoaderInv'
    OBVIOUS
<1>1. /\ keys' = keys /\ batches' = batches /\ open' = open /\ lock' = lock
      /\ pc' = pc /\ pos' = pos /\ waiters' = waiters /\ results' = results
    BY DEF callers
<1>2. LoaderTypeOK'
    BY <1>1 DEF LoaderInv, LoaderTypeOK
<1>3. LockInv'
    BY <1>1 DEF LoaderInv, LockInv, Last
<1>4. ASSUME NEW c \in Caller PROVE CallerInv(c)'
    BY <1>1, CallerFrame DEF LoaderInv, Grow
<1> QED
    BY <1>2, <1>3, <1>4 DEF LoaderInv

\* Every step keeps the invariant.
LEMMA LoaderStep == LoaderInv /\ [Next]_vars => LoaderInv'
<1> SUFFICES ASSUME LoaderInv, [Next]_vars PROVE LoaderInv'
    OBVIOUS
<1>1. ASSUME NEW c \in Caller, Lock(c) PROVE LoaderInv'
    BY <1>1, LoaderLock
<1>2. ASSUME NEW c \in Caller, AddKey(c) PROVE LoaderInv'
    BY <1>2, LoaderAddKey
<1>3. ASSUME NEW c \in Caller, Unlock(c) PROVE LoaderInv'
    BY <1>3, LoaderUnlock
<1>4. ASSUME NEW c \in Caller, Await(c) PROVE LoaderInv'
    BY <1>4, LoaderAwait
<1>5. ASSUME NEW c \in Caller, Return(c) \/ DropCall(c) PROVE LoaderInv'
    BY <1>5, LoaderLeaves
<1>6. CASE LoopRound
    BY <1>6, LoaderLoop
<1>7. CASE Tick
    BY <1>7, LoaderIdle DEF Tick
<1>8. ASSUME NEW b \in DOMAIN batches, TaskStep(b) PROVE LoaderInv'
    BY <1>8, LoaderTask
<1>9. CASE UNCHANGED vars
    BY <1>9, LoaderIdle DEF vars
<1> QED
    BY <1>1, <1>2, <1>3, <1>4, <1>5, <1>6, <1>7, <1>8, <1>9, Zenon DEF Next, CallerStep

\* The invariant says what a call returns.
LEMMA LoaderSays == LoaderInv => LoadIsRight
<1> SUFFICES ASSUME LoaderInv, NEW c \in Caller
             PROVE  /\ pc[c] \in {"ok", "err"} =>
                          \A i \in DOMAIN keys[c] : \E w \in DOMAIN waiters[c] :
                              keys[c][i] \in waiters[c][w].keys \cap batches[waiters[c][w].batch].items
                    /\ pc[c] = "ok" =>
                          /\ \A w \in DOMAIN waiters[c] : batches[waiters[c][w].batch].values.kind = "some"
                          /\ results[c] = Given(waiters[c], batches, Len(waiters[c]))
                    /\ pc[c] = "err" =>
                          \E w \in DOMAIN waiters[c] : /\ batches[waiters[c][w].batch].state = "ended"
                                                       /\ batches[waiters[c][w].batch].values.kind # "some"
    <2> HAVE LoaderInv
    <2>1. ASSUME NEW c \in Caller
          PROVE  Given(waiters[c], batches, Len(waiters[c])) =
                    LET ws == waiters[c]
                        from(k) == {w \in DOMAIN ws : k \in ws[w].keys /\ k \in batches[ws[w].batch].values.found}
                    IN  {<<k, ws[Max(from(k))].batch>> : k \in {x \in Key : from(x) # {}}}
        <3>1. 1 .. Len(waiters[c]) = DOMAIN waiters[c]
            BY DEF LoaderInv, LoaderTypeOK
        <3> QED
            BY <3>1, ZenonT(40) DEF Given, Found
    <2> QED
        BY <2>1, Zenon DEF LoadIsRight
<1>1. LoaderTypeOK /\ CallerInv(c)
    BY DEF LoaderInv
<1>2. DOMAIN waiters[c] = 1 .. Len(waiters[c]) /\ DOMAIN keys[c] = 1 .. Len(keys[c])
    BY <1>1 DEF LoaderTypeOK
<1>3. ASSUME pc[c] \in {"ok", "err"}, NEW i \in DOMAIN keys[c]
      PROVE  \E w \in DOMAIN waiters[c] :
                 keys[c][i] \in waiters[c][w].keys \cap batches[waiters[c][w].batch].items
    <2>1. Asked(c, Len(keys[c]))
        BY <1>1, <1>3, Zenon DEF CallerInv
    <2>2. PICK w \in DOMAIN waiters[c] : keys[c][i] \in waiters[c][w].keys
        BY <1>2, <1>3, <2>1, Zenon DEF Asked
    <2> QED
        BY <1>1, <2>2, Zenon DEF CallerInv
<1>4. ASSUME pc[c] = "ok"
      PROVE  /\ \A w \in DOMAIN waiters[c] : batches[waiters[c][w].batch].values.kind = "some"
             /\ results[c] = Given(waiters[c], batches, Len(waiters[c]))
    BY <1>1, <1>2, <1>4, Zenon DEF CallerInv, Ended
<1>5. ASSUME pc[c] = "err"
      PROVE  \E w \in DOMAIN waiters[c] : /\ batches[waiters[c][w].batch].state = "ended"
                                          /\ batches[waiters[c][w].batch].values.kind # "some"
    BY <1>1, <1>5, Zenon DEF CallerInv
<1> QED
    BY <1>3, <1>4, <1>5, Zenon

\* What a call of load returns is right (dataloader.rs, load_many and
\* Batch::spawn), for any number of callers and keys, any batch size, delay and
\* concurrency, and however late the loop runs.
THEOREM LoadCorrect == Spec => []LoadIsRight
<1>1. Init => LoaderInv
    BY LoaderInit
<1>2. LoaderInv /\ [Next]_vars => LoaderInv'
    BY LoaderStep
<1>3. LoaderInv => LoadIsRight
    BY LoaderSays
<1> QED
    BY <1>1, <1>2, <1>3, PTL DEF Spec

----------------------------------------------------------------------------
(* FfmpegIo: the bytes delivered, the ones in hand, the left-overs, the    *)
(* chunks of the channel and the io buffer are, one after the other, all   *)
(* the bytes the muxer made, as long as the reader is there.               *)

\* s holds the bytes a + 1 to b
Run(s, a, b) ==
  /\ s \in Seq(Nat) /\ a \in Nat /\ b \in Nat /\ b = a + Len(s)
  /\ \A i \in 1..Len(s) : s[i] = a + i

\* Where chunk i of a channel ends, when what came before ends at a
ChunkEnd(q, a, i) == IF i = 0 THEN a ELSE q[i][Len(q[i])]

\* The chunks of q hold the bytes a + 1 to b
Chain(q, a, b) ==
  /\ q \in Seq(Seq(Nat)) /\ ChunkEnd(q, a, Len(q)) = b
  /\ \A i \in 1..Len(q) : q[i] # <<>> /\ Run(q[i], ChunkEnd(q, a, i - 1), ChunkEnd(q, a, i))

OutputType == [open : BOOLEAN, state : {"Uninitialized", "HeaderWritten", "TrailerWritten"},
            fn : {"none", "write_header", "write_packet", "write_trailer"},
            buffer : Seq(Nat), made : Nat, error : BOOLEAN]
InputType == [open : BOOLEAN, state : {"idle", "recv", "try_recv", "panicked", "eof"}, want : Nat,
            part : Seq(Nat), buffer : Seq(Nat), got : Seq(Nat)]

\* Where the reader is in the stream, and the writer
Delivered == Len(input.got)
InHand    == Delivered + Len(input.part)
Taken     == InHand + Len(input.buffer)
Handed    == output.made - Len(output.buffer)

\* The io buffer holds the last bytes made; av_write_trailer empties it and
\* no call follows.
WriterInv ==
  /\ output \in OutputType /\ Run(output.buffer, Handed, output.made)
  /\ ~output.open \/ output.state = "TrailerWritten" => output.fn = "none"
  /\ output.state = "TrailerWritten" => output.buffer = <<>>

\* What read has in hand where it waits; a chunk that filled the caller's buffer
\* leaves the rest, and then read is done.
ReadInv ==
  /\ input \in InputType /\ Run(input.got, 0, Delivered)
  /\ input.state \in {"idle", "recv", "eof"} => input.part = <<>>
  /\ input.state \in {"recv", "eof"} => input.buffer = <<>>
  /\ input.state = "recv" => input.open
  /\ input.state = "try_recv" =>
       input.open /\ Len(input.part) <= input.want /\ (Len(input.part) < input.want => input.buffer = <<>>)

\* The stream, as long as there is a reader that has not lost a chunk.
StreamInv ==
  /\ input.open /\ input.state # "panicked" =>
       Run(input.part, Delivered, InHand) /\ Run(input.buffer, InHand, Taken) /\ Chain(channel, Taken, Handed)
  /\ input.state = "eof" => ~output.open /\ channel = <<>> /\ Delivered = Handed

PipeInv == WriterInv /\ ReadInv /\ StreamInv

\* What holds nothing starts and ends at the same place.
LEMMA RunEmpty == \A a \in Nat : Run(<<>>, a, a)
BY DEF Run

\* A run is where its length says.
LEMMA RunAt ==
  ASSUME NEW s, NEW a, NEW b, Run(s, a, b)
  PROVE  s \in Seq(Nat) /\ a \in Nat /\ b \in Nat /\ Len(s) \in Nat /\ b = a + Len(s)
BY DEF Run

\* One more byte.
LEMMA RunMore ==
  ASSUME NEW s, NEW a, NEW b, Run(s, a, b)
  PROVE  Run(Append(s, b + 1), a, b + 1)
<1>1. s \in Seq(Nat) /\ a \in Nat /\ b \in Nat /\ Len(s) \in Nat /\ b = a + Len(s)
  BY RunAt
<1>2. b + 1 \in Nat /\ Append(s, b + 1) \in Seq(Nat) /\ Len(Append(s, b + 1)) = Len(s) + 1
  BY <1>1
<1>3. ASSUME NEW i \in 1 .. Len(s) + 1 PROVE Append(s, b + 1)[i] = a + i
  <2>1. CASE i \in 1..Len(s)
    BY <1>1, <2>1 DEF Run
  <2>2. CASE i = Len(s) + 1
    BY <1>1, <2>2
  <2> QED
    BY <1>1, <2>1, <2>2
<1> QED
  BY <1>1, <1>2, <1>3 DEF Run

\* Two runs that meet.
LEMMA RunJoin ==
  ASSUME NEW s, NEW t, NEW a, NEW b, NEW c, Run(s, a, b), Run(t, b, c)
  PROVE  Run(s \o t, a, c)
<1>1. s \in Seq(Nat) /\ a \in Nat /\ b \in Nat /\ Len(s) \in Nat /\ b = a + Len(s)
  BY RunAt
<1>2. t \in Seq(Nat) /\ c \in Nat /\ Len(t) \in Nat /\ c = b + Len(t)
  BY RunAt
<1>3. s \o t \in Seq(Nat) /\ Len(s \o t) = Len(s) + Len(t)
  BY <1>1, <1>2
<1>4. ASSUME NEW i \in 1 .. Len(s) + Len(t) PROVE (s \o t)[i] = a + i
  <2>1. (s \o t)[i] = IF i <= Len(s) THEN s[i] ELSE t[i - Len(s)]
    BY <1>1, <1>2
  <2>2. CASE i <= Len(s)
    BY <1>1, <2>1, <2>2 DEF Run
  <2>3. CASE ~(i <= Len(s))
    <3>1. i - Len(s) \in 1..Len(t)
      BY <1>1, <1>2, <2>3
    <3>2. t[i - Len(s)] = b + (i - Len(s))
      BY <3>1 DEF Run
    <3> QED
      BY <1>1, <2>1, <2>3, <3>2
  <2> QED
    BY <2>2, <2>3
<1> QED
  BY <1>1, <1>2, <1>3, <1>4 DEF Run

\* A run cut after n bytes.
LEMMA RunCut ==
  ASSUME NEW s, NEW a, NEW b, Run(s, a, b), NEW n \in 0..Len(s)
  PROVE  Run(SubSeq(s, 1, n), a, a + n) /\ Run(SubSeq(s, n + 1, Len(s)), a + n, b)
<1>1. s \in Seq(Nat) /\ a \in Nat /\ b \in Nat /\ Len(s) \in Nat /\ b = a + Len(s)
  BY RunAt
<1>2. n \in Nat /\ n <= Len(s)
  BY <1>1
<1>3. PICK x : x = SubSeq(s, 1, n)
  BY Zenon
<1>4. PICK y : y = SubSeq(s, n + 1, Len(s))
  BY Zenon
<1>5. x \in Seq(Nat) /\ Len(x) = n /\ \A i \in 1..n : x[i] = s[i]
  BY <1>1, <1>2, <1>3
<1>6. y \in Seq(Nat) /\ Len(y) = Len(s) - n /\ \A i \in 1 .. Len(s) - n : y[i] = s[n + i]
  BY <1>1, <1>2, <1>4, SMTT(20), Z3T(20)
<1>7. Run(x, a, a + n)
  <2>1. \A i \in 1..n : i \in 1..Len(s) /\ s[i] = a + i
    BY <1>1, <1>2 DEF Run
  <2>2. \A i \in 1..n : x[i] = a + i
    BY <1>5, <2>1, Zenon
  <2>3. a + n \in Nat
    BY <1>1, <1>2
  <2> QED
    BY <1>1, <1>5, <2>2, <2>3, Zenon DEF Run
<1>8. Run(y, a + n, b)
  <2>1. ASSUME NEW i \in 1..Len(y) PROVE y[i] = a + n + i
    <3>0. Len(y) = Len(s) - n
      BY <1>6
    <3>1. n + i \in 1..Len(s) /\ i \in 1 .. Len(s) - n
      BY <1>1, <1>2, <3>0
    <3>2. s[n + i] = a + (n + i)
      BY <3>1, Zenon DEF Run
    <3> QED
      BY <1>1, <1>2, <1>6, <3>1, <3>2
  <2> QED
    BY <1>1, <1>2, <1>6, <2>1 DEF Run
<1> QED
  BY <1>3, <1>4, <1>7, <1>8, Zenon

\* The last byte of a chunk.
LEMMA RunLast ==
  ASSUME NEW s, NEW a, NEW b, Run(s, a, b), s # <<>>
  PROVE  s[Len(s)] = b
<1>1. s \in Seq(Nat) /\ a \in Nat /\ Len(s) \in Nat /\ b = a + Len(s)
  BY RunAt
<1>2. Len(s) \in 1..Len(s)
  BY <1>1
<1> QED
  BY <1>1, <1>2 DEF Run

\* An empty channel holds nothing.
LEMMA ChainEmpty == \A a, b : Chain(<<>>, a, b) <=> a = b
BY DEF Chain, ChunkEnd

\* A chunk is sent.
LEMMA ChainSend ==
  ASSUME NEW q, NEW a, NEW b, NEW c, NEW s, Chain(q, a, b), Run(s, b, c), s # <<>>
  PROVE  Chain(Append(q, s), a, c)
<1>1. PICK r : r = Append(q, s)
  BY Zenon
<1>2. q \in Seq(Seq(Nat)) /\ s \in Seq(Nat)
  BY RunAt DEF Chain
<1>3. PICK n \in Nat : n = Len(q)
  BY <1>2
<1>4. r \in Seq(Seq(Nat)) /\ Len(r) = n + 1 /\ r[n + 1] = s /\ \A i \in 1..n : r[i] = q[i]
  BY <1>1, <1>2, <1>3
<1>5. \A i \in 0..n : ChunkEnd(r, a, i) = ChunkEnd(q, a, i)
  BY <1>3, <1>4 DEF ChunkEnd
<1>6. ChunkEnd(q, a, n) = b
  BY <1>3 DEF Chain
<1>7. ChunkEnd(r, a, n + 1) = c
  BY <1>3, <1>4, RunLast DEF ChunkEnd
<1>8. ASSUME NEW i \in 1 .. n + 1 PROVE r[i] # <<>> /\ Run(r[i], ChunkEnd(r, a, i - 1), ChunkEnd(r, a, i))
  <2>1. CASE i \in 1..n
    <3>1. i - 1 \in 0..n /\ i \in 0..n
      BY <1>3, <2>1
    <3>2. q[i] # <<>> /\ Run(q[i], ChunkEnd(q, a, i - 1), ChunkEnd(q, a, i))
      BY <1>3, <2>1 DEF Chain
    <3> QED
      BY <1>4, <1>5, <2>1, <3>1, <3>2, Zenon
  <2>2. CASE i = n + 1
    <3>1. i - 1 = n /\ n \in 0..n
      BY <1>3, <2>2
    <3> QED
      BY <1>4, <1>5, <1>6, <1>7, <2>2, <3>1, Zenon
  <2> QED
    BY <1>3, <2>1, <2>2
<1>9. Chain(r, a, c)
  BY <1>4, <1>7, <1>8, Zenon DEF Chain
<1> QED
  BY <1>1, <1>9, Zenon

\* A chunk is received.
LEMMA ChainRecv ==
  ASSUME NEW q, NEW a, NEW b, Chain(q, a, b), q # <<>>
  PROVE  /\ Run(Head(q), a, a + Len(Head(q))) /\ Head(q) # <<>>
         /\ Chain(Tail(q), a + Len(Head(q)), b)
<1>1. q \in Seq(Seq(Nat))
  BY DEF Chain
<1>2. PICK n \in Nat : n = Len(q)
  BY <1>1
<1>3. PICK h : h = Head(q)
  BY Zenon
<1>4. PICK t : t = Tail(q)
  BY Zenon
<1>5. n >= 1 /\ h = q[1] /\ h \in Seq(Nat)
  BY <1>1, <1>2, <1>3
<1>6. t \in Seq(Seq(Nat)) /\ Len(t) = n - 1 /\ \A i \in 1 .. n - 1 : t[i] = q[i + 1]
  BY <1>1, <1>2, <1>4
<1>7. h # <<>> /\ Run(h, a, ChunkEnd(q, a, 1))
  BY <1>2, <1>5 DEF Chain, ChunkEnd
<1>8. PICK e : e = a + Len(h)
  BY Zenon
<1>9. ChunkEnd(q, a, 1) = e
  BY <1>7, <1>8, RunAt
<1>10. \A i \in 0 .. n - 1 : ChunkEnd(t, e, i) = ChunkEnd(q, a, i + 1)
  BY <1>2, <1>6, <1>9, SMTT(20), Z3T(20) DEF ChunkEnd
<1>11. ChunkEnd(t, e, n - 1) = b
  <2>1. n - 1 \in 0 .. n - 1 /\ (n - 1) + 1 = n
    BY <1>2, <1>5
  <2>2. ChunkEnd(q, a, n) = b
    BY <1>2 DEF Chain
  <2> QED
    BY <1>10, <2>1, <2>2
<1>12. ASSUME NEW i \in 1 .. n - 1 PROVE t[i] # <<>> /\ Run(t[i], ChunkEnd(t, e, i - 1), ChunkEnd(t, e, i))
  <2>1. /\ i - 1 \in 0 .. n - 1 /\ i \in 0 .. n - 1 /\ i + 1 \in 1..n
        /\ (i - 1) + 1 = i /\ (i + 1) - 1 = i
    BY <1>2
  <2>2. q[i + 1] # <<>> /\ Run(q[i + 1], ChunkEnd(q, a, i), ChunkEnd(q, a, i + 1))
    BY <1>2, <2>1 DEF Chain
  <2>3. ChunkEnd(t, e, i - 1) = ChunkEnd(q, a, i) /\ ChunkEnd(t, e, i) = ChunkEnd(q, a, i + 1)
    BY <1>10, <2>1
  <2> QED
    BY <1>6, <2>2, <2>3
<1>13. Chain(t, e, b)
  BY <1>6, <1>11, <1>12, Zenon DEF Chain
<1> QED
  BY <1>3, <1>4, <1>7, <1>8, <1>9, <1>13, Zenon

\* Nothing is written or read yet.
LEMMA PipeInitially == PipeInit => PipeInv
<1> SUFFICES ASSUME PipeInit PROVE PipeInv
  OBVIOUS
<1>1. output \in OutputType /\ input \in InputType
  BY DEF PipeInit, OutputType, InputType
<1>2. /\ output.buffer = <<>> /\ output.made = 0 /\ output.open /\ output.state = "Uninitialized"
      /\ input.part = <<>> /\ input.buffer = <<>> /\ input.got = <<>> /\ input.state = "idle"
      /\ channel = <<>>
  BY DEF PipeInit
<1>3. Delivered = 0 /\ InHand = 0 /\ Taken = 0 /\ Handed = 0
  <2>1. Len(<<>>) = 0 /\ 0 + 0 = 0 /\ 0 - 0 = 0
    OBVIOUS
  <2> QED
    BY <1>2, <2>1, Zenon DEF Delivered, InHand, Taken, Handed
<1>4. WriterInv
  BY <1>1, <1>2, <1>3, RunEmpty DEF WriterInv
<1>5. ReadInv
  BY <1>1, <1>2, <1>3, RunEmpty DEF ReadInv
<1>6. StreamInv
  BY <1>2, <1>3, RunEmpty, ChainEmpty DEF StreamInv
<1> QED
  BY <1>4, <1>5, <1>6 DEF PipeInv

\* A step of the writer that hands nothing over.
LEMMA WriterQuiet ==
  ASSUME PipeInv, WriterInv', UNCHANGED <<channel, input>>, Handed' = Handed, ~output.open => ~output'.open
  PROVE  PipeInv'
<1>1. Delivered' = Delivered /\ InHand' = InHand /\ Taken' = Taken
  BY DEF Delivered, InHand, Taken
<1>2. ReadInv'
  BY <1>1 DEF PipeInv, ReadInv
<1>3. StreamInv'
  BY <1>1 DEF PipeInv, StreamInv
<1> QED
  BY <1>2, <1>3 DEF PipeInv

\* write_header and its like are called, return, and the Output is dropped.
LEMMA PipeCalls ==
  PipeInv /\ ((\E fn \in {"write_header", "write_packet", "write_trailer"} : WriteCall(fn)) \/ WriteReturn \/ DropOutput)
    => PipeInv'
<1> SUFFICES ASSUME PipeInv,
               (\E fn \in {"write_header", "write_packet", "write_trailer"} : WriteCall(fn)) \/ WriteReturn \/ DropOutput
             PROVE PipeInv'
  OBVIOUS
<1>1. output \in OutputType
  BY DEF PipeInv, WriterInv
<1>2. UNCHANGED <<channel, input>>
  BY DEF WriteCall, WriteReturn, DropOutput
<1>3. /\ output' \in OutputType /\ output'.buffer = output.buffer /\ output'.made = output.made
      /\ ~output.open => ~output'.open
      /\ ~output'.open \/ output'.state = "TrailerWritten" => output'.fn = "none"
      /\ output'.state = "TrailerWritten" => output'.buffer = <<>>
  <2>1. CASE \E fn \in {"write_header", "write_packet", "write_trailer"} : WriteCall(fn)
    BY <1>1, <2>1, Zenon DEF WriteCall, Allowed, OutputType, PipeInv, WriterInv
  <2>2. CASE WriteReturn
    BY <1>1, <2>2, Zenon DEF WriteReturn, OutputType, PipeInv, WriterInv
  <2>3. CASE DropOutput
    BY <1>1, <2>3, Zenon DEF DropOutput, OutputType, PipeInv, WriterInv
  <2> QED
    BY <2>1, <2>2, <2>3
<1>4. Handed' = Handed
  BY <1>3 DEF Handed
<1>5. WriterInv'
  BY <1>3, <1>4 DEF PipeInv, WriterInv
<1> QED
  BY <1>2, <1>3, <1>4, <1>5, WriterQuiet

\* FFmpeg makes a byte.
LEMMA PipeMuxBytes == PipeInv /\ MuxBytes => PipeInv'
<1> SUFFICES ASSUME PipeInv, MuxBytes PROVE PipeInv'
  OBVIOUS
<1>1. output \in OutputType /\ Run(output.buffer, Handed, output.made)
  BY DEF PipeInv, WriterInv
<1>2. output.buffer \in Seq(Nat) /\ output.made \in Nat /\ Len(output.buffer) \in Nat
  BY <1>1 DEF OutputType
<1>3. Append(output.buffer, output.made + 1) \in Seq(Nat) /\ output.made + 1 \in Nat
  BY <1>2
<1>4. /\ output' \in OutputType /\ output'.buffer = Append(output.buffer, output.made + 1)
      /\ output'.made = output.made + 1 /\ output'.open = output.open /\ output'.state = output.state
      /\ output'.fn = output.fn
  BY <1>1, <1>3, Zenon DEF MuxBytes, OutputType
<1>5. Handed' = Handed
  BY <1>2, <1>4 DEF Handed
<1>6. Run(output.buffer, Handed, output.made)'
  BY <1>1, <1>4, <1>5, RunMore
<1>7. WriterInv'
  BY <1>4, <1>6 DEF PipeInv, WriterInv, MuxBytes
<1> QED
  BY <1>4, <1>5, <1>7, WriterQuiet DEF MuxBytes

\* The io buffer becomes a chunk, or is lost with the reader.
LEMMA PipeWritePacket == PipeInv /\ WritePacket => PipeInv'
<1> SUFFICES ASSUME PipeInv, WritePacket PROVE PipeInv'
  OBVIOUS
<1>1. output \in OutputType /\ Run(output.buffer, Handed, output.made) /\ output.buffer # <<>>
      /\ output.fn # "none" /\ input' = input
  BY DEF PipeInv, WriterInv, WritePacket
<1>2. output.made \in Nat /\ <<>> \in Seq(Nat)
  BY <1>1 DEF OutputType
<1>3. /\ output' \in OutputType /\ output'.buffer = <<>> /\ output'.made = output.made
      /\ output'.open = output.open /\ output'.state = output.state /\ output'.fn = output.fn
  BY <1>1, <1>2, Zenon DEF WritePacket, OutputType
<1>4. Handed' = output.made
  BY <1>2, <1>3 DEF Handed
<1>5. WriterInv'
  BY <1>2, <1>3, <1>4, RunEmpty DEF PipeInv, WriterInv
<1>6. Delivered' = Delivered /\ InHand' = InHand /\ Taken' = Taken
  BY <1>1, Zenon DEF Delivered, InHand, Taken
<1>7. ReadInv'
  BY <1>1, <1>6 DEF PipeInv, ReadInv
<1>8. input.state # "eof"
  BY <1>1 DEF PipeInv, StreamInv, WriterInv
<1>9. StreamInv'
  <2>1. CASE input.open /\ channel' = Append(channel, output.buffer)
    BY <1>1, <1>4, <1>6, <1>8, <2>1, ChainSend DEF PipeInv, StreamInv
  <2>2. CASE ~input.open
    BY <1>1, <1>8, <2>2 DEF StreamInv
  <2> QED
    BY <2>1, <2>2, Zenon DEF WritePacket
<1> QED
  BY <1>5, <1>7, <1>9 DEF PipeInv

\* A step of the reader: what must be shown.
LEMMA ReaderStep ==
  ASSUME PipeInv, UNCHANGED output, ReadInv', StreamInv'
  PROVE  PipeInv'
BY DEF PipeInv, WriterInv, Handed

\* What the reader holds is a part of the stream.
LEMMA InputFacts ==
  ASSUME PipeInv, input.open, input.state # "panicked"
  PROVE  /\ input.got \in Seq(Nat) /\ input.part \in Seq(Nat) /\ input.buffer \in Seq(Nat) /\ input.want \in Nat
         /\ Len(input.got) \in Nat /\ Len(input.part) \in Nat /\ Len(input.buffer) \in Nat
         /\ Run(input.got, 0, Delivered) /\ Run(input.part, Delivered, InHand)
         /\ Run(input.buffer, InHand, Taken) /\ Chain(channel, Taken, Handed)
BY DEF PipeInv, ReadInv, StreamInv, InputType

\* The positions of the reader after a step.
LEMMA Positions ==
  /\ Delivered' = Len(input'.got) /\ InHand' = Delivered' + Len(input'.part)
  /\ Taken' = InHand' + Len(input'.buffer)
BY Zenon DEF Delivered, InHand, Taken

\* ChannelCompat::read takes left-overs, or begins to wait.
LEMMA PipeRead == ASSUME NEW n \in 1..BufferSize, PipeInv, Read(n) PROVE PipeInv'
<1>1. input.open /\ input.state = "idle" /\ input.part = <<>> /\ input \in InputType /\ UNCHANGED <<output, channel>>
  BY Zenon  DEF Read, PipeInv, ReadInv
<1>2. /\ input.got \in Seq(Nat) /\ input.part \in Seq(Nat) /\ input.buffer \in Seq(Nat) /\ input.want \in Nat
      /\ Len(input.got) \in Nat /\ Len(input.part) \in Nat /\ Len(input.buffer) \in Nat
      /\ Run(input.got, 0, Delivered) /\ Run(input.part, Delivered, InHand)
      /\ Run(input.buffer, InHand, Taken) /\ Chain(channel, Taken, Handed)
  BY <1>1, InputFacts
<1>3. n \in Nat /\ n >= 1 /\ Len(<<>>) = 0 /\ Handed' = Handed
  BY <1>1 DEF Handed
<1>4. InHand = Delivered /\ Taken = Delivered + Len(input.buffer) /\ Delivered = Len(input.got)
  BY <1>1, <1>2, <1>3 DEF InHand, Taken, Delivered
<1>5. CASE Len(input.buffer) >= n
  <2>1. PICK x : x = SubSeq(input.buffer, 1, n)
    BY Zenon
  <2>2. PICK y : y = SubSeq(input.buffer, n + 1, Len(input.buffer))
    BY Zenon
  <2>3. n \in 0..Len(input.buffer)
    BY <1>2, <1>3, <1>5
  <2>4. Run(x, Delivered, Delivered + n) /\ Run(y, Delivered + n, Taken)
    BY <1>2, <1>4, <2>1, <2>2, <2>3, RunCut, Zenon
  <2>5. Run(input.got \o x, 0, Delivered + n)
    BY <1>2, <2>4, RunJoin, Zenon
  <2>6. x \in Seq(Nat) /\ y \in Seq(Nat) /\ input.got \o x \in Seq(Nat) /\ Len(input.got \o x) = Delivered + n
        /\ Delivered + n + Len(y) = Taken /\ Delivered + n \in Nat /\ Len(y) \in Nat
    <3>1. PICK z : z = input.got \o x
      BY Zenon
    <3>2. z \in Seq(Nat) /\ Delivered + n \in Nat /\ Len(z) \in Nat /\ Delivered + n = 0 + Len(z)
      BY <2>5, <3>1, RunAt, Zenon
    <3>3. x \in Seq(Nat) /\ y \in Seq(Nat) /\ Len(y) \in Nat /\ Taken = (Delivered + n) + Len(y)
      BY <2>4, RunAt, Zenon
    <3>4. Len(z) = Delivered + n
      BY <3>2
    <3> QED
      BY <3>1, <3>2, <3>3, <3>4, Zenon
  <2>7. input' = [input EXCEPT !.got = input.got \o x, !.buffer = y]
    BY <1>5, <2>1, <2>2 DEF Read
  <2>8. /\ input' \in InputType /\ input'.got = input.got \o x /\ input'.buffer = y /\ input'.part = <<>>
        /\ input'.state = "idle" /\ input'.open
    BY <1>1, <2>6, <2>7, Zenon DEF InputType
  <2>9. Delivered' = Delivered + n /\ InHand' = Delivered + n /\ Taken' = Taken
    <3>1. Delivered' = Delivered + n
      BY <2>6, <2>8, Positions, Zenon
    <3>2. InHand' = Delivered + n + 0 /\ Taken' = InHand' + Len(y)
      BY <1>3, <2>8, <3>1, Positions, Zenon
    <3>3. Delivered + n + 0 = Delivered + n
      BY <2>6
    <3> QED
      BY <2>6, <3>1, <3>2, <3>3, Zenon
  <2>10. ReadInv'
    BY <2>5, <2>8, <2>9 DEF ReadInv
  <2>11. StreamInv'
    BY <1>1, <1>2, <1>3, <2>4, <2>6, <2>8, <2>9, RunEmpty, Zenon DEF StreamInv
  <2> QED
    BY <1>1, <2>10, <2>11, ReaderStep
<1>6. CASE ~(Len(input.buffer) >= n) /\ input.buffer = <<>>
  <2>1. input' = [input EXCEPT !.state = "recv", !.want = n]
    BY <1>6 DEF Read
  <2>2. /\ input' \in InputType /\ input'.got = input.got /\ input'.buffer = <<>> /\ input'.part = <<>>
        /\ input'.state = "recv" /\ input'.open
    BY <1>1, <1>3, <1>6, <2>1, Zenon DEF InputType
  <2>3. Delivered' = Delivered /\ InHand' = InHand /\ Taken' = Taken
    BY <1>1, <1>6, <2>2, Zenon DEF Delivered, InHand, Taken
  <2>4. ReadInv'
    BY <1>2, <2>2, <2>3, Zenon DEF ReadInv
  <2>5. StreamInv'
    BY <1>1, <1>2, <1>3, <1>6, <2>2, <2>3 DEF StreamInv
  <2> QED
    BY <1>1, <2>4, <2>5, ReaderStep
<1>7. CASE ~(Len(input.buffer) >= n) /\ input.buffer # <<>>
  <2>1. input' = [input EXCEPT !.state = "try_recv", !.want = n, !.part = input.buffer, !.buffer = <<>>]
    BY <1>7 DEF Read
  <2>2. /\ input' \in InputType /\ input'.got = input.got /\ input'.buffer = <<>> /\ input'.part = input.buffer
        /\ input'.state = "try_recv" /\ input'.open /\ input'.want = n
    BY <1>1, <1>2, <1>3, <2>1, Zenon DEF InputType
  <2>3. Delivered' = Delivered /\ InHand' = Taken /\ Taken' = Taken
    <3>1. Delivered' = Delivered /\ InHand' = Delivered + Len(input.buffer) /\ Taken' = InHand' + 0
      BY <1>3, <1>4, <2>2, Positions, Zenon
    <3>2. Taken \in Nat
      BY <1>2, RunAt, Zenon
    <3> QED
      BY <1>4, <3>1, <3>2
  <2>4. ReadInv'
    BY <1>2, <1>3, <1>7, <2>2, <2>3 DEF ReadInv
  <2>5. Taken \in Nat
    BY <1>2, RunAt
  <2>6. StreamInv'
    BY <1>1, <1>2, <1>3, <1>4, <2>2, <2>3, <2>5, RunEmpty, Zenon DEF StreamInv
  <2> QED
    BY <1>1, <2>4, <2>6, ReaderStep
<1> QED
  BY <1>5, <1>6, <1>7

\* A chunk arrives for a read that waits for it, or the writer is gone.
LEMMA PipeRecv == PipeInv /\ Recv => PipeInv'
<1> SUFFICES ASSUME PipeInv, Recv PROVE PipeInv'
  OBVIOUS
<1>1. input.open /\ input.state = "recv" /\ input.part = <<>> /\ input.buffer = <<>> /\ input \in InputType
      /\ output' = output
  BY DEF Recv, PipeInv, ReadInv
<1>2. /\ input.got \in Seq(Nat) /\ input.want \in Nat /\ Len(input.got) \in Nat /\ Run(input.got, 0, Delivered)
      /\ Chain(channel, Taken, Handed)
  BY <1>1, InputFacts
<1>3. Len(<<>>) = 0 /\ Handed' = Handed
  BY <1>1 DEF Handed
<1>4. InHand = Delivered /\ Taken = Delivered /\ Delivered \in Nat
  BY <1>1, <1>2, <1>3 DEF InHand, Taken, Delivered
<1>5. CASE channel # <<>> /\ channel' = Tail(channel)
  <2>1. PICK h : h = Head(channel)
    BY Zenon
  <2>2. PICK e : e = Delivered + Len(h)
    BY Zenon
  <2>3. Run(h, Delivered, e) /\ Chain(channel', e, Handed)
    BY <1>2, <1>4, <1>5, <2>1, <2>2, ChainRecv, Zenon
  <2>4. h \in Seq(Nat) /\ Len(h) \in Nat /\ e \in Nat
    BY <2>3, RunAt, Zenon
  <2>5. CASE Len(h) < input.want
    <3>1. input' = [input EXCEPT !.state = "panicked"]
      BY <1>5, <2>1, <2>5 DEF Recv
    <3>2. input' \in InputType /\ input'.got = input.got /\ input'.state = "panicked"
      BY <1>1, <3>1, Zenon DEF InputType
    <3>3. ReadInv'
      BY <1>2, <3>2, Zenon DEF ReadInv, Delivered
    <3>4. StreamInv'
      BY <3>2 DEF StreamInv
    <3> QED
      BY <1>1, <3>3, <3>4, ReaderStep
  <2>6. CASE ~(Len(h) < input.want)
    <3>1. PICK n : n = input.want
      BY Zenon
    <3>2. n \in 0..Len(h)
      BY <1>2, <2>4, <2>6, <3>1
    <3>3. PICK x : x = SubSeq(h, 1, n)
      BY Zenon
    <3>4. PICK y : y = SubSeq(h, n + 1, Len(h))
      BY Zenon
    <3>5. Run(x, Delivered, Delivered + n) /\ Run(y, Delivered + n, e)
      BY <2>3, <3>2, <3>3, <3>4, RunCut, Zenon
    <3>6. PICK z : z = input.got \o x
      BY Zenon
    <3>7. Run(z, 0, Delivered + n)
      BY <1>2, <3>5, <3>6, RunJoin, Zenon
    <3>8. z \in Seq(Nat) /\ Delivered + n \in Nat /\ Len(z) \in Nat /\ Delivered + n = 0 + Len(z)
          /\ y \in Seq(Nat) /\ Len(y) \in Nat /\ e = (Delivered + n) + Len(y)
      BY <3>5, <3>7, RunAt, Zenon
    <3>9. input' = [input EXCEPT !.state = "idle", !.got = z, !.buffer = y]
      BY <1>5, <2>1, <2>6, <3>1, <3>3, <3>4, <3>6 DEF Recv
    <3>10. /\ input' \in InputType /\ input'.got = z /\ input'.buffer = y /\ input'.part = <<>>
           /\ input'.state = "idle" /\ input'.open
      BY <1>1, <3>8, <3>9, Zenon DEF InputType
    <3>11. Delivered' = Delivered + n /\ InHand' = Delivered + n /\ Taken' = e
      <4>1. Delivered' = Len(z) /\ InHand' = Delivered' + 0 /\ Taken' = InHand' + Len(y)
        BY <1>3, <3>10, Positions, Zenon
      <4> QED
        BY <3>8, <4>1
    <3>12. ReadInv'
      BY <3>7, <3>10, <3>11, Zenon DEF ReadInv
    <3>13. StreamInv'
      BY <1>3, <2>3, <3>5, <3>8, <3>10, <3>11, RunEmpty, Zenon DEF StreamInv
    <3> QED
      BY <1>1, <3>12, <3>13, ReaderStep
  <2> QED
    BY <2>5, <2>6
<1>6. CASE channel = <<>> /\ ~output.open /\ channel' = channel /\ input' = [input EXCEPT !.state = "eof"]
  <2>1. /\ input' \in InputType /\ input'.got = input.got /\ input'.buffer = <<>> /\ input'.part = <<>>
        /\ input'.state = "eof" /\ input'.open
    BY <1>1, <1>6, Zenon DEF InputType
  <2>2. Delivered' = Delivered /\ InHand' = InHand /\ Taken' = Taken
    BY <1>1, <2>1, Zenon DEF Delivered, InHand, Taken
  <2>3. Delivered = Handed
    BY <1>2, <1>4, <1>6, ChainEmpty, Zenon
  <2>4. ReadInv'
    BY <1>2, <2>1, <2>2, Zenon DEF ReadInv
  <2>5. StreamInv'
    BY <1>1, <1>2, <1>3, <1>4, <1>6, <2>1, <2>2, <2>3, RunEmpty, Zenon DEF StreamInv
  <2> QED
    BY <1>1, <2>4, <2>5, ReaderStep
<1> QED
  BY <1>5, <1>6 DEF Recv

\* The least of two numbers.
LEMMA LeastOfTwo == \A a, b \in Nat : Min({a, b}) = IF a <= b THEN a ELSE b
BY DEF Min

\* A read that has some bytes takes what the channel has, as long as it fits.
LEMMA PipeTryRecv == PipeInv /\ TryRecv => PipeInv'
<1> SUFFICES ASSUME PipeInv, TryRecv PROVE PipeInv'
  OBVIOUS
<1>1. /\ input.open /\ input.state = "try_recv" /\ Len(input.part) <= input.want /\ input \in InputType
      /\ Len(input.part) < input.want => input.buffer = <<>>
      /\ output' = output
  BY DEF TryRecv, PipeInv, ReadInv
<1>2. /\ input.got \in Seq(Nat) /\ input.part \in Seq(Nat) /\ input.want \in Nat /\ Len(input.got) \in Nat
      /\ Len(input.part) \in Nat /\ Run(input.got, 0, Delivered) /\ Run(input.part, Delivered, InHand)
      /\ Run(input.buffer, InHand, Taken) /\ Chain(channel, Taken, Handed)
  BY <1>1, InputFacts
<1>3. Len(<<>>) = 0 /\ Handed' = Handed
  BY <1>1 DEF Handed
<1>4. Delivered \in Nat /\ InHand \in Nat /\ Taken \in Nat /\ Taken = InHand + Len(input.buffer)
      /\ InHand = Delivered + Len(input.part)
  BY <1>2, RunAt, Zenon
<1>5. CASE channel # <<>> /\ Len(input.part) < input.want
  <2>1. PICK h : h = Head(channel)
    BY Zenon
  <2>2. PICK e : e = InHand + Len(h)
    BY Zenon
  <2>3. Taken = InHand
    <3>1. Len(input.buffer) = 0
      BY <1>1, <1>3, <1>5, Zenon
    <3> QED
      BY <1>4, <3>1
  <2>4. channel' = Tail(channel)
    BY <1>5 DEF TryRecv
  <2>5. Run(h, InHand, e) /\ Chain(channel', e, Handed)
    BY <1>2, <1>5, <2>1, <2>2, <2>3, <2>4, ChainRecv, Zenon
  <2>6. h \in Seq(Nat) /\ Len(h) \in Nat /\ e \in Nat
    BY <2>5, RunAt, Zenon
  <2>7. PICK n : n = Min({Len(h), input.want - Len(input.part)})
    BY Zenon
  <2>8. n \in 0..Len(h) /\ Len(input.part) + n <= input.want
        /\ (Len(input.part) + n < input.want => n = Len(h))
    <3>1. input.want - Len(input.part) \in Nat
      BY <1>2, <1>5
    <3>2. n = IF Len(h) <= input.want - Len(input.part) THEN Len(h) ELSE input.want - Len(input.part)
      BY <2>6, <2>7, <3>1, LeastOfTwo, Zenon
    <3> QED
      BY <1>2, <1>5, <2>6, <3>1, <3>2, SMTT(20), Z3T(20)
  <2>9. PICK x : x = SubSeq(h, 1, n)
    BY Zenon
  <2>10. PICK y : y = SubSeq(h, n + 1, Len(h))
    BY Zenon
  <2>11. Run(x, InHand, InHand + n) /\ Run(y, InHand + n, e)
    BY <2>5, <2>8, <2>9, <2>10, RunCut, Zenon
  <2>12. PICK z : z = input.part \o x
    BY Zenon
  <2>13. Run(z, Delivered, InHand + n)
    BY <1>2, <2>11, <2>12, RunJoin, Zenon
  <2>14. z \in Seq(Nat) /\ InHand + n \in Nat /\ Len(z) \in Nat /\ InHand + n = Delivered + Len(z)
         /\ y \in Seq(Nat) /\ Len(y) \in Nat /\ e = (InHand + n) + Len(y)
    BY <2>11, <2>13, RunAt, Zenon
  <2>15. input' = [input EXCEPT !.part = z, !.buffer = y]
    BY <1>5, <2>1, <2>7, <2>9, <2>10, <2>12 DEF TryRecv
  <2>16. /\ input' \in InputType /\ input'.got = input.got /\ input'.buffer = y /\ input'.part = z
         /\ input'.state = "try_recv" /\ input'.open /\ input'.want = input.want
    BY <1>1, <2>14, <2>15, Zenon DEF InputType
  <2>17. Delivered' = Delivered /\ InHand' = InHand + n /\ Taken' = e
    BY <2>14, <2>16, Positions, Zenon DEF Delivered
  <2>18. Len(z) <= input.want /\ (Len(z) < input.want => y = <<>>)
    <3>1. Len(z) = Len(input.part) + n
      <4>1. n \in Nat /\ Len(input.part) \in Nat /\ Len(z) \in Nat
        BY <1>2, <2>6, <2>8, <2>14
      <4> QED
        BY <1>4, <2>14, <4>1
    <3>2. n = Len(h) => Len(y) = 0
      BY <1>4, <2>2, <2>6, <2>14
    <3>3. Len(y) = 0 => y = <<>>
      BY <2>14
    <3> QED
      BY <2>8, <3>1, <3>2, <3>3
  <2>19. ReadInv'
    BY <1>2, <2>16, <2>17, <2>18, Zenon DEF ReadInv
  <2>20. StreamInv'
    BY <1>3, <2>5, <2>11, <2>13, <2>16, <2>17, Zenon DEF StreamInv
  <2> QED
    BY <1>1, <2>19, <2>20, ReaderStep
<1>6. CASE ~(channel # <<>> /\ Len(input.part) < input.want)
  <2>1. PICK z : z = input.got \o input.part
    BY Zenon
  <2>2. Run(z, 0, InHand)
    BY <1>2, <2>1, RunJoin, Zenon
  <2>3. z \in Seq(Nat) /\ Len(z) \in Nat /\ InHand = 0 + Len(z)
    BY <2>2, RunAt, Zenon
  <2>4. input' = [input EXCEPT !.state = "idle", !.got = z, !.part = <<>>] /\ channel' = channel
    BY <1>6, <2>1, Zenon DEF TryRecv
  <2>5. /\ input' \in InputType /\ input'.got = z /\ input'.buffer = input.buffer /\ input'.part = <<>>
        /\ input'.state = "idle" /\ input'.open
    <3>1. <<>> \in Seq(Nat)
      OBVIOUS
    <3> QED
      BY <1>1, <2>3, <2>4, <3>1, Zenon DEF InputType
  <2>6. Delivered' = InHand /\ InHand' = InHand /\ Taken' = Taken
    <3>1. Delivered' = Len(z) /\ InHand' = Delivered' + 0 /\ Taken' = InHand' + Len(input.buffer)
      BY <1>3, <2>5, Positions, Zenon
    <3>2. Delivered' = InHand /\ InHand' = InHand
      BY <1>4, <2>3, <3>1
    <3> QED
      BY <1>4, <3>1, <3>2, Zenon
  <2>7. ReadInv'
    BY <2>2, <2>5, <2>6, Zenon DEF ReadInv
  <2>8. StreamInv'
    BY <1>2, <1>3, <1>4, <2>4, <2>5, <2>6, RunEmpty, Zenon DEF StreamInv
  <2> QED
    BY <1>1, <2>7, <2>8, ReaderStep
<1> QED
  BY <1>5, <1>6

\* The Input is dropped.
LEMMA PipeDropInput == PipeInv /\ DropInput => PipeInv'
<1> SUFFICES ASSUME PipeInv, DropInput PROVE PipeInv'
  OBVIOUS
<1>1. input \in InputType /\ input.state \in {"idle", "eof"} /\ output' = output /\ channel' = channel
  BY DEF PipeInv, ReadInv, DropInput
<1>2. /\ input' \in InputType /\ input'.got = input.got /\ input'.buffer = input.buffer /\ input'.part = input.part
      /\ input'.state = input.state /\ ~input'.open
  BY <1>1, Zenon DEF InputType, DropInput
<1>3. Delivered' = Delivered /\ Handed' = Handed
  BY <1>1, <1>2, Zenon DEF Delivered, Handed
<1>4. ReadInv'
  BY <1>1, <1>2, <1>3, Zenon DEF PipeInv, ReadInv
<1>5. StreamInv'
  BY <1>1, <1>2, <1>3 DEF PipeInv, StreamInv
<1> QED
  BY <1>1, <1>4, <1>5, ReaderStep

\* Every step keeps the stream whole.
LEMMA PipeStep == PipeInv /\ [PipeNext]_pipeVars => PipeInv'
<1> SUFFICES ASSUME PipeInv, [PipeNext]_pipeVars PROVE PipeInv'
  OBVIOUS
<1>1. CASE UNCHANGED pipeVars
  <2>1. output' = output /\ channel' = channel /\ input' = input
    BY <1>1 DEF pipeVars
  <2> QED
    BY <2>1, Zenon DEF PipeInv, WriterInv, ReadInv, StreamInv, Delivered, InHand, Taken, Handed
<1> QED
  BY <1>1, PipeCalls, PipeMuxBytes, PipeWritePacket, PipeRead, PipeRecv, PipeTryRecv, PipeDropInput DEF PipeNext

\* What the reader was given, and what it knows at the end of the file.
LEMMA PipeSays == PipeInv => PipeIsFaithful
<1> SUFFICES ASSUME PipeInv PROVE PipeIsFaithful
  OBVIOUS
<1>1. \A i \in 1..Len(input.got) : input.got[i] = 0 + i
  BY Zenon DEF PipeInv, ReadInv, Run
<1>2. Len(input.got) \in Nat
  BY DEF PipeInv, ReadInv, InputType
<1>3. \A i \in 1..Len(input.got) : input.got[i] = i
  BY <1>1, <1>2
<1>4. input.state = "eof" =>
        /\ ~output.open /\ input.buffer = <<>> /\ channel = <<>> /\ Len(input.got) = output.made - Len(output.buffer)
        /\ output.state = "TrailerWritten" => output.buffer = <<>>
  BY Zenon DEF PipeInv, ReadInv, StreamInv, WriterInv, Delivered, Handed
<1> QED
  BY <1>3, <1>4 DEF PipeIsFaithful

\* An Input that reads what an Output writes into a channel is given the
\* muxer's bytes, each once and in order, for every size of the io buffer, of the
\* channel and of the reads, and sees the end of the file only after all of them.
THEOREM PipeCorrect == PipeSpec => []PipeIsFaithful
BY PipeInitially, PipeStep, PipeSays, PTL DEF PipeSpec

============================================================================
