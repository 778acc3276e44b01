---------------------------- MODULE DataLoader -----------------------------
(***************************************************************************)
(* scuffle-batching's DataLoader (crates/batching/src/dataloader.rs).      *)
(* Callers of load_many add keys to the current batch under a mutex; all   *)
(* callers of a batch share its BatchResult, a OnceCell and a token that   *)
(* the task of the batch cancels when it ends, by whatever way it ends.    *)
(*                                                                         *)
(* Batches are numbered in the order of their creation.  Time is relative  *)
(* to the present, as in module Batcher.                                   *)
(***************************************************************************)
EXTENDS Integers, Sequences, FiniteSets, FiniteSetsExt

CONSTANTS Caller,      \* invocations of load_many
          Key,
          Loads,       \* the ways in which callers may pass keys
          BatchSize,   \* the arguments of DataLoader::new
          Concurrency,
          Delay,
          Lag,         \* how late batch_loop may get to run after its sleep
          Free         \* holder of a mutex nobody holds

ASSUME DataLoaderAssumption ==
    /\ Loads \subseteq [Caller -> Seq(Key)]
    /\ Free \notin Caller
    /\ BatchSize \in Nat /\ Concurrency \in Nat /\ Delay \in Nat /\ Lag \in Nat

VARIABLES keys,      \* keys[c]: the sequence of keys caller c passes
          batches,   \* every batch so far: its items, its values, its state
          open,      \* whether the last batch is current_batch's; else it is None
          age, left, \* as in Batcher
          lock,      \* who holds current_batch's mutex: a caller, or Free
          pc,        \* state of a caller
          pos,       \* how many keys it has added, then how many waiters it has awaited
          waiters,   \* its BatchWaiting list
          results    \* the keys it has a value for, with the batch the value is from

callers == <<pc, pos, waiters, results>>
vars == <<keys, batches, open, age, left, lock, callers>>

\* DataLoader::new: batch_size.max(1), Semaphore::new(concurrency.max(1))
AtLeastOne(n) == IF n = 0 THEN 1 ELSE n
batch_size    == AtLeastOne(BatchSize)
permits       == AtLeastOne(Concurrency)

\* filling: current_batch.  running: holds a permit.  set: the OnceCell was
\* set, the token not yet cancelled.  ended: the token is cancelled.
\* values: empty OnceCell, the fetcher's None, or the keys its map holds
Unset  == [kind |-> "unset", found |-> {}]
Failed == [kind |-> "none", found |-> {}]
Some(found) == [kind |-> "some", found |-> found]

Last    == Len(batches)
Running == {b \in DOMAIN batches : batches[b].state \in {"running", "set"}}

Init ==
    /\ keys \in Loads
    /\ batches = << >>
    /\ open = FALSE
    /\ age = 0
    /\ left = Delay
    /\ lock = Free
    /\ pc = [c \in Caller |-> "idle"]
    /\ pos = [c \in Caller |-> 0]
    /\ waiters = [c \in Caller |-> << >>]
    /\ results = [c \in Caller |-> {}]

----------------------------------------------------------------------------
(* DataLoader::load_many.                                                  *)

\* current_batch.lock().await
Lock(c) ==
    /\ pc[c] = "idle"
    /\ lock = Free
    /\ lock' = c
    /\ pc' = [pc EXCEPT ![c] = "adding"]
    /\ UNCHANGED <<keys, batches, open, age, left, pos, waiters, results>>

\* The current batch with key k in it, or a new one: Batch::new
WithKey(k) ==
    IF open
    THEN [batches EXCEPT ![Last].items = @ \cup {k}]
    ELSE Append(batches, [items |-> {k}, state |-> "filling", values |-> Unset])

\* tokio::spawn(batch.take().unwrap().spawn(executor))
Spawned(bs) == [bs EXCEPT ![Len(bs)].state = "spawned"]

\* `new_batch` is set at the start and whenever a batch is created, so a
\* caller has one BatchWaiting for each batch it adds to.
WaitersWith(c, k, b) ==
    LET ws == waiters[c]
    IN  IF ws = << >> \/ ~open
        THEN Append(ws, [keys |-> {k}, batch |-> b])
        ELSE [ws EXCEPT ![Len(ws)].keys = @ \cup {k}]

\* One key: create a batch if there is none, insert, spawn the batch if full
AddKey(c) ==
    LET k == keys[c][pos[c] + 1]  bs == WithKey(k)
    IN  /\ pc[c] = "adding"
        /\ pos[c] < Len(keys[c])
        /\ pos' = [pos EXCEPT ![c] = @ + 1]
        /\ waiters' = [waiters EXCEPT ![c] = WaitersWith(c, k, Len(bs))]
        /\ IF Cardinality(bs[Len(bs)].items) >= batch_size
           THEN batches' = Spawned(bs) /\ open' = FALSE /\ age' = 0
           ELSE batches' = bs /\ open' = TRUE /\ UNCHANGED age
        /\ UNCHANGED <<keys, left, lock, pc, results>>

\* The guard is dropped and the waiters are awaited, from the first
Unlock(c) ==
    /\ pc[c] = "adding"
    /\ pos[c] = Len(keys[c])
    /\ lock' = Free
    /\ pc' = [pc EXCEPT ![c] = "waiting"]
    /\ pos' = [pos EXCEPT ![c] = 0]
    /\ UNCHANGED <<keys, batches, open, age, left, waiters, results>>

\* Mutant: wait() reads the cell without waiting for the token
AwaitNoToken(c) ==
    LET w == waiters[c][pos[c] + 1]
    IN  /\ pc[c] = "waiting"
        /\ pos[c] < Len(waiters[c])
        /\ IF batches[w.batch].values.kind = "some"
           THEN pos' = [pos EXCEPT ![c] = @ + 1] /\ UNCHANGED pc
           ELSE pc' = [pc EXCEPT ![c] = "err"] /\ UNCHANGED pos
        /\ UNCHANGED <<keys, batches, open, age, left, lock, waiters, results>>

\* results.insert for the keys ks that batch b found
Inserted(old, ks, b) == {x \in old : x[1] \notin ks} \cup {<<k, b>> : k \in ks}

\* waiting.result.wait().await?: the token is cancelled; no value or None is
\* the caller's error, at once, whatever the other batches hold.
Await(c) ==
    LET w == waiters[c][pos[c] + 1]
    IN  /\ pc[c] = "waiting"
        /\ pos[c] < Len(waiters[c])
        /\ batches[w.batch].state = "ended"
        /\ IF batches[w.batch].values.kind = "some"
           THEN /\ results' = [results EXCEPT ![c] =
                                  Inserted(@, w.keys \cap batches[w.batch].values.found, w.batch)]
                /\ pos' = [pos EXCEPT ![c] = @ + 1]
                /\ UNCHANGED pc
           ELSE /\ pc' = [pc EXCEPT ![c] = "err"]
                /\ UNCHANGED <<results, pos>>
        /\ UNCHANGED <<keys, batches, open, age, left, lock, waiters>>

\* Ok(results)
Return(c) ==
    /\ pc[c] = "waiting"
    /\ pos[c] = Len(waiters[c])
    /\ pc' = [pc EXCEPT ![c] = "ok"]
    /\ UNCHANGED <<keys, batches, open, age, left, lock, pos, waiters, results>>

\* The caller drops the future at one of its awaits
DropCall(c) ==
    /\ pc[c] \in {"idle", "waiting"}
    /\ pc' = [pc EXCEPT ![c] = "dropped"]
    /\ UNCHANGED <<keys, batches, open, age, left, lock, pos, waiters, results>>

----------------------------------------------------------------------------
(* batch_loop.                                                             *)

\* The sleep is over and the mutex free: spawn the batch if its delay has
\* passed, and sleep for the delay or for what remains of it.
LoopRound ==
    /\ left <= 0
    /\ lock = Free
    /\ \/ /\ ~open
          /\ left' = Delay
          /\ UNCHANGED <<batches, open, age>>
       \/ /\ open
          /\ Delay - age <= 0
          /\ batches' = Spawned(batches)
          /\ open' = FALSE
          /\ age' = 0
          /\ left' = Delay
       \/ /\ open
          /\ Delay - age > 0
          /\ left' = Delay - age
          /\ UNCHANGED <<batches, open, age>>
    /\ UNCHANGED <<keys, lock, callers>>

Tick ==
    /\ left > -Lag
    /\ left' = left - 1
    /\ age' = IF open THEN age + 1 ELSE 0
    /\ UNCHANGED <<keys, batches, open, lock, callers>>

----------------------------------------------------------------------------
(* Batch::spawn.                                                           *)

\* semaphore.acquire_owned().await
Acquire(b) ==
    /\ batches[b].state = "spawned"
    /\ Cardinality(Running) < permits
    /\ batches' = [batches EXCEPT ![b].state = "running"]
    /\ UNCHANGED <<keys, open, age, left, lock, callers>>

\* executor.load(items).await returned, values.set(result): the fetcher may
\* fail, miss some keys, or return keys nobody asked for.
SetValues(b) ==
    /\ batches[b].state = "running"
    /\ \E v \in {Failed} \cup {Some(found) : found \in SUBSET Key} :
          batches' = [batches EXCEPT ![b].state = "set", ![b].values = v]
    /\ UNCHANGED <<keys, open, age, left, lock, callers>>

\* The task ends with the value set: the permit is released and the drop
\* guard, the first local of the function, cancels the token last.
End(b) ==
    /\ batches[b].state = "set"
    /\ batches' = [batches EXCEPT ![b].state = "ended"]
    /\ UNCHANGED <<keys, open, age, left, lock, callers>>

\* Mutant: no drop guard, so unwinding releases the permit only
PanicNoGuard(b) ==
    /\ batches[b].state = "running"
    /\ batches' = [batches EXCEPT ![b].state = "unwound"]
    /\ UNCHANGED <<keys, open, age, left, lock, callers>>

\* The fetcher panics: unwinding drops the permit and the guard
Panic(b) ==
    /\ batches[b].state = "running"
    /\ batches' = [batches EXCEPT ![b].state = "ended"]
    /\ UNCHANGED <<keys, open, age, left, lock, callers>>

----------------------------------------------------------------------------
CallerStep(c) == AddKey(c) \/ Unlock(c) \/ Await(c) \/ Return(c)
TaskStep(b) == Acquire(b) \/ SetValues(b) \/ End(b) \/ Panic(b)

Next ==
    \/ \E c \in Caller : Lock(c) \/ CallerStep(c) \/ DropCall(c)
    \/ LoopRound
    \/ Tick
    \/ \E b \in DOMAIN batches : TaskStep(b)

Spec == Init /\ [][Next]_vars

\* As for Batcher: tasks are polled, fetchers end, time passes, the mutex
\* and the semaphore are fair.  MaxBatches bounds the quantifier only.
MaxBatches == Max({Cardinality(UNION {{c} \X DOMAIN k[c] : c \in Caller}) : k \in Loads})

Fairness ==
    /\ \A c \in Caller : SF_vars(Lock(c)) /\ WF_vars(CallerStep(c))
    /\ SF_vars(LoopRound)
    /\ WF_vars(Tick)
    /\ \A b \in 1..MaxBatches : WF_vars(b \in DOMAIN batches /\ TaskStep(b))

FairSpec == Spec /\ Fairness

----------------------------------------------------------------------------
(* Properties.                                                             *)

\* What a call of load returns is right.  Each of its keys was asked for in a
\* batch it waited for, also when its keys spanned several batches or joined one
\* another caller began.  Ok holds a value for exactly the keys those batches
\* found, each from the last batch that found it, and none of them failed.  An
\* error is the fault of one of its own batches, whose fetcher failed or
\* panicked: a value that was set is never read as unset.
LoadIsRight ==
    \A c \in Caller :
        LET ws    == waiters[c]
            of(w) == batches[ws[w].batch]
            from(k) == {w \in DOMAIN ws : k \in ws[w].keys /\ k \in of(w).values.found}
        IN  /\ pc[c] \in {"ok", "err"} =>
                  \A i \in DOMAIN keys[c] : \E w \in DOMAIN ws : keys[c][i] \in ws[w].keys \cap of(w).items
            /\ pc[c] = "ok" =>
                  /\ \A w \in DOMAIN ws : of(w).values.kind = "some"
                  /\ results[c] = {<<k, ws[Max(from(k))].batch>> : k \in {x \in Key : from(x) # {}}}
            /\ pc[c] = "err" =>
                  \E w \in DOMAIN ws : of(w).state = "ended" /\ of(w).values.kind # "some"

\* Every caller that does not go away returns, also when fetchers panic.
CallersReturn ==
    \A c \in Caller : pc[c] = "waiting" ~> pc[c] \in {"ok", "err", "dropped"}

============================================================================
