------------------------------ MODULE Batcher ------------------------------
(***************************************************************************)
(* scuffle-batching's Batcher (crates/batching/src/batch.rs): callers of   *)
(* execute_many fill the current batch under a mutex, a full batch is      *)
(* spawned at once, and batch_loop spawns one that has waited for `delay`. *)
(* Spawned batches run behind a semaphore.                                 *)
(*                                                                         *)
(* A request is <<c, i>>: the i-th item of caller c, together with its     *)
(* oneshot channel.  Time is counted in ticks relative to the present:     *)
(* `age` is created_at.elapsed() of the current batch, `left` the time     *)
(* until batch_loop's sleep ends, negative when the task is polled late.   *)
(* Time does not pass inside a stretch of code without an await.           *)
(***************************************************************************)
EXTENDS Integers, Sequences, FiniteSets

CONSTANTS Caller,      \* invocations of execute_many
          Count,       \* Count[c]: how many items caller c passes
          BatchSize,   \* the arguments of Batcher::new
          Concurrency,
          Delay,
          Lag,         \* how late batch_loop may get to run after its sleep
          Free         \* holder of a mutex nobody holds

ASSUME BatcherAssumption ==
    /\ Count \in [Caller -> Nat]
    /\ Free \notin Caller
    /\ BatchSize \in Nat /\ Concurrency \in Nat /\ Delay \in Nat /\ Lag \in Nat

VARIABLES batch,    \* items of current_batch; << >> when it is None
          age,      \* time since the current batch was created; 0 when None
          left,     \* time until batch_loop wakes
          lock,     \* who holds current_batch's mutex: a caller, or Free
          tasks,    \* spawned batches, in spawn order: items and state
          pc,       \* state of a caller
          pushed,   \* how many of its items a caller has pushed
          reply     \* state of each request's oneshot channel

buffer == <<batch, age, tasks>>
callers == <<pc, pushed>>
vars == <<buffer, left, lock, callers, reply>>

AtLeastOne(n) == IF n = 0 THEN 1 ELSE n

\* Batcher::new: batch_size.max(1), Semaphore::new(concurrency.max(1))
batch_size == AtLeastOne(BatchSize)
permits    == AtLeastOne(Concurrency)

Request == UNION {{c} \X (1..Count[c]) : c \in Caller}
Running == {t \in DOMAIN tasks : tasks[t].state = "running"}

\* Where a request is held: the current batch or an unfinished task
Elements(s) == {s[k] : k \in DOMAIN s}
Holders(r)  == {t \in DOMAIN tasks : tasks[t].state # "ended" /\ r \in Elements(tasks[t].items)}

TypeOK ==
    /\ batch \in Seq(Request)
    /\ age \in Nat
    /\ left \in -Lag..Delay
    /\ lock \in Caller \cup {Free}
    /\ tasks \in Seq([items : Seq(Request), state : {"spawned", "running", "ended"}])
    /\ pc \in [Caller -> {"idle", "pushing", "waiting", "returned", "dropped"}]
    /\ pushed \in [Caller -> Nat] /\ \A c \in Caller : pushed[c] <= Count[c]
    /\ reply \in [Request -> {"unsent", "waiting", "answered", "closed"}]

Init ==
    /\ batch = << >>
    /\ age = 0
    /\ left = Delay
    /\ lock = Free
    /\ tasks = << >>
    /\ pc = [c \in Caller |-> "idle"]
    /\ pushed = [c \in Caller |-> 0]
    /\ reply = [r \in Request |-> "unsent"]

----------------------------------------------------------------------------
(* Batcher::execute_many.                                                  *)

\* current_batch.lock().await
Lock(c) ==
    /\ pc[c] = "idle"
    /\ lock = Free
    /\ lock' = c
    /\ pc' = [pc EXCEPT ![c] = "pushing"]
    /\ UNCHANGED <<buffer, left, pushed, reply>>

\* tokio::spawn(batch.take().unwrap().spawn(executor))
Spawn(items) ==
    /\ tasks' = Append(tasks, [items |-> items, state |-> "spawned"])
    /\ batch' = << >>
    /\ age' = 0

\* Mutant: the full batch is spawned without the item that filled it
PushLost(c) ==
    LET r == <<c, pushed[c] + 1>>  items == Append(batch, r)
    IN  /\ pc[c] = "pushing"
        /\ pushed[c] < Count[c]
        /\ pushed' = [pushed EXCEPT ![c] = @ + 1]
        /\ reply' = [reply EXCEPT ![r] = "waiting"]
        /\ IF Len(items) >= batch_size
           THEN Spawn(batch)
           ELSE batch' = items /\ UNCHANGED <<age, tasks>>
        /\ UNCHANGED <<left, lock, pc>>

\* One item: a batch is created if there is none (its age starts at 0), the
\* item is pushed, and the batch is spawned once it is full.
Push(c) ==
    LET r == <<c, pushed[c] + 1>>  items == Append(batch, r)
    IN  /\ pc[c] = "pushing"
        /\ pushed[c] < Count[c]
        /\ pushed' = [pushed EXCEPT ![c] = @ + 1]
        /\ reply' = [reply EXCEPT ![r] = "waiting"]
        /\ IF Len(items) >= batch_size
           THEN Spawn(items)
           ELSE batch' = items /\ UNCHANGED <<age, tasks>>
        /\ UNCHANGED <<left, lock, pc>>

\* The guard is dropped and the receivers are awaited
Unlock(c) ==
    /\ pc[c] = "pushing"
    /\ pushed[c] = Count[c]
    /\ lock' = Free
    /\ pc' = [pc EXCEPT ![c] = "waiting"]
    /\ UNCHANGED <<buffer, left, pushed, reply>>

\* response.await.ok() for each receiver
Return(c) ==
    /\ pc[c] = "waiting"
    /\ \A i \in 1..Count[c] : reply[<<c, i>>] \in {"answered", "closed"}
    /\ pc' = [pc EXCEPT ![c] = "returned"]
    /\ UNCHANGED <<buffer, left, lock, pushed, reply>>

\* The caller drops the future at one of its awaits: before it holds the
\* mutex nothing has happened, afterwards its items stay where they are.
DropCall(c) ==
    /\ pc[c] \in {"idle", "waiting"}
    /\ pc' = [pc EXCEPT ![c] = "dropped"]
    /\ UNCHANGED <<buffer, left, lock, pushed, reply>>

----------------------------------------------------------------------------
(* batch_loop.                                                             *)

\* Mutant: every round sleeps for the full delay
LoopFullDelay ==
    /\ left <= 0
    /\ lock = Free
    /\ left' = Delay
    /\ IF batch # << >> /\ Delay - age <= 0
       THEN Spawn(batch)
       ELSE UNCHANGED buffer
    /\ UNCHANGED <<lock, callers, reply>>

\* The sleep is over and the mutex free: spawn the batch if its delay has
\* passed, and sleep for the delay or for what remains of it.
LoopRound ==
    /\ left <= 0
    /\ lock = Free
    /\ \/ /\ batch = << >>
          /\ left' = Delay
          /\ UNCHANGED buffer
       \/ /\ batch # << >>
          /\ Delay - age <= 0
          /\ Spawn(batch)
          /\ left' = Delay
       \/ /\ batch # << >>
          /\ Delay - age > 0
          /\ left' = Delay - age
          /\ UNCHANGED buffer
    /\ UNCHANGED <<lock, callers, reply>>

\* The clock.  batch_loop is polled at most Lag ticks after its sleep ended.
Tick ==
    /\ left > -Lag
    /\ left' = left - 1
    /\ age' = IF batch = << >> THEN 0 ELSE age + 1
    /\ UNCHANGED <<batch, tasks, lock, callers, reply>>

----------------------------------------------------------------------------
(* Batch::spawn.                                                           *)

SetState(t, s) == tasks' = [tasks EXCEPT ![t].state = s]

\* semaphore.acquire_owned().await; the permit is released with _ticket
Acquire(t) ==
    /\ tasks[t].state = "spawned"
    /\ Cardinality(Running) < permits
    /\ SetState(t, "running")
    /\ UNCHANGED <<batch, age, left, lock, callers, reply>>

\* The executor answers one of its requests
Answer(t, k) ==
    /\ tasks[t].state = "running"
    /\ reply[tasks[t].items[k]] = "waiting"
    /\ reply' = [reply EXCEPT ![tasks[t].items[k]] = "answered"]
    /\ UNCHANGED <<buffer, left, lock, callers>>

\* Mutant: a batch that ends keeps its unanswered channels open
FinishOpen(t) ==
    /\ tasks[t].state = "running"
    /\ SetState(t, "ended")
    /\ UNCHANGED <<batch, age, left, lock, callers, reply>>

\* execute returns or panics: what it did not answer is dropped, which
\* closes those channels, and the permit is released.
Finish(t) ==
    /\ tasks[t].state = "running"
    /\ SetState(t, "ended")
    /\ reply' = [r \in Request |-> IF r \in Elements(tasks[t].items) /\ reply[r] = "waiting"
                                   THEN "closed" ELSE reply[r]]
    /\ UNCHANGED <<batch, age, left, lock, callers>>

----------------------------------------------------------------------------
CallerStep(c) == Lock(c) \/ Push(c) \/ Unlock(c) \/ Return(c)
TaskStep(t) == Acquire(t) \/ Finish(t) \/ \E k \in DOMAIN tasks[t].items : Answer(t, k)

Next ==
    \/ \E c \in Caller : CallerStep(c) \/ DropCall(c)
    \/ LoopRound
    \/ Tick
    \/ \E t \in DOMAIN tasks : TaskStep(t)

Spec == Init /\ [][Next]_vars

\* Every task is polled, the executor finishes what it runs, time passes.
\* The mutex and the semaphore are fair queues: waiting for one that becomes
\* free again and again does not last for ever.
Fairness ==
    /\ \A c \in Caller : SF_vars(Lock(c)) /\ WF_vars(Push(c) \/ Unlock(c) \/ Return(c))
    /\ SF_vars(LoopRound)
    /\ WF_vars(Tick)
    /\ \A t \in 1..Cardinality(Request) : WF_vars(t \in DOMAIN tasks /\ TaskStep(t))

FairSpec == Spec /\ Fairness

----------------------------------------------------------------------------
(* Properties.                                                             *)

\* Every request that is waiting for an answer is held exactly once, by the
\* current batch or by one task that will still answer or drop it; a request
\* that was resolved is in no batch that is still to be filled.
NoRequestLost ==
    \A r \in Request :
        /\ reply[r] = "waiting" =>
              IF r \in Elements(batch) THEN Holders(r) = {}
              ELSE \E t \in DOMAIN tasks : Holders(r) = {t}
        /\ r \in Elements(batch) => reply[r] = "waiting"

\* The executor never sees more than batch_size requests at a time, nor runs
\* more than `concurrency` batches at once, and the batch being filled is
\* never full: also when the builder was given 0 for either.
WithinLimits ==
    /\ Len(batch) < batch_size
    /\ \A t \in DOMAIN tasks : Len(tasks[t].items) \in 1..batch_size
    /\ Cardinality(Running) <= permits

\* batch_loop's next round comes no later than the end of the current
\* batch's delay, however the batch was started between two rounds.
WakesInTime == batch # << >> => age + left <= Delay

\* So a batch waits at most `delay`, plus what the loop is polled late.
DelayBounded == batch # << >> => age <= Delay + Lag

\* Every caller that does not go away gets all its answers.
CallersReturn == \A c \in Caller : pc[c] = "waiting" ~> pc[c] \in {"returned", "dropped"}

============================================================================
