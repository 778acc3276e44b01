--------------------------- MODULE RuntimeProofs ---------------------------
(***************************************************************************)
(* Proofs about the scheduling of work.  Batcher, for every set of callers,*)
(* every number of items and every batch_size, concurrency, delay and lag, *)
(* 0 included.  Bootstrap and SignalSvc, for any services, signals and hooks.*)
(***************************************************************************)
EXTENDS Batcher, Bootstrap, FiniteSetTheorems, TLAPS

----------------------------------------------------------------------------
(* Batcher.                                                                *)

\* Appending to a sequence adds one element to it.
LEMMA ElementsAppend ==
    ASSUME NEW S, NEW s \in Seq(S), NEW x \in S
    PROVE  /\ Append(s, x) \in Seq(S)
           /\ Len(Append(s, x)) = Len(s) + 1
           /\ Elements(Append(s, x)) = Elements(s) \cup {x}
  <1>1. /\ Append(s, x) \in Seq(S)
        /\ Len(Append(s, x)) = Len(s) + 1
        /\ Len(s) \in Nat
        /\ DOMAIN s = 1..Len(s)
        /\ DOMAIN Append(s, x) = 1..(Len(s) + 1)
        /\ \A k \in 1..Len(s) : Append(s, x)[k] = s[k]
        /\ Append(s, x)[Len(s) + 1] = x
    OBVIOUS
  <1>2. Elements(Append(s, x)) = Elements(s) \cup {x}
    <2>1. ASSUME NEW y \in Elements(Append(s, x)) PROVE y \in Elements(s) \cup {x}
      <3>1. PICK k \in 1..(Len(s) + 1) : y = Append(s, x)[k]
        BY <1>1 DEF Elements
      <3> QED  BY <1>1, <3>1 DEF Elements
    <2>2. ASSUME NEW y \in Elements(s) PROVE y \in Elements(Append(s, x))
      <3>1. PICK k \in 1..Len(s) : y = s[k]
        BY <1>1 DEF Elements
      <3>2. k \in 1..(Len(s) + 1) /\ y = Append(s, x)[k]
        BY <1>1, <3>1
      <3> QED  BY <1>1, <3>2 DEF Elements
    <2>3. x \in Elements(Append(s, x))
      <3>1. Len(s) + 1 \in 1..(Len(s) + 1)  BY <1>1
      <3> QED  BY <1>1, <3>1 DEF Elements
    <2> QED  BY <2>1, <2>2, <2>3
  <1> QED  BY <1>1, <1>2

\* The item a caller pushes is one of its requests.
LEMMA PushedIsRequest ==
    ASSUME TypeOK, NEW c \in Caller, pushed[c] < Count[c]
    PROVE  <<c, pushed[c] + 1>> \in Request
  BY BatcherAssumption DEF TypeOK, Request

\* What Spawn does to the task list.
LEMMA SpawnType ==
    ASSUME TypeOK, NEW items \in Seq(Request), Spawn(items)
    PROVE  /\ tasks' \in Seq([items : Seq(Request), state : {"spawned", "running", "ended"}])
           /\ batch' \in Seq(Request)
           /\ age' \in Nat
  <1>1. [items |-> items, state |-> "spawned"] \in [items : Seq(Request), state : {"spawned", "running", "ended"}]
    OBVIOUS
  <1> QED  BY <1>1 DEF TypeOK, Spawn

\* A task's state changes, its items do not.
LEMMA SetStateType ==
    ASSUME TypeOK, NEW t \in DOMAIN tasks,
           NEW s \in {"spawned", "running", "ended"}, SetState(t, s)
    PROVE  /\ tasks' \in Seq([items : Seq(Request), state : {"spawned", "running", "ended"}])
           /\ DOMAIN tasks' = DOMAIN tasks
           /\ Len(tasks') = Len(tasks)
           /\ \A u \in DOMAIN tasks : tasks'[u].items = tasks[u].items
           /\ \A u \in DOMAIN tasks : u # t => tasks'[u] = tasks[u]
           /\ tasks'[t].state = s
  <1> DEFINE T == [items : Seq(Request), state : {"spawned", "running", "ended"}]
             new == [tasks[t] EXCEPT !.state = s]
  <1>1. tasks \in Seq(T)
    BY DEF TypeOK
  <1>2. tasks \in Seq(T) /\ tasks[t] \in T
    <2> HIDE DEF T
    <2> QED  BY <1>1
  <1>3. new \in T /\ new.items = tasks[t].items /\ new.state = s
    BY <1>2, Zenon
  <1>4. tasks' = [tasks EXCEPT ![t] = new]
    BY DEF SetState
  <1> HIDE DEF new, T
  <1>5. /\ tasks' \in Seq(T)
        /\ DOMAIN tasks' = DOMAIN tasks
        /\ Len(tasks') = Len(tasks)
        /\ \A u \in DOMAIN tasks : u # t => tasks'[u] = tasks[u]
        /\ tasks'[t] = new
    BY <1>2, <1>3, <1>4
  <1> QED  BY <1>3, <1>5, Zenon DEF T

\* Every step of a caller, of the loop, of a task and of time keeps the types.
LEMMA TypeStep == TypeOK /\ [Next]_vars => TypeOK'
  <1> SUFFICES ASSUME TypeOK, [Next]_vars PROVE TypeOK'
    OBVIOUS
  <1> USE BatcherAssumption
  <1>1. ASSUME NEW c \in Caller, Lock(c) PROVE TypeOK'
    BY <1>1 DEF TypeOK, Lock, buffer
  <1>2. ASSUME NEW c \in Caller, Push(c) PROVE TypeOK'
    <2> DEFINE r == <<c, pushed[c] + 1>>
    <2>1. r \in Request  BY <1>2, PushedIsRequest DEF Push
    <2>2. Append(batch, r) \in Seq(Request)  BY <2>1 DEF TypeOK
    <2>3. /\ tasks' \in Seq([items : Seq(Request), state : {"spawned", "running", "ended"}])
          /\ batch' \in Seq(Request)
          /\ age' \in Nat
      <3>1. CASE Spawn(Append(batch, r))  BY <2>2, <3>1, SpawnType, Zenon
      <3>2. CASE batch' = Append(batch, r) /\ UNCHANGED <<age, tasks>>
        BY <2>2, <3>2 DEF TypeOK
      <3> QED  BY <1>2, <3>1, <3>2 DEF Push
    <2>4. /\ pushed' \in [Caller -> Nat]
          /\ \A d \in Caller : pushed'[d] <= Count[d]
      BY <1>2 DEF TypeOK, Push
    <2>5. reply' \in [Request -> {"unsent", "waiting", "answered", "closed"}]
      BY <1>2, <2>1 DEF TypeOK, Push
    <2>6. UNCHANGED <<left, lock, pc>>  BY <1>2 DEF Push
    <2> QED  BY <2>3, <2>4, <2>5, <2>6, SMTT(20) DEF TypeOK
  <1>3. ASSUME NEW c \in Caller, Unlock(c) PROVE TypeOK'
    BY <1>3 DEF TypeOK, Unlock, buffer
  <1>4. ASSUME NEW c \in Caller, Return(c) PROVE TypeOK'
    BY <1>4 DEF TypeOK, Return, buffer
  <1>5. ASSUME NEW c \in Caller, DropCall(c) PROVE TypeOK'
    BY <1>5 DEF TypeOK, DropCall, buffer
  <1>6. CASE LoopRound
    <2>1. /\ tasks' \in Seq([items : Seq(Request), state : {"spawned", "running", "ended"}])
          /\ batch' \in Seq(Request)
          /\ age' \in Nat
      <3>1. CASE Spawn(batch)  BY <3>1, SpawnType, Zenon DEF TypeOK
      <3>2. CASE UNCHANGED buffer  BY <3>2 DEF TypeOK, buffer
      <3> QED  BY <1>6, <3>1, <3>2 DEF LoopRound
    <2>2. left' \in -Lag..Delay  BY <1>6 DEF TypeOK, LoopRound
    <2>3. UNCHANGED <<lock, pc, pushed, reply>>  BY <1>6 DEF LoopRound, callers
    <2> QED  BY <2>1, <2>2, <2>3 DEF TypeOK
  <1>7. CASE Tick
    BY <1>7 DEF TypeOK, Tick, callers
  <1>8. ASSUME NEW t \in DOMAIN tasks, Acquire(t) PROVE TypeOK'
    BY <1>8, SetStateType, Zenon DEF TypeOK, Acquire, callers
  <1>9. ASSUME NEW t \in DOMAIN tasks, NEW k \in DOMAIN tasks[t].items, Answer(t, k) PROVE TypeOK'
    BY <1>9, Zenon DEF TypeOK, Answer, buffer, callers
  <1>10. ASSUME NEW t \in DOMAIN tasks, Finish(t) PROVE TypeOK'
    <2>1. reply' \in [Request -> {"unsent", "waiting", "answered", "closed"}]
      BY <1>10 DEF TypeOK, Finish
    <2> QED  BY <1>10, <2>1, SetStateType, Zenon DEF TypeOK, Finish, callers
  <1>11. CASE UNCHANGED vars
    BY <1>11 DEF TypeOK, vars, buffer, callers
  <1> QED
    BY <1>1, <1>2, <1>3, <1>4, <1>5, <1>6, <1>7, <1>8, <1>9, <1>10, <1>11
    DEF Next, CallerStep, TaskStep

\* Type correctness, for any callers and arguments of Batcher::new.
THEOREM TypeCorrect == Spec => []TypeOK
  <1>1. Init => TypeOK
    BY BatcherAssumption DEF Init, TypeOK
  <1> QED  BY <1>1, TypeStep, PTL DEF Spec

----------------------------------------------------------------------------
(* Limits.                                                                 *)

\* The tasks that run are finitely many.
LEMMA RunningFinite ==
    ASSUME TypeOK PROVE IsFiniteSet(Running) /\ Cardinality(Running) \in Nat
  <1>1. IsFiniteSet(1..Len(tasks)) /\ DOMAIN tasks = 1..Len(tasks)
    BY FS_Interval DEF TypeOK
  <1> QED  BY <1>1, FS_Subset, FS_CardinalityType DEF Running

\* A batch that has just been spawned does not run yet.
LEMMA SpawnRunning ==
    ASSUME TypeOK, NEW items \in Seq(Request), Spawn(items)
    PROVE  /\ Running' = Running
           /\ DOMAIN tasks' = DOMAIN tasks \cup {Len(tasks) + 1}
           /\ \A t \in DOMAIN tasks : tasks'[t] = tasks[t]
           /\ tasks'[Len(tasks) + 1].items = items
           /\ tasks'[Len(tasks) + 1].state = "spawned"
           /\ Len(tasks) + 1 \notin DOMAIN tasks
  <1> DEFINE T == [items : Seq(Request), state : {"spawned", "running", "ended"}]
             new == [items |-> items, state |-> "spawned"]
  <1>1. tasks \in Seq(T) /\ new \in T /\ new.items = items /\ new.state = "spawned"
    BY DEF TypeOK
  <1>2. tasks' = Append(tasks, new)
    BY DEF Spawn
  <1> HIDE DEF T, new
  <1>3. /\ DOMAIN tasks = 1..Len(tasks) /\ Len(tasks) \in Nat
        /\ DOMAIN tasks' = 1..(Len(tasks) + 1)
        /\ \A t \in 1..Len(tasks) : tasks'[t] = tasks[t]
        /\ tasks'[Len(tasks) + 1] = new
    BY <1>1, <1>2
  <1>4. 1..(Len(tasks) + 1) = 1..Len(tasks) \cup {Len(tasks) + 1} /\ Len(tasks) + 1 \notin 1..Len(tasks)
    BY <1>3
  <1>5. tasks'[Len(tasks) + 1].state # "running"
    BY <1>1, <1>3
  <1>6. Running' = Running
    BY <1>3, <1>4, <1>5, Zenon DEF Running
  <1> QED  BY <1>1, <1>3, <1>4, <1>6

\* Every step keeps batches within batch_size and tasks within the semaphore.
LEMMA LimitsStep == TypeOK /\ WithinLimits /\ [Next]_vars => WithinLimits'
  <1> SUFFICES ASSUME TypeOK, WithinLimits, [Next]_vars PROVE WithinLimits'
    OBVIOUS
  <1> USE BatcherAssumption
  <1>a. batch_size \in Nat \ {0} /\ permits \in Nat \ {0}
    BY DEF batch_size, permits, AtLeastOne
  <1>b. ASSUME NEW items \in Seq(Request), Len(items) \in 1..batch_size, Spawn(items)
        PROVE  WithinLimits'
    <2>1. Len(batch') < batch_size  BY <1>a, <1>b DEF Spawn
    <2>2. \A t \in DOMAIN tasks' : Len(tasks'[t].items) \in 1..batch_size
      BY <1>b, SpawnRunning DEF WithinLimits
    <2>3. Cardinality(Running') <= permits
      BY <1>b, SpawnRunning DEF WithinLimits
    <2> QED  BY <2>1, <2>2, <2>3 DEF WithinLimits, batch_size, permits
  <1>c. ASSUME UNCHANGED <<batch, tasks>> PROVE WithinLimits'
    BY <1>c DEF WithinLimits, batch_size, permits, Running
  <1>1. ASSUME NEW c \in Caller, Push(c) PROVE WithinLimits'
    <2> DEFINE r == <<c, pushed[c] + 1>>
    <2>1. r \in Request  BY <1>1, PushedIsRequest DEF Push
    <2>2. /\ Append(batch, r) \in Seq(Request)
          /\ Len(Append(batch, r)) = Len(batch) + 1
          /\ Len(batch) \in Nat
      BY <2>1 DEF TypeOK
    <2>3. CASE Len(Append(batch, r)) >= batch_size
      <3>1. Len(Append(batch, r)) \in 1..batch_size
        BY <1>a, <2>2, <2>3 DEF WithinLimits
      <3> QED  BY <1>1, <1>b, <2>2, <2>3, <3>1, Zenon DEF Push
    <2>4. CASE ~(Len(Append(batch, r)) >= batch_size)
      <3>1. batch' = Append(batch, r) /\ tasks' = tasks
        BY <1>1, <2>4 DEF Push
      <3>2. Len(batch') < batch_size  BY <1>a, <2>2, <2>4, <3>1
      <3> QED  BY <3>1, <3>2 DEF WithinLimits, batch_size, permits, Running
    <2> QED  BY <2>3, <2>4
  <1>2. CASE LoopRound
    <2>1. ASSUME batch # << >>, Spawn(batch) PROVE WithinLimits'
      <3>1. Len(batch) \in 1..batch_size
        BY <1>a, <2>1 DEF WithinLimits, TypeOK
      <3> QED  BY <1>b, <2>1, <3>1 DEF TypeOK
    <2> QED  BY <1>2, <1>c, <2>1 DEF LoopRound, buffer
  <1>3. ASSUME NEW t \in DOMAIN tasks, Acquire(t) PROVE WithinLimits'
    <2>1. SetState(t, "running")  BY <1>3 DEF Acquire
    <2>2. Running' = Running \cup {t} /\ t \notin Running
      BY <1>3, <2>1, SetStateType DEF Running, Acquire
    <2>3. Cardinality(Running') = Cardinality(Running) + 1
      BY <2>2, RunningFinite, FS_AddElement, Zenon
    <2>4. Cardinality(Running') <= permits
      BY <1>3, <1>a, <2>3, RunningFinite DEF Acquire
    <2>5. \A u \in DOMAIN tasks' : Len(tasks'[u].items) \in 1..batch_size
      BY <2>1, SetStateType, Zenon DEF WithinLimits
    <2> QED  BY <1>3, <2>4, <2>5 DEF WithinLimits, batch_size, permits, Acquire
  <1>4. ASSUME NEW t \in DOMAIN tasks, Finish(t) PROVE WithinLimits'
    <2>1. SetState(t, "ended")  BY <1>4 DEF Finish
    <2>2. Running' = Running \ {t} /\ t \in Running
      BY <1>4, <2>1, SetStateType DEF Running, Finish
    <2>3. Cardinality(Running') = Cardinality(Running) - 1
      BY <2>2, RunningFinite, FS_RemoveElement, Zenon
    <2>4. Cardinality(Running') <= permits
      BY <1>a, <2>3, RunningFinite DEF WithinLimits
    <2>5. \A u \in DOMAIN tasks' : Len(tasks'[u].items) \in 1..batch_size
      BY <2>1, SetStateType, Zenon DEF WithinLimits
    <2> QED  BY <1>4, <2>4, <2>5 DEF WithinLimits, batch_size, permits, Finish
  <1>5. CASE UNCHANGED <<batch, tasks>>  BY <1>5, <1>c
  <1> QED
    BY <1>1, <1>2, <1>3, <1>4, <1>5
    DEF Next, CallerStep, TaskStep, Lock, Unlock, Return, DropCall, Tick, Answer, vars, buffer

\* No batch the executor sees is empty or larger than batch_size, at most
\* `concurrency` of them run at once, and the current batch is never full,
\* for every argument of Batcher::new.
THEOREM LimitsCorrect == Spec => []WithinLimits
  <1>1. Init => WithinLimits
    <2> SUFFICES ASSUME Init PROVE WithinLimits
      OBVIOUS
    <2>1. Running = {} /\ batch = << >> /\ tasks = << >>
      BY DEF Init, Running
    <2>2. Cardinality(Running) = 0  BY <2>1, FS_EmptySet, Zenon
    <2> QED
      BY <2>1, <2>2, BatcherAssumption DEF WithinLimits, batch_size, permits, AtLeastOne
  <1> QED  BY <1>1, TypeCorrect, LimitsStep, PTL DEF Spec

----------------------------------------------------------------------------
(* Time.                                                                   *)

\* The inductive form of WakesInTime: no batch has no age.
TimeInv ==
    /\ batch # << >> => age + left <= Delay
    /\ batch = << >> => age = 0

\* Every step keeps the loop's wake-up within the delay of the current batch.
LEMMA TimeStep == TypeOK /\ TimeInv /\ [Next]_vars => TimeInv'
  <1> SUFFICES ASSUME TypeOK, TimeInv, [Next]_vars PROVE TimeInv'
    OBVIOUS
  <1> USE BatcherAssumption
  <1>1. ASSUME NEW c \in Caller, Push(c) PROVE TimeInv'
    <2> DEFINE r == <<c, pushed[c] + 1>>
    <2>1. Append(batch, r) # << >>
      <3>1. r \in Request  BY <1>1, PushedIsRequest DEF Push
      <3>2. Len(Append(batch, r)) = Len(batch) + 1 /\ Len(batch) \in Nat
        BY <3>1, ElementsAppend DEF TypeOK
      <3>3. Len(<< >>) = 0  OBVIOUS
      <3>4. Len(Append(batch, r)) # 0  BY <3>2
      <3> QED  BY <3>3, <3>4, Zenon
    <2>2. age + left <= Delay
      BY DEF TimeInv, TypeOK
    <2> QED  BY <1>1, <2>1, <2>2 DEF Push, Spawn, TimeInv
  <1>2. CASE LoopRound
    BY <1>2 DEF LoopRound, Spawn, TimeInv, TypeOK, buffer
  <1>3. CASE Tick
    BY <1>3 DEF Tick, TimeInv, TypeOK
  <1>4. CASE UNCHANGED <<batch, age, left>>
    BY <1>4 DEF TimeInv
  <1> QED
    BY <1>1, <1>2, <1>3, <1>4, Zenon
    DEF Next, CallerStep, TaskStep, Lock, Unlock, Return, DropCall, Acquire, Answer, Finish,
        vars, buffer

\* batch_loop never sleeps past the end of the current batch's delay.
THEOREM WakeCorrect == Spec => []WakesInTime
  <1>1. Init => TimeInv
    BY DEF Init, TimeInv
  <1>2. TimeInv => WakesInTime
    BY DEF TimeInv, WakesInTime
  <1> QED  BY <1>1, <1>2, TypeCorrect, TimeStep, PTL DEF Spec

\* A batch waits at most delay + lag before it is spawned.
THEOREM DelayCorrect == Spec => []DelayBounded
  <1>1. TypeOK /\ WakesInTime => DelayBounded
    BY BatcherAssumption DEF TypeOK, WakesInTime, DelayBounded
  <1> QED  BY <1>1, TypeCorrect, WakeCorrect, PTL

----------------------------------------------------------------------------
(* Requests.                                                               *)

\* The inductive form of NoRequestLost.  A request is in a batch only after
\* its caller pushed it, so a pushed item is new everywhere; no two batches
\* share a request; and a waiting request is somewhere.
PlaceInv ==
    /\ \A r \in Request : r \in Elements(batch) => r[2] <= pushed[r[1]]
    /\ \A t \in DOMAIN tasks : \A r \in Elements(tasks[t].items) : r[2] <= pushed[r[1]]
    /\ \A t \in DOMAIN tasks : Elements(tasks[t].items) \cap Elements(batch) = {}
    /\ \A t, u \in DOMAIN tasks :
          t # u => Elements(tasks[t].items) \cap Elements(tasks[u].items) = {}
    /\ \A r \in Request : r \in Elements(batch) => reply[r] = "waiting"
    /\ \A r \in Request : reply[r] = "waiting" => r \in Elements(batch) \/ Holders(r) # {}

\* PlaceInv says what NoRequestLost does.
LEMMA PlaceEnough == PlaceInv => NoRequestLost
  <1> SUFFICES ASSUME PlaceInv, NEW r \in Request
               PROVE  /\ reply[r] = "waiting" =>
                            IF r \in Elements(batch) THEN Holders(r) = {}
                            ELSE \E t \in DOMAIN tasks : Holders(r) = {t}
                      /\ r \in Elements(batch) => reply[r] = "waiting"
    BY DEF NoRequestLost
  <1>1. r \in Elements(batch) => reply[r] = "waiting"
    BY DEF PlaceInv
  <1>2. r \in Elements(batch) => Holders(r) = {}
    BY DEF PlaceInv, Holders
  <1>3. ASSUME reply[r] = "waiting", r \notin Elements(batch)
        PROVE  \E t \in DOMAIN tasks : Holders(r) = {t}
    <2>1. PICK t \in DOMAIN tasks : t \in Holders(r)
      BY <1>3 DEF PlaceInv, Holders
    <2>2. \A u \in Holders(r) : u = t
      BY <2>1 DEF PlaceInv, Holders
    <2>3. Holders(r) = {t}
      BY <2>1, <2>2
    <2> QED  BY <2>3
  <1> QED  BY <1>1, <1>2, <1>3

\* Elements of a task's items are requests.
LEMMA TaskItems ==
    ASSUME TypeOK, NEW t \in DOMAIN tasks
    PROVE  tasks[t].items \in Seq(Request) /\ Elements(tasks[t].items) \subseteq Request
  <1> DEFINE T == [items : Seq(Request), state : {"spawned", "running", "ended"}]
  <1>1. tasks \in Seq(T)
    BY DEF TypeOK
  <1>2. tasks[t] \in T
    <2> HIDE DEF T
    <2> QED  BY <1>1, SMTT(20), Z3T(20)
  <1> QED  BY <1>2 DEF Elements

\* Every step keeps each item in exactly one place.
LEMMA PlaceStep == TypeOK /\ PlaceInv /\ [Next]_vars => PlaceInv'
  <1> SUFFICES ASSUME TypeOK, PlaceInv, [Next]_vars PROVE PlaceInv'
    OBVIOUS
  <1> USE BatcherAssumption
  <1>a. Elements(batch) \subseteq Request
    BY SMTT(20), Z3T(20)  DEF TypeOK, Elements
  \* Handing the current batch, grown to `items`, to a task
  <1>b. ASSUME NEW items \in Seq(Request), Spawn(items),
               \A r \in Elements(items) : r[2] <= pushed'[r[1]],
               \A r \in Request : r[2] <= pushed[r[1]] => r[2] <= pushed'[r[1]],
               \A t \in DOMAIN tasks : Elements(tasks[t].items) \cap Elements(items) = {},
               \A r \in Request : reply'[r] = "waiting" =>
                   r \in Elements(items) \/ reply[r] = "waiting",
               Elements(batch) \subseteq Elements(items)
        PROVE  PlaceInv'
    <2> DEFINE n == Len(tasks) + 1
    <2>1. /\ DOMAIN tasks' = DOMAIN tasks \cup {n}
          /\ n \notin DOMAIN tasks
          /\ \A t \in DOMAIN tasks : tasks'[t] = tasks[t]
          /\ tasks'[n].items = items /\ tasks'[n].state = "spawned"
      BY <1>b, SpawnRunning, Zenon
    <2>2. Elements(batch') = {}
      BY <1>b, SMTT(20), Z3T(20) DEF Spawn, Elements
    <2> HIDE DEF n
    <2>3. \A t \in DOMAIN tasks' : \A r \in Elements(tasks'[t].items) : r[2] <= pushed'[r[1]]
      BY <1>b, <2>1, TaskItems DEF PlaceInv
    <2>4. \A t, u \in DOMAIN tasks' :
             t # u => Elements(tasks'[t].items) \cap Elements(tasks'[u].items) = {}
      BY <1>b, <2>1, ZenonT(30) DEF PlaceInv
    <2>5. \A r \in Request : reply'[r] = "waiting" => Holders(r)' # {}
      <3> SUFFICES ASSUME NEW r \in Request, reply'[r] = "waiting" PROVE Holders(r)' # {}
        OBVIOUS
      <3>1. CASE r \in Elements(items)
        <4>1. n \in Holders(r)'  BY <2>1, <3>1 DEF Holders
        <4> QED  BY <4>1
      <3>2. CASE r \notin Elements(items)
        <4>1. reply[r] = "waiting" /\ r \notin Elements(batch)  BY <1>b, <3>2
        <4>2. PICK t \in DOMAIN tasks : t \in Holders(r)
          BY <4>1 DEF PlaceInv, Holders
        <4>3. t \in Holders(r)'  BY <2>1, <4>2 DEF Holders
        <4> QED  BY <4>3
      <3> QED  BY <3>1, <3>2
    <2> QED  BY <2>2, <2>3, <2>4, <2>5, Zenon DEF PlaceInv
  <1>1. ASSUME NEW c \in Caller, Push(c) PROVE PlaceInv'
    <2> DEFINE r == <<c, pushed[c] + 1>>
               items == Append(batch, r)
    <2>1. r \in Request  BY <1>1, PushedIsRequest DEF Push
    <2>2. /\ items \in Seq(Request)
          /\ Elements(items) = Elements(batch) \cup {r}
      BY <2>1, ElementsAppend, ZenonT(40) DEF TypeOK
    <2>3. /\ pushed' = [pushed EXCEPT ![c] = @ + 1]
          /\ reply' = [reply EXCEPT ![r] = "waiting"]
          /\ r[1] = c /\ r[2] = pushed[c] + 1
      BY <1>1 DEF Push
    <2>4. ~(r[2] <= pushed[r[1]]) /\ r[2] <= pushed'[r[1]]
      BY <2>3 DEF TypeOK
    <2>5. \A q \in Request : q[2] <= pushed[q[1]] => q[2] <= pushed'[q[1]]
      BY <2>3 DEF TypeOK, Request
    <2>6. \A q \in Request : q # r => reply'[q] = reply[q]
      BY <2>3 DEF TypeOK
    <2>7. reply'[r] = "waiting"
      BY <2>1, <2>3 DEF TypeOK
    <2>8. \A t \in DOMAIN tasks : r \notin Elements(tasks[t].items)
      BY <2>4, Zenon DEF PlaceInv
    <2>9. \A q \in Elements(items) : q[2] <= pushed'[q[1]]
      BY <1>a, <2>2, <2>4, <2>5, Zenon DEF PlaceInv
    <2>10. \A t \in DOMAIN tasks : Elements(tasks[t].items) \cap Elements(items) = {}
      BY <2>2, <2>8, Zenon DEF PlaceInv
    <2>11. \A q \in Request : reply'[q] = "waiting" =>
              q \in Elements(items) \/ reply[q] = "waiting"
      BY <2>2, <2>6
    <2>12. Spawn(items) \/ (batch' = items /\ UNCHANGED <<age, tasks>>)
      BY <1>1, Zenon DEF Push
    <2> HIDE DEF r, items
    <2>13. CASE Spawn(items)
      BY <1>b, <2>2, <2>5, <2>9, <2>10, <2>11, <2>13, Zenon
    <2>14. CASE batch' = items /\ UNCHANGED <<age, tasks>>
      <3>1. \A t \in DOMAIN tasks' : \A q \in Elements(tasks'[t].items) : q[2] <= pushed'[q[1]]
        BY <2>5, <2>14, TaskItems, Zenon DEF PlaceInv
      <3>2. \A q \in Request : reply'[q] = "waiting" =>
                q \in Elements(batch') \/ Holders(q)' # {}
        BY <2>2, <2>6, <2>14, Zenon DEF PlaceInv, Holders
      <3>3. \A q \in Request : q \in Elements(batch') => reply'[q] = "waiting"
        BY <2>2, <2>6, <2>7, <2>14 DEF PlaceInv
      <3>4. \A q \in Request : q \in Elements(batch') => q[2] <= pushed'[q[1]]
        BY <2>9, <2>14
      <3>5. \A t \in DOMAIN tasks' : Elements(tasks'[t].items) \cap Elements(batch') = {}
        BY <2>10, <2>14, Zenon
      <3>6. \A t, u \in DOMAIN tasks' :
               t # u => Elements(tasks'[t].items) \cap Elements(tasks'[u].items) = {}
        BY <2>14 DEF PlaceInv
      <3> QED  BY <3>1, <3>2, <3>3, <3>4, <3>5, <3>6, Zenon DEF PlaceInv
    <2> QED  BY <2>12, <2>13, <2>14
  <1>2. CASE LoopRound
    <2>1. pushed' = pushed /\ reply' = reply
      BY <1>2, Zenon DEF LoopRound, callers
    <2>2. CASE Spawn(batch)
      <3>1. batch \in Seq(Request)  BY DEF TypeOK
      <3>2. \A r \in Elements(batch) : r[2] <= pushed'[r[1]]
        BY <1>a, <2>1, Zenon DEF PlaceInv
      <3>3. \A t \in DOMAIN tasks : Elements(tasks[t].items) \cap Elements(batch) = {}
        BY Zenon  DEF PlaceInv
      <3> QED  BY <1>b, <2>1, <2>2, <3>1, <3>2, <3>3
    <2>3. CASE UNCHANGED buffer
      BY <2>1, <2>3 DEF PlaceInv, Holders, buffer
    <2> QED  BY <1>2, <2>2, <2>3 DEF LoopRound
  <1>3. ASSUME NEW t \in DOMAIN tasks, Acquire(t) PROVE PlaceInv'
    <2>1. /\ DOMAIN tasks' = DOMAIN tasks
          /\ \A u \in DOMAIN tasks : tasks'[u].items = tasks[u].items
          /\ \A u \in DOMAIN tasks : tasks[u].state # "ended" => tasks'[u].state # "ended"
      BY <1>3, SetStateType, ZenonT(30) DEF Acquire
    <2>2. UNCHANGED <<batch, pushed, reply>>
      BY <1>3, Zenon DEF Acquire, callers
    <2>3. \A r \in Request : Holders(r) \subseteq Holders(r)'
      BY <2>1, Zenon DEF Holders
    <2> QED  BY <2>1, <2>2, <2>3, Zenon DEF PlaceInv
  <1>4. ASSUME NEW t \in DOMAIN tasks, NEW k \in DOMAIN tasks[t].items, Answer(t, k)
        PROVE  PlaceInv'
    <2> DEFINE r == tasks[t].items[k]
    <2>1. r \in Elements(tasks[t].items)  BY Zenon  DEF Elements
    <2>2. UNCHANGED <<batch, tasks, pushed>>  BY <1>4, Zenon DEF Answer, buffer, callers
    <2>3. r \notin Elements(batch)  BY <2>1 DEF PlaceInv
    <2>4. \A q \in Request : q # r => reply'[q] = reply[q]
      BY <1>4 DEF Answer, TypeOK
    <2>5. \A q \in Request : reply'[q] = "waiting" => reply[q] = "waiting"
      BY <1>4, Zenon DEF Answer, TypeOK
    <2> HIDE DEF r
    <2> QED  BY <2>2, <2>3, <2>4, <2>5 DEF PlaceInv, Holders
  <1>5. ASSUME NEW t \in DOMAIN tasks, Finish(t) PROVE PlaceInv'
    <2>1. /\ DOMAIN tasks' = DOMAIN tasks
          /\ \A u \in DOMAIN tasks : tasks'[u].items = tasks[u].items
          /\ \A u \in DOMAIN tasks : u # t => tasks'[u] = tasks[u]
      BY <1>5, SetStateType, SMTT(20), Z3T(20) DEF Finish
    <2>2. UNCHANGED <<batch, pushed>>  BY <1>5, SMTT(20) DEF Finish, callers
    <2>3. \A r \in Request : r \in Elements(batch) => reply'[r] = reply[r]
      BY <1>5, Zenon DEF Finish, PlaceInv
    <2>4. \A r \in Request : reply'[r] = "waiting" =>
              reply[r] = "waiting" /\ r \notin Elements(tasks[t].items)
      BY <1>5, Zenon DEF Finish
    <2>5. \A r \in Request : reply'[r] = "waiting" => r \in Elements(batch') \/ Holders(r)' # {}
      <3> SUFFICES ASSUME NEW r \in Request, reply'[r] = "waiting", r \notin Elements(batch)
                   PROVE  Holders(r)' # {}
        BY <2>2, Zenon
      <3>1. PICK u \in DOMAIN tasks : u \in Holders(r)
        BY <2>4, Zenon DEF PlaceInv, Holders
      <3>2. u # t  BY <2>4, <3>1 DEF Holders
      <3>3. u \in Holders(r)'  BY <2>1, <3>1, <3>2, Zenon DEF Holders
      <3> QED  BY <3>3
    <2> QED  BY <2>1, <2>2, <2>3, <2>5, Zenon DEF PlaceInv
  <1>6. CASE UNCHANGED <<batch, tasks, pushed, reply>>
    BY <1>6, SMTT(20) DEF PlaceInv, Holders
  <1> QED
    BY <1>1, <1>2, <1>3, <1>4, <1>5, <1>6, Zenon
    DEF Next, CallerStep, TaskStep, Lock, Unlock, Return, DropCall, Tick, vars, buffer, callers

\* Every request that waits for an answer is in exactly one batch that will
\* still be executed, whatever callers, batch_loop and executors do.
THEOREM RequestsCorrect == Spec => []NoRequestLost
  <1>1. Init => PlaceInv
    <2> SUFFICES ASSUME Init PROVE PlaceInv
      OBVIOUS
    <2>1. Elements(batch) = {} /\ DOMAIN tasks = {}
      BY SMTT(20) DEF Init, Elements
    <2>2. \A r \in Request : reply[r] # "waiting"
      BY DEF Init
    <2> QED  BY <2>1, <2>2, Zenon DEF PlaceInv
  <1> QED  BY <1>1, TypeCorrect, PlaceStep, PlaceEnough, PTL DEF Spec

----------------------------------------------------------------------------
(* main and SignalSvc.                                                     *)

\* with_signal, poll_recv and a signal keep the streams a sequence of streams.
LEMMA StreamsType ==
  ASSUME SigTypeOK, SigStep \/ \E k \in Kind : Raise(k)
  PROVE  streams' \in Seq(Stream) /\ listed' \in Nat
<1>1. streams \in Seq(Stream) /\ listed \in Nat /\ config.signals \in Seq(Kind)
  BY SignalAssumption DEF SigTypeOK
<1>2. CASE SigListen
  <2>1. PICK k \in Kind : streams' = AddSignal(streams, k) /\ listed' = listed + 1
    BY <1>1, <1>2 DEF SigListen
  <2>2. [kind |-> k, pending |-> FALSE] \in Stream
    BY DEF Stream
  <2> QED
    BY <1>1, <2>1, <2>2 DEF AddSignal
<1>3. CASE PollRecv /\ listed' = listed
  <2>1. PICK i \in DOMAIN streams : streams' = [streams EXCEPT ![i].pending = FALSE]
    BY <1>3, Zenon DEF PollRecv, Ready
  <2>2. streams[i] \in Stream
    BY <1>1
  <2>3. [streams[i] EXCEPT !.pending = FALSE] \in Stream
    BY <2>2, Zenon DEF Stream
  <2> QED
    BY <1>1, <1>3, <2>1, <2>3
<1>4. ASSUME NEW k \in Kind, Raise(k) PROVE streams' \in Seq(Stream) /\ listed' \in Nat
  <2>1. streams' = [i \in DOMAIN streams |->
                      IF streams[i].kind = k THEN [streams[i] EXCEPT !.pending = TRUE] ELSE streams[i]]
    BY <1>4 DEF Raise
  <2>2. \A i \in DOMAIN streams : streams[i] \in Stream
    BY <1>1
  <2>3. \A i \in DOMAIN streams : streams'[i] \in Stream
    BY <2>1, <2>2, Zenon DEF Stream
  <2>4. DOMAIN streams' = 1 .. Len(streams) /\ Len(streams) \in Nat
    BY <1>1, <2>1
  <2>5. streams' = [i \in 1 .. Len(streams) |-> streams'[i]]
    BY <2>1, <2>4, Zenon
  <2> QED
    BY <1>1, <1>4, <2>3, <2>4, <2>5 DEF Raise
<1>5. CASE UNCHANGED <<streams, listed>>
  BY <1>1, <1>5, Zenon
<1> QED
  BY <1>2, <1>3, <1>4, <1>5, Zenon DEF SigStep, SigBegin, SigRecv, SigOnShutdown, SigForce, SigCancel,
     SigShutdown, SigTimeout, SigOnForce

\* A step of SignalSvc, or of the rest of the system
LEMMA SigMoves ==
  ASSUME BootTypeOK, SigStep
  PROVE  /\ sig' \in SigState /\ sig' # "off"
         /\ sig \notin {"off", "ok", "err"}
         /\ UNCHANGED <<config, raises>>
         /\ cancelled' \in BOOLEAN /\ begun' \in {"none", "signal", "context"}
         /\ held' \subseteq held /\ held \subseteq held' \cup {Sig}
         /\ streams' \in Seq(Stream) /\ listed' \in Nat
<1>0. streams' \in Seq(Stream) /\ listed' \in Nat
  BY StreamsType DEF BootTypeOK
<1> USE <1>0 DEF BootTypeOK, SigTypeOK, SigState
<1>1. Answers("ok") \subseteq {"ok", "err"} /\ Answers("err") \subseteq {"ok", "err"}
  BY DEF Answers
<1>2. CASE SigBegin
  BY <1>2 DEF SigBegin
<1>3. CASE SigRecv
  BY <1>3 DEF SigRecv
<1>4. CASE SigOnShutdown
  BY <1>1, <1>4 DEF SigOnShutdown
<1>5. CASE SigForce
  BY <1>5 DEF SigForce
<1>6. CASE SigCancel
  BY <1>6 DEF SigCancel
<1>7. CASE SigShutdown
  BY <1>7 DEF SigShutdown
<1>8. CASE SigTimeout
  BY <1>8 DEF SigTimeout
<1>9. CASE SigOnForce
  BY <1>1, <1>9 DEF SigOnForce
<1>10. CASE SigListen
  BY <1>10 DEF SigListen
<1> QED
  BY <1>2, <1>3, <1>4, <1>5, <1>6, <1>7, <1>8, <1>9, <1>10, Zenon DEF SigStep

\* The types hold before main runs.
LEMMA BootTypeInit == BootInit => BootTypeOK
<1> SUFFICES ASSUME BootInit
             PROVE  BootTypeOK
  OBVIOUS
<1>1. SigTypeOK
  <2>1. 0 \in 0..MaxRaises
    BY SignalAssumption
  <2>2. << >> \in Seq(Stream) /\ 0 \in Nat
    OBVIOUS
  <2> QED
    BY <2>1, <2>2, Zenon DEF BootInit, SigInit, SigTypeOK, SigState
<1>2. held = {} /\ remaining = {} /\ notified = {}
  BY DEF BootInit, SigInit
<1>3. next \in 1..(Len(Services) + 1)
  BY ServicesAssumption, SMTT(20) DEF BootInit
<1> QED
  BY <1>1, <1>2, <1>3 DEF BootInit, BootTypeOK, MainState

\* Every step of main, of SignalSvc and of a service keeps the types.
LEMMA BootTypeStep == BootTypeOK /\ [BootNext]_bootvars => BootTypeOK'
<1> SUFFICES ASSUME BootTypeOK, [BootNext]_bootvars
             PROVE  BootTypeOK'
  OBVIOUS
<1> USE ServicesAssumption DEF BootTypeOK, SigTypeOK, StateOf, sigvars, mainvars
<1>1. CASE Boilerplate
  <2>1. main' \in MainState
    BY <1>1, ZenonT(40) DEF Boilerplate, MainState
  <2> QED
    BY <1>1, <2>1 DEF Boilerplate
<1>2. CASE SpawnService
  <2>1. /\ Services[next] \in Svc /\ Sig \notin App
        /\ Services[next] # Sig => Services[next] \in App
    <3>1. next \in DOMAIN Services
      BY <1>2, SMTT(20) DEF SpawnService
    <3>2. Services[next] \in Svc
      BY <3>1, Zenon DEF Svc
    <3> QED
      BY <3>2, ZenonT(30) DEF App
  <2> DEFINE s == Services[next]
  <2>2. next + 1 \in 1..(Len(Services) + 1)
    BY <1>2, SMTT(20), Z3T(20) DEF SpawnService
  <2>3. UNCHANGED <<config, streams, listed, raises, begun, cancelled, exit, notified>>
    BY <1>2, Zenon DEF SpawnService
  <2>4. CASE /\ held' = held \cup {s} /\ remaining' = remaining \cup {s}
             /\ next' = next + 1 /\ UNCHANGED <<main, result>>
             /\ s = Sig /\ sig' = "spawned" /\ UNCHANGED st
    BY <2>1, <2>2, <2>3, <2>4, Zenon DEF SigState
  <2>5. CASE /\ held' = held \cup {s} /\ remaining' = remaining \cup {s}
             /\ next' = next + 1 /\ UNCHANGED <<main, result>>
             /\ s # Sig /\ st' = [st EXCEPT ![s] = "running"] /\ UNCHANGED sig
    BY <2>1, <2>2, <2>3, <2>5, SMTT(20), Z3T(20)
  <2>6. CASE next' = next + 1 /\ UNCHANGED <<held, sig, st, remaining, main, result>>
    BY <2>2, <2>3, <2>6, Zenon
  <2>7. CASE Fail /\ UNCHANGED <<held, sig, st, remaining, next>>
    BY <2>3, <2>7, Zenon DEF Fail, MainState
  <2> QED
    BY <1>2, <2>4, <2>5, <2>6, <2>7, SMTT(20) DEF SpawnService
<1>3. CASE OnServicesStart
  BY <1>3 DEF OnServicesStart, Fail, MainState
<1>4. CASE SelectEmpty
  BY <1>4, Zenon DEF SelectEmpty, MainState
<1>5. ASSUME NEW s \in Svc, HandleServiceExit(s)
      PROVE  BootTypeOK'
  BY <1>5, SMTT(20) DEF HandleServiceExit, Fail, MainState
<1>6. CASE OnExit
  BY <1>6, SMTT(20) DEF OnExit, MainState, Answers
<1>7. CASE SigStep /\ UNCHANGED <<mainvars, st>>
  BY <1>7, SigMoves
<1>8. ASSUME NEW k \in Kind, Raise(k), UNCHANGED <<mainvars, st>>
      PROVE  BootTypeOK'
  <2>1. streams' \in Seq(Stream) /\ listed' \in Nat
    BY <1>8, StreamsType
  <2>2. raises' \in 0..MaxRaises
    BY <1>8, SignalAssumption, SMTT(20), Z3T(20) DEF Raise
  <2> QED
    BY <1>8, <2>1, <2>2, Zenon DEF Raise
<1>9. ASSUME NEW s \in App, SvcFinish(s) \/ SvcDropContext(s)
      PROVE  BootTypeOK'
  BY <1>9, Zenon DEF SvcFinish, SvcDropContext, App
<1>10. CASE GlobalCancel /\ UNCHANGED <<mainvars, st>>
  BY <1>10, Zenon DEF GlobalCancel
<1>11. CASE UNCHANGED bootvars
  BY <1>11 DEF bootvars
<1> QED
  BY <1>1, <1>2, <1>3, <1>4, <1>5, <1>6, <1>7, <1>8, <1>9, <1>10, <1>11, ZenonT(30) DEF BootNext, MainStep

\* Every variable but the list of streams has its type (main, SignalSvc::run).
THEOREM BootTypeCorrect == BootSpec => []BootTypeOK
  BY BootTypeInit, BootTypeStep, PTL DEF BootSpec

----------------------------------------------------------------------------
(* When main returns Ok.                                                   *)

\* Every service is still waited for, was never spawned, or has ended and been
\* reported, unless main failed; and main decides on Ok with nobody left.  The
\* default on_exit returns the result it is given.
ExitInv ==
    /\ BootTypeOK
    /\ \A s \in Svc : \/ s \in remaining
                      \/ StateOf(s) = "off"
                      \/ StateOf(s) \in {"ok", "err"} /\ s \in notified
                      \/ result = "err"
    /\ result # "none" => main \in {"on_exit", "exited"}
    /\ result = "ok" => remaining = {}
    /\ exit = "ok" /\ config.default_hooks => result = "ok"

\* At the start every service is waited for or is never spawned.
LEMMA ExitInit == BootInit => ExitInv
  BY BootTypeInit, SMTT(20) DEF BootInit, SigInit, ExitInv, StateOf, App

\* Every step keeps a service waited for, off, or ended and reported.
LEMMA ExitStep == ExitInv /\ [BootNext]_bootvars => ExitInv'
<1> SUFFICES ASSUME ExitInv, [BootNext]_bootvars
             PROVE  ExitInv'
  OBVIOUS
<1>0. BootTypeOK /\ BootTypeOK'
  BY BootTypeStep DEF ExitInv
<1> USE <1>0 DEF ExitInv, StateOf, sigvars, mainvars
<1>1. CASE Boilerplate
  BY <1>1, Zenon DEF Boilerplate
<1>2. CASE SpawnService
  <2>1. result = "none"
    BY <1>2 DEF SpawnService
  <2> QED
    BY <1>2, <2>1, ZenonT(40) DEF SpawnService, Fail, BootTypeOK, App
<1>3. CASE OnServicesStart
  BY <1>3 DEF OnServicesStart, Fail
<1>4. CASE SelectEmpty
  BY <1>4, Zenon DEF SelectEmpty
<1>5. ASSUME NEW s \in Svc, HandleServiceExit(s)
      PROVE  ExitInv'
  <2>1. /\ result = "none" /\ remaining' = remaining \ {s}
        /\ UNCHANGED <<sig, st, exit, config>>
    BY <1>5 DEF HandleServiceExit
  <2>2. CASE Fail
    BY <2>1, <2>2 DEF Fail
  <2>3. CASE ~Fail
    <3>1. StateOf(s) \in {"ok", "err"} /\ notified' = notified \cup {s}
      BY <1>5, <2>3, Zenon DEF HandleServiceExit, Finished
    <3>2. \/ remaining' = {} /\ result' = "ok" /\ main' = "on_exit"
          \/ UNCHANGED <<result, main>>
      BY <1>5, <2>3, <3>1 DEF HandleServiceExit
    <3> QED
      BY <2>1, <3>1, <3>2, SMTT(20), Z3T(20)
  <2> QED
    BY <2>2, <2>3, SMTT(20)
<1>6. CASE OnExit
  BY <1>6, SMTT(20) DEF OnExit, Answers
<1>7. CASE SigStep /\ UNCHANGED <<mainvars, st>>
  BY <1>7, SigMoves
<1>8. ASSUME NEW k \in Kind, Raise(k), UNCHANGED <<mainvars, st>>
      PROVE  ExitInv'
  BY <1>8, Zenon DEF Raise
<1>9. ASSUME NEW s \in App, SvcFinish(s) \/ SvcDropContext(s)
      PROVE  ExitInv'
  BY <1>9 DEF SvcFinish, SvcDropContext, App, BootTypeOK
<1>10. CASE GlobalCancel /\ UNCHANGED <<mainvars, st>>
  BY <1>10, Zenon DEF GlobalCancel
<1>11. CASE UNCHANGED bootvars
  BY <1>11 DEF bootvars
<1> QED
  BY <1>1, <1>2, <1>3, <1>4, <1>5, <1>6, <1>7, <1>8, <1>9, <1>10, <1>11, Zenon DEF BootNext, MainStep

\* Ok means that each service main spawned has ended without a panic and was
\* passed to on_service_exit, for any services and hooks (main!).
THEOREM OkCorrect == BootSpec => []OkMeansAllExited
<1>1. ExitInv => OkMeansAllExited
  BY DEF ExitInv, OkMeansAllExited
<1> QED
  BY <1>1, ExitInit, ExitStep, PTL DEF BootSpec

----------------------------------------------------------------------------
(* When SignalSvc reports a graceful shutdown.                             *)

\* A running service holds its context unless it is one that may drop it early;
\* shutdown() is waiting only after it cancelled.
HeldInv ==
    /\ BootTypeOK
    /\ \A s \in App : st[s] = "running" => s \in held \/ s \in Leaky
    /\ sig = "shutdown" => cancelled

\* Nothing runs and no signal came.
LEMMA HeldInit == BootInit => HeldInv
  BY BootTypeInit DEF BootInit, SigInit, HeldInv

\* Every step keeps the context of a running service held, unless it is leaky.
LEMMA HeldStep == HeldInv /\ [BootNext]_bootvars => HeldInv'
<1> SUFFICES ASSUME HeldInv, [BootNext]_bootvars
             PROVE  HeldInv'
  OBVIOUS
<1>0. BootTypeOK /\ BootTypeOK'
  BY BootTypeStep DEF HeldInv
<1> USE <1>0 DEF HeldInv, sigvars, mainvars
<1>1. CASE UNCHANGED <<st, held, sig, cancelled>>
  BY <1>1, Zenon
<1>2. CASE SpawnService
  BY <1>2 DEF SpawnService, BootTypeOK
<1>3. CASE SigStep /\ UNCHANGED <<mainvars, st>>
  <2>1. \A s \in App : s \in held => s \in held'
    BY <1>3, SigMoves DEF App
  <2>2. (sig = "shutdown" => cancelled)'
    BY <1>3, ZenonT(30) DEF SigStep, SigBegin, SigRecv, SigOnShutdown, SigForce, SigCancel, SigShutdown,
                       SigTimeout, SigOnForce, SigListen, Answers
  <2> QED
    BY <1>3, <2>1, <2>2
<1>4. ASSUME NEW s \in App, SvcFinish(s) \/ SvcDropContext(s)
      PROVE  HeldInv'
  BY <1>4 DEF SvcFinish, SvcDropContext, BootTypeOK
<1>5. CASE GlobalCancel /\ UNCHANGED <<mainvars, st>>
  BY <1>5, Zenon DEF GlobalCancel
<1> QED
  BY <1>1, <1>2, <1>3, <1>4, <1>5
     DEF BootNext, MainStep, Boilerplate, OnServicesStart, SelectEmpty, HandleServiceExit, OnExit, Raise, bootvars

\* SignalSvc returns Ok without having been forced only after it cancelled the
\* global context, and then no running service holds one (SignalSvc::run).
THEOREM DrainedCorrect == BootSpec => [][GracefulIsDrained]_bootvars
<1>1. HeldInv /\ [BootNext]_bootvars => [GracefulIsDrained]_bootvars
  BY DEF HeldInv, GracefulIsDrained, SigShutdown, RunningSvc, StateOf, Finished, App, BootTypeOK
<1> QED
  BY <1>1, HeldInit, HeldStep, PTL DEF BootSpec


----------------------------------------------------------------------------
(* Why a shutdown is forced.                                               *)

\* The signal that was taken to begin a shutdown
Used == IF begun = "signal" THEN 1 ELSE 0

OneEach(s) == \A i, j \in DOMAIN s : s[i].kind = s[j].kind => i = j

\* Each signal that is pending or was taken was sent, because a kind has one
\* stream; and SignalSvc waits to force a shutdown only once something began it.
ForceInv ==
    /\ BootTypeOK
    /\ begun = "none" => sig \in {"off", "spawned", "recv"}
    /\ OneEach(streams)
    /\ IsFiniteSet(Ready) /\ Cardinality(Ready) + Used <= raises

\* poll_recv takes one of the pending signals.
LEMMA PollTakes ==
    ASSUME ForceInv, PollRecv
    PROVE  /\ OneEach(streams') /\ IsFiniteSet(Ready')
           /\ Cardinality(Ready') + 1 = Cardinality(Ready) /\ Cardinality(Ready') \in Nat
<1>1. PICK n \in Ready : streams' = [streams EXCEPT ![n].pending = FALSE]
    BY Zenon DEF PollRecv
<1>2. streams \in Seq(Stream) /\ n \in DOMAIN streams /\ IsFiniteSet(Ready)
    BY <1>1 DEF ForceInv, BootTypeOK, SigTypeOK, Ready
<1>3. PICK r : r = [streams[n] EXCEPT !.pending = FALSE]
    BY Zenon
<1>4. ~r.pending /\ r.kind = streams[n].kind
    <2>1. streams[n] \in Stream
        BY <1>2
    <2> QED
        BY <1>3, <2>1 DEF Stream
<1>5. /\ DOMAIN streams' = DOMAIN streams /\ streams'[n] = r
      /\ \A i \in DOMAIN streams : i # n => streams'[i] = streams[i]
    BY <1>1, <1>2, <1>3
<1>6. Ready' = Ready \ {n}
    BY <1>1, <1>4, <1>5, Zenon DEF Ready
<1>7. /\ IsFiniteSet(Ready \ {n}) /\ Cardinality(Ready \ {n}) = Cardinality(Ready) - 1
      /\ Cardinality(Ready) \in Nat /\ Cardinality(Ready \ {n}) \in Nat
    BY <1>1, <1>2, FS_RemoveElement, FS_CardinalityType, Zenon
<1>8. \A i \in DOMAIN streams : streams'[i].kind = streams[i].kind
    BY <1>4, <1>5, Zenon
<1>9. OneEach(streams')
    BY <1>5, <1>8, Zenon DEF ForceInv, OneEach
<1> QED
    BY <1>6, <1>7, <1>9

\* A signal makes at most one more stream ready.
LEMMA RaiseAdds ==
    ASSUME ForceInv, NEW k \in Kind, Raise(k)
    PROVE  /\ OneEach(streams') /\ IsFiniteSet(Ready')
           /\ Cardinality(Ready') <= Cardinality(Ready) + 1 /\ Cardinality(Ready') \in Nat
           /\ Cardinality(Ready) \in Nat
<1>1. PICK n \in DOMAIN streams : streams[n].kind = k
    BY DEF Raise
<1>2. streams \in Seq(Stream) /\ OneEach(streams) /\ IsFiniteSet(Ready)
    BY DEF ForceInv, BootTypeOK, SigTypeOK
<1>3. /\ DOMAIN streams' = DOMAIN streams
      /\ \A i \in DOMAIN streams :
            streams'[i] = IF streams[i].kind = k THEN [streams[i] EXCEPT !.pending = TRUE] ELSE streams[i]
    BY Zenon DEF Raise
<1>4. \A i \in DOMAIN streams : i # n => streams'[i] = streams[i]
    BY <1>1, <1>2, <1>3, Zenon DEF OneEach
<1>5. streams'[n].pending /\ streams'[n].kind = streams[n].kind
    <2>1. streams[n] \in Stream
        BY <1>1, <1>2
    <2>2. streams'[n] = [streams[n] EXCEPT !.pending = TRUE]
        BY <1>1, <1>3, Zenon
    <2> QED
        BY <2>1, <2>2 DEF Stream
<1>6. Ready' = Ready \cup {n}
    BY <1>1, <1>3, <1>4, <1>5, Zenon DEF Ready
<1>7. /\ IsFiniteSet(Ready \cup {n}) /\ Cardinality(Ready \cup {n}) \in {Cardinality(Ready), Cardinality(Ready) + 1}
      /\ Cardinality(Ready) \in Nat /\ Cardinality(Ready \cup {n}) \in Nat
    BY <1>2, FS_AddElement, FS_CardinalityType, Zenon
<1>8. \A i \in DOMAIN streams : streams'[i].kind = streams[i].kind
    BY <1>4, <1>5, Zenon
<1>9. OneEach(streams')
    BY <1>2, <1>3, <1>8, Zenon DEF OneEach
<1> QED
    BY <1>6, <1>7, <1>9

\* with_signal adds a stream of a new kind, with nothing pending.
LEMMA ListenAdds ==
    ASSUME ForceInv, SigListen
    PROVE  OneEach(streams') /\ Ready' = Ready
<1>1. streams \in Seq(Stream) /\ OneEach(streams) /\ listed \in Nat /\ config.signals \in Seq(Kind)
    BY SignalAssumption DEF ForceInv, BootTypeOK, SigTypeOK
<1>2. PICK k \in Kind : streams' = AddSignal(streams, k)
    BY <1>1 DEF SigListen
<1>3. CASE \E i \in DOMAIN streams : streams[i].kind = k
    <2>1. streams' = streams
        BY <1>2, <1>3, Zenon DEF AddSignal
    <2> QED
        BY <1>1, <2>1, Zenon DEF Ready
<1>4. CASE ~ \E i \in DOMAIN streams : streams[i].kind = k
    <2>1. PICK r : r = [kind |-> k, pending |-> FALSE]
        BY Zenon
    <2>2. r \in Stream /\ r.kind = k /\ ~r.pending
        BY <2>1 DEF Stream
    <2>3. streams' = Append(streams, r)
        BY <1>2, <1>4, <2>1, Zenon DEF AddSignal
    <2>4. PICK n : n = Len(streams) + 1
        BY ZenonT(30)
    <2>5. /\ DOMAIN streams' = DOMAIN streams \cup {n} /\ n \notin DOMAIN streams /\ streams'[n] = r
          /\ \A i \in DOMAIN streams : streams'[i] = streams[i]
        BY <1>1, <2>2, <2>3, <2>4
    <2>6. Ready' = Ready
        BY <2>2, <2>5, Zenon DEF Ready
    <2>7. OneEach(streams')
        BY <1>1, <1>4, <2>2, <2>5, Zenon DEF OneEach
    <2> QED
        BY <2>6, <2>7
<1> QED
    BY <1>3, <1>4

\* No signal was sent and none is listened to.
LEMMA ForceInit == BootInit => ForceInv
<1> SUFFICES ASSUME BootInit PROVE ForceInv
    OBVIOUS
<1>1. DOMAIN streams = {}
    BY DEF BootInit, SigInit
<1>2. Ready = {} /\ OneEach(streams)
    BY <1>1, Zenon DEF Ready, OneEach
<1>3. Used = 0 /\ raises = 0 /\ sig = "off"
    BY DEF BootInit, SigInit, Used
<1>4. IsFiniteSet(Ready) /\ Cardinality(Ready) = 0
    BY <1>2, FS_EmptySet, Zenon
<1> QED
    BY <1>2, <1>3, <1>4, BootTypeInit DEF ForceInv

\* Every step keeps the signals accounted for.
LEMMA ForceStep == ForceInv /\ [BootNext]_bootvars => ForceInv'
<1> SUFFICES ASSUME ForceInv, [BootNext]_bootvars PROVE ForceInv'
    OBVIOUS
<1>1. BootTypeOK' /\ BootTypeOK
    BY BootTypeStep, Zenon DEF ForceInv
<1>2. raises \in Nat /\ Cardinality(Ready) \in Nat /\ Used \in {0, 1} /\ Used' \in {0, 1}
    BY <1>1, FS_CardinalityType DEF ForceInv, BootTypeOK, SigTypeOK, Used
<1>3. IsFiniteSet(Ready) /\ OneEach(streams) /\ Cardinality(Ready) + Used <= raises
    BY DEF ForceInv
<1>4. begun = "none" => sig \in {"off", "spawned", "recv"}
    BY DEF ForceInv
<1>5. CASE /\ UNCHANGED <<streams, raises, begun>>
           /\ sig' = sig \/ sig' \in {"spawned", "recv"} \/ sig \notin {"off", "spawned", "recv"}
    <2>1. Ready' = Ready /\ Used' = Used
        BY <1>5, Zenon DEF Ready, Used
    <2>2. begun' = "none" => sig' \in {"off", "spawned", "recv"}
        BY <1>4, <1>5, Zenon
    <2> QED
        BY <1>1, <1>3, <1>5, <2>1, <2>2, Zenon DEF ForceInv
<1>6. CASE SigListen
    <2>1. Ready' = Ready /\ OneEach(streams')
        BY <1>6, ListenAdds
    <2>2. UNCHANGED <<raises, begun, sig>>
        BY <1>6 DEF SigListen
    <2>3. Used' = Used
        BY <2>2, Zenon DEF Used
    <2> QED
        BY <1>1, <1>3, <1>4, <2>1, <2>2, <2>3, Zenon DEF ForceInv
<1>7. CASE SigRecv
    <2>1. raises' = raises /\ begun' # "none"
        BY <1>7 DEF SigRecv
    <2>2. CASE PollRecv
        BY <1>1, <1>2, <1>3, <2>1, <2>2, PollTakes DEF ForceInv
    <2>3. CASE begun' = "context" /\ UNCHANGED streams
        <3>1. Used' = 0 /\ Ready' = Ready
            BY <2>3, Zenon DEF Used, Ready
        <3>2. OneEach(streams')
            BY <1>3, <2>3, Zenon
        <3> QED
            BY <1>1, <1>2, <1>3, <2>1, <3>1, <3>2 DEF ForceInv
    <2> QED
        BY <1>7, <2>2, <2>3, Zenon DEF SigRecv
<1>8. CASE SigForce
    <2>1. UNCHANGED <<raises, begun>> /\ begun # "none"
        BY <1>4, <1>8 DEF SigForce
    <2>2. Used' = Used
        BY <2>1, Zenon DEF Used
    <2> QED
        BY <1>1, <1>2, <1>3, <1>8, <2>1, <2>2, PollTakes DEF ForceInv, SigForce
<1>9. ASSUME NEW k \in Kind, Raise(k) PROVE ForceInv'
    <2>1. raises' = raises + 1 /\ UNCHANGED <<begun, sig>>
        BY <1>9 DEF Raise
    <2>2. Used' = Used
        BY <2>1, Zenon DEF Used
    <2> QED
        BY <1>1, <1>2, <1>3, <1>4, <1>9, <2>1, <2>2, RaiseAdds DEF ForceInv
<1>10. CASE SigBegin \/ SigOnShutdown \/ SigCancel \/ SigShutdown \/ SigTimeout \/ SigOnForce \/ GlobalCancel
    <2>1. /\ UNCHANGED <<streams, raises, begun>>
          /\ sig' = sig \/ sig' = "recv" \/ sig \notin {"off", "spawned", "recv"}
        BY <1>10 DEF SigBegin, SigOnShutdown, SigCancel, SigShutdown, SigTimeout, SigOnForce, GlobalCancel
    <2> QED
        BY <1>5, <2>1, Zenon
<1>11. CASE MainStep
    <2>1. UNCHANGED <<streams, raises, begun>> /\ (sig' = sig \/ sig' = "spawned")
        BY <1>11 DEF MainStep, Boilerplate, SpawnService, OnServicesStart, SelectEmpty, HandleServiceExit, OnExit,
           sigvars
    <2> QED
        BY <1>5, <2>1, Zenon
<1>12. CASE (\E s \in App : SvcFinish(s) \/ SvcDropContext(s)) \/ UNCHANGED bootvars
    <2>1. UNCHANGED <<streams, raises, begun, sig>>
        BY <1>12 DEF SvcFinish, SvcDropContext, bootvars, sigvars
    <2> QED
        BY <1>5, <2>1, Zenon
<1> QED
    BY <1>6, <1>7, <1>8, <1>9, <1>10, <1>11, <1>12, ZenonT(30) DEF BootNext, SigStep

\* A shutdown is forced only by the timeout or by a signal other than the one
\* that began it, for any list of signals, with a kind in it twice or not, and
\* whoever else cancels the global handler at whatever moment; and a graceful one
\* is reported only once the context is cancelled and no running service holds
\* one (SignalSvc::run, SignalHandler::with_signal).
THEOREM GracefulCorrect == BootSpec => GracefulUnlessForced
<1>1. ForceInv /\ [BootNext]_bootvars => [ForcedForAReason]_bootvars
    <2> SUFFICES ASSUME ForceInv, BootNext, sig # "force", sig' = "force"
                 PROVE  config.timeout \/ raises >= 2 \/ (begun = "context" /\ raises = 1)
        BY ZenonT(30) DEF ForcedForAReason
    <2>1. SigForce \/ SigTimeout
        <3>1. SigOnForce => sig' \in {"ok", "err"}
            BY DEF SigOnForce, Answers
        <3>2. MainStep => sig' \in {sig, "spawned"}
            BY DEF MainStep, Boilerplate, SpawnService, OnServicesStart, SelectEmpty, HandleServiceExit, OnExit,
               sigvars
        <3>3. (\E s \in App : SvcFinish(s) \/ SvcDropContext(s)) \/ (\E k \in Kind : Raise(k)) \/ GlobalCancel
                  => sig' = sig
            BY Zenon DEF SvcFinish, SvcDropContext, Raise, GlobalCancel
        <3>4. SigStep
            BY <3>2, <3>3 DEF BootNext
        <3>5. /\ SigListen => sig' = sig
              /\ SigBegin \/ SigRecv \/ SigOnShutdown \/ SigCancel \/ SigShutdown
                    => sig' \in {"recv", "on_shutdown", "select", "err", "shutdown", "ok"}
            BY DEF SigListen, SigBegin, SigRecv, SigOnShutdown, SigCancel, SigShutdown
        <3> QED
            BY <3>1, <3>4, <3>5 DEF SigStep
    <2>2. CASE SigForce
        <3>1. Cardinality(Ready') + 1 = Cardinality(Ready) /\ Cardinality(Ready') \in Nat
            BY <2>2, PollTakes, Zenon DEF SigForce
        <3>2. /\ raises \in Nat /\ Cardinality(Ready) + Used <= raises
              /\ (begun = "signal" /\ Used = 1) \/ (begun = "context" /\ Used = 0)
            BY <2>2 DEF SigForce, Used, ForceInv, BootTypeOK, SigTypeOK
        <3> QED
            BY <3>1, <3>2
    <2>3. CASE SigTimeout
        BY <2>3 DEF SigTimeout
    <2> QED
        BY <2>1, <2>2, <2>3
<1>2. [ForcedForAReason]_bootvars /\ [GracefulIsDrained]_bootvars => [ForcedForAReason /\ GracefulIsDrained]_bootvars
    BY Zenon
<1> QED
    BY <1>1, <1>2, ForceInit, ForceStep, DrainedCorrect, PTL DEF BootSpec, GracefulUnlessForced

============================================================================
