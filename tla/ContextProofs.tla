--------------------------- MODULE ContextProofs ---------------------------
(***************************************************************************)
(* Proofs about Context, for any number of handlers, contexts and calls.   *)
(***************************************************************************)
EXTENDS Context, FiniteSetTheorems, TLAPS

\* The token tree: anc[m] holds m and is closed upwards, and only nodes that
\* exist are held, cancelled or given contexts.
TreeInv ==
    /\ \A n \in Node : Exists(n) => n \in anc[n]
    /\ \A m, n \in Node : n \in anc[m] => Exists(n) /\ anc[n] \subseteq anc[m]
    /\ \A n \in handlers \cup cancelled : Exists(n)
    /\ \A c \in Ctx : status[c] # "free" => Exists(owner[c])

\* Why no wakeup is lost: a shutdown past its first step has set `stopped`,
\* which is never cleared, and the drop that takes the last context away stays
\* visible until it has read it.
LastDrop == {"dropping", "missed"}
WakeupInv ==
    /\ \A w \in Call : op[w] = "shutdown" /\ pc[w] \notin {"idle", "stop"} =>
          stopped[target[w]]
    /\ \A w \in Call : Waits(w, "shutdown") =>
          \/ active_count[target[w]] > 0
          \/ \E c \in Ctx : status[c] \in LastDrop /\ owner[c] = target[w]

\* Why a notified call has seen its contexts go.
Released(w) ==
    \/ before[w] \cap Active(target[w]) = {}
    \/ target[w] \in revived

\* While the drop of a node's last context is half done, its count stays 0.
DropsAtZero ==
    \A n \in Node \ revived : \A c \in Ctx :
        status[c] = "dropping" /\ owner[c] = n => active_count[n] = 0
WokenAt == {"load", "blocked", "returned"}
WokenWaits == \A w \in woken : pc[w] \in WokenAt
BeforeMade == \A w \in Call : \A c \in before[w] : status[c] # "free"
WokenReleased ==
    \A w \in Call : w \in woken \/ (pc[w] = "returned" /\ op[w] # "cancel") => Released(w)

ReturnInv == DropsAtZero /\ WokenWaits /\ BeforeMade /\ WokenReleased

USE DEF Status, Op, Pc, Counted, LastDrop

\* Every variable keeps its type: in particular no tracker's count of
\* contexts ever underflows (fetch_sub on a usize, lib.rs 55).
\* Stated with CountIsActive, without which the decrement is not a natural.
TypeInv == TypeOK /\ CountIsActive

\* The contexts of a node are finitely many, so active_count can count them.
LEMMA ActiveFinite ==
    ASSUME NEW n \in Node
    PROVE  /\ IsFiniteSet(Active(n)) /\ IsFiniteSet(Active(n)')
           /\ Cardinality(Active(n)) \in Nat
PROOF
<1>1. Active(n) \subseteq Ctx /\ Active(n)' \subseteq Ctx
  BY DEF Active
<1>2. IsFiniteSet(Active(n)) /\ IsFiniteSet(Active(n)')
  BY <1>1, ConstantsAssumption, FS_Subset
<1>3. QED
  BY <1>2, FS_CardinalityType

\* A context enters the count of its node, and no other count changes.
LEMMA ActiveAdd ==
    ASSUME TypeOK, NEW n \in Node, NEW c \in Ctx, NEW m \in Node,
           status[c] = "free", 
           status' = [status EXCEPT ![c] = "live"],
           owner' = [owner EXCEPT ![c] = n]
    PROVE  Active(m)' = IF m = n THEN Active(m) \cup {c} ELSE Active(m)
PROOF
  BY DEF Active, TypeOK

\* What CountIsActive needs of one more and of one less.
LEMMA CountUp ==
    ASSUME NEW S, IsFiniteSet(S), NEW c, c \notin S
    PROVE  Cardinality(S \cup {c}) = Cardinality(S) + 1
PROOF
  BY FS_AddElement

\* Removing one element from a finite set takes one off its cardinality.
LEMMA CountDown ==
    ASSUME NEW S, IsFiniteSet(S), NEW c \in S
    PROVE  /\ Cardinality(S \ {c}) = Cardinality(S) - 1
           /\ Cardinality(S) \in Nat /\ Cardinality(S) > 0
PROOF
<1>1. IsFiniteSet(S \ {c}) /\ Cardinality(S \ {c}) = Cardinality(S) - 1
  BY FS_RemoveElement
<1>2. Cardinality(S) \in Nat /\ Cardinality(S \ {c}) \in Nat
  BY <1>1, FS_CardinalityType
<1>3. QED
  BY <1>1, <1>2

\* Every step keeps the types, and the count of a node its active contexts.
LEMMA TypeInvStep == TypeInv /\ TreeInv /\ [Next]_vars => TypeInv'
PROOF
<1> SUFFICES ASSUME TypeOK, CountIsActive, TreeInv, [Next]_vars
             PROVE  TypeOK' /\ CountIsActive'
  BY DEF TypeInv
<1>0. CASE UNCHANGED vars
  BY <1>0 DEF vars, tree, tracker, contexts, calls, TypeOK, CountIsActive, Active
<1>1. ASSUME NEW n \in Node, HandlerNew(n) \/ HandlerDrop(n)
      PROVE  TypeOK' /\ CountIsActive'
  BY <1>1 DEF HandlerNew, HandlerDrop, TokenCancel, tree, tracker, contexts, calls,
              TypeOK, CountIsActive, Active
<1>2. ASSUME NEW n \in Node, NEW c \in Ctx, TrackerChild(n, c)
      PROVE  /\ active_count' \in [Node -> Nat] /\ CountIsActive'
             /\ status' \in [Ctx -> Status] /\ owner' \in [Ctx -> Node]
  <2>1. \A m \in Node : Active(m)' = IF m = n THEN Active(m) \cup {c} ELSE Active(m)
    BY <1>2, ActiveAdd, Zenon DEF TrackerChild
  <2>2. c \notin Active(n)
    BY <1>2 DEF TrackerChild, Active
  <2>3. Cardinality(Active(n) \cup {c}) = active_count[n] + 1
    BY <2>2, ActiveFinite, CountUp DEF CountIsActive
  <2>4. /\ active_count' \in [Node -> Nat]
        /\ status' \in [Ctx -> Status] /\ owner' \in [Ctx -> Node]
    BY <1>2 DEF TrackerChild, TypeOK
  <2>5. ASSUME NEW m \in Node PROVE active_count'[m] = Cardinality(Active(m)')
    BY <1>2, <2>1, <2>3, Zenon DEF TrackerChild, CountIsActive, TypeOK
  <2>6. QED
    BY <2>4, <2>5 DEF CountIsActive
<1>3. ASSUME NEW n \in Node, NEW c \in Ctx, HandlerContext(n, c)
      PROVE  TypeOK' /\ CountIsActive'
  BY <1>2, <1>3 DEF HandlerContext, Revive, tree, calls, TypeOK
<1>4. ASSUME NEW c \in Ctx, NEW d \in Ctx, ContextClone(c, d)
      PROVE  TypeOK' /\ CountIsActive'
  <2>1. owner[c] \in Node
    BY DEF TypeOK
  <2>2. QED
    BY <2>1, <1>2, <1>4 DEF ContextClone, tree, calls, TypeOK
<1>5. ASSUME NEW c \in Ctx, NEW d \in Ctx, NEW m \in Node, ContextNewChild(c, m, d)
      PROVE  TypeOK' /\ CountIsActive'
  BY <1>2, <1>5 DEF ContextNewChild, ChildToken, calls, TypeOK
<1>6. ASSUME NEW n \in Node, NEW m \in Node, NEW t \in Ctx, NEW d \in Ctx,
             HandlerNewChild(n, t, m, d)
      PROVE  TypeOK' /\ CountIsActive'
  <2>1. n # m
    BY <1>6 DEF HandlerNewChild, TreeInv
  <2>2. TypeOK'
    BY <1>6, SMTT(20) DEF HandlerNewChild, ChildToken, Revive, calls, TypeOK
  <2>3. ASSUME NEW k \in Node
        PROVE  Active(k)' = CASE k = n -> Active(k) \cup {t}
                              [] k = m -> Active(k) \cup {d}
                              [] OTHER -> Active(k)
    BY <1>6, <2>1 DEF HandlerNewChild, Active, TypeOK
  <2>4. t \notin Active(n) /\ d \notin Active(m)
    BY <1>6 DEF HandlerNewChild, Active
  <2>5. /\ Cardinality(Active(n) \cup {t}) = active_count[n] + 1
        /\ Cardinality(Active(m) \cup {d}) = active_count[m] + 1
    BY <2>4, ActiveFinite, CountUp DEF CountIsActive
  <2>6. ASSUME NEW k \in Node PROVE active_count'[k] = Cardinality(Active(k)')
    BY <1>6, <2>1, <2>3, <2>5, Zenon DEF HandlerNewChild, CountIsActive, TypeOK
  <2>7. QED
    BY <2>2, <2>6 DEF CountIsActive
<1>7. ASSUME NEW c \in Ctx, DropFetchSub(c)
      PROVE  TypeOK' /\ CountIsActive'
  <2>1. owner[c] \in Node /\ c \in Active(owner[c])
    BY <1>7 DEF DropFetchSub, TypeOK, Active
  <2>2. \A m \in Node : Active(m)' =
            IF m = owner[c] THEN Active(m) \ {c} ELSE Active(m)
    BY <1>7 DEF DropFetchSub, AfterFetchSub, Active, TypeOK
  <2>3. /\ Cardinality(Active(owner[c]) \ {c}) = active_count[owner[c]] - 1
        /\ active_count[owner[c]] > 0
    BY <2>1, ActiveFinite, CountDown DEF CountIsActive
  <2>4. CountIsActive'
    BY <1>7, <2>1, <2>2, <2>3, Zenon DEF DropFetchSub, CountIsActive, TypeOK
  <2>5. TypeOK'
    BY <1>7, <2>1, <2>3 DEF DropFetchSub, AfterFetchSub, tree, calls, TypeOK
  <2>6. QED
    BY <2>4, <2>5
<1>8. ASSUME NEW c \in Ctx, DropLoadStopped(c) \/ DropLoadEarly(c)
      PROVE  TypeOK' /\ CountIsActive'
  <2>1. \A n \in Node : Active(n)' = Active(n)
    BY <1>8 DEF DropLoadStopped, DropLoadEarly, Active, TypeOK
  <2>2. CountIsActive'
    BY <1>8, <2>1 DEF DropLoadStopped, DropLoadEarly, tracker, CountIsActive
  <2>3. TypeOK'
    BY <1>8 DEF DropLoadStopped, DropLoadEarly, NotifyWaiters, tree, tracker, calls, TypeOK
  <2>4. QED
    BY <2>2, <2>3
<1>9. ASSUME NEW w \in Call, NEW n \in Node, NEW o \in Ops[w], Start(w, n, o)
      PROVE  TypeOK' /\ CountIsActive'
  <2>1. o \in Op /\ FirstPc(o) \in Pc
    BY ConstantsAssumption DEF FirstPc
  <2>2. QED
    BY <1>9, <2>1 DEF Start, tree, tracker, contexts, TypeOK, CountIsActive, Active
<1>10. ASSUME NEW w \in Call, CallStep(w)
       PROVE  TypeOK' /\ CountIsActive'
  <2>1. CountIsActive'
    <3>1. UNCHANGED <<active_count, owner, status>>
      BY <1>10 DEF CallStep, CallStop, CallCancelToken, CallTokenCancelled, CallNotified,
                   CallLoad, CallAwait, tracker, contexts
    <3>2. QED
      BY <3>1 DEF CountIsActive, Active
  <2>2. TypeOK'
    BY <1>10, Zenon DEF CallStep, CallStop, CallCancelToken, CallTokenCancelled, CallNotified,
                 CallLoad, CallAwait, Goto, TokenCancel, tree, tracker, contexts, TypeOK
  <2>3. QED
    BY <2>1, <2>2
<1>11. QED
  BY <1>0, <1>1, <1>3, <1>4, <1>5, <1>6, <1>7, <1>8, <1>9, <1>10 DEF Next

\* Every step keeps the tree closed under ancestors.
LEMMA TreeInvStep == TypeOK /\ TreeInv /\ [Next]_vars => TreeInv'
PROOF
<1> SUFFICES ASSUME TypeOK, TreeInv, [Next]_vars
             PROVE  TreeInv'
  OBVIOUS
<1>0. CASE UNCHANGED vars
  BY <1>0 DEF vars, tree, contexts, TreeInv, Exists
<1>1. ASSUME NEW n \in Node, HandlerNew(n) \/ HandlerDrop(n)
      PROVE  TreeInv'
  <2>1. CASE HandlerNew(n)
    BY <2>1 DEF HandlerNew, contexts, TreeInv, Exists, TypeOK
  <2>2. CASE HandlerDrop(n)
    BY <2>2 DEF HandlerDrop, TokenCancel, contexts, TreeInv, Exists, TypeOK
  <2>3. QED
    BY <1>1, <2>1, <2>2
<1>2. ASSUME NEW n \in Node, NEW c \in Ctx, HandlerContext(n, c)
      PROVE  TreeInv'
  BY <1>2 DEF HandlerContext, TrackerChild, tree, TreeInv, Exists, TypeOK
<1>3. ASSUME NEW c \in Ctx, NEW d \in Ctx, ContextClone(c, d)
      PROVE  TreeInv'
  BY <1>3 DEF ContextClone, TrackerChild, tree, TreeInv, Exists, TypeOK
<1>4. ASSUME NEW n \in Node, NEW m \in Node, Exists(n), ~Exists(m), ChildToken(n, m),
             handlers' = handlers \cup {m}
      PROVE  /\ \A k \in Node : Exists(k)' => k \in anc'[k]
             /\ \A k, l \in Node : l \in anc'[k] => Exists(l)' /\ anc'[l] \subseteq anc'[k]
             /\ \A k \in handlers' \cup cancelled' : Exists(k)'
             /\ \A k \in Node : Exists(k) \/ k = m => Exists(k)'
  BY <1>4 DEF ChildToken, TreeInv, Exists, TypeOK
<1>5. ASSUME NEW c \in Ctx, NEW d \in Ctx, NEW m \in Node, ContextNewChild(c, m, d)
      PROVE  TreeInv'
  <2>1. owner[c] \in Node /\ Exists(owner[c])
    BY <1>5 DEF ContextNewChild, TreeInv, TypeOK
  <2>2. \A k \in Ctx : status'[k] # "free" => Exists(owner'[k]) \/ owner'[k] = m
    BY <1>5 DEF ContextNewChild, TrackerChild, TreeInv, TypeOK
  <2>3. owner' \in [Ctx -> Node]
    BY <1>5 DEF ContextNewChild, TrackerChild, TypeOK
  <2>4. QED
    BY <1>4, <1>5, <2>1, <2>2, <2>3 DEF ContextNewChild, TreeInv, Exists
<1>6. ASSUME NEW n \in Node, NEW m \in Node, NEW t \in Ctx, NEW d \in Ctx,
             HandlerNewChild(n, t, m, d)
      PROVE  TreeInv'
  <2>1. Exists(n)
    BY <1>6 DEF HandlerNewChild, TreeInv
  <2>2. \A k \in Ctx : status'[k] # "free" => Exists(owner'[k]) \/ owner'[k] = m
    BY <1>6, <2>1 DEF HandlerNewChild, TreeInv, TypeOK
  <2>3. owner' \in [Ctx -> Node]
    BY <1>6 DEF HandlerNewChild, TypeOK
  <2>4. QED
    BY <1>4, <1>6, <2>1, <2>2, <2>3, ZenonT(30) DEF HandlerNewChild, TreeInv, Exists
<1>7. ASSUME NEW c \in Ctx, DropFetchSub(c) \/ DropLoadStopped(c) \/ DropLoadEarly(c)
      PROVE  TreeInv'
  <2>1. /\ UNCHANGED <<anc, handlers, cancelled, owner>>
        /\ status[c] # "free"
        /\ \E st : status' = [status EXCEPT ![c] = st]
    BY <1>7 DEF DropFetchSub, DropLoadStopped, DropLoadEarly, tree
  <2>2. \A k \in Ctx : status'[k] # "free" => status[k] # "free"
    BY <2>1 DEF TypeOK
  <2>3. QED
    BY <2>1, <2>2 DEF TreeInv, Exists
<1>8. ASSUME NEW w \in Call, NEW n \in Node, NEW o \in Ops[w], Start(w, n, o)
      PROVE  TreeInv'
  BY <1>8 DEF Start, tree, contexts, TreeInv, Exists
<1>9. ASSUME NEW w \in Call, CallStep(w)
      PROVE  TreeInv'
  <2>1. /\ UNCHANGED <<anc, handlers, owner, status>>
        /\ UNCHANGED cancelled \/ TokenCancel(target[w])
    BY <1>9 DEF CallStep, CallStop, CallCancelToken, CallTokenCancelled, CallNotified,
                CallLoad, CallAwait, tree, contexts
  <2>2. QED
    BY <2>1 DEF TokenCancel, TreeInv, Exists, TypeOK
<1>10. QED
  BY <1>0, <1>1, <1>2, <1>3, <1>5, <1>6, <1>7, <1>8, <1>9 DEF Next

\* At the start there is the global handler, and no context.
LEMMA InitInv == Init => TypeInv /\ TreeInv
PROOF
<1> SUFFICES ASSUME Init PROVE TypeInv /\ TreeInv
  OBVIOUS
<1>1. TypeOK
  BY ConstantsAssumption DEF Init, TypeOK
<1>2. TreeInv
  BY ConstantsAssumption DEF Init, TreeInv, Exists
<1>3. ASSUME NEW n \in Node PROVE Active(n) = {}
  BY DEF Init, Active
<1>4. CountIsActive
  BY <1>3, FS_EmptySet, Zenon DEF Init, CountIsActive
<1>5. QED
  BY <1>1, <1>2, <1>4 DEF TypeInv

\* So both hold in every state.
LEMMA BaseInvariant == Spec => [](TypeInv /\ TreeInv)
PROOF
<1>1. TypeInv /\ TreeInv /\ [Next]_vars => TypeInv' /\ TreeInv'
  BY TypeInvStep, TreeInvStep DEF TypeInv
<1>2. QED
  BY <1>1, InitInv, PTL DEF Spec

\* Every variable keeps its type: no tracker's usize of contexts underflows
\* at the fetch_sub of a drop (lib.rs 55).
THEOREM TypeCorrect == Spec => []TypeOK
PROOF
<1>1. TypeInv => TypeOK
  BY DEF TypeInv
<1>2. QED
  BY <1>1, BaseInvariant, PTL

\* active_count counts the ContextTrackers that exist (lib.rs 67-68), for any
\* interleaving of clones, new_child and half-finished drops.
THEOREM CountCorrect == Spec => []CountIsActive
PROOF
<1>1. TypeInv => CountIsActive
  BY Zenon DEF TypeInv
<1>2. QED
  BY <1>1, BaseInvariant, PTL

----------------------------------------------------------------------------
(* No shutdown sleeps for ever.                                            *)

\* Every step keeps a waiting shutdown with a context to wait for, or with the
\* last drop that will wake it.
LEMMA WakeupStep ==
    ASSUME TypeOK, WakeupInv, [Next]_vars
    PROVE  WakeupInv'
PROOF
<1>0. CASE UNCHANGED vars
  BY <1>0 DEF vars, tracker, contexts, calls, WakeupInv, Waits
<1>1. ASSUME NEW n \in Node, HandlerNew(n) \/ HandlerDrop(n)
      PROVE  WakeupInv'
  BY <1>1 DEF HandlerNew, HandlerDrop, tracker, contexts, calls, WakeupInv, Waits
\* creating contexts only raises counts and leaves half-finished drops alone
<1>2. ASSUME \A n \in Node : active_count[n] > 0 => active_count'[n] > 0,
             \A c \in Ctx : status[c] \in LastDrop =>
                                status'[c] \in LastDrop /\ owner'[c] = owner[c],
             UNCHANGED <<stopped, calls, woken>>
      PROVE  WakeupInv'
  BY <1>2 DEF calls, WakeupInv, Waits, TypeOK
<1>3. ASSUME NEW n \in Node, NEW c \in Ctx, TrackerChild(n, c)
      PROVE  /\ \A m \in Node : active_count[m] > 0 => active_count'[m] > 0
             /\ \A d \in Ctx : status[d] \in LastDrop =>
                                  status'[d] \in LastDrop /\ owner'[d] = owner[d]
  BY <1>3 DEF TrackerChild, WakeupInv, TypeOK
<1>4. ASSUME NEW n \in Node, NEW c \in Ctx, HandlerContext(n, c)
      PROVE  WakeupInv'
  BY <1>2, <1>3, <1>4 DEF HandlerContext
<1>5. ASSUME NEW c \in Ctx, NEW d \in Ctx, ContextClone(c, d)
      PROVE  WakeupInv'
  <2>1. owner[c] \in Node
    BY DEF TypeOK
  <2>2. QED
    BY <1>2, <1>3, <1>5, <2>1, Zenon DEF ContextClone
<1>6. ASSUME NEW c \in Ctx, NEW d \in Ctx, NEW m \in Node, ContextNewChild(c, m, d)
      PROVE  WakeupInv'
  BY <1>2, <1>3, <1>6 DEF ContextNewChild
<1>7. ASSUME NEW n \in Node, NEW m \in Node, NEW t \in Ctx, NEW d \in Ctx,
             HandlerNewChild(n, t, m, d)
      PROVE  WakeupInv'
  <2>1. \A k \in Node : active_count[k] > 0 => active_count'[k] > 0
    BY <1>7 DEF HandlerNewChild, TypeOK
  <2>2. \A c \in Ctx : status[c] \in LastDrop =>
                           status'[c] \in LastDrop /\ owner'[c] = owner[c]
    BY <1>7 DEF HandlerNewChild, WakeupInv, TypeOK
  <2>3. QED
    BY <1>2, <1>7, <2>1, <2>2, Zenon DEF HandlerNewChild
\* the drop that takes a count to 0 is itself the witness
<1>8. ASSUME NEW c \in Ctx, DropFetchSub(c)
      PROVE  WakeupInv'
  <2>2. \A w \in Call : op'[w] = "shutdown" /\ pc'[w] \notin {"idle", "stop"} =>
            stopped'[target'[w]]
    BY <1>8 DEF DropFetchSub, calls, WakeupInv
  <2>3. ASSUME NEW w \in Call, Waits(w, "shutdown")'
        PROVE  \/ active_count'[target'[w]] > 0
               \/ \E d \in Ctx : status'[d] \in LastDrop /\ owner'[d] = target'[w]
    <3>1. /\ Waits(w, "shutdown") /\ target'[w] = target[w] /\ owner' = owner
          /\ target[w] \in Node /\ owner[c] \in Node
      BY <1>8, <2>3 DEF DropFetchSub, calls, Waits, TypeOK
    <3>2. CASE owner[c] # target[w]
      BY <1>8, <3>1, <3>2 DEF DropFetchSub, WakeupInv, TypeOK
    <3>3. CASE owner[c] = target[w] /\ active_count[owner[c]] = 1
      <4>1. status'[c] \in LastDrop
        BY <1>8, <3>3 DEF DropFetchSub, AfterFetchSub, WakeupInv, TypeOK
      <4>2. QED
        BY <3>1, <3>3, <4>1
    <3>4. CASE owner[c] = target[w] /\ active_count[owner[c]] > 1
      BY <1>8, <3>1, <3>4 DEF DropFetchSub, TypeOK
    <3>5. CASE owner[c] = target[w] /\ active_count[owner[c]] = 0
      <4>1. PICK d \in Ctx : status[d] \in LastDrop /\ owner[d] = target[w]
        BY <3>1, <3>5 DEF WakeupInv
      <4>2. status'[d] \in LastDrop
        BY <1>8, <4>1 DEF DropFetchSub, TypeOK
      <4>3. QED
        BY <3>1, <4>1, <4>2
    <3>6. active_count[owner[c]] \in Nat
      BY <3>1 DEF TypeOK
    <3>7. QED
      BY <3>2, <3>3, <3>4, <3>5, <3>6
  <2>4. QED
    BY <2>2, <2>3 DEF WakeupInv
\* and it finds `stopped` set, so it wakes every call blocked there
<1>9. ASSUME NEW c \in Ctx, DropLoadStopped(c)
      PROVE  WakeupInv'
  <2>2. \A w \in Call : op'[w] = "shutdown" /\ pc'[w] \notin {"idle", "stop"} =>
            stopped'[target'[w]]
    BY <1>9 DEF DropLoadStopped, calls, tracker, WakeupInv
  <2>3. ASSUME NEW w \in Call, Waits(w, "shutdown")'
        PROVE  \/ active_count'[target'[w]] > 0
               \/ \E d \in Ctx : status'[d] \in LastDrop /\ owner'[d] = target'[w]
    <3>1. /\ Waits(w, "shutdown") /\ UNCHANGED <<target, owner, active_count, stopped>>
          /\ pc[w] = "blocked" /\ w \notin woken'
      BY <1>9, <2>3 DEF DropLoadStopped, calls, tracker, Waits, NotifyWaiters
    <3>2. stopped[target[w]]
      BY <3>1 DEF WakeupInv, Waits
    <3>3. owner[c] # target[w]
      BY <1>9, <3>1, <3>2 DEF DropLoadStopped, NotifyWaiters
    <3>4. CASE active_count[target[w]] > 0
      BY <3>1, <3>4
    <3>5. CASE \E d \in Ctx : status[d] \in LastDrop /\ owner[d] = target[w]
      BY <1>9, <3>1, <3>3, <3>5, SMTT(20) DEF DropLoadStopped, TypeOK
    <3>6. QED
      BY <3>1, <3>4, <3>5, SMTT(20) DEF WakeupInv
  <2>4. QED
    BY <2>2, <2>3 DEF WakeupInv
<1>10. ASSUME NEW w \in Call, NEW n \in Node, NEW o \in Ops[w], Start(w, n, o)
       PROVE  WakeupInv'
  <2>1. FirstPc(o) \in {"stop", "done", "wait"} /\ (o = "shutdown" => FirstPc(o) = "stop")
    BY ConstantsAssumption DEF FirstPc
  <2>2. QED
    BY <1>10, <2>1 DEF Start, tracker, contexts, WakeupInv, Waits, TypeOK
<1>11. ASSUME NEW w \in Call, CallStop(w) \/ CallCancelToken(w) \/ CallTokenCancelled(w)
                                \/ CallNotified(w)
       PROVE  WakeupInv'
  BY <1>11 DEF CallStop, CallCancelToken, CallTokenCancelled, CallNotified, Goto,
               tracker, contexts, WakeupInv, Waits, TypeOK
<1>12. ASSUME NEW w \in Call, CallLoad(w) \/ CallAwait(w)
       PROVE  WakeupInv'
  <2>1. active_count[target[w]] \in Nat
    BY SMTT(20) DEF TypeOK
  <2>2. QED
    BY <1>12, <2>1 DEF CallLoad, CallAwait, Goto, tracker, contexts, WakeupInv, Waits, TypeOK
<1>13. ASSUME NEW c \in Ctx, DropLoadEarly(c)
       PROVE  WakeupInv'
  <2>1. \A d \in Ctx : status[d] \in LastDrop => status'[d] \in LastDrop
    BY <1>13 DEF DropLoadEarly, TypeOK
  <2>2. QED
    BY <1>2, <1>13, <2>1 DEF DropLoadEarly, tracker
<1>14. QED
  BY <1>0, <1>1, <1>4, <1>5, <1>6, <1>7, <1>8, <1>9, <1>10, <1>11, <1>12, <1>13, Zenon
     DEF Next, CallStep

\* A shutdown that is blocked is always going to be notified: its handler
\* still has a context, or the drop that removed the last one is about to find
\* `stopped` set, or that drop had read it before its own decrement
\* (ContextTracker::drop, lib.rs 53-62, against ContextTrackerInner::wait).
THEOREM WakeupCorrect == Spec => []NoLostWakeup
PROOF
<1>1. Init => WakeupInv
  BY DEF Init, WakeupInv, Waits
<1>2. TypeOK /\ WakeupInv /\ [Next]_vars => WakeupInv'
  BY WakeupStep
<1>3. WakeupInv => NoLostWakeup
  BY DEF WakeupInv, NoLostWakeup, Waits, Missed
<1>4. QED
  BY <1>1, <1>2, <1>3, TypeCorrect, PTL DEF Spec

----------------------------------------------------------------------------
(* A shutdown returns early only when a context was made behind its back.  *)

\* A count of 0 says that no context is active.
LEMMA NoneActive ==
    ASSUME CountIsActive, NEW n \in Node, active_count[n] = 0
    PROVE  Active(n) = {}
PROOF
  BY ActiveFinite, FS_EmptySet DEF CountIsActive

\* A step that neither moves a context to another node nor revives it.
Steady ==
    /\ revived \subseteq revived'
    /\ \A c \in Ctx : status[c] # "free" =>
          /\ owner'[c] = owner[c] /\ status'[c] # "free"
          /\ status'[c] \in Counted => status[c] \in Counted

\* Contexts that existed when a call started stay gone once they are gone.
LEMMA ReleasedStable ==
    ASSUME TypeOK, BeforeMade, NEW w \in Call, Released(w),
           before'[w] = before[w], target'[w] = target[w],
           revived \subseteq revived',
           \A c \in Ctx : status[c] # "free" =>
               owner'[c] = owner[c] /\ (status'[c] \in Counted => status[c] \in Counted)
    PROVE  Released(w)'
PROOF
<1>1. \A c \in before[w] : c \in Ctx /\ status[c] # "free"
  BY DEF BeforeMade, TypeOK
<1>2. before[w] \cap Active(target[w])' \subseteq Active(target[w])
  BY <1>1, SMTT(20) DEF Active
<1>3. QED
  BY <1>2 DEF Released, Active

\* Such a step, when it leaves a call's record of its contexts alone, leaves
\* the call released.
LEMMA ReleasedKept ==
    ASSUME TypeOK, BeforeMade, Steady, NEW w \in Call, Released(w),
           before'[w] = before[w], target'[w] = target[w]
    PROVE  Released(w)'
PROOF
<1>1. /\ revived \subseteq revived'
      /\ \A c \in Ctx : status[c] # "free" =>
            owner'[c] = owner[c] /\ (status'[c] \in Counted => status[c] \in Counted)
  BY Zenon DEF Steady
<1>2. QED
  BY <1>1, ReleasedStable, Zenon

\* Steps that leave the calls alone and keep DropsAtZero.
LEMMA CallsAlone ==
    ASSUME TypeOK, ReturnInv, Steady, UNCHANGED calls, UNCHANGED woken, DropsAtZero'
    PROVE  ReturnInv'
PROOF
<1>1. /\ before' = before /\ target' = target /\ pc' = pc /\ op' = op
      /\ DropsAtZero /\ WokenWaits /\ BeforeMade /\ WokenReleased
  BY Zenon DEF calls, ReturnInv
<1>2. WokenWaits'
  BY <1>1, Zenon DEF WokenWaits
<1>3. before \in [Call -> SUBSET Ctx]
  BY Zenon DEF TypeOK
<1>4. BeforeMade'
  BY <1>1, <1>3 DEF BeforeMade, Steady
<1>5. ASSUME NEW w \in Call, Released(w) PROVE Released(w)'
  BY <1>1, <1>5, ReleasedKept, Zenon
<1>6. WokenReleased'
  BY <1>1, <1>5, Zenon DEF WokenReleased
<1>7. QED
  BY <1>2, <1>4, <1>6, Zenon DEF ReturnInv

\* Creating a context (ContextTrackerInner::child, lib.rs 82-86) is such a step, and
\* keeps DropsAtZero where no drop to 0 is half done, or the node is revived.
LEMMA ChildAlone ==
    ASSUME TypeOK, DropsAtZero, NEW n \in Node, NEW c \in Ctx, status[c] = "free",
           status' = [status EXCEPT ![c] = "live"],
           owner' = [owner EXCEPT ![c] = n],
           active_count' = [active_count EXCEPT ![n] = @ + 1],
           revived \subseteq revived',
           n \in revived' \/ \A e \in Ctx : ~(status[e] = "dropping" /\ owner[e] = n)
    PROVE  Steady /\ DropsAtZero'
PROOF
<1>1. status \in [Ctx -> Status] /\ owner \in [Ctx -> Node] /\ active_count \in [Node -> Nat]
  BY Zenon DEF TypeOK
<1>2. Steady
  BY <1>1, SMTT(20) DEF Steady
<1>3. ASSUME NEW m \in Node \ revived', NEW e \in Ctx,
             status'[e] = "dropping", owner'[e] = m
      PROVE  active_count'[m] = 0
  <2>1. e # c /\ status[e] = "dropping" /\ owner[e] = m
    BY <1>1, <1>3, SMTT(20)
  <2>2. m # n
    BY <1>3, <2>1, Zenon
  <2>3. active_count[m] = 0
    BY <1>3, <2>1, SMTT(20) DEF DropsAtZero
  <2>4. QED
    BY <1>1, <2>2, <2>3, SMTT(20)
<1>4. QED
  BY <1>2, <1>3, Zenon DEF DropsAtZero

\* Handler::new_child (lib.rs 275-279) makes two contexts in one step.
LEMMA NewChildAlone ==
    ASSUME TypeOK, TreeInv, DropsAtZero, NEW n \in Node, NEW m \in Node,
           NEW t \in Ctx, NEW d \in Ctx, HandlerNewChild(n, t, m, d)
    PROVE  Steady /\ DropsAtZero'
PROOF
<1>1. status \in [Ctx -> Status] /\ owner \in [Ctx -> Node] /\ active_count \in [Node -> Nat]
  BY Zenon DEF TypeOK
<1>2. /\ status[t] = "free" /\ status[d] = "free" /\ ~Exists(m) /\ Revive(n)
      /\ status' = [status EXCEPT ![t] = "temp", ![d] = "live"]
      /\ owner' = [owner EXCEPT ![t] = n, ![d] = m]
      /\ active_count' = [active_count EXCEPT ![n] = @ + 1, ![m] = @ + 1]
  BY Zenon DEF HandlerNewChild
<1>3. revived \subseteq revived'
  BY <1>2 DEF Revive
<1>4. Steady
  BY <1>1, <1>2, <1>3, SMTT(20) DEF Steady
<1>5. ASSUME NEW k \in Node \ revived', NEW e \in Ctx,
             status'[e] = "dropping", owner'[e] = k
      PROVE  active_count'[k] = 0
  <2>1. status[e] = "dropping" /\ owner[e] = k
    BY <1>1, <1>2, <1>5, SMTT(20)
  <2>2. k # m
    <3>1. status[e] # "free" => Exists(owner[e])
      BY Zenon DEF TreeInv
    <3>2. QED
      BY <1>2, <2>1, <3>1
  <2>3. k # n
    BY <1>2, <1>5, <2>1 DEF Revive
  <2>4. active_count[k] = 0
    BY <1>3, <1>5, <2>1 DEF DropsAtZero
  <2>5. QED
    BY <1>1, <1>2, <2>2, <2>3, <2>4, SMTT(20)
<1>6. QED
  BY <1>4, <1>5, Zenon DEF DropsAtZero

\* The first access of a drop (fetch_sub, lib.rs 55) leaves the count at 0 when
\* it says that the second is to come.
LEMMA FetchSubAlone ==
    ASSUME TypeOK, CountIsActive, DropsAtZero, NEW c \in Ctx, DropFetchSub(c)
    PROVE  Steady /\ DropsAtZero'
PROOF
<1>1. status \in [Ctx -> Status] /\ owner \in [Ctx -> Node] /\ active_count \in [Node -> Nat]
  BY Zenon DEF TypeOK
<1>2. /\ status[c] \in Counted /\ owner' = owner /\ revived' = revived
      /\ active_count' = [active_count EXCEPT ![owner[c]] = @ - 1]
      /\ status' = [status EXCEPT ![c] = AfterFetchSub(c)]
  BY Zenon DEF DropFetchSub
<1>3. /\ AfterFetchSub(c) \in {"dropped", "missed", "dropping"}
      /\ AfterFetchSub(c) = "dropping" => active_count[owner[c]] = 1
  BY SMTT(20) DEF AfterFetchSub
<1>4. Steady
  BY <1>1, <1>2, <1>3, SMTT(20) DEF Steady
<1>5. active_count[owner[c]] # 0
  <2>1. owner[c] \in Node
    BY <1>1
  <2>2. c \in Active(owner[c])
    BY <1>2 DEF Active
  <2>3. QED
    BY <2>1, <2>2, NoneActive
<1>6. ASSUME NEW n \in Node \ revived', NEW e \in Ctx,
             status'[e] = "dropping", owner'[e] = n
      PROVE  active_count'[n] = 0
  <2>1. CASE e = c
    BY <1>1, <1>2, <1>3, <1>6, <2>1, SMTT(20)
  <2>2. CASE e # c
    <3>1. status[e] = "dropping" /\ owner[e] = n /\ n \notin revived
      BY <1>1, <1>2, <1>6, <2>2, SMTT(20)
    <3>2. active_count[n] = 0
      BY <3>1 DEF DropsAtZero
    <3>3. n # owner[c]
      BY <1>5, <3>2
    <3>4. QED
      BY <1>1, <1>2, <3>2, <3>3, SMTT(20)
  <2>3. QED
    BY <2>1, <2>2, Zenon
<1>7. QED
  BY <1>4, <1>6, Zenon DEF DropsAtZero

\* The calls that a drop notifies (lib.rs 56-62) have no context left to wait for.
LEMMA NotifiedReleased ==
    ASSUME TypeOK, CountIsActive, ReturnInv, NEW c \in Ctx, DropLoadStopped(c)
    PROVE  ReturnInv'
PROOF
<1>1. /\ status \in [Ctx -> Status] /\ owner \in [Ctx -> Node]
      /\ before \in [Call -> SUBSET Ctx]
  BY Zenon DEF TypeOK
<1>2. /\ status[c] = "dropping" /\ status' = [status EXCEPT ![c] = "dropped"]
      /\ owner' = owner /\ revived' = revived /\ active_count' = active_count
      /\ target' = target /\ pc' = pc /\ op' = op /\ before' = before
      /\ NotifyWaiters(owner[c]) \/ woken' = woken
  BY DEF DropLoadStopped, tracker, calls
<1>3. DropsAtZero /\ WokenWaits /\ BeforeMade /\ WokenReleased
  BY Zenon DEF ReturnInv
<1>4. Steady
  BY <1>1, <1>2, SMTT(20) DEF Steady
<1>5. \A e \in Ctx : status'[e] = "dropping" => status[e] = "dropping"
  BY <1>1, <1>2, SMTT(20)
<1>6. DropsAtZero'
  BY <1>2, <1>3, <1>5, Zenon DEF DropsAtZero
<1>7. ASSUME NEW w \in woken', w \notin woken
      PROVE  w \in Call /\ pc[w] \in {"load", "blocked"} /\ target[w] = owner[c]
  BY <1>2, <1>7, SMTT(20) DEF NotifyWaiters
<1>8. ASSUME NEW w \in Call, target[w] = owner[c] PROVE Released(w)
  <2>1. CASE owner[c] \in revived
    BY <1>8, <2>1, Zenon DEF Released
  <2>2. CASE owner[c] \notin revived
    <3>1. owner[c] \in Node
      BY <1>1
    <3>2. active_count[owner[c]] = 0
      BY <1>2, <1>3, <2>2, <3>1 DEF DropsAtZero
    <3>3. Active(owner[c]) = {}
      BY <3>1, <3>2, NoneActive
    <3>4. QED
      BY <1>8, <3>3 DEF Released
  <2>3. QED
    BY <2>1, <2>2, Zenon
<1>9. ASSUME NEW w \in woken' PROVE pc'[w] \in WokenAt
  <2>1. CASE w \in woken
    BY <1>2, <1>3, <2>1, Zenon DEF WokenWaits
  <2>2. CASE w \notin woken
    BY <1>2, <1>7, <2>2, SMTT(20) DEF WokenAt
  <2>3. QED
    BY <2>1, <2>2, Zenon
<1>10. BeforeMade'
  BY <1>1, <1>2, <1>3, <1>4 DEF BeforeMade, Steady
<1>11. ASSUME NEW w \in Call, Released(w) PROVE Released(w)'
  <2>1. before'[w] = before[w] /\ target'[w] = target[w]
    BY <1>2, Zenon
  <2>2. QED
    BY <1>3, <1>4, <1>11, <2>1, ReleasedKept, Zenon
<1>12. ASSUME NEW w \in Call, w \in woken' \/ (pc'[w] = "returned" /\ op'[w] # "cancel")
       PROVE  Released(w)'
  <2>1. Released(w)
    BY <1>2, <1>3, <1>7, <1>8, <1>12, Zenon DEF WokenReleased
  <2>2. QED
    BY <1>11, <2>1, Zenon
<1>13. QED
  BY <1>6, <1>9, <1>10, <1>12, Zenon DEF ReturnInv, WokenWaits, WokenReleased

\* A call that starts is not woken, and its contexts are the active ones.
LEMMA StartReleased ==
    ASSUME TypeOK, ReturnInv, NEW w \in Call, NEW n \in Node, NEW o \in Ops[w], Start(w, n, o)
    PROVE  ReturnInv'
PROOF
<1>1. /\ before \in [Call -> SUBSET Ctx] /\ target \in [Call -> Node]
      /\ pc \in [Call -> Pc] /\ op \in [Call -> Op] /\ woken \subseteq Call
  BY DEF TypeOK
<1>2. /\ pc[w] = "idle"
      /\ op' = [op EXCEPT ![w] = o] /\ target' = [target EXCEPT ![w] = n]
      /\ pc' = [pc EXCEPT ![w] = FirstPc(o)] /\ before' = [before EXCEPT ![w] = Active(n)]
      /\ owner' = owner /\ status' = status /\ active_count' = active_count
      /\ woken' = woken /\ revived' = revived
  BY Zenon DEF Start, contexts, tracker
<1>3. DropsAtZero /\ WokenWaits /\ BeforeMade /\ WokenReleased
  BY Zenon DEF ReturnInv
<1>4. Steady
  BY <1>2, Zenon DEF Steady
<1>5. FirstPc(o) # "returned"
  BY ConstantsAssumption, SMTT(20) DEF FirstPc
<1>6. w \notin woken
  BY <1>2, <1>3, SMTT(20) DEF WokenWaits, WokenAt
<1>7. \A v \in Call : v # w => /\ before'[v] = before[v] /\ target'[v] = target[v]
                               /\ pc'[v] = pc[v] /\ op'[v] = op[v]
  BY <1>1, <1>2, SMTT(20)
<1>8. pc'[w] = FirstPc(o) /\ before'[w] = Active(n)
  BY <1>1, <1>2, Zenon
<1>9. DropsAtZero'
  BY <1>2, <1>3, Zenon DEF DropsAtZero
<1>10. ASSUME NEW v \in woken' PROVE pc'[v] \in WokenAt
  <2>1. v \in Call /\ v # w /\ v \in woken
    BY <1>1, <1>2, <1>6, <1>10, Zenon
  <2>2. QED
    BY <1>3, <1>7, <2>1, Zenon DEF WokenWaits
<1>11. \A c \in Active(n) : status[c] # "free"
  BY DEF Active
<1>12. BeforeMade'
  <2>1. ASSUME NEW v \in Call, NEW c \in before'[v] PROVE status'[c] # "free"
    <3>1. CASE v = w
      BY <1>2, <1>8, <1>11, <2>1, <3>1, Zenon
    <3>2. CASE v # w
      BY <1>2, <1>3, <1>7, <2>1, <3>2, Zenon DEF BeforeMade
    <3>3. QED
      BY <3>1, <3>2, Zenon
  <2>2. QED
    BY <2>1, Zenon DEF BeforeMade
<1>13. ASSUME NEW v \in Call, v \in woken' \/ (pc'[v] = "returned" /\ op'[v] # "cancel")
       PROVE  Released(v)'
  <2>1. v # w
    BY <1>2, <1>5, <1>6, <1>8, <1>13, Zenon
  <2>2. Released(v)
    BY <1>2, <1>3, <1>7, <1>13, <2>1, Zenon DEF WokenReleased
  <2>3. QED
    BY <1>3, <1>4, <1>7, <2>1, <2>2, ReleasedKept, Zenon
<1>14. QED
  BY <1>9, <1>10, <1>12, <1>13, Zenon DEF ReturnInv, WokenWaits, WokenReleased

\* A call returns from `wait` after reading a count of 0 or being woken.
LEMMA CallReleased ==
    ASSUME TypeOK, CountIsActive, ReturnInv, NEW w \in Call, CallStep(w)
    PROVE  ReturnInv'
PROOF
<1>1. pc \in [Call -> Pc] /\ target[w] \in Node /\ woken \subseteq Call
  BY DEF TypeOK
<1>2. /\ owner' = owner /\ status' = status /\ active_count' = active_count
      /\ woken' = woken /\ revived' = revived /\ op' = op /\ target' = target
      /\ before' = before
  BY Zenon DEF CallStep, CallStop, CallCancelToken, CallTokenCancelled, CallNotified,
         CallLoad, CallAwait, Goto, contexts, tracker
<1>3. DropsAtZero /\ WokenWaits /\ BeforeMade /\ WokenReleased
  BY Zenon DEF ReturnInv
<1>4. Steady
  BY <1>2, Zenon DEF Steady
<1>5. PICK p : pc' = [pc EXCEPT ![w] = p]
  BY Zenon DEF CallStep, CallStop, CallCancelToken, CallTokenCancelled, CallNotified,
         CallLoad, CallAwait, Goto
<1>6. pc'[w] = p /\ \A v \in Call : v # w => pc'[v] = pc[v]
  BY <1>1, <1>5, SMTT(20)
<1>7. /\ w \in woken => p \in WokenAt
      /\ p = "returned" /\ op[w] # "cancel" =>
            active_count[target[w]] = 0 \/ w \in woken
  <2>1. CASE CallLoad(w)
    BY <1>1, <1>6, <2>1, SMTT(20), Z3T(20) DEF CallLoad, Goto, WokenAt
  <2>2. CASE CallAwait(w)
    BY <1>1, <1>6, <2>2, SMTT(20), Z3T(20) DEF CallAwait, Goto, WokenAt
  <2>3. CASE CallStop(w)
    BY <1>1, <1>3, <1>6, <2>3, SMTT(20), Z3T(20) DEF CallStop, Goto, WokenWaits, WokenAt
  <2>4. CASE CallCancelToken(w)
    BY <1>1, <1>3, <1>6, <2>4, SMTT(20), Z3T(20) DEF CallCancelToken, Goto, WokenWaits, WokenAt
  <2>5. CASE CallTokenCancelled(w)
    BY <1>1, <1>3, <1>6, <2>5, SMTT(20), Z3T(20) DEF CallTokenCancelled, Goto, WokenWaits, WokenAt
  <2>6. CASE CallNotified(w)
    BY <1>1, <1>3, <1>6, <2>6, SMTT(20), Z3T(20) DEF CallNotified, Goto, WokenWaits, WokenAt
  <2>7. QED
    BY <2>1, <2>2, <2>3, <2>4, <2>5, <2>6, Zenon DEF CallStep
<1>8. active_count[target[w]] = 0 => Released(w)
  <2>1. SUFFICES ASSUME active_count[target[w]] = 0 PROVE Released(w)
    OBVIOUS
  <2>2. Active(target[w]) = {}
    BY <1>1, <2>1, NoneActive
  <2>3. QED
    BY <2>2 DEF Released
<1>9. DropsAtZero'
  BY <1>2, <1>3, Zenon DEF DropsAtZero
<1>10. WokenWaits'
  <2>1. ASSUME NEW v \in woken', v # w PROVE pc'[v] \in WokenAt
    BY <1>1, <1>2, <1>3, <1>6, <2>1, Zenon DEF WokenWaits
  <2>2. QED
    BY <1>2, <1>6, <1>7, <2>1, Zenon DEF WokenWaits
<1>11. BeforeMade'
  BY <1>2, <1>3, Zenon DEF BeforeMade
<1>12. ASSUME NEW v \in Call, v \in woken' \/ (pc'[v] = "returned" /\ op'[v] # "cancel")
       PROVE  Released(v)'
  <2>1. Released(v)
    <3>1. CASE v = w
      BY <1>2, <1>3, <1>6, <1>7, <1>8, <1>12, <3>1, Zenon DEF WokenReleased
    <3>2. CASE v # w
      BY <1>2, <1>3, <1>6, <1>12, <3>2, Zenon DEF WokenReleased
    <3>3. QED
      BY <3>1, <3>2, Zenon
  <2>2. before'[v] = before[v] /\ target'[v] = target[v]
    BY <1>2, Zenon
  <2>3. QED
    BY <1>3, <1>4, <2>1, <2>2, ReleasedKept, Zenon
<1>13. QED
  BY <1>9, <1>10, <1>11, <1>12, Zenon DEF ReturnInv, WokenReleased

\* Every step keeps a woken or returned call released.
LEMMA ReturnStep ==
    ASSUME TypeInv, TreeInv, ReturnInv, [Next]_vars
    PROVE  ReturnInv'
PROOF
<1>a. TypeOK /\ CountIsActive /\ DropsAtZero
  BY Zenon DEF TypeInv, ReturnInv
<1>b. ASSUME UNCHANGED <<status, owner, revived, active_count>>
      PROVE  Steady /\ DropsAtZero'
  BY <1>a, <1>b, Zenon DEF Steady, DropsAtZero
<1>1. CASE UNCHANGED vars
  BY <1>a, <1>b, <1>1, CallsAlone, Zenon DEF vars, contexts, tracker
<1>2. ASSUME NEW n \in Node, HandlerNew(n) \/ HandlerDrop(n)
      PROVE  ReturnInv'
  BY <1>a, <1>b, <1>2, CallsAlone, Zenon DEF HandlerNew, HandlerDrop, contexts, tracker
<1>3. ASSUME NEW n \in Node, NEW c \in Ctx, HandlerContext(n, c)
      PROVE  ReturnInv'
  <2>1. /\ revived \subseteq revived'
        /\ n \in revived' \/ \A e \in Ctx : ~(status[e] = "dropping" /\ owner[e] = n)
    BY <1>3 DEF HandlerContext, Revive
  <2>2. UNCHANGED calls /\ UNCHANGED woken /\ TrackerChild(n, c)
    BY <1>3, Zenon DEF HandlerContext
  <2>3. Steady /\ DropsAtZero'
    BY <1>a, <2>1, <2>2, ChildAlone, Zenon DEF TrackerChild
  <2>4. QED
    BY <1>a, <2>2, <2>3, CallsAlone, Zenon
<1>4. ASSUME NEW c \in Ctx, NEW d \in Ctx, ContextClone(c, d)
      PROVE  ReturnInv'
  <2>1. /\ UNCHANGED calls /\ UNCHANGED woken /\ revived' = revived
        /\ TrackerChild(owner[c], d) /\ status[c] = "live"
    BY <1>4, Zenon DEF ContextClone
  <2>2. owner[c] \in Node
    BY <1>a DEF TypeOK
  <2>3. c \in Active(owner[c])
    BY <2>1 DEF Active
  <2>4. active_count[owner[c]] # 0
    BY <1>a, <2>2, <2>3, NoneActive
  <2>5. owner[c] \in revived' \/ \A e \in Ctx : ~(status[e] = "dropping" /\ owner[e] = owner[c])
    BY <1>a, <2>1, <2>2, <2>4 DEF DropsAtZero
  <2>6. Steady /\ DropsAtZero'
    BY <1>a, <2>1, <2>2, <2>5, ChildAlone, Zenon DEF TrackerChild
  <2>7. QED
    BY <1>a, <2>1, <2>6, CallsAlone, Zenon
<1>5. ASSUME NEW c \in Ctx, NEW d \in Ctx, NEW m \in Node, ContextNewChild(c, m, d)
      PROVE  ReturnInv'
  <2>1. /\ UNCHANGED calls /\ UNCHANGED woken /\ revived' = revived
        /\ TrackerChild(m, d) /\ ~Exists(m)
    BY <1>5, Zenon DEF ContextNewChild
  <2>2. \A e \in Ctx : ~(status[e] = "dropping" /\ owner[e] = m)
    BY <2>1 DEF TreeInv
  <2>3. Steady /\ DropsAtZero'
    BY <1>a, <2>1, <2>2, ChildAlone, Zenon DEF TrackerChild
  <2>4. QED
    BY <1>a, <2>1, <2>3, CallsAlone, Zenon
<1>6. ASSUME NEW n \in Node, NEW m \in Node, NEW t \in Ctx, NEW d \in Ctx,
             HandlerNewChild(n, t, m, d)
      PROVE  ReturnInv'
  <2>1. UNCHANGED calls /\ UNCHANGED woken
    BY <1>6, Zenon DEF HandlerNewChild
  <2>2. Steady /\ DropsAtZero'
    BY <1>a, <1>6, NewChildAlone, Zenon
  <2>3. QED
    BY <1>a, <2>1, <2>2, CallsAlone, Zenon
<1>7. ASSUME NEW c \in Ctx, DropFetchSub(c)
      PROVE  ReturnInv'
  <2>1. UNCHANGED calls /\ UNCHANGED woken
    BY <1>7, Zenon DEF DropFetchSub
  <2>2. Steady /\ DropsAtZero'
    BY <1>a, <1>7, FetchSubAlone, Zenon
  <2>3. QED
    BY <1>a, <2>1, <2>2, CallsAlone, Zenon
<1>8. ASSUME NEW c \in Ctx, DropLoadEarly(c)
      PROVE  ReturnInv'
  <2>1. /\ UNCHANGED <<calls, woken, owner, revived, active_count>>
        /\ status[c] = "live" /\ status' = [status EXCEPT ![c] = "stale"]
    BY <1>8 DEF DropLoadEarly, tracker
  <2>2. status \in [Ctx -> Status]
    BY <1>a, Zenon DEF TypeOK
  <2>3. \A e \in Ctx : status'[e] = "dropping" => status[e] = "dropping"
    BY <2>1, <2>2, SMTT(20)
  <2>4. Steady
    BY <2>1, <2>2, SMTT(20) DEF Steady
  <2>5. DropsAtZero'
    BY <1>a, <2>1, <2>3, Zenon DEF DropsAtZero
  <2>6. QED
    BY <1>a, <2>1, <2>4, <2>5, CallsAlone, Zenon
<1>9. ASSUME NEW c \in Ctx, DropLoadStopped(c)
      PROVE  ReturnInv'
  BY <1>a, <1>9, NotifiedReleased, Zenon
<1>10. ASSUME NEW w \in Call, NEW n \in Node, NEW o \in Ops[w], Start(w, n, o)
       PROVE  ReturnInv'
  BY <1>a, <1>10, StartReleased, Zenon
<1>11. ASSUME NEW w \in Call, CallStep(w)
       PROVE  ReturnInv'
  BY <1>a, <1>11, CallReleased, Zenon
<1>12. QED
  BY <1>1, <1>2, <1>3, <1>4, <1>5, <1>6, <1>7, <1>8, <1>9, <1>10, <1>11, Zenon DEF Next

\* A shutdown that returns has outlived every context its handler had when it
\* was called, unless the Handler made a context in the middle of the drop of
\* its last one (lib.rs 55 and 58 are two accesses; Handler::context, 268).
\* This holds with the drop's accesses reordered, too.
THEOREM ReturnCorrect == Spec => []EarlyReturnNeedsRevival
PROOF
<1>1. Init => ReturnInv
  BY DEF Init, ReturnInv, DropsAtZero, WokenWaits, BeforeMade, WokenReleased
<1>2. TypeInv /\ TreeInv /\ ReturnInv /\ [Next]_vars => ReturnInv'
  BY ReturnStep, SMTT(20)
<1>3. ReturnInv => EarlyReturnNeedsRevival
  BY DEF ReturnInv, WokenReleased, Released, EarlyReturnNeedsRevival
<1>4. QED
  BY <1>1, <1>2, <1>3, BaseInvariant, PTL DEF Spec

============================================================================
