------------------------------ MODULE Context ------------------------------
(***************************************************************************)
(* scuffle-context (crates/context/src/lib.rs): cancellation tokens,       *)
(* context trackers and handlers.                                          *)
(*                                                                         *)
(* A node is one Handler together with what all its clones share: the      *)
(* CancellationToken behind Arc<TokenDropGuard> and the                    *)
(* ContextTrackerInner (stopped, active_count, notify).  A context holds   *)
(* one ContextTracker of the node it was created on.  A call is one        *)
(* invocation of Handler::cancel, shutdown, done or wait; each atomic      *)
(* access of those methods, and of ContextTracker::drop, is a step.        *)
(***************************************************************************)
EXTENDS Naturals, FiniteSets

CONSTANTS Node,     \* handlers that may be created
          Global,   \* the handler of Handler::global, a static: never dropped
          Ctx,      \* contexts that may be created, each used once
          Call,     \* invocations of the blocking and cancelling methods
          Ops       \* Ops[w]: the methods call w may be of

ASSUME ConstantsAssumption ==
    /\ Global \in Node
    /\ IsFiniteSet(Ctx)
    /\ Ops \in [Call -> SUBSET {"cancel", "shutdown", "done", "wait"}]

VARIABLES anc,           \* anc[n]: n and its ancestors in the token tree, {} before n exists
          handlers,      \* nodes of which a Handler value is still held
          cancelled,     \* nodes whose token is cancelled
          stopped,       \* ContextTrackerInner::stopped
          active_count,  \* ContextTrackerInner::active_count
          owner,         \* the node a context belongs to
          status,        \* where a context is in its life
          op,            \* the method a call runs
          target,        \* the handler it runs on
          pc,            \* its next step
          woken,         \* calls whose Notified future a notify_waiters reached
          before,        \* ghost: the target's live contexts when the call started
          revived        \* ghost: nodes given a context by their Handler while a drop was half done

tree     == <<anc, handlers, cancelled>>
tracker  == <<stopped, active_count>>
contexts == <<owner, status>>
calls    == <<op, target, pc, before>>
vars     == <<tree, tracker, contexts, calls, woken, revived>>

\* free: not created.  temp: the temporary of Handler::new_child.
\* dropping: the drop took active_count from 1 to 0 and has not read stopped.
\* stale: the drop has read stopped = false and not yet decremented.
\* missed: dropped, by such a drop, as the last of its node.
Status == {"free", "live", "temp", "stale", "dropping", "missed", "dropped"}
Op     == {"cancel", "shutdown", "done", "wait"}
Pc     == {"idle", "stop", "token", "done", "wait", "load", "blocked", "returned"}

Counted    == {"live", "temp", "stale"}
Active(n)  == {c \in Ctx : status[c] \in Counted /\ owner[c] = n}
Exists(n)  == anc[n] # {}

TypeOK ==
    /\ anc \in [Node -> SUBSET Node]
    /\ handlers \in SUBSET Node
    /\ cancelled \in SUBSET Node
    /\ stopped \in [Node -> BOOLEAN]
    /\ active_count \in [Node -> Nat]
    /\ owner \in [Ctx -> Node]
    /\ status \in [Ctx -> Status]
    /\ op \in [Call -> Op]
    /\ target \in [Call -> Node]
    /\ pc \in [Call -> Pc]
    /\ woken \in SUBSET Call
    /\ before \in [Call -> SUBSET Ctx]
    /\ revived \in SUBSET Node

Init ==
    /\ anc = [n \in Node |-> IF n = Global THEN {Global} ELSE {}]
    /\ handlers = {Global}
    /\ cancelled = {}
    /\ stopped = [n \in Node |-> FALSE]
    /\ active_count = [n \in Node |-> 0]
    /\ owner = [c \in Ctx |-> Global]
    /\ status = [c \in Ctx |-> "free"]
    /\ op = [w \in Call |-> "wait"]
    /\ target = [w \in Call |-> Global]
    /\ pc = [w \in Call |-> "idle"]
    /\ woken = {}
    /\ before = [w \in Call |-> {}]
    /\ revived = {}

----------------------------------------------------------------------------
(* The token tree (tokio-util).  Cancelling a token cancels everything     *)
(* below it; a child of a cancelled token is born cancelled.               *)

\* CancellationToken::cancel.  tokio-util walks the tree token by token; one
\* step stands for the walk, since a token it reaches late only makes the calls
\* that await it go on later, and those may be delayed at any step.
TokenCancel(n) == cancelled' = cancelled \cup {m \in Node : n \in anc[m]}

\* CancellationToken::child_token, for the token of node m below n
ChildToken(n, m) ==
    /\ anc' = [anc EXCEPT ![m] = anc[n] \cup {m}]
    /\ cancelled' = IF n \in cancelled THEN cancelled \cup {m} ELSE cancelled

\* Notify::notify_waiters: reaches every Notified future that exists, polled or not
NotifyWaiters(n) ==
    woken' = woken \cup {w \in Call : target[w] = n /\ pc[w] \in {"load", "blocked"}}

----------------------------------------------------------------------------
(* Creating handlers and contexts.                                         *)

\* Handler::new
HandlerNew(n) ==
    /\ ~Exists(n)
    /\ anc' = [anc EXCEPT ![n] = {n}]
    /\ handlers' = handlers \cup {n}
    /\ UNCHANGED <<cancelled, tracker, contexts, calls, woken, revived>>

\* ContextTrackerInner::child, for a context c of node n
TrackerChild(n, c) ==
    /\ status[c] = "free"
    /\ status' = [status EXCEPT ![c] = "live"]
    /\ owner' = [owner EXCEPT ![c] = n]
    /\ active_count' = [active_count EXCEPT ![n] = @ + 1]

\* A context made by the Handler itself needs no live context, so it can
\* raise active_count again after a drop brought it to 0.
Revive(n) ==
    revived' = IF \E c \in Ctx : status[c] = "dropping" /\ owner[c] = n
               THEN revived \cup {n} ELSE revived

\* Handler::context
HandlerContext(n, c) ==
    /\ n \in handlers
    /\ TrackerChild(n, c)
    /\ Revive(n)
    /\ UNCHANGED <<tree, stopped, calls, woken>>

\* Context::clone
ContextClone(c, d) ==
    /\ status[c] = "live"
    /\ TrackerChild(owner[c], d)
    /\ UNCHANGED <<tree, stopped, calls, woken, revived>>

\* Context::new_child: a new token below c's and a new tracker holding d
ContextNewChild(c, m, d) ==
    /\ status[c] = "live"
    /\ ~Exists(m)
    /\ ChildToken(owner[c], m)
    /\ handlers' = handlers \cup {m}
    /\ TrackerChild(m, d)
    /\ UNCHANGED <<stopped, calls, woken, revived>>

\* Handler::new_child: a context t of its own, and Context::new_child on it;
\* dropping t at the end of the call is a DropFetchSub of its own.
HandlerNewChild(n, t, m, d) ==
    /\ n \in handlers
    /\ t # d /\ status[t] = "free" /\ status[d] = "free"
    /\ ~Exists(m)
    /\ ChildToken(n, m)
    /\ handlers' = handlers \cup {m}
    /\ status' = [status EXCEPT ![t] = "temp", ![d] = "live"]
    /\ owner' = [owner EXCEPT ![t] = n, ![d] = m]
    /\ active_count' = [active_count EXCEPT ![n] = @ + 1, ![m] = @ + 1]
    /\ Revive(n)
    /\ UNCHANGED <<stopped, calls, woken>>

----------------------------------------------------------------------------
(* ContextTracker::drop: two atomic accesses.                              *)

\* Mutant: every drop looks at `stopped`, not only the last
AnyFetchSub(c) == IF status[c] = "stale" THEN "missed" ELSE "dropping"

\* What fetch_sub leaves of a context: only the drop that saw 1 looks at `stopped`
AfterFetchSub(c) ==
    IF active_count[owner[c]] # 1 THEN "dropped"
    ELSE IF status[c] = "stale" THEN "missed" ELSE "dropping"

\* fetch_sub
DropFetchSub(c) ==
    /\ status[c] \in Counted
    /\ active_count' = [active_count EXCEPT ![owner[c]] = @ - 1]
    /\ status' = [status EXCEPT ![c] = AfterFetchSub(c)]
    /\ UNCHANGED <<tree, stopped, owner, calls, woken, revived>>

\* Mutant: notify_one instead of notify_waiters
DropNotifyOne(c) ==
    /\ status[c] = "dropping"
    /\ status' = [status EXCEPT ![c] = "dropped"]
    /\ IF stopped[owner[c]] /\ \E w \in Call : target[w] = owner[c] /\ pc[w] = "blocked"
       THEN \E w \in Call : /\ target[w] = owner[c] /\ pc[w] = "blocked"
                            /\ woken' = woken \cup {w}
       ELSE UNCHANGED woken
    /\ UNCHANGED <<tree, tracker, owner, calls, revived>>

\* stopped.load, and notify_waiters when it is set
DropLoadStopped(c) ==
    /\ status[c] = "dropping"
    /\ status' = [status EXCEPT ![c] = "dropped"]
    /\ IF stopped[owner[c]] THEN NotifyWaiters(owner[c]) ELSE UNCHANGED woken
    /\ UNCHANGED <<tree, tracker, owner, calls, revived>>

\* Both accesses are Ordering::Relaxed and to different atomics: the load may
\* take effect first.  It matters when it reads FALSE.
DropLoadEarly(c) ==
    /\ status[c] = "live"
    /\ ~stopped[owner[c]]
    /\ status' = [status EXCEPT ![c] = "stale"]
    /\ UNCHANGED <<tree, tracker, owner, calls, woken, revived>>

\* TokenDropGuard::drop, when the last clone of the Handler goes.  A call
\* borrows its Handler until it returns.
HandlerDrop(n) ==
    /\ n \in handlers \ {Global}
    /\ \A w \in Call : target[w] = n => pc[w] \in {"idle", "returned"}
    /\ handlers' = handlers \ {n}
    /\ TokenCancel(n)
    /\ UNCHANGED <<anc, tracker, contexts, calls, woken, revived>>

----------------------------------------------------------------------------
(* Handler::cancel, shutdown, done and wait.                               *)

FirstPc(o) == CASE o \in {"cancel", "shutdown"} -> "stop"
                [] o = "done" -> "done"
                [] o = "wait" -> "wait"

Start(w, n, o) ==
    /\ pc[w] = "idle"
    /\ n \in handlers
    /\ op' = [op EXCEPT ![w] = o]
    /\ target' = [target EXCEPT ![w] = n]
    /\ pc' = [pc EXCEPT ![w] = FirstPc(o)]
    /\ before' = [before EXCEPT ![w] = Active(n)]
    /\ UNCHANGED <<tree, tracker, contexts, woken, revived>>

Goto(w, l) == pc' = [pc EXCEPT ![w] = l] /\ UNCHANGED <<op, target, before>>

\* Handler::cancel, tracker.stop()
CallStop(w) ==
    /\ pc[w] = "stop"
    /\ stopped' = [stopped EXCEPT ![target[w]] = TRUE]
    /\ Goto(w, "token")
    /\ UNCHANGED <<tree, active_count, contexts, woken, revived>>

\* Handler::cancel, token.cancel(); shutdown goes on to done
CallCancelToken(w) ==
    /\ pc[w] = "token"
    /\ TokenCancel(target[w])
    /\ Goto(w, IF op[w] = "cancel" THEN "returned" ELSE "done")
    /\ UNCHANGED <<anc, handlers, tracker, contexts, woken, revived>>

\* Handler::done, token.cancelled().await
CallTokenCancelled(w) ==
    /\ pc[w] = "done"
    /\ target[w] \in cancelled
    /\ Goto(w, "wait")
    /\ UNCHANGED <<tree, tracker, contexts, woken, revived>>

\* ContextTrackerInner::wait, notify.notified()
CallNotified(w) ==
    /\ pc[w] = "wait"
    /\ Goto(w, "load")
    /\ UNCHANGED <<tree, tracker, contexts, woken, revived>>

\* ContextTrackerInner::wait, active_count.load
CallLoad(w) ==
    /\ pc[w] = "load"
    /\ Goto(w, IF active_count[target[w]] = 0 THEN "returned" ELSE "blocked")
    /\ UNCHANGED <<tree, tracker, contexts, woken, revived>>

\* ContextTrackerInner::wait, notify.await
CallAwait(w) ==
    /\ pc[w] = "blocked"
    /\ w \in woken
    /\ Goto(w, "returned")
    /\ UNCHANGED <<tree, tracker, contexts, woken, revived>>

CallStep(w) ==
    \/ CallStop(w)
    \/ CallCancelToken(w)
    \/ CallTokenCancelled(w)
    \/ CallNotified(w)
    \/ CallLoad(w)
    \/ CallAwait(w)

Next ==
    \/ \E n \in Node : HandlerNew(n) \/ HandlerDrop(n)
    \/ \E n \in Node, c \in Ctx : HandlerContext(n, c)
    \/ \E c, d \in Ctx : ContextClone(c, d)
    \/ \E c, d \in Ctx, m \in Node : ContextNewChild(c, m, d)
    \/ \E n, m \in Node, t, d \in Ctx : HandlerNewChild(n, t, m, d)
    \/ \E c \in Ctx : DropFetchSub(c) \/ DropLoadStopped(c) \/ DropLoadEarly(c)
    \/ \E w \in Call, n \in Node : \E o \in Ops[w] : Start(w, n, o)
    \/ \E w \in Call : CallStep(w)

Spec == Init /\ [][Next]_vars

\* Tasks are polled until they finish: a call takes its next step, a drop
\* that has begun is completed, the temporary of new_child is dropped, and
\* whoever holds a context lets go of it once the context is done (the use
\* Context::done is for).
Fairness ==
    /\ \A w \in Call : WF_vars(CallStep(w))
    /\ \A c \in Ctx : /\ WF_vars(owner[c] \in cancelled /\ DropFetchSub(c))
                      /\ WF_vars(status[c] \in {"temp", "stale"} /\ DropFetchSub(c))
                      /\ WF_vars(DropLoadStopped(c))

FairSpec == Spec /\ Fairness

----------------------------------------------------------------------------
(* Properties.                                                             *)

\* active_count is the number of ContextTrackers that exist for the node
\* (the doc of the field, lib.rs 67-68), through clones, temporaries, both
\* forms of new_child and half-finished drops.
CountIsActive == \A n \in Node : active_count[n] = Cardinality(Active(n))

Waits(w, o) == op[w] = o /\ pc[w] = "blocked" /\ w \notin woken

\* The last drop of a node read `stopped` before it decremented
Missed(n) == \E c \in Ctx : status[c] = "missed" /\ owner[c] = n

\* No shutdown sleeps for ever: while one is blocked and not notified, some
\* context of its handler is alive, or a drop that took active_count to 0 is
\* about to read `stopped`, and it is set.  The exception is what
\* Ordering::Relaxed allows: the last drop read `stopped` too early.
NoLostWakeup ==
    \A w \in Call : Waits(w, "shutdown") =>
        /\ stopped[target[w]]
        /\ \/ active_count[target[w]] > 0
           \/ \E c \in Ctx : status[c] = "dropping" /\ owner[c] = target[w]
           \/ Missed(target[w])

\* "The Handler::shutdown method will block until all contexts have been
\* dropped" (lib.rs 116): when a shutdown returns, every context its handler
\* had when it was called is gone.  The only way around it: the Handler made
\* a context between the two accesses of the drop of its last one, and that
\* drop then wakes a shutdown called with the new context alive.
EarlyReturnNeedsRevival ==
    \A w \in Call : op[w] = "shutdown" /\ pc[w] = "returned" =>
        \/ before[w] \cap Active(target[w]) = {}
        \/ target[w] \in revived

\* Handler::shutdown returns, whatever is created, cloned, dropped or
\* cancelled around it, unless the last drop read `stopped` too early.
ShutdownReturns ==
    \A w \in Call : (op[w] = "shutdown" /\ pc[w] # "idle")
                        ~> (pc[w] = "returned" \/ Missed(target[w]))

\* "Waits for the handler to be done (waiting for all contexts to be done)"
\* (lib.rs 253): Handler::done returns once its token is cancelled and its
\* contexts are gone.
DoneReturns ==
    \A w \in Call :
        (/\ op[w] = "done" /\ pc[w] # "idle"
         /\ target[w] \in cancelled) ~> (pc[w] = "returned" \/ Missed(target[w]))

============================================================================
