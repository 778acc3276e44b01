----------------------------- MODULE HttpServer -----------------------------
(***************************************************************************)
(* scuffle-http (crates/http): the life of a server, its workers and its   *)
(* connections.  TcpServer (hyper: http1, http2) and QuinnServer (h3:      *)
(* http3) share the StartGroup protocol of backend/tcp/mod.rs and          *)
(* backend/quic/quinn/mod.rs; serve.rs of each differs where backend is    *)
(* consulted.                                                              *)
(*                                                                         *)
(* A group is one StartGroup: a context Handler and, behind a mutex, the   *)
(* join handles of its workers.  A call is one invocation of start, wait   *)
(* or shutdown; several run concurrently on &self, and the future of a     *)
(* call can be dropped at an await.  Every connection and, in http2 and    *)
(* http3, every request is a task of its own.                              *)
(***************************************************************************)
EXTENDS FiniteSets, Naturals

CONSTANTS Group, Worker, Conn, Request, Call,
          Op,        \* Op[k]: "start", "wait" or "shutdown"
          None,
          Backends,  \* the protocols of the server: "http1", "http2" or "http3"
          Failures,  \* how a worker may fail: "error", a fatal one, and "closed"
          Drops      \* the calls whose future may be dropped

ASSUME HttpAssumption ==
    /\ None \notin Group \cup Call
    /\ Op \in [Call -> {"start", "wait", "shutdown"}]
    /\ Backends \subseteq {"http1", "http2", "http3"}
    /\ Failures \subseteq {"error", "closed"}
    /\ Drops \subseteq Call

VARIABLES backend,      \* the protocol the server was built for
          start_group,  \* the group in the server's slot
          config,       \* the start holding the config lock
          pc, held,     \* per call: next step, and the group (clone) it holds
          cancelled,    \* groups whose Handler is cancelled
          threads,      \* per group: workers whose armed handle is in the Vec
          lock,         \* per group: the call holding the mutex of threads
          awaited,      \* per call: the disarmed handles in select_all
          aborting,     \* workers whose handle was aborted
          worker,       \* per group and worker: what the task does
          phase, home,  \* per connection: where it is, and whose it is
          inflight, seen,  \* per connection: requests running, requests begun
          bodies,       \* per connection: responses hyper still sends
          hooks         \* per connection: ConnectionHandle hooks called

server == <<backend, start_group, config>>
calls  == <<pc, held, awaited>>
groups == <<cancelled, threads, lock>>
tasks  == <<aborting, worker>>
conns  == <<phase, home, inflight, seen, bodies, hooks>>
vars   == <<server, calls, groups, tasks, conns>>

Running == {"accept", "drain"}
Open    == {"accept", "handshake", "serve", "graceful", "drain"}
Live(g) == {w \in Worker : worker[g][w] \in Running}

Init ==
    /\ backend \in Backends
    /\ start_group = None
    /\ config = None
    /\ pc = [k \in Call |-> "idle"]
    /\ held = [k \in Call |-> None]
    /\ awaited = [k \in Call |-> {}]
    /\ cancelled = {}
    /\ threads = [g \in Group |-> {}]
    /\ lock = [g \in Group |-> None]
    /\ aborting = {}
    /\ worker = [g \in Group |-> [w \in Worker |-> "none"]]
    /\ phase = [c \in Conn |-> "none"]
    /\ home = [c \in Conn |-> None]
    /\ inflight = [c \in Conn |-> {}]
    /\ seen = [c \in Conn |-> {}]
    /\ bodies = [c \in Conn |-> {}]
    /\ hooks = [c \in Conn |-> {}]

Goto(k, l)  == pc' = [pc EXCEPT ![k] = l]
Hold(k, g)  == held' = [held EXCEPT ![k] = g]

\* StartGroup is dropped with its last clone: the Handler cancels, and
\* AbortOnDrop aborts the workers whose handles are still in the Vec.
DropGroup(g, more) ==
    IF start_group' # g /\ \A k \in Call : held'[k] # g
    THEN /\ cancelled' = cancelled \cup {g} \cup more
         /\ aborting' = aborting \cup ({g} \X threads'[g])
    ELSE /\ cancelled' = cancelled \cup more
         /\ UNCHANGED aborting

----------------------------------------------------------------------------
(* start.                                                                  *)

\* self.config.lock().await
StartLock(k) ==
    /\ Op[k] = "start" /\ pc[k] = "idle" /\ config = None
    /\ config' = k
    /\ Goto(k, "config")
    /\ UNCHANGED <<backend, start_group, held, awaited, groups, tasks, conns>>

\* self.start_group.lock().take()
StartTake(k) ==
    /\ pc[k] = "config"
    /\ start_group' = None
    /\ Hold(k, start_group)
    /\ Goto(k, IF start_group = None THEN "listen" ELSE "supersede")
    /\ UNCHANGED <<backend, config, awaited, groups, tasks, conns>>

\* Mutant: the old group is dropped without being cancelled, so one that a
\* wait still holds goes on accepting
SupersedeSilently(k) ==
    /\ pc[k] = "supersede"
    /\ Hold(k, None)
    /\ Goto(k, "listen")
    /\ UNCHANGED <<server, awaited, threads, lock, worker, conns>>
    /\ DropGroup(held[k], {})

\* group.handler.cancel(), and the end of the scope of group
StartSupersede(k) ==
    /\ pc[k] = "supersede"
    /\ Hold(k, None)
    /\ Goto(k, "listen")
    /\ UNCHANGED <<server, awaited, threads, lock, worker, conns>>
    /\ DropGroup(held[k], {held[k]})

\* make_listener, local_addr or try_clone fails
StartFail(k) ==
    /\ pc[k] = "listen"
    /\ config' = None
    /\ Goto(k, "err")
    /\ UNCHANGED <<backend, start_group, held, awaited, groups, tasks, conns>>

\* tokio::spawn of every worker
StartSpawn(k) ==
    /\ pc[k] = "listen"
    /\ \E g \in Group :
          /\ \A w \in Worker : worker[g][w] = "none"
          /\ Hold(k, g)
          /\ worker' = [worker EXCEPT ![g] = [w \in Worker |-> "accept"]]
          /\ threads' = [threads EXCEPT ![g] = Worker]
    /\ Goto(k, "publish")
    /\ UNCHANGED <<server, awaited, cancelled, lock, aborting, conns>>

\* *self.start_group.lock() = Some(..)
StartPublish(k) ==
    /\ pc[k] = "publish"
    /\ start_group' = held[k]
    /\ config' = None
    /\ Hold(k, None)
    /\ Goto(k, "ok")
    /\ UNCHANGED <<backend, awaited, groups, tasks, conns>>

----------------------------------------------------------------------------
(* shutdown, wait and StartGroup::wait.                                    *)

\* shutdown takes the group from the slot, wait clones it
Begin(k) ==
    /\ Op[k] # "start" /\ pc[k] = "idle"
    /\ Hold(k, start_group)
    /\ start_group' = IF Op[k] = "shutdown" THEN None ELSE start_group
    /\ Goto(k, IF start_group = None THEN "err"
               ELSE IF Op[k] = "shutdown" THEN "cancel" ELSE "lock")
    /\ UNCHANGED <<backend, config, awaited, groups, tasks, conns>>

\* Mutant: shutdown only waits
CancelForgotten(k) ==
    /\ pc[k] = "cancel"
    /\ Goto(k, "lock")
    /\ UNCHANGED <<server, held, awaited, groups, tasks, conns>>

\* group.handler.cancel()
ShutdownCancel(k) ==
    /\ pc[k] = "cancel"
    /\ cancelled' = cancelled \cup {held[k]}
    /\ Goto(k, "lock")
    /\ UNCHANGED <<server, held, awaited, threads, lock, tasks, conns>>

\* self.threads.lock().await
WaitLock(k) ==
    /\ pc[k] = "lock" /\ lock[held[k]] = None
    /\ lock' = [lock EXCEPT ![held[k]] = k]
    /\ Goto(k, "loop")
    /\ UNCHANGED <<server, held, awaited, cancelled, threads, tasks, conns>>

\* threads.drain(..) with every handle disarmed
WaitDrain(k) ==
    /\ pc[k] = "loop" /\ threads[held[k]] # {}
    /\ awaited' = [awaited EXCEPT ![k] = threads[held[k]]]
    /\ threads' = [threads EXCEPT ![held[k]] = {}]
    /\ Goto(k, "select")
    /\ UNCHANGED <<server, held, cancelled, lock, tasks, conns>>

\* Return with the mutex released and the clone dropped
Return(k, g, left, l) ==
    /\ Hold(k, None)
    /\ awaited' = [awaited EXCEPT ![k] = {}]
    /\ threads' = [threads EXCEPT ![g] = left]
    /\ lock' = [lock EXCEPT ![g] = IF lock[g] = k THEN None ELSE lock[g]]
    /\ Goto(k, l)
    /\ UNCHANGED <<server, worker, conns>>
    /\ DropGroup(g, {})

\* while !threads.is_empty() ends: wait returns, shutdown goes on
WaitDone(k) ==
    /\ pc[k] = "loop" /\ threads[held[k]] = {}
    /\ \/ Op[k] = "wait" /\ Return(k, held[k], {}, "ok")
       \/ /\ Op[k] = "shutdown"
          /\ lock' = [lock EXCEPT ![held[k]] = None]
          /\ Goto(k, "finish")
          /\ UNCHANGED <<server, held, awaited, cancelled, threads, tasks, conns>>

\* select_all resolves with one finished worker; the others are armed again.
\* `result??` returns on an io error and on a JoinError.
WaitSelect(k) ==
    /\ pc[k] = "select"
    /\ \E w \in awaited[k] :
          \/ /\ worker[held[k]][w] = "ok"
             /\ awaited' = [awaited EXCEPT ![k] = {}]
             /\ threads' = [threads EXCEPT ![held[k]] = awaited[k] \ {w}]
             /\ Goto(k, "loop")
             /\ UNCHANGED <<server, held, cancelled, lock, tasks, conns>>
          \/ /\ worker[held[k]][w] \in {"err", "aborted"}
             /\ Return(k, held[k], awaited[k] \ {w}, "err")

\* group.handler.shutdown().await: every worker still holds the context it was given
ShutdownFinish(k) ==
    /\ pc[k] = "finish" /\ Live(held[k]) = {}
    /\ Return(k, held[k], threads[held[k]], "ok")

\* The future of wait or shutdown is dropped at an await: disarmed handles detach
DropCall(k) ==
    /\ k \in Drops /\ pc[k] \in {"lock", "select", "finish"}
    /\ Return(k, held[k], threads[held[k]], "dropped")

----------------------------------------------------------------------------
(* A worker: serve_tcp or serve_quinn.                                     *)

Exit(g, w, s) == worker' = [worker EXCEPT ![g][w] = s]

\* listener.accept and ConnectionAcceptor::accept: serve_stream is spawned.  A
\* ready connection is taken even when the context is done.
Accept(g, w, c) ==
    /\ worker[g][w] = "accept" /\ phase[c] = "none"
    /\ phase' = [phase EXCEPT ![c] = "accept"]
    /\ home' = [home EXCEPT ![c] = <<g, w>>]
    /\ UNCHANGED <<server, calls, groups, tasks, inflight, seen, bodies, hooks>>

\* A fatal accept error, or a panic: ctx_handler is dropped, which cancels
WorkerFail(g, w) ==
    /\ "error" \in Failures /\ worker[g][w] = "accept"
    /\ Exit(g, w, "err")
    /\ UNCHANGED <<server, calls, groups, aborting, conns>>

\* The context is done: leave the loop for ctx_handler.shutdown()
WorkerStop(g, w) ==
    /\ worker[g][w] = "accept" /\ g \in cancelled
    /\ Exit(g, w, "drain")
    /\ UNCHANGED <<server, calls, groups, aborting, conns>>

\* quinn's accept() has nothing more to give, its endpoint being closed or
\* its driver gone: the loop is left as well
WorkerClosed(g, w) ==
    /\ "closed" \in Failures /\ backend = "http3" /\ worker[g][w] = "accept"
    /\ Exit(g, w, "drain")
    /\ UNCHANGED <<server, calls, groups, aborting, conns>>

Tasks(g, w) == {c \in Conn : home[c] = <<g, w>> /\ phase[c] \in Open}

\* Mutant: the worker does not wait for its connections
WorkerEndsAtOnce(g, w) ==
    /\ worker[g][w] = "drain"
    /\ Exit(g, w, "ok")
    /\ UNCHANGED <<server, calls, groups, aborting, conns>>

\* ctx_handler.shutdown() returns: each serve_stream held a clone to its end
WorkerEnd(g, w) ==
    /\ worker[g][w] = "drain" /\ Tasks(g, w) = {}
    /\ Exit(g, w, "ok")
    /\ UNCHANGED <<server, calls, groups, aborting, conns>>

\* JoinHandle::abort takes effect
WorkerAbort(g, w) ==
    /\ <<g, w>> \in aborting /\ worker[g][w] \in Running
    /\ Exit(g, w, "aborted")
    /\ UNCHANGED <<server, calls, groups, aborting, conns>>

----------------------------------------------------------------------------
(* A connection: serve_stream (tcp) or serve_handle (quic).                *)

\* Its context is done: the group was cancelled, or its worker is past accepting
Done(c) == home[c][1] \in cancelled \/ worker[home[c][1]][home[c][2]] # "accept"

Move(c, p)    == phase' = [phase EXCEPT ![c] = p]
Hook(c, hs)   == hooks' = [hooks EXCEPT ![c] = @ \cup hs]
ConnOnly      == UNCHANGED <<server, calls, groups, tasks, home>>
KeepRequests  == UNCHANGED <<inflight, seen, bodies>>

\* ConnectionHandle::accept resolves.  When the context ends first tcp gives
\* up; quic has no such early return and gives up in the handshake.
HandleAccept(c) ==
    /\ phase[c] = "accept"
    /\ \/ Move(c, "handshake") /\ Hook(c, {})
       \/ Move(c, "drain") /\ Hook(c, {"on_error"})
       \/ Done(c) /\ Move(c, IF backend = "http3" THEN "handshake" ELSE "drain") /\ Hook(c, {})
    /\ ConnOnly /\ KeepRequests

\* The tls handshake, or the quinn verdict, handshake and h3 build: succeeds,
\* fails or times out, is refused, or the context ends
Handshake(c) ==
    /\ phase[c] = "handshake"
    /\ \/ Move(c, "serve") /\ Hook(c, {})
       \/ Move(c, "drain") /\ Hook(c, {"on_error"})
       \/ Move(c, "drain") /\ Hook(c, {})
    /\ ConnOnly /\ KeepRequests

\* A request arrives and on_request is called; http1 serves one at a time,
\* its response included
OnRequest(c, r) ==
    /\ phase[c] = "serve" /\ r \notin seen[c]
    /\ backend = "http1" => inflight[c] = {} /\ bodies[c] = {}
    /\ inflight' = [inflight EXCEPT ![c] = @ \cup {r}]
    /\ seen' = [seen EXCEPT ![c] = @ \cup {r}]
    /\ ConnOnly /\ UNCHANGED <<phase, bodies, hooks>>

Finish(c, r) == inflight' = [inflight EXCEPT ![c] = @ \ {r}]

\* on_request resolves and its context is dropped.  In http3 the task has sent
\* the body first; in http1 and http2 hyper sends it after, and it holds the
\* guard of the idle timeout.
RequestDone(c, r) ==
    /\ r \in inflight[c]
    /\ Finish(c, r)
    /\ bodies' = IF backend = "http3" THEN bodies ELSE [bodies EXCEPT ![c] = @ \cup {r}]
    /\ ConnOnly /\ UNCHANGED <<phase, seen, hooks>>

\* The body of a response ends or is dropped
BodyDone(c, r) ==
    /\ r \in bodies[c]
    /\ bodies' = [bodies EXCEPT ![c] = @ \ {r}]
    /\ ConnOnly /\ UNCHANGED <<phase, inflight, seen, hooks>>

\* on_request fails: hyper ends an http1 connection and resets an http2
\* stream, quic reports the error and goes on
RequestFail(c, r) ==
    /\ r \in inflight[c]
    /\ Finish(c, r)
    /\ \/ backend = "http1" /\ Move(c, "drain") /\ Hook(c, {"on_error"})
       \/ backend = "http2" /\ UNCHANGED <<phase, hooks>>
       \/ backend = "http3" /\ Hook(c, {"on_error"}) /\ UNCHANGED phase
    /\ ConnOnly /\ UNCHANGED <<seen, bodies>>

\* The connection ends, well or with an error.  The request and the response of
\* http1 are part of it; http2 and http3 requests are tasks that run on.
ConnEnd(c) ==
    /\ phase[c] \in {"serve", "graceful"}
    /\ Move(c, "drain")
    /\ \E hs \in {{}, {"on_error"}} : Hook(c, hs)
    /\ inflight' = [inflight EXCEPT ![c] = IF backend = "http1" THEN {} ELSE @]
    /\ bodies' = [bodies EXCEPT ![c] = IF backend = "http1" THEN {} ELSE @]
    /\ ConnOnly /\ UNCHANGED seen

\* TimeoutTracker::wait returns: no request is in flight and no response is sent
IdleTimeout(c) ==
    /\ phase[c] \in {"serve", "graceful"} /\ inflight[c] = {} /\ bodies[c] = {}
    /\ Move(c, "drain")
    /\ ConnOnly /\ KeepRequests /\ UNCHANGED hooks

\* The context ends: tcp asks hyper to finish the open requests, quic leaves the loop
ServeDone(c) ==
    /\ phase[c] = "serve" /\ Done(c)
    /\ Move(c, IF backend = "http3" THEN "drain" ELSE "graceful")
    /\ ConnOnly /\ KeepRequests /\ UNCHANGED hooks

\* Mutant: on_close before ctx_handler.shutdown()
CloseEarly(c) ==
    /\ phase[c] = "drain"
    /\ Move(c, "closed") /\ Hook(c, {"on_close"})
    /\ ConnOnly /\ KeepRequests

\* ctx_handler.shutdown() returns, every request having dropped its context; on_close
Close(c) ==
    /\ phase[c] = "drain" /\ inflight[c] = {}
    /\ Move(c, "closed") /\ Hook(c, {"on_close"})
    /\ ConnOnly /\ KeepRequests

----------------------------------------------------------------------------

StartStep(k) == StartLock(k) \/ StartTake(k) \/ StartSupersede(k) \/ StartSpawn(k) \/ StartPublish(k)
WaitStep(k)  == \/ ShutdownCancel(k) \/ WaitLock(k) \/ WaitDrain(k) \/ WaitDone(k)
                \/ WaitSelect(k) \/ ShutdownFinish(k)
WorkerStep(g, w) == WorkerStop(g, w) \/ WorkerEnd(g, w) \/ WorkerAbort(g, w)

Next ==
    \/ \E k \in Call : StartStep(k) \/ StartFail(k) \/ Begin(k) \/ WaitStep(k) \/ DropCall(k)
    \/ \E g \in Group, w \in Worker :
          \/ WorkerStep(g, w) \/ WorkerFail(g, w) \/ WorkerClosed(g, w)
          \/ \E c \in Conn : Accept(g, w, c)
    \/ \E c \in Conn : \/ HandleAccept(c) \/ Handshake(c) \/ ConnEnd(c)
                       \/ IdleTimeout(c) \/ ServeDone(c) \/ Close(c)
    \/ \E c \in Conn, r \in Request : \/ OnRequest(c, r) \/ RequestDone(c, r)
                                     \/ BodyDone(c, r) \/ RequestFail(c, r)

Spec == Init /\ [][Next]_vars

\* Tasks are scheduled; on_request and ConnectionHandle::accept resolve, the
\* handshake and the graceful end of a connection are bounded by their peers
\* or by timeouts.
Fairness ==
    /\ \A k \in Call : WF_vars(StartStep(k)) /\ WF_vars(WaitStep(k))
    /\ \A g \in Group, w \in Worker : WF_vars(WorkerStep(g, w))
    /\ \A c \in Conn : /\ WF_vars(HandleAccept(c)) /\ WF_vars(Handshake(c))
                       /\ WF_vars(ServeDone(c)) /\ WF_vars(Close(c))
                       /\ WF_vars(phase[c] = "graceful" /\ (IdleTimeout(c) \/ ConnEnd(c)))
    /\ \A c \in Conn, r \in Request : WF_vars(RequestDone(c, r))

FairSpec == Spec /\ Fairness

----------------------------------------------------------------------------
(* Properties.                                                             *)

OpenConns(g) == {c \in Conn : phase[c] \in Open /\ home[c][1] = g}

Returns(k, op, l) == Op[k] = op /\ pc[k] # l /\ pc'[k] = l

GroupClosed(g) ==
    /\ Live(g) = {}
    /\ OpenConns(g) = {} \/ \E w \in Worker : worker[g][w] \in {"err", "aborted"}

\* A shutdown that returns Ok leaves no worker of its group running, and no
\* connection of it open unless a worker of the group failed or was aborted: then
\* ctx_handler was dropped, not shut down, and nobody waits for its connections.
ShutdownClosesGroup ==
    [][\A k \in Call : Returns(k, "shutdown", "ok") => GroupClosed(held[k])]_vars

\* on_close is called once, when on_request of no request of the connection is
\* running, and no request starts after it.  (The body of an http2 response,
\* which holds no context, may still be sent.)
OnCloseIsLast == \A c \in Conn :
    /\ phase[c] = "closed" <=> "on_close" \in hooks[c]
    /\ phase[c] = "closed" => inflight[c] = {}

\* A group out of the server's slot that no start is about to publish has
\* been cancelled, or a call that will cancel it holds it: no group accepts for ever
\* behind the back of a newer one.
NoStrayGroup == \A g \in Group :
    Live(g) # {} => \/ g = start_group
                    \/ g \in cancelled
                    \/ \E k \in Call : held[k] = g /\ pc[k] \in {"publish", "supersede", "cancel"}

\* shutdown returns unless its future is dropped, and so does start; and once
\* a group is cancelled its workers end and its connections close, whoever
\* still waits for them.
ShutdownReturns ==
    /\ \A k \in Call : pc[k] \notin {"idle", "ok", "err", "dropped"} /\ Op[k] # "wait"
                          ~> pc[k] \in {"ok", "err", "dropped"}
    /\ \A g \in Group : g \in cancelled ~> Live(g) = {} /\ OpenConns(g) = {}

=============================================================================
