-------------------------- MODULE HttpServerProofs --------------------------
(***************************************************************************)
(* Proofs about the HTTP server and the idle timer of its connections, for *)
(* every number of calls, workers, connections and requests and every      *)
(* timeout.                                                                *)
(***************************************************************************)
EXTENDS HttpServer, TimeoutTracker, TLAPS

----------------------------------------------------------------------------
(* HttpServer: the groups.  A group leaves the server's slot only into the *)
(* hands of a call that cancels it, because the start that publishes the   *)
(* next one has emptied the slot and holds the config lock ever since.     *)

Starting == {"config", "supersede", "listen", "publish"}
Keeping  == {"supersede", "publish", "cancel", "lock", "loop", "select", "finish"}
Places   == Starting \cup Keeping \cup {"idle", "ok", "err", "dropped"}
Statuses == Running \cup {"none", "ok", "err", "aborted"}

GroupTypeOK ==
    /\ start_group \in Group \cup {None}
    /\ pc \in [Call -> Places]
    /\ held \in [Call -> Group \cup {None}]
    /\ worker \in [Group -> [Worker -> Statuses]]

GroupInv ==
    /\ GroupTypeOK
    /\ \A k \in Call : pc[k] \in Starting => config = k /\ Op[k] = "start"
    /\ \A k \in Call : pc[k] \in Starting \ {"config"} => start_group = None
    /\ \A k \in Call : pc[k] \in Keeping => held[k] \in Group
    /\ NoStrayGroup

\* The groups of a fresh server.
LEMMA GroupInit == Init => GroupInv
BY HttpAssumption DEF Init, GroupInv, GroupTypeOK, Places, Starting, Keeping, Statuses, Running,
                      NoStrayGroup, Live

\* The steps of the connections, and cancellation alone, touch no call and no slot.
LEMMA GroupFrame ==
    ASSUME GroupInv, UNCHANGED <<start_group, config, pc, held, worker>>, cancelled \subseteq cancelled'
    PROVE  GroupInv'
BY DEF GroupInv, GroupTypeOK, NoStrayGroup, Live

\* A worker that ends is not live, and no step of its own starts one.
LEMMA GroupWorker ==
    ASSUME GroupInv, UNCHANGED <<start_group, config, pc, held, cancelled>>,
           NEW g \in Group, NEW w \in Worker, NEW s \in Statuses,
           worker[g][w] \in Running, worker' = [worker EXCEPT ![g][w] = s]
    PROVE  GroupInv'
<1>1. worker' \in [Group -> [Worker -> Statuses]]
    BY DEF GroupInv, GroupTypeOK
<1>2. \A x \in Group, y \in Worker : worker'[x][y] \in Running => Live(x) # {}
    BY DEF GroupInv, GroupTypeOK, Live
<1>3. \A x \in Group : Live(x)' # {} => Live(x) # {}
    BY <1>2 DEF Live
<1> QED
    BY <1>1, <1>3 DEF GroupInv, GroupTypeOK, NoStrayGroup

\* The clone a call drops: the group it held is cancelled, or is still held or
\* in the slot.  The call was not one the group depended on.
LEMMA GroupReturn ==
    ASSUME GroupInv, NEW k \in Call, NEW l \in {"ok", "err", "dropped"}, NEW left,
           pc[k] \in {"lock", "loop", "select", "finish"}, Return(k, held[k], left, l)
    PROVE  GroupInv'
<1>1. /\ UNCHANGED <<start_group, config, worker>>
      /\ pc' = [pc EXCEPT ![k] = l]
      /\ held' = [held EXCEPT ![k] = None]
      /\ cancelled \subseteq cancelled'
    BY DEF Return, Hold, Goto, DropGroup, server
<1>2. GroupTypeOK'
    BY <1>1 DEF GroupInv, GroupTypeOK, Places
<1>3. NoStrayGroup'
    BY <1>1 DEF GroupInv, GroupTypeOK, NoStrayGroup, Live
<1> QED
    BY <1>1, <1>2, <1>3 DEF GroupInv, GroupTypeOK, Starting, Keeping

\* Every step of a call, a worker or a connection keeps the groups in order.
LEMMA GroupStep == GroupInv /\ [Next]_vars => GroupInv'
<1> SUFFICES ASSUME GroupInv, [Next]_vars PROVE GroupInv'
    OBVIOUS
<1> USE DEF server, calls, groups, tasks, conns
<1>1. ASSUME NEW k \in Call, StartLock(k) PROVE GroupInv'
    BY <1>1, HttpAssumption DEF StartLock, Goto, GroupInv, GroupTypeOK, Places, Starting, Keeping, NoStrayGroup, Live
<1>2. ASSUME NEW k \in Call, StartTake(k) PROVE GroupInv'
    BY <1>2, HttpAssumption DEF StartTake, Goto, Hold, GroupInv, GroupTypeOK, Places, Starting, Keeping, NoStrayGroup, Live
<1>3. ASSUME NEW k \in Call, StartSupersede(k) PROVE GroupInv'
    <2>1. cancelled \cup {held[k]} \subseteq cancelled'
        BY <1>3 DEF StartSupersede, DropGroup
    <2> QED
        BY <1>3, <2>1 DEF StartSupersede, Goto, Hold, GroupInv, GroupTypeOK, Places, Starting, Keeping, NoStrayGroup, Live
<1>4. ASSUME NEW k \in Call, StartFail(k) PROVE GroupInv'
    BY <1>4, HttpAssumption DEF StartFail, Goto, GroupInv, GroupTypeOK, Places, Starting, Keeping, NoStrayGroup, Live
<1>5. ASSUME NEW k \in Call, StartSpawn(k) PROVE GroupInv'
    <2>1. PICK g \in Group : /\ Hold(k, g)
                             /\ worker' = [worker EXCEPT ![g] = [w \in Worker |-> "accept"]]
        BY <1>5, Zenon DEF StartSpawn
    <2>2. UNCHANGED <<start_group, config, cancelled>> /\ Goto(k, "publish") /\ pc[k] = "listen"
        BY <1>5 DEF StartSpawn
    <2>3. GroupTypeOK'
        BY <2>1, <2>2 DEF GroupInv, GroupTypeOK, Goto, Hold, Places, Keeping, Statuses, Running
    <2>4. NoStrayGroup'
        <3> SUFFICES ASSUME NEW x \in Group, x # g, Live(x)' # {}, x # start_group, x \notin cancelled
                     PROVE  \E j \in Call : held'[j] = x /\ pc'[j] \in {"publish", "supersede", "cancel"}
            BY <2>1, <2>2 DEF NoStrayGroup, Goto, Hold, GroupInv, GroupTypeOK
        <3>1. Live(x) # {}
            BY <2>1 DEF Live, GroupInv, GroupTypeOK
        <3>2. PICK j \in Call : held[j] = x /\ pc[j] \in {"publish", "supersede", "cancel"}
            BY <3>1 DEF GroupInv, NoStrayGroup
        <3> QED
            BY <2>1, <2>2, <3>2 DEF Goto, Hold
    <2> QED
        BY <2>1, <2>2, <2>3, <2>4 DEF GroupInv, GroupTypeOK, Goto, Hold, Starting, Keeping
<1>6. ASSUME NEW k \in Call, StartPublish(k) PROVE GroupInv'
    <2>1. start_group = None /\ config = k /\ held[k] \in Group
        BY <1>6 DEF StartPublish, GroupInv, Starting, Keeping
    <2>2. \A j \in Call \ {k} : pc[j] \notin Starting
        BY <2>1 DEF GroupInv
    <2>3. /\ start_group' = held[k] /\ UNCHANGED <<worker, cancelled>>
          /\ pc' = [pc EXCEPT ![k] = "ok"] /\ held' = [held EXCEPT ![k] = None]
        BY <1>6 DEF StartPublish, Goto, Hold
    <2>4. GroupTypeOK'
        BY <2>1, <2>3 DEF GroupInv, GroupTypeOK, Places
    <2>5. \A j \in Call : pc'[j] \notin Starting
        BY <2>2, <2>3 DEF GroupInv, GroupTypeOK, Starting
    <2>6. \A j \in Call : pc'[j] \in Keeping => held'[j] \in Group
        BY <2>3 DEF GroupInv, GroupTypeOK, Keeping
    <2>7. NoStrayGroup'
        BY <2>1, <2>3, HttpAssumption DEF GroupInv, GroupTypeOK, NoStrayGroup, Live
    <2> QED
        BY <2>4, <2>5, <2>6, <2>7 DEF GroupInv
<1>7. ASSUME NEW k \in Call, Begin(k) PROVE GroupInv'
    <2>1. /\ held' = [held EXCEPT ![k] = start_group] /\ UNCHANGED <<config, worker, cancelled>>
          /\ start_group' = IF Op[k] = "shutdown" THEN None ELSE start_group
          /\ pc[k] = "idle"
        BY <1>7 DEF Begin, Hold
    <2>2. PICK l \in {"err", "cancel", "lock"} :
              /\ pc' = [pc EXCEPT ![k] = l]
              /\ l = "err" <=> start_group = None
              /\ l = "cancel" <=> start_group # None /\ Op[k] = "shutdown"
        <3>1. CASE start_group = None
            BY <1>7, <3>1 DEF Begin, Goto
        <3>2. CASE start_group # None /\ Op[k] = "shutdown"
            BY <1>7, <3>2 DEF Begin, Goto
        <3>3. CASE start_group # None /\ Op[k] # "shutdown"
            BY <1>7, <3>3 DEF Begin, Goto
        <3> QED
            BY <3>1, <3>2, <3>3
    <2>3. GroupTypeOK'
        BY <2>1, <2>2 DEF GroupInv, GroupTypeOK, Places, Keeping
    <2>4. NoStrayGroup'
        BY <2>1, <2>2, HttpAssumption DEF GroupInv, GroupTypeOK, NoStrayGroup, Live
    <2> QED
        BY <2>1, <2>2, <2>3, <2>4 DEF GroupInv, GroupTypeOK, Starting, Keeping
<1>8. ASSUME NEW k \in Call, ShutdownCancel(k) PROVE GroupInv'
    BY <1>8 DEF ShutdownCancel, Goto, GroupInv, GroupTypeOK, Places, Starting, Keeping, NoStrayGroup, Live
<1>9. ASSUME NEW k \in Call, WaitLock(k) PROVE GroupInv'
    BY <1>9, SMTT(20), Z3T(20) DEF WaitLock, Goto, GroupInv, GroupTypeOK, Places, Starting, Keeping, NoStrayGroup, Live
<1>10. ASSUME NEW k \in Call, WaitDrain(k) PROVE GroupInv'
    BY <1>10 DEF WaitDrain, Goto, GroupInv, GroupTypeOK, Places, Starting, Keeping, NoStrayGroup, Live
<1>11. ASSUME NEW k \in Call, WaitDone(k) PROVE GroupInv'
    <2>1. CASE Return(k, held[k], {}, "ok")
        BY <1>11, <2>1, GroupReturn DEF WaitDone
    <2>2. CASE Goto(k, "finish") /\ UNCHANGED <<server, held, awaited, cancelled, threads, tasks, conns>>
        BY <1>11, <2>2 DEF WaitDone, Goto, GroupInv, GroupTypeOK, Places, Starting, Keeping, NoStrayGroup, Live
    <2> QED
        BY <1>11, <2>1, <2>2 DEF WaitDone
<1>12. ASSUME NEW k \in Call, WaitSelect(k) PROVE GroupInv'
    <2>1. PICK w \in awaited[k] :
              \/ Goto(k, "loop") /\ UNCHANGED <<server, held, cancelled, lock, tasks, conns>>
              \/ Return(k, held[k], awaited[k] \ {w}, "err")
        BY <1>12 DEF WaitSelect
    <2>2. CASE Return(k, held[k], awaited[k] \ {w}, "err")
        BY <1>12, <2>2, GroupReturn DEF WaitSelect
    <2>3. CASE Goto(k, "loop") /\ UNCHANGED <<server, held, cancelled, lock, tasks, conns>>
        BY <1>12, <2>3 DEF WaitSelect, Goto, GroupInv, GroupTypeOK, Places, Starting, Keeping, NoStrayGroup, Live
    <2> QED
        BY <2>1, <2>2, <2>3
<1>13. ASSUME NEW k \in Call, ShutdownFinish(k) PROVE GroupInv'
    BY <1>13, GroupReturn DEF ShutdownFinish
<1>14. ASSUME NEW k \in Call, DropCall(k) PROVE GroupInv'
    BY <1>14, GroupReturn DEF DropCall
<1>15. ASSUME NEW g \in Group, NEW w \in Worker,
              \/ WorkerStop(g, w) \/ WorkerClosed(g, w) \/ WorkerEnd(g, w)
              \/ WorkerAbort(g, w) \/ WorkerFail(g, w)
       PROVE  GroupInv'
    <2>1. PICK s \in Statuses : Exit(g, w, s)
        BY <1>15 DEF WorkerStop, WorkerClosed, WorkerEnd, WorkerAbort, WorkerFail, Statuses, Running
    <2>2. worker[g][w] \in Running /\ UNCHANGED <<start_group, config, pc, held, cancelled>>
        BY <1>15, Zenon DEF WorkerStop, WorkerClosed, WorkerEnd, WorkerAbort, WorkerFail, Running
    <2> QED
        BY <2>1, <2>2, GroupWorker, Zenon DEF Exit
<1>16. ASSUME NEW g \in Group, NEW w \in Worker, NEW c \in Conn, Accept(g, w, c) PROVE GroupInv'
    BY <1>16, GroupFrame DEF Accept
<1>17. ASSUME NEW c \in Conn, \/ HandleAccept(c) \/ Handshake(c) \/ ConnEnd(c)
                              \/ IdleTimeout(c) \/ ServeDone(c) \/ Close(c)
       PROVE  GroupInv'
    BY <1>17, GroupFrame DEF HandleAccept, Handshake, ConnEnd, IdleTimeout, ServeDone, Close, ConnOnly
<1>18. ASSUME NEW c \in Conn, NEW r \in Request,
              OnRequest(c, r) \/ RequestDone(c, r) \/ BodyDone(c, r) \/ RequestFail(c, r)
       PROVE  GroupInv'
    BY <1>18, GroupFrame DEF OnRequest, RequestDone, BodyDone, RequestFail, ConnOnly
<1>19. CASE UNCHANGED vars
    BY <1>19, GroupFrame DEF vars
<1> QED
    BY <1>1, <1>2, <1>3, <1>4, <1>5, <1>6, <1>7, <1>8, <1>9, <1>10, <1>11, <1>12, <1>13, <1>14,
       <1>15, <1>16, <1>17, <1>18, <1>19 DEF Next, StartStep, WaitStep, WorkerStep

\* A group that accepts is the server's current one, is cancelled, or is in the
\* hands of the call that publishes or cancels it, whatever the numbers of
\* concurrent start, wait and shutdown calls, of dropped ones and of workers.
THEOREM NoStrayGroupCorrect == Spec => []NoStrayGroup
<1>1. GroupInv => NoStrayGroup
    BY DEF GroupInv
<1> QED
    BY GroupInit, GroupStep, <1>1, PTL DEF Spec

----------------------------------------------------------------------------
(* HttpServer: the connections.                                            *)

ConnTypeOK ==
    /\ phase \in [Conn -> Open \cup {"none", "closed"}]
    /\ home \in [Conn -> (Group \X Worker) \cup {None}]
    /\ inflight \in [Conn -> SUBSET Request]
    /\ hooks \in [Conn -> SUBSET {"on_error", "on_close"}]

\* A task of a worker: the worker has not ended, or ended without waiting
Owned(c) == /\ home[c] \in Group \X Worker
            /\ worker[home[c][1]][home[c][2]] \notin {"none", "ok"}

ConnInv ==
    /\ worker \in [Group -> [Worker -> Statuses]]
    /\ ConnTypeOK
    /\ \A c \in Conn : phase[c] \in Open => Owned(c)
    /\ \A c \in Conn : inflight[c] # {} => phase[c] \in {"serve", "graceful", "drain"}
    /\ OnCloseIsLast

\* The connections of a fresh server.
LEMMA ConnInit == Init => ConnInv
BY DEF Init, ConnInv, ConnTypeOK, OnCloseIsLast, Open, Statuses, Running

\* The calls start workers and never end one.
LEMMA ConnFrame ==
    ASSUME ConnInv, UNCHANGED conns, worker' \in [Group -> [Worker -> Statuses]],
           \A g \in Group, w \in Worker :
               worker'[g][w] \in {"none", "ok"} => worker[g][w] = worker'[g][w]
    PROVE  ConnInv'
<1>1. \A c \in Conn : Owned(c) => Owned(c)'
    BY DEF Owned, conns
<1> QED
    BY <1>1 DEF ConnInv, ConnTypeOK, OnCloseIsLast, conns

\* A step of one connection c whose task is, or stays, a task of its worker.
LEMMA ConnMoves ==
    ASSUME ConnInv, UNCHANGED <<worker, home>>, NEW c \in Conn, phase[c] \in Open,
           NEW p \in Open, phase' = [phase EXCEPT ![c] = p],
           inflight' \in [Conn -> SUBSET Request], \A d \in Conn : inflight'[d] \subseteq inflight[d],
           inflight'[c] # {} => p \in {"serve", "graceful", "drain"},
           NEW hs \in SUBSET {"on_error"}, Hook(c, hs)
    PROVE  ConnInv'
<1>1. ConnTypeOK'
    BY Zenon DEF ConnInv, ConnTypeOK, Hook
<1>2. \A d \in Conn : phase'[d] \in Open => Owned(d)'
    BY DEF ConnInv, ConnTypeOK, Owned
<1>3. OnCloseIsLast'
    BY DEF ConnInv, ConnTypeOK, OnCloseIsLast, Hook, Open
<1> QED
    BY <1>1, <1>2, <1>3 DEF ConnInv, ConnTypeOK

\* Every step keeps the tasks of the connections in order.
LEMMA ConnStep == ConnInv /\ [Next]_vars => ConnInv'
<1> SUFFICES ASSUME ConnInv, [Next]_vars PROVE ConnInv'
    OBVIOUS
<1> USE DEF server, calls, groups, tasks
<1>1. ASSUME NEW k \in Call, StartSpawn(k) PROVE ConnInv'
    <2>1. PICK g \in Group : worker' = [worker EXCEPT ![g] = [w \in Worker |-> "accept"]]
        BY <1>1, Zenon DEF StartSpawn
    <2>2. worker' \in [Group -> [Worker -> Statuses]]
        BY <2>1 DEF ConnInv, Statuses, Running
    <2>3. \A x \in Group, w \in Worker : worker'[x][w] = worker[x][w] \/ worker'[x][w] = "accept"
        BY <2>1, SMTT(20), Z3T(20) DEF ConnInv
    <2> QED
        BY <1>1, <2>2, <2>3, ConnFrame DEF StartSpawn
<1>2. ASSUME NEW k \in Call, UNCHANGED <<worker, conns>> PROVE ConnInv'
    BY <1>2, ConnFrame DEF ConnInv
<1>3. ASSUME NEW k \in Call,
             \/ StartLock(k) \/ StartTake(k) \/ StartSupersede(k) \/ StartFail(k) \/ StartPublish(k)
             \/ Begin(k) \/ WaitStep(k) \/ DropCall(k)
      PROVE  ConnInv'
    <2>1. CASE \/ StartLock(k) \/ StartTake(k) \/ StartSupersede(k) \/ StartFail(k) \/ StartPublish(k)
               \/ Begin(k) \/ ShutdownCancel(k) \/ WaitLock(k) \/ WaitDrain(k)
        BY <2>1, <1>2, Zenon DEF StartLock, StartTake, StartSupersede, StartFail, StartPublish, Begin,
                          ShutdownCancel, WaitLock, WaitDrain
    <2>2. CASE WaitDone(k) \/ WaitSelect(k) \/ ShutdownFinish(k) \/ DropCall(k)
        BY <2>2, <1>2, SMTT(20) DEF WaitDone, WaitSelect, ShutdownFinish, DropCall, Return
    <2> QED
        BY <1>3, <2>1, <2>2, Zenon DEF WaitStep
<1>4. ASSUME NEW g \in Group, NEW w \in Worker,
             WorkerStop(g, w) \/ WorkerClosed(g, w) \/ WorkerAbort(g, w) \/ WorkerFail(g, w)
      PROVE  ConnInv'
    <2>1. PICK s \in {"drain", "aborted", "err"} : worker' = [worker EXCEPT ![g][w] = s]
        BY <1>4 DEF WorkerStop, WorkerClosed, WorkerAbort, WorkerFail, Exit
    <2>2. worker' \in [Group -> [Worker -> Statuses]]
        BY <2>1 DEF ConnInv, Statuses, Running
    <2>3. \A x \in Group, y \in Worker : worker'[x][y] = worker[x][y] \/ worker'[x][y] = s
        BY <2>1 DEF ConnInv
    <2> QED
        BY <1>4, <2>2, <2>3, ConnFrame DEF WorkerStop, WorkerClosed, WorkerAbort, WorkerFail
<1>5. ASSUME NEW g \in Group, NEW w \in Worker, WorkerEnd(g, w) PROVE ConnInv'
    <2>1. worker' = [worker EXCEPT ![g][w] = "ok"] /\ UNCHANGED conns
        BY <1>5 DEF WorkerEnd, Exit
    <2>2. worker' \in [Group -> [Worker -> Statuses]]
        BY <2>1, Zenon DEF ConnInv, Statuses
    <2>3. ASSUME NEW c \in Conn, phase[c] \in Open PROVE Owned(c)'
        <3>1. home[c] # <<g, w>>
            BY <1>5, <2>3 DEF WorkerEnd, Tasks
        <3>2. Owned(c)
            BY <2>3, SMTT(20) DEF ConnInv
        <3> QED
            BY <2>1, <3>1, <3>2, SMTT(20), Z3T(20) DEF Owned, conns, ConnInv
    <2> QED
        BY <2>1, <2>2, <2>3 DEF ConnInv, ConnTypeOK, OnCloseIsLast, conns
<1>6. ASSUME NEW g \in Group, NEW w \in Worker, NEW c \in Conn, Accept(g, w, c) PROVE ConnInv'
    <2>1. /\ phase[c] = "none" /\ worker[g][w] = "accept" /\ UNCHANGED <<worker, inflight, hooks>>
          /\ phase' = [phase EXCEPT ![c] = "accept"]
          /\ home' = [home EXCEPT ![c] = <<g, w>>]
        BY <1>6 DEF Accept
    <2>2. ConnTypeOK'
        BY <2>1 DEF ConnInv, ConnTypeOK, Open
    <2>3. \A d \in Conn : phase'[d] \in Open => Owned(d)'
        BY <2>1 DEF ConnInv, ConnTypeOK, Owned
    <2>4. inflight[c] = {}
        BY <2>1 DEF ConnInv
    <2> QED
        BY <2>1, <2>2, <2>3, <2>4, Zenon DEF ConnInv, ConnTypeOK, OnCloseIsLast
<1>7. ASSUME NEW c \in Conn, HandleAccept(c) PROVE ConnInv'
    <2>1. inflight[c] = {} /\ phase[c] \in Open /\ UNCHANGED <<worker, home, inflight>>
        BY <1>7 DEF HandleAccept, ConnOnly, KeepRequests, ConnInv, ConnTypeOK, Open
    <2>2. PICK p \in Open, hs \in SUBSET {"on_error"} : phase' = [phase EXCEPT ![c] = p] /\ Hook(c, hs)
        BY <1>7 DEF HandleAccept, Move, Open
    <2> QED
        BY <2>1, <2>2, ConnMoves, Zenon DEF ConnInv, ConnTypeOK
<1>8. ASSUME NEW c \in Conn, Handshake(c) PROVE ConnInv'
    <2>1. inflight[c] = {} /\ phase[c] \in Open /\ UNCHANGED <<worker, home, inflight>>
        BY <1>8 DEF Handshake, ConnOnly, KeepRequests, ConnInv, ConnTypeOK, Open
    <2>2. PICK p \in Open, hs \in SUBSET {"on_error"} : phase' = [phase EXCEPT ![c] = p] /\ Hook(c, hs)
        BY <1>8 DEF Handshake, Move, Open
    <2> QED
        BY <2>1, <2>2, ConnMoves, Zenon DEF ConnInv, ConnTypeOK
<1>9. ASSUME NEW c \in Conn, ConnEnd(c) PROVE ConnInv'
    <2>1. /\ phase[c] \in Open /\ UNCHANGED <<worker, home>> /\ phase' = [phase EXCEPT ![c] = "drain"]
          /\ inflight' = [inflight EXCEPT ![c] = IF backend = "http1" THEN {} ELSE @]
        BY <1>9 DEF ConnEnd, ConnOnly, Move, Open
    <2>2. PICK hs \in SUBSET {"on_error"} : Hook(c, hs)
        BY <1>9 DEF ConnEnd
    <2>3. inflight' \in [Conn -> SUBSET Request] /\ \A d \in Conn : inflight'[d] \subseteq inflight[d]
        BY <2>1 DEF ConnInv, ConnTypeOK
    <2>4. "drain" \in Open
        BY DEF Open
    <2> QED
        BY <2>1, <2>2, <2>3, <2>4, ConnMoves, Zenon
<1>10. ASSUME NEW c \in Conn, IdleTimeout(c) \/ ServeDone(c) PROVE ConnInv'
    <2>1. phase[c] \in {"serve", "graceful"} /\ UNCHANGED <<worker, home, inflight, hooks>>
        BY <1>10 DEF IdleTimeout, ServeDone, ConnOnly, KeepRequests
    <2>2. PICK p \in {"drain", "graceful"} : phase' = [phase EXCEPT ![c] = p]
        BY <1>10 DEF IdleTimeout, ServeDone, Move
    <2>3. Hook(c, {})
        BY <2>1, Zenon DEF Hook, ConnInv, ConnTypeOK
    <2> QED
        BY <2>1, <2>2, <2>3, ConnMoves, Zenon DEF ConnInv, ConnTypeOK, Open
<1>11. ASSUME NEW c \in Conn, Close(c) PROVE ConnInv'
    <2>1. /\ phase[c] = "drain" /\ inflight[c] = {} /\ UNCHANGED <<worker, home, inflight>>
          /\ phase' = [phase EXCEPT ![c] = "closed"]
          /\ hooks' = [hooks EXCEPT ![c] = @ \cup {"on_close"}]
        BY <1>11 DEF Close, Move, Hook, ConnOnly, KeepRequests
    <2>2. ConnTypeOK'
        BY <2>1 DEF ConnInv, ConnTypeOK
    <2>3. \A d \in Conn : phase'[d] \in Open => Owned(d)'
        BY <2>1 DEF ConnInv, ConnTypeOK, Owned, Open
    <2>4. OnCloseIsLast'
        BY <2>1 DEF ConnInv, ConnTypeOK, OnCloseIsLast
    <2> QED
        BY <2>1, <2>2, <2>3, <2>4, Zenon DEF ConnInv, ConnTypeOK
<1>12. ASSUME NEW c \in Conn, NEW r \in Request, OnRequest(c, r) PROVE ConnInv'
    <2>1. /\ phase[c] = "serve" /\ UNCHANGED <<worker, home, phase, hooks>>
          /\ inflight' = [inflight EXCEPT ![c] = @ \cup {r}]
        BY <1>12, Zenon DEF OnRequest, ConnOnly
    <2> QED
        BY <2>1, SMTT(20) DEF ConnInv, ConnTypeOK, Owned, OnCloseIsLast
<1>13. ASSUME NEW c \in Conn, NEW r \in Request, RequestDone(c, r) \/ RequestFail(c, r) PROVE ConnInv'
    <2>1. /\ r \in inflight[c] /\ UNCHANGED <<worker, home>>
          /\ inflight' = [inflight EXCEPT ![c] = @ \ {r}]
        BY <1>13 DEF RequestDone, RequestFail, ConnOnly, Finish
    <2>2. phase[c] \in {"serve", "graceful", "drain"} /\ phase = [phase EXCEPT ![c] = phase[c]]
        BY <2>1 DEF ConnInv, ConnTypeOK
    <2>3. PICK p \in {"serve", "graceful", "drain"} : phase' = [phase EXCEPT ![c] = p]
        BY <1>13, <2>2 DEF RequestDone, RequestFail, Move
    <2>4. hooks = [hooks EXCEPT ![c] = @ \cup {}]
        BY DEF ConnInv, ConnTypeOK
    <2>5. PICK hs \in SUBSET {"on_error"} : Hook(c, hs)
        BY <1>13, <2>4, Zenon DEF RequestDone, RequestFail, Hook
    <2>6. inflight' \in [Conn -> SUBSET Request] /\ \A d \in Conn : inflight'[d] \subseteq inflight[d]
        BY <2>1 DEF ConnInv, ConnTypeOK
    <2> QED
        BY <2>1, <2>2, <2>3, <2>5, <2>6, ConnMoves, Zenon DEF Open
<1>14. ASSUME NEW c \in Conn, NEW r \in Request, BodyDone(c, r) PROVE ConnInv'
    <2>1. UNCHANGED <<worker, home, phase, inflight, hooks>>
        BY <1>14, Zenon DEF BodyDone, ConnOnly
    <2> QED
        BY <2>1 DEF ConnInv, ConnTypeOK, Owned, OnCloseIsLast
<1>15. CASE UNCHANGED vars
    BY <1>15 DEF vars, conns, ConnInv, ConnTypeOK, Owned, OnCloseIsLast
<1> QED
    BY <1>1, <1>3, <1>4, <1>5, <1>6, <1>7, <1>8, <1>9, <1>10, <1>11, <1>12, <1>13, <1>14,
       <1>15 DEF Next, StartStep, WorkerStep

\* The groups and the connections are in order throughout every behaviour.
LEMMA ServerInvariance == Spec => [](GroupInv /\ ConnInv)
BY GroupInit, GroupStep, ConnInit, ConnStep, PTL DEF Spec

\* on_close comes once and last, for any number of connections and requests and
\* for http1, http2 and http3 alike.
THEOREM OnCloseCorrect == Spec => []OnCloseIsLast
<1>1. ConnInv => OnCloseIsLast
    BY DEF ConnInv
<1> QED
    BY ServerInvariance, <1>1, PTL

\* The workers of the group have ended: its open connections are those of
\* workers that did not wait for them.
LEMMA EndedGroup ==
    ASSUME ConnInv, NEW g \in Group, Live(g) = {}
    PROVE  GroupClosed(g)
<1> SUFFICES ASSUME NEW c \in OpenConns(g)
             PROVE  \E w \in Worker : worker[g][w] \in {"err", "aborted"}
    BY Zenon  DEF GroupClosed
<1>1. Owned(c) /\ home[c][1] = g
    BY DEF OpenConns, ConnInv
<1>2. home[c][2] \in Worker /\ worker[g][home[c][2]] \in Statuses \ {"none", "ok"}
    BY <1>1 DEF Owned, ConnInv
<1> QED
    BY <1>2 DEF Live, Statuses

\* Only the end of group.handler.shutdown() makes a shutdown return Ok.
LEMMA ShutdownReturn ==
    ASSUME GroupInv, Next, NEW k \in Call, Returns(k, "shutdown", "ok")
    PROVE  ShutdownFinish(k)
<1>1. /\ pc \in [Call -> Places] /\ pc[k] # pc'[k] /\ pc'[k] = "ok"
      /\ Op[k] = "shutdown" /\ pc[k] \notin Starting
    BY Zenon  DEF GroupInv, GroupTypeOK, Returns
<1>2. ASSUME NEW j \in Call, \/ StartLock(j) \/ StartTake(j) \/ StartSupersede(j) \/ StartSpawn(j)
                             \/ StartPublish(j) \/ StartFail(j)
      PROVE  FALSE
    BY <1>1, <1>2, Zenon DEF StartLock, StartTake, StartSupersede, StartSpawn, StartPublish, StartFail, Goto, Starting
<1>3. ASSUME NEW j \in Call, Begin(j) \/ ShutdownCancel(j) \/ WaitLock(j) \/ WaitDrain(j) PROVE FALSE
    BY <1>1, <1>3, Zenon DEF Begin, ShutdownCancel, WaitLock, WaitDrain, Goto
<1>4. ASSUME NEW j \in Call, WaitDone(j) \/ WaitSelect(j) \/ DropCall(j) PROVE FALSE
    BY <1>1, <1>4 DEF WaitDone, WaitSelect, DropCall, Goto, Return
<1>5. ASSUME NEW j \in Call, ShutdownFinish(j) PROVE j = k
    BY <1>1, <1>5, SMTT(20) DEF ShutdownFinish, Goto, Return
<1>6. UNCHANGED pc \/ \E j \in Call : StartStep(j) \/ StartFail(j) \/ Begin(j) \/ WaitStep(j) \/ DropCall(j)
    BY ZenonT(40)  DEF Next, WorkerStep, WorkerStop, WorkerClosed, WorkerEnd, WorkerAbort, WorkerFail, Accept,
           HandleAccept, Handshake, ConnEnd, IdleTimeout, ServeDone, Close, OnRequest, RequestDone, BodyDone, RequestFail, ConnOnly, calls
<1> QED
    BY <1>1, <1>2, <1>3, <1>4, <1>5, <1>6, Zenon DEF StartStep, WaitStep

\* A shutdown that returns Ok leaves its group closed, for any number of workers,
\* connections and concurrent calls.
THEOREM ShutdownCorrect == Spec => ShutdownClosesGroup
<1>1. GroupInv /\ ConnInv /\ [Next]_vars =>
          [\A k \in Call : Returns(k, "shutdown", "ok") => GroupClosed(held[k])]_vars
    <2> SUFFICES ASSUME GroupInv, ConnInv, Next, NEW k \in Call, Returns(k, "shutdown", "ok")
                 PROVE  GroupClosed(held[k])
        OBVIOUS
    <2>1. pc[k] = "finish" /\ Live(held[k]) = {}
        BY ShutdownReturn DEF ShutdownFinish
    <2> QED
        BY <2>1, EndedGroup, Zenon DEF GroupInv, Keeping
<1> QED
    BY ServerInvariance, <1>1, PTL DEF Spec, ShutdownClosesGroup

----------------------------------------------------------------------------
(* TimeoutTracker.  MaxIdle is not inductive.  IdleInv bounds idle in each *)
(* situation a connection can be idle in: before the notify_one of its     *)
(* last request, with that permit stored, and after the sleep it restarted. *)

IdleInv ==
    /\ MaxIdle
    /\ remaining + waiting >= 0
    /\ notifying # {} => idle <= Lag
    /\ permit => idle <= Lag + waiting
    /\ idle + remaining <= Timeout + 2 * Lag
    /\ guards # {} => idle = 0

TrackerInv == TrackerTypeOK /\ IdleInv /\ ClosedIsIdle

\* The invariant holds of a fresh tracker.
LEMMA TrackerInitInv == TrackerInit => TrackerInv
<1> SUFFICES ASSUME TrackerInit PROVE TrackerInv
    OBVIOUS
<1>1. TrackerTypeOK
    <2>1. permit \in BOOLEAN /\ open \in BOOLEAN
        BY Zenon DEF TrackerInit
    <2>2. remaining \in (-Lag)..Timeout /\ waiting \in 0..Lag /\ idle \in Nat
        BY TimeoutAssumption DEF TrackerInit
    <2> QED
        BY <2>1, <2>2 DEF TrackerInit, TrackerTypeOK
<1>2. IdleInv
    BY TimeoutAssumption, SMTT(20), Z3T(20) DEF TrackerInit, IdleInv, MaxIdle
<1> QED
    BY <1>1, <1>2 DEF TrackerInit, TrackerInv, ClosedIsIdle

\* Every access of the tracker, every poll of wait and every tick preserves it.
LEMMA TrackerStep == TrackerInv /\ [TrackerNext]_trackerVars => TrackerInv'
<1> SUFFICES ASSUME TrackerInv, [TrackerNext]_trackerVars PROVE TrackerInv'
    OBVIOUS
<1> USE TimeoutAssumption DEF TrackerInv, TrackerTypeOK, IdleInv, MaxIdle, ClosedIsIdle
<1>1. ASSUME NEW r \in Holder, NewGuard(r) PROVE TrackerInv'
    BY <1>1, SMT DEF NewGuard
<1>2. ASSUME NEW r \in Holder, DecrInflight(r) PROVE TrackerInv'
    <2>1. idle = 0 /\ guards # {}
        BY <1>2 DEF DecrInflight
    <2>2. TrackerTypeOK' /\ ClosedIsIdle'
        BY <1>2 DEF DecrInflight
    <2>3. remaining' = remaining /\ waiting' = waiting /\ idle' = 0 /\ permit' = permit
        BY <1>2, <2>1 DEF DecrInflight
    <2>4. IdleInv'
        BY <2>1, <2>3
    <2> QED
        BY <2>2, <2>4, Zenon
<1>3. ASSUME NEW r \in Holder, NotifyOne(r) PROVE TrackerInv'
    BY <1>3, SMTT(20), Z3T(20) DEF NotifyOne
<1>4. CASE Wait
    <2>1. guards' = guards /\ notifying' = notifying /\ idle' = idle
        BY <1>4 DEF Wait
    <2>2. permit' \in BOOLEAN /\ open' \in BOOLEAN
        BY <1>4, Zenon DEF Wait
    <2>3. CASE remaining <= 0 /\ guards = {}
        <3>1. ~(remaining > 0)
            BY <2>3
        <3>2. remaining' = remaining /\ waiting' = waiting
            BY <1>4, <2>3, <3>1, Zenon DEF Wait
        <3>3. permit' => permit
            BY <1>4, <2>3, <3>1, Zenon DEF Wait
        <3>4. permit' => idle' <= Lag + waiting'
            BY <2>1, <3>2, <3>3
        <3> QED
            BY <2>1, <2>2, <2>3, <3>2, <3>4
    <2>4. CASE remaining <= 0 /\ guards # {}
        <3>1. remaining' = Timeout /\ waiting' = 0 /\ open' = open /\ open
            BY <1>4, <2>4, Zenon DEF Wait
        <3> QED
            BY <2>1, <2>2, <2>4, <3>1
    <2>5. CASE remaining > 0
        <3>1. ~(remaining <= 0)
            BY <2>5
        <3>2. remaining' = Timeout /\ waiting' = 0 /\ idle <= Lag + waiting
            BY <1>4, <3>1, Zenon DEF Wait, Ready
        <3>3. ~permit' /\ open'
            BY <1>4, <3>1, Zenon DEF Wait
        <3>4. IdleInv'
            BY <2>1, <2>2, <3>2, <3>3
        <3> QED
            BY <2>1, <2>2, <3>2, <3>3, <3>4
    <2> QED
        BY <1>4, <2>3, <2>4, <2>5 DEF Wait
<1>5. CASE Tick
    <2>1. remaining' = remaining - 1 /\ permit' = permit /\ guards' = guards
        BY <1>5 DEF Tick
    <2>2. CASE Ready
        <3>1. waiting' = waiting + 1 /\ waiting < Lag
            BY <1>5, <2>2 DEF Tick
        <3>2. TrackerTypeOK' /\ ClosedIsIdle'
            BY <1>5, <2>1, <3>1 DEF Tick
        <3> QED
            BY <1>5, <2>1, <3>1, <3>2 DEF Tick
    <2>3. CASE ~Ready
        <3>1. waiting' = 0 /\ remaining > 0 /\ ~permit
            BY <1>5, <2>3 DEF Tick, Ready
        <3>2. TrackerTypeOK' /\ ClosedIsIdle'
            BY <1>5, <2>1, <3>1 DEF Tick
        <3> QED
            BY <1>5, <2>1, <3>1, <3>2 DEF Tick
    <2> QED
        BY <2>2, <2>3
<1>6. CASE UNCHANGED trackerVars
    BY <1>6, SMT DEF trackerVars
<1> QED
    BY <1>1, <1>2, <1>3, <1>4, <1>5, <1>6 DEF TrackerNext

\* The invariant holds throughout every behaviour of the tracker.
LEMMA TrackerInvariance == TrackerSpec => []TrackerInv
BY TrackerInitInv, TrackerStep, PTL DEF TrackerSpec

\* Type correctness of the tracker.
THEOREM TrackerTypeCorrect == TrackerSpec => []TrackerTypeOK
BY TrackerInvariance, PTL DEF TrackerInv

\* wait() returns only when no request is in flight, for any set of requests.
THEOREM ClosedCorrect == TrackerSpec => []ClosedIsIdle
BY TrackerInvariance, PTL DEF TrackerInv

\* A connection is never idle for longer than idle_timeout and three delays.
THEOREM MaxIdleCorrect == TrackerSpec => []MaxIdle
<1>1. TrackerInv => MaxIdle
    BY DEF TrackerInv, IdleInv
<1> QED
    BY TrackerInvariance, <1>1, PTL

=============================================================================
