---------------------------- MODULE MCHttpServer ----------------------------
(***************************************************************************)
(* Instances of HttpServer and of the idle timer of its connections.  A    *)
(* behaviour is one of the machines: a server restarted once, with a       *)
(* concurrent wait and shutdown; a timer and the requests that hold its    *)
(* guards, which can come again; or a request whose body is sent back.     *)
(***************************************************************************)
EXTENDS HttpServer, TimeoutTracker, HttpBody, TLC

CONSTANT Machines
VARIABLE machine
allVars == <<vars, trackerVars, bodyVars, machine>>

\* the op of each call is the first part of its name
MCOp == [k \in Call |-> CASE k \in {"start1", "start2"} -> "start"
                          [] k \in {"wait1"}            -> "wait"
                          [] OTHER                      -> "shutdown"]

\* workers and groups are interchangeable (the safety run only)
Symmetry == Permutations(Worker) \cup Permutations(Group)

MCLengths == {NoLength, 0, 2, 3}

MCInit ==
    /\ machine \in Machines
    /\ Init /\ TrackerInit /\ BodyInit
    /\ machine # "body" => request.method = "GET" /\ request.length = NoLength

MCNext ==
    /\ UNCHANGED machine
    /\ \/ machine = "server" /\ Next /\ UNCHANGED <<trackerVars, bodyVars>>
       \/ machine = "timer" /\ TrackerNext /\ UNCHANGED <<vars, bodyVars>>
       \/ machine = "body" /\ BodyNext /\ UNCHANGED <<vars, trackerVars>>

MCSpec == MCInit /\ [][MCNext]_allVars

\* the fairness of HttpServer; a server's steps change nothing else
MCFairSpec == MCSpec /\ Fairness
=============================================================================
