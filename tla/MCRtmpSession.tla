--------------------------- MODULE MCRtmpSession ---------------------------
(***************************************************************************)
(* Instances of RtmpSession and RtmpHandshake for TLC.  A behaviour is a   *)
(* session, or the handshake of one looked at byte by byte.                *)
(***************************************************************************)
EXTENDS RtmpSession, RtmpHandshake

VARIABLE machine
allVars == <<vars, shakeVars, machine>>

\* every message, with what makes connect, publish and set chunk size fail
MCAll == {m \in Message : m.ok \/ m.type \in {"connect", "publish", "chunk_size"}}

\* offset bytes of every sum up to past the wrap
MCOffsets == {<<0, 0, 0, 0>>, <<0, 0, 0, 1>>, <<1, 0, 1, 0>>, <<0, 3, 0, 0>>, <<1, 1, 1, 1>>}

NoShake == hello = <<>> /\ shaker = [state |-> "none"] /\ s0s1s2 = <<>>

MCInit ==
    \/ machine = "session" /\ Init /\ NoShake
    \/ machine = "handshake" /\ Init /\ ShakeInit

MCNext ==
    /\ UNCHANGED machine
    /\ \/ machine = "session" /\ Next /\ UNCHANGED shakeVars
       \/ machine = "handshake" /\ ShakeNext /\ UNCHANGED vars

\* the fairness of RtmpSession, for sessions
MCFairSpec ==
    /\ MCInit /\ [][MCNext]_allVars
    /\ WF_vars(machine = "session" /\ Session)
    /\ WF_vars(machine = "session" /\ Answer)
=============================================================================
