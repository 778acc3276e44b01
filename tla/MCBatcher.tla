----------------------------- MODULE MCBatcher -----------------------------
(* A small instance of Batcher for TLC. *)
EXTENDS Batcher, TLC

CONSTANTS c1, c2

MCCaller == {c1, c2}

\* c1 passes more items than one batch holds
MCCount == (c1 :> 3) @@ (c2 :> 2)

============================================================================
