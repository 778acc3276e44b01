----------------------------- MODULE MCContext -----------------------------
(* TLC instances of Context. *)
EXTENDS Context, TLC

CONSTANTS g, h, c1, c2, w1, w2

MCNode == {g, h}
MCCtx  == {c1, c2}
MCCall == {w1, w2}

\* One call of a method that waits for the contexts of a cancelled handler,
\* beside one that cancels or waits without cancelling
MCOps == [w \in MCCall |-> IF w = w1 THEN {"shutdown", "done"} ELSE {"cancel", "wait"}]

============================================================================
