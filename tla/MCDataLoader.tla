--------------------------- MODULE MCDataLoader ----------------------------
(* A small instance of DataLoader for TLC. *)
EXTENDS DataLoader, TLC

CONSTANTS c1, c2, k1, k2, k3

MCCaller == {c1, c2}
MCKey    == {k1, k2, k3}

\* c2's keys span a batch that c1 began and one that c2 begins; or c1
\* passes a key twice, and c2 passes it too
MCLoads == {(c1 :> <<k2>>) @@ (c2 :> <<k1, k3>>), (c1 :> <<k1, k1>>) @@ (c2 :> <<k1, k2>>)}

============================================================================
