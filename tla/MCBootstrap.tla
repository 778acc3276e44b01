---------------------------- MODULE MCBootstrap ----------------------------
(* A small instance of Bootstrap for TLC. *)
EXTENDS Bootstrap

CONSTANTS sigsvc, a, b, int, term

MCKind == {int, term}

\* int is listed twice; without signals SignalSvc is not enabled
MCConfigs == [signals : {<<term, int, int>>, << >>}, timeout : BOOLEAN, default_hooks : BOOLEAN]

\* a ignores its context; b heeds it, but may drop it before it finishes
MCServices == <<a, sigsvc, b>>
MCLeaky    == {b}
MCHeedful  == {b}

============================================================================
