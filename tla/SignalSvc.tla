----------------------------- MODULE SignalSvc -----------------------------
(***************************************************************************)
(* scuffle-signal: SignalHandler (crates/signal/src/lib.rs) and the        *)
(* service that turns signals into a graceful shutdown                     *)
(* (crates/signal/src/bootstrap.rs).                                       *)
(*                                                                         *)
(* The global scuffle-context handler is here by what it promises: its     *)
(* token (`cancelled`) and who holds a context of it (`held`); its         *)
(* shutdown() cancels at its first poll and returns once `held` is empty.  *)
(* Anybody in the process may cancel that handler too (GlobalCancel).      *)
(* A signal stream remembers that its kind was raised, not how often.      *)
(***************************************************************************)
EXTENDS Naturals, Sequences

CONSTANTS Kind,         \* kinds of signals
          Configs,      \* the SignalConfig of the application, one of these: `signals`,
                        \* `timeout` (whether it is Some), and `default_hooks`, whether
                        \* the hooks are the traits' default methods
          Sig,          \* the name of the SignalSvc service
          MaxRaises     \* bound: signals sent to the process

ASSUME SignalAssumption ==
    /\ Configs \subseteq [signals : Seq(Kind), timeout : BOOLEAN, default_hooks : BOOLEAN]
    /\ MaxRaises \in Nat

VARIABLES config,
          streams,   \* SignalHandler::signals: each with `kind` and whether it is `pending`
          listed,    \* how many of config.signals with_signals has gone through
          sig,       \* state of SignalSvc::run
          raises,    \* ghost: signals sent of a kind the handler listens to
          begun,     \* ghost: what ended SignalSvc's first wait
          cancelled, \* the global token
          held       \* who holds a context of the global handler

sigvars == <<config, streams, listed, sig, raises, begun, cancelled, held>>

SigState == {"off", "spawned", "recv", "on_shutdown", "select", "shutdown", "force", "ok", "err"}

Stream == [kind : Kind, pending : BOOLEAN]

SigTypeOK ==
    /\ config \in Configs
    /\ streams \in Seq(Stream)
    /\ listed \in Nat
    /\ sig \in SigState
    /\ raises \in 0..MaxRaises
    /\ begun \in {"none", "signal", "context"}
    /\ cancelled \in BOOLEAN

SigInit ==
    /\ config \in Configs
    /\ streams = << >>
    /\ listed = 0
    /\ sig = "off"
    /\ raises = 0
    /\ begun = "none"
    /\ cancelled = FALSE
    /\ held = {}

----------------------------------------------------------------------------
(* SignalHandler.                                                          *)

\* Mutant: a kind that is listed twice is listened to twice
AddSignalTwice(hs, k) == Append(hs, [kind |-> k, pending |-> FALSE])

\* with_signal: a kind that is already there is not added again
AddSignal(hs, k) ==
    IF \E i \in DOMAIN hs : hs[i].kind = k
    THEN hs
    ELSE Append(hs, [kind |-> k, pending |-> FALSE])

\* poll_recv: the first stream, in the order of registration, that is ready
Ready == {i \in DOMAIN streams : streams[i].pending}
PollRecv ==
    \E i \in Ready :
        /\ \A j \in Ready : i <= j
        /\ streams' = [streams EXCEPT ![i].pending = FALSE]

\* The process gets a signal
Raise(k) ==
    /\ raises < MaxRaises
    /\ \E i \in DOMAIN streams : streams[i].kind = k
    /\ streams' = [i \in DOMAIN streams |->
                      IF streams[i].kind = k THEN [streams[i] EXCEPT !.pending = TRUE] ELSE streams[i]]
    /\ raises' = raises + 1
    /\ UNCHANGED <<config, listed, sig, begun, cancelled, held>>

\* Handler::global().cancel(), or shutdown(), by a service or a hook
GlobalCancel ==
    /\ ~cancelled
    /\ cancelled' = TRUE
    /\ UNCHANGED <<config, streams, listed, sig, raises, begun, held>>

----------------------------------------------------------------------------
(* SignalSvc::run.                                                         *)

\* What a hook may return: the default method's answer, or anything
Answers(default) == IF config.default_hooks THEN {default} ELSE {"ok", "err"}

\* SignalSvc::enabled
SigEnabled == config.signals # << >>

\* SignalHandler::with_signals(signals), one turn of its loop: a signal of a
\* kind that is listed later is not seen yet.
SigListen ==
    /\ sig = "spawned"
    /\ listed < Len(config.signals)
    /\ streams' = AddSignal(streams, config.signals[listed + 1])
    /\ listed' = listed + 1
    /\ UNCHANGED <<config, sig, raises, begun, cancelled, held>>

SigBegin ==
    /\ sig = "spawned"
    /\ listed = Len(config.signals)
    /\ sig' = "recv"
    /\ UNCHANGED <<config, streams, listed, raises, begun, cancelled, held>>

\* handler.recv().with_context(&ctx).await: a signal, or, when none is
\* pending, the end of the context, which whoever cancels the global handler
\* brings about.
SigRecv ==
    /\ sig = "recv"
    /\ \/ PollRecv /\ begun' = "signal"
       \/ Ready = {} /\ cancelled /\ begun' = "context" /\ UNCHANGED streams
    /\ sig' = "on_shutdown"
    /\ UNCHANGED <<config, listed, raises, cancelled, held>>

\* Mutant: the context is kept while the global handler shuts down
SigOnShutdownKeeps ==
    /\ sig = "on_shutdown"
    /\ \E a \in Answers("ok") : sig' = IF a = "ok" THEN "select" ELSE "err"
    /\ held' = IF sig' = "err" THEN held \ {Sig} ELSE held
    /\ UNCHANGED <<config, streams, listed, raises, begun, cancelled>>

\* global.on_shutdown().await?, then drop(ctx); an error drops it too
SigOnShutdown ==
    /\ sig = "on_shutdown"
    /\ \E a \in Answers("ok") : sig' = IF a = "ok" THEN "select" ELSE "err"
    /\ held' = held \ {Sig}
    /\ UNCHANGED <<config, streams, listed, raises, begun, cancelled>>

\* select!: the branches are polled in random order, so a signal that is
\* already pending may win before shutdown() was polled at all.
SigForce ==
    /\ sig \in {"select", "shutdown"}
    /\ PollRecv
    /\ sig' = "force"
    /\ UNCHANGED <<config, listed, raises, begun, cancelled, held>>

\* Handler::global().shutdown(), first poll: cancel
SigCancel ==
    /\ sig = "select"
    /\ cancelled' = TRUE
    /\ sig' = "shutdown"
    /\ UNCHANGED <<config, streams, listed, raises, begun, held>>

\* ... and it returns when every context is dropped
SigShutdown ==
    /\ sig = "shutdown"
    /\ held = {}
    /\ sig' = "ok"
    /\ UNCHANGED <<config, streams, listed, raises, begun, cancelled, held>>

\* sleep(timeout); never ready at the first poll of select!, which polls the
\* other branches
SigTimeout ==
    /\ config.timeout
    /\ sig = "shutdown"
    /\ sig' = "force"
    /\ UNCHANGED <<config, streams, listed, raises, begun, cancelled, held>>

\* global.on_force_shutdown(..).await?
SigOnForce ==
    /\ sig = "force"
    /\ \E a \in Answers("err") : sig' = a
    /\ UNCHANGED <<config, streams, listed, raises, begun, cancelled, held>>

SigStep ==
    \/ SigListen
    \/ SigBegin
    \/ SigRecv
    \/ SigOnShutdown
    \/ SigForce
    \/ SigCancel
    \/ SigShutdown
    \/ SigTimeout
    \/ SigOnForce

============================================================================
