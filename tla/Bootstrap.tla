----------------------------- MODULE Bootstrap -----------------------------
(***************************************************************************)
(* The main function that scuffle_bootstrap::main! generates               *)
(* (crates/bootstrap/derive/src/main_impl.rs), with SignalSvc as one of    *)
(* its services and the hooks of the Global trait                          *)
(* (crates/bootstrap/src/global.rs).                                       *)
(***************************************************************************)
EXTENDS SignalSvc, FiniteSets

CONSTANTS Services,   \* the services in the order of main!'s list, Sig among them
          Leaky,      \* services that drop their context before they finish
          Heedful     \* services that finish once their context is done

Svc == {Services[i] : i \in DOMAIN Services}
App == Svc \ {Sig}

ASSUME ServicesAssumption == Services \in Seq(Svc)

VARIABLES main,       \* where main is
          next,       \* the next service to spawn
          st,         \* state of each service but Sig
          remaining,  \* services_vec, then the futures select_all still waits for
          result,     \* the result of the main block
          exit,       \* what the main function returns
          notified    \* ghost: services on_service_exit was called for

mainvars == <<main, next, remaining, result, exit, notified>>
bootvars == <<sigvars, mainvars, st>>

MainState == {"pre_init", "config", "init", "spawn", "start_hook", "select", "on_exit",
              "exited", "panicked"}

\* What became of a service: "off" (not spawned), "ok", "err", "panic", or still running
StateOf(s) == IF s = Sig THEN sig ELSE st[s]
Finished(s) == StateOf(s) \in {"ok", "err", "panic"}
RunningSvc == {s \in Svc : StateOf(s) # "off" /\ ~Finished(s)}
Alive == main \notin {"exited", "panicked"}

BootTypeOK ==
    /\ SigTypeOK
    /\ held \subseteq Svc
    /\ main \in MainState
    /\ next \in 1..(Len(Services) + 1)
    /\ st \in [App -> {"off", "running", "ok", "err", "panic"}]
    /\ remaining \subseteq Svc
    /\ result \in {"none", "ok", "err"}
    /\ exit \in {"none", "ok", "err"}
    /\ \A s \in remaining \cup held : StateOf(s) # "off"
    /\ notified \subseteq Svc

BootInit ==
    /\ SigInit
    /\ main = "pre_init"
    /\ next = 1
    /\ st = [s \in App |-> "off"]
    /\ remaining = {}
    /\ result = "none"
    /\ exit = "none"
    /\ notified = {}

----------------------------------------------------------------------------
(* main.                                                                   *)

\* pre_init()?, config parse?, init().await?: each may fail, which ends the
\* process without on_exit; after init shared_global is set.
Boilerplate ==
    /\ main \in {"pre_init", "config", "init"}
    /\ \/ /\ main' = CASE main = "pre_init" -> "config"
                       [] main = "config" -> "init"
                       [] main = "init" -> "spawn"
          /\ UNCHANGED <<result, exit>>
       \/ main' = "exited" /\ result' = "err" /\ exit' = "err"
    /\ UNCHANGED <<sigvars, st, next, remaining, notified>>

\* An error in the main block: `?` leaves it, on_exit follows
Fail == result' = "err" /\ main' = "on_exit"

\* spawn_service: enabled(), and if so tokio::spawn(run(global, context()))
SpawnService ==
    /\ main = "spawn"
    /\ next <= Len(Services)
    /\ LET s == Services[next]
       IN  \/ /\ s = Sig => SigEnabled
              /\ held' = held \cup {s}
              /\ IF s = Sig
                 THEN sig' = "spawned" /\ UNCHANGED st
                 ELSE st' = [st EXCEPT ![s] = "running"] /\ UNCHANGED sig
              /\ remaining' = remaining \cup {s}
              /\ next' = next + 1
              /\ UNCHANGED <<main, result>>
           \/ /\ s = Sig => ~SigEnabled
              /\ next' = next + 1
              /\ UNCHANGED <<held, sig, st, remaining, main, result>>
           \/ /\ s # Sig
              /\ Fail
              /\ UNCHANGED <<held, sig, st, remaining, next>>
    /\ UNCHANGED <<config, streams, listed, raises, begun, cancelled, exit, notified>>

\* on_services_start().await?
OnServicesStart ==
    /\ main = "spawn"
    /\ next = Len(Services) + 1
    /\ \E a \in Answers("ok") :
          IF a = "ok" THEN main' = "select" /\ UNCHANGED result ELSE Fail
    /\ UNCHANGED <<sigvars, st, next, remaining, exit, notified>>

\* select_all panics when it is given no futures
SelectEmpty ==
    /\ main = "select"
    /\ remaining = {}
    /\ main' = "panicked"
    /\ UNCHANGED <<sigvars, st, next, remaining, result, exit, notified>>

\* Mutant: main is done as soon as SignalSvc is
HandleExitSig(s) ==
    /\ main = "select"
    /\ s \in remaining
    /\ Finished(s)
    /\ remaining' = remaining \ {s}
    /\ notified' = notified \cup {s}
    /\ IF remaining' = {} \/ s = Sig
       THEN result' = "ok" /\ main' = "on_exit"
       ELSE UNCHANGED <<result, main>>
    /\ UNCHANGED <<sigvars, st, next, exit>>

\* handle_service_exit!: a service that panicked (a JoinError) is an error at
\* once; otherwise on_service_exit decides.  After the last one, Ok(()).
HandleServiceExit(s) ==
    /\ main = "select"
    /\ s \in remaining
    /\ Finished(s)
    /\ remaining' = remaining \ {s}
    /\ IF StateOf(s) = "panic"
       THEN Fail /\ UNCHANGED notified
       ELSE /\ notified' = notified \cup {s}
            /\ \E a \in Answers(StateOf(s)) :
                  IF a = "err" THEN Fail
                  ELSE IF remaining' = {} THEN result' = "ok" /\ main' = "on_exit"
                  ELSE UNCHANGED <<result, main>>
    /\ UNCHANGED <<sigvars, st, next, exit>>

\* on_exit(&global, result), whose answer main returns; the runtime is dropped
\* with its tasks
OnExit ==
    /\ main = "on_exit"
    /\ main' = "exited"
    /\ exit' \in Answers(result)
    /\ UNCHANGED <<sigvars, st, next, remaining, result, notified>>

MainStep ==
    \/ Boilerplate
    \/ SpawnService
    \/ OnServicesStart
    \/ SelectEmpty
    \/ \E s \in Svc : HandleServiceExit(s)
    \/ OnExit

----------------------------------------------------------------------------
(* The other services.                                                     *)

\* run() ends, with the context it was given
SvcFinish(s) ==
    /\ Alive
    /\ st[s] = "running"
    /\ \E r \in {"ok", "err", "panic"} : st' = [st EXCEPT ![s] = r]
    /\ held' = held \ {s}
    /\ UNCHANGED <<config, streams, listed, sig, raises, begun, cancelled, mainvars>>

\* run() drops its context and goes on
SvcDropContext(s) ==
    /\ Alive
    /\ s \in Leaky
    /\ st[s] = "running"
    /\ held' = held \ {s}
    /\ UNCHANGED <<config, streams, listed, sig, raises, begun, cancelled, mainvars, st>>

BootNext ==
    \/ MainStep
    \/ Alive /\ SigStep /\ UNCHANGED <<mainvars, st>>
    \/ \E k \in Kind : Alive /\ Raise(k) /\ UNCHANGED <<mainvars, st>>
    \/ Alive /\ GlobalCancel /\ UNCHANGED <<mainvars, st>>
    \/ \E s \in App : SvcFinish(s) \/ SvcDropContext(s)

BootSpec == BootInit /\ [][BootNext]_bootvars

\* Hooks return, tasks are polled and timers fire.  Of the other services
\* only the Heedful ones do what Service::run asks of them, and finish once
\* their context is done.
BootFairness ==
    /\ WF_bootvars(MainStep)
    /\ WF_bootvars(Alive /\ SigStep /\ UNCHANGED <<mainvars, st>>)
    /\ WF_bootvars(Alive /\ SigTimeout /\ UNCHANGED <<mainvars, st>>)
    /\ \A s \in Heedful : WF_bootvars(cancelled /\ SvcFinish(s))

BootFairSpec == BootSpec /\ BootFairness

----------------------------------------------------------------------------
(* Properties.                                                             *)

\* The main block is Ok only after every service it spawned has finished, none
\* of them panicked, and on_service_exit accepted each of them.  The process
\* returns what on_exit makes of that result: the default on_exit passes it on,
\* so that an Ok of main means the same; one of the application's own may turn
\* an error into Ok.
OkMeansAllExited ==
    result = "ok" \/ (exit = "ok" /\ config.default_hooks) =>
        \A s \in Svc : StateOf(s) = "off" \/ (StateOf(s) \in {"ok", "err"} /\ s \in notified)

ForcedForAReason ==
    sig # "force" /\ sig' = "force" =>
        config.timeout \/ raises >= 2 \/ (begun = "context" /\ raises = 1)
GracefulIsDrained == SigShutdown => cancelled /\ RunningSvc \ {Sig} \subseteq Leaky

\* A shutdown is forced only by the timeout or by a signal other than the one
\* that began it, even if a kind of signal is listed twice: that is a second
\* signal, or the first if SignalSvc was woken by somebody else's cancel of the
\* global handler (signal/src/bootstrap.rs 52).  And SignalSvc reports a
\* graceful one (it returns Ok although nothing forced it) only when the global
\* context is cancelled and no service main had started by then holds one.
GracefulUnlessForced == [][ForcedForAReason /\ GracefulIsDrained]_bootvars

\* With the default hooks the process ends after a signal, or somebody's cancel
\* of the global handler, that finds the services up.  With a timeout it does so
\* even if some service ignores its context, unless that one has dropped it:
\* shutdown then does not wait for the service, SignalSvc returns Ok, and nothing
\* ends the process.
SignalEndsProcess ==
    (/\ main = "select" /\ sig = "recv" /\ (Ready # {} \/ cancelled)
     /\ config.default_hooks
     /\ RunningSvc \cap Leaky \subseteq Heedful
     /\ config.timeout \/ RunningSvc \ {Sig} \subseteq Heedful) ~> ~Alive

============================================================================
