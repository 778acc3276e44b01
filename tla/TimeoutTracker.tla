--------------------------- MODULE TimeoutTracker ---------------------------
(***************************************************************************)
(* The idle timer of a connection (crates/http/src/util.rs).  Requests     *)
(* hold a guard; the connection's task polls wait() and closes the         *)
(* connection when it returns.  Guards are made by the connection's task   *)
(* and dropped by request tasks, in two accesses: the fetch_sub and, after *)
(* the last one, notify_one.                                               *)
(*                                                                         *)
(* Time is discrete and relative.  A task that can run does so within Lag  *)
(* ticks, and so does a notify_one after its fetch_sub.                    *)
(***************************************************************************)
EXTENDS Integers

CONSTANTS Holder, Timeout, Lag

ASSUME TimeoutAssumption == Timeout \in Nat /\ Lag \in Nat

VARIABLES guards,     \* requests holding a guard: requests_inflight counts them
          notifying,  \* requests whose fetch_sub found 1 and whose notify_one is due
          permit,     \* the permit of Notify
          remaining,  \* ticks until the sleep elapses
          waiting,    \* ticks for which wait() has been ready to be polled
          idle,       \* ticks for which no guard has existed
          open        \* whether wait() is still running

trackerVars == <<guards, notifying, permit, remaining, waiting, idle, open>>

TrackerTypeOK ==
    /\ guards \in SUBSET Holder
    /\ notifying \in SUBSET Holder
    /\ permit \in BOOLEAN
    /\ remaining \in (-Lag)..Timeout
    /\ waiting \in 0..Lag
    /\ idle \in Nat
    /\ open \in BOOLEAN

\* TimeoutTracker::new and the first sleep of wait
TrackerInit ==
    /\ guards = {} /\ notifying = {} /\ permit = FALSE
    /\ remaining = Timeout /\ waiting = 0 /\ idle = 0 /\ open = TRUE

\* new_guard, called as the connection's task hands over a request
NewGuard(r) ==
    /\ open /\ r \notin guards \cup notifying
    /\ guards' = guards \cup {r}
    /\ idle' = 0
    /\ UNCHANGED <<notifying, permit, remaining, waiting, open>>

\* decr_inflight: fetch_sub
DecrInflight(r) ==
    /\ r \in guards
    /\ guards' = guards \ {r}
    /\ notifying' = IF guards = {r} THEN notifying \cup {r} ELSE notifying
    /\ UNCHANGED <<permit, remaining, waiting, idle, open>>

\* decr_inflight: notify_one
NotifyOne(r) ==
    /\ r \in notifying
    /\ notifying' = notifying \ {r}
    /\ permit' = TRUE
    /\ UNCHANGED <<guards, remaining, waiting, idle, open>>

Ready == permit \/ remaining <= 0

\* Mutant: an elapsed sleep ends wait whatever is in flight
WaitUnchecked ==
    /\ open /\ Ready
    /\ IF remaining <= 0
       THEN open' = FALSE /\ UNCHANGED <<permit, remaining>>
       ELSE permit' = FALSE /\ remaining' = Timeout /\ UNCHANGED open
    /\ waiting' = 0
    /\ UNCHANGED <<guards, notifying, idle>>

\* Mutant: the arms of the match are swapped
WaitSwapped ==
    /\ open /\ Ready
    /\ \/ remaining <= 0 /\ remaining' = Timeout /\ waiting' = 0 /\ UNCHANGED <<permit, open>>
       \/ /\ remaining > 0 /\ permit' = FALSE /\ remaining' = Timeout /\ waiting' = 0
          /\ open' = (guards # {})
    /\ UNCHANGED <<guards, notifying, idle>>

\* One turn of the loop of wait: select polls the sleep first, and only a
\* notification it returns consumes the permit
Wait ==
    /\ open /\ Ready
    /\ \/ remaining <= 0 /\ guards = {} /\ open' = FALSE /\ UNCHANGED <<permit, remaining, waiting>>
       \/ remaining <= 0 /\ guards # {} /\ remaining' = Timeout /\ waiting' = 0 /\ UNCHANGED <<permit, open>>
       \/ remaining > 0 /\ permit' = FALSE /\ remaining' = Timeout /\ waiting' = 0 /\ UNCHANGED open
    /\ UNCHANGED <<guards, notifying, idle>>

\* A tick, unless something that can run has waited for Lag of them
Tick ==
    /\ open
    /\ Ready => waiting < Lag
    /\ notifying # {} => idle < Lag
    /\ remaining' = remaining - 1
    /\ waiting' = IF Ready THEN waiting + 1 ELSE 0
    /\ idle' = IF guards = {} THEN idle + 1 ELSE 0
    /\ UNCHANGED <<guards, notifying, permit, open>>

TrackerNext ==
    \/ \E r \in Holder : NewGuard(r) \/ DecrInflight(r) \/ NotifyOne(r)
    \/ Wait
    \/ Tick

TrackerSpec == TrackerInit /\ [][TrackerNext]_trackerVars

----------------------------------------------------------------------------
(* Properties.                                                             *)

\* wait() never returns, closing the connection, with a request in flight.
ClosedIsIdle == ~open => guards = {}

\* No connection stays idle longer than idle_timeout and the scheduling
\* delays of the last notify_one, of the poll that sees it and of the poll that
\* sees the sleep elapse: a permit left from an earlier request, a sleep that
\* elapses under a request and one overtaken by a notification do not extend it.
MaxIdle == idle <= Timeout + 3 * Lag

=============================================================================
