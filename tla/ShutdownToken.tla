--------------------------- MODULE ShutdownToken ---------------------------
(***************************************************************************)
(* The shutdown token of a dispatcher (utils/shutdown_token.rs): an atomic *)
(* state shared by the dispatcher and any number of callers, and two       *)
(* tokio::sync::Notify, one in each direction.  Notify::notify_waiters     *)
(* stores nothing: it reaches the futures that have been polled before.    *)
(***************************************************************************)
EXTENDS Integers, FiniteSets

CONSTANT Callers  \* calls of ShutdownToken::shutdown, each made once

ASSUME CallersAssumption == IsFiniteSet(Callers)

VARIABLES
  state,   \* DispatcherState::inner
  watch,   \* the dispatcher's current wait_for_changes future
  caller   \* per call: where it and the future it returned are

token == <<state, watch, caller>>

ShutdownStates == {"Idle", "Running", "ShuttingDown"}
\* A future is created unpolled; "none" is one that does not exist.
Watches == {"none", "listening", "notified"}
Calls == {"none", "asked", "listening", "resolved"}

TokenTypeOK ==
  /\ state \in ShutdownStates /\ watch \in Watches /\ caller \in [Callers -> Calls]

TokenInit ==
  /\ state = "Idle" /\ watch = "none" /\ caller = [c \in Callers |-> "none"]

\* DispatcherState::notify.notify_waiters()
Notified(w) == IF w = "listening" THEN "notified" ELSE w

\* What the dispatcher's future becomes when shutdown succeeds: told.
ShutdownTells(w) == Notified(w)

\* shutdown(): only the exchange that succeeds notifies the dispatcher; a
\* dispatcher that is shutting down already yields a future as well, an
\* idle one an error and nothing changes.
Shutdown(c) ==
  /\ caller[c] = "none"
  /\ caller' = [caller EXCEPT ![c] = "asked"]
  /\ \/ state = "Running" /\ state' = "ShuttingDown" /\ watch' = ShutdownTells(watch)
     \/ state = "ShuttingDown" /\ UNCHANGED <<state, watch>>

\* The first poll of the future shutdown() returned.
AwaitShutdown(c) ==
  /\ caller[c] = "asked"
  /\ caller' = [caller EXCEPT ![c] = "listening"]
  /\ UNCHANGED <<state, watch>>

\* start_dispatching
StartDispatching ==
  /\ state = "Idle" /\ state' = "Running"
  /\ watch' = Notified(watch)
  /\ UNCHANGED caller

IsShuttingDown == state = "ShuttingDown"

\* The select polls a new wait_for_changes future: it listens from now on.
Listen == watch' = "listening" /\ UNCHANGED <<state, caller>>

\* The select returns and drops its wait_for_changes future, told or not.
StopWatching == watch' = "none" /\ UNCHANGED <<state, caller>>

\* done(), 84-87: shutdown_notify_back.notify_waiters()
NotifyBack ==
  /\ caller' = [c \in Callers |-> IF caller[c] = "listening" THEN "resolved" ELSE caller[c]]
  /\ UNCHANGED <<state, watch>>

\* done(), 93: the store of Idle.
BecomeIdle == state' = "Idle" /\ watch' = Notified(watch) /\ UNCHANGED caller

=============================================================================
