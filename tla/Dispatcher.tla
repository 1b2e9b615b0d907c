----------------------------- MODULE Dispatcher -----------------------------
(***************************************************************************)
(* The dispatcher (dispatching/dispatcher.rs) at work: its loop polls the  *)
(* long polling listener (Polling) and routes each update to the worker of *)
(* its distribution key, workers run handlers, callers ask for a shutdown  *)
(* (ShutdownToken), and when a run is over a new one may begin with a      *)
(* fresh listener.  The loop, every worker task and every caller are       *)
(* threads of their own.                                                   *)
(*                                                                         *)
(* Left out: the application's handlers and error handlers (a handler      *)
(* ends, returns or panics, both are caught), and the webhook listeners.   *)
(***************************************************************************)
EXTENDS ShutdownToken, Polling

CONSTANTS
  Keys,        \* distribution keys
  NoKey,       \* the distribution function returned None
  Unroutable,  \* UpdateKind::Error, or the distribution function panicked
  Routes,      \* the keys updates may have: a set of functions of Updates
  QueueSize,   \* worker_queue_size
  MaxTasks,    \* bound on the worker tasks that are spawned
  MaxDeaths,   \* bound on the worker tasks that are aborted
  MaxRuns      \* bound on the runs of the dispatcher

ASSUME DispatcherAssumption ==
  /\ IsFiniteSet(Keys) /\ NoKey \notin Keys /\ Unroutable \notin Keys \cup {NoKey}
  /\ Routes \subseteq [Updates -> Keys \cup {NoKey, Unroutable}]
  /\ QueueSize \in Nat \ {0} /\ MaxTasks \in Nat /\ MaxDeaths \in Nat /\ MaxRuns \in Nat

VARIABLES
  route,      \* the key of each update
  pc,         \* where the loop is
  hand,       \* the update the loop is about to deliver, or 0
  target,     \* the worker task it is sent to, taken out of the map, or 0
  retried,    \* whether the first worker it was sent to had died
  worker,     \* per key: its task, or 0: `workers` and `default_worker`
  reaping,    \* the tasks whose handles the loop awaits
  runs,       \* runs begun
  spawned,    \* worker tasks spawned
  key,        \* per task: its key
  queue,      \* per task: its channel
  open,       \* per task: whether its sender exists
  running,    \* per task: the updates it has taken and not finished
  is_waiting, \* per task: the flag it publishes
  alive,      \* per task: whether it runs
  deaths,     \* tasks that were aborted
  max_active, \* max_number_of_active_workers
  given,      \* history: updates yielded to the dispatcher
  handled,    \* history: updates whose handler has ended
  lost,       \* history: updates that were refused, or died with their worker
  unacked     \* history: whether a run has ended without its acknowledgement

tasks == <<spawned, key, queue, open, running, is_waiting, alive, deaths, max_active>>
loop == <<route, pc, hand, target, retried, worker, reaping, runs>>
history == <<given, handled, lost, unacked>>
vars == <<token, polling, loop, tasks, history>>

Tasks == 1..MaxTasks
AllKeys == Keys \cup {NoKey}

Init ==
  /\ TokenInit /\ PollingInit
  /\ route \in Routes
  /\ pc = "idle" /\ hand = 0 /\ target = 0 /\ retried = FALSE /\ runs = 0
  /\ worker = [k \in AllKeys |-> 0] /\ reaping = {}
  /\ spawned = 0 /\ deaths = 0 /\ max_active = 0
  /\ key = [t \in Tasks |-> NoKey] /\ queue = [t \in Tasks |-> <<>>]
  /\ open = [t \in Tasks |-> FALSE] /\ running = [t \in Tasks |-> {}]
  /\ is_waiting = [t \in Tasks |-> TRUE] /\ alive = [t \in Tasks |-> FALSE]
  /\ given = {} /\ handled = {} /\ lost = {} /\ unacked = FALSE

-----------------------------------------------------------------------------
(* Worker tasks.                                                           *)

\* A keyed worker processes one update at a time, the default one any number.
Takes(t) == alive[t] /\ queue[t] # <<>> /\ (key[t] # NoKey => running[t] = {})

\* rx.recv(), or for_each_concurrent pulling from its stream.
Take(t) ==
  /\ Takes(t)
  /\ running' = [running EXCEPT ![t] = @ \cup {Head(queue[t])}]
  /\ queue' = [queue EXCEPT ![t] = Tail(@)]
  /\ UNCHANGED <<spawned, key, open, is_waiting, alive, deaths, max_active>>

\* Tasks that hold an ActiveWorkerGuard.
Active == {t \in Tasks : alive[t] /\ key[t] # NoKey /\ ~is_waiting[t]}

\* is_waiting.store(false) and ActiveWorkerGuard::new
Begin(t) ==
  /\ alive[t] /\ key[t] # NoKey /\ running[t] # {} /\ is_waiting[t]
  /\ is_waiting' = [is_waiting EXCEPT ![t] = FALSE]
  /\ max_active' = AtLeast(max_active, Cardinality(Active) + 1)
  /\ UNCHANGED <<spawned, key, queue, open, running, alive, deaths>>

\* The handler, its error handler and the report of its panic are over;
\* is_waiting.store(true) and the drop of the guard.
Finish(t) ==
  \E u \in running[t] :
    /\ alive[t] /\ (key[t] # NoKey => ~is_waiting[t])
    /\ running' = [running EXCEPT ![t] = @ \ {u}]
    /\ is_waiting' = [is_waiting EXCEPT ![t] = TRUE]
    /\ handled' = handled \cup {u}
    /\ UNCHANGED <<spawned, key, queue, open, alive, deaths, max_active, given, lost, unacked>>

\* Mutant: the task stops at once.
Drained_OnClose(t) == running[t] = {}

\* A closed channel still hands out what it holds.
Drained(t) == queue[t] = <<>> /\ running[t] = {}

\* The channel is closed and drained: the task ends.
End(t) ==
  /\ alive[t] /\ ~open[t] /\ Drained(t)
  /\ alive' = [alive EXCEPT ![t] = FALSE]
  /\ UNCHANGED <<spawned, key, queue, open, running, is_waiting, deaths, max_active>>

\* The task is aborted with the updates it has taken and those in its channel;
\* the flag stays as it is.
Die(t) ==
  /\ alive[t] /\ deaths < MaxDeaths
  /\ deaths' = deaths + 1 /\ alive' = [alive EXCEPT ![t] = FALSE]
  /\ lost' = lost \cup running[t] \cup {queue[t][i] : i \in DOMAIN queue[t]}
  /\ running' = [running EXCEPT ![t] = {}] /\ queue' = [queue EXCEPT ![t] = <<>>]
  /\ UNCHANGED <<spawned, key, open, is_waiting, max_active, given, handled, unacked>>

Work(t) ==
  /\ \/ (Take(t) \/ Begin(t) \/ End(t)) /\ UNCHANGED history
     \/ Finish(t)
  /\ UNCHANGED <<token, polling, loop>>

Abort(t) == Die(t) /\ UNCHANGED <<token, polling, loop>>

-----------------------------------------------------------------------------
(* The loop.                                                               *)

\* dispatch: a fresh listener, then start_dispatching.
Start ==
  /\ pc = "idle" /\ runs < MaxRuns
  /\ StartDispatching
  /\ \E drop \in DropChoices : FreshStream(drop)
  /\ pc' = "sweep" /\ runs' = runs + 1
  /\ UNCHANGED <<sent, confirmed, faults, discarded, route, hand, target, retried, worker,
                 reaping, tasks, history>>

Held == {k \in Keys : worker[k] # 0}

\* An empty channel and the flag; a worker that has just taken its last
\* update and not yet stored the flag is judged idle as well.
Inactive(t) == queue[t] = <<>> /\ is_waiting[t]

Closed(S) == [t \in Tasks |-> open[t] /\ t \notin S]

\* remove_inactive_workers_if_needed: the channels of idle workers are closed
\* and their handles awaited: one after the other in the code, which nobody
\* can tell apart because only the loop sends to them.
Sweep ==
  /\ pc = "sweep"
  /\ IF Cardinality(Held) <= max_active
     THEN pc' = "poll" /\ UNCHANGED <<worker, reaping, open>>
     ELSE LET idle == {k \in Held : Inactive(worker[k])}
              gone == {worker[k] : k \in idle}
          IN  /\ worker' = [k \in AllKeys |-> IF k \in idle THEN 0 ELSE worker[k]]
              /\ open' = Closed(gone) /\ reaping' = gone /\ pc' = "reap"
  /\ UNCHANGED <<token, polling, route, hand, target, retried, runs, spawned, key, queue,
                 running, is_waiting, alive, deaths, max_active, history>>

\* Mutant: the handles are dropped, the tasks go on detached.
Ended_Detached(S) == TRUE

\* The awaited handles are those of tasks that have ended.
Ended(S) == \A t \in S : ~alive[t]

Reap ==
  /\ pc = "reap" /\ Ended(reaping)
  /\ reaping' = {} /\ pc' = "poll"
  /\ UNCHANGED <<token, polling, route, hand, target, retried, worker, runs, tasks, history>>

\* The select polls the stream first; what is ready drops the other future.
PollListener ==
  /\ pc = "poll"
  /\ \E item \in {Pending, None, Error} \cup Updates :
       /\ PollStream(item)
       /\ IF item = Pending THEN UNCHANGED token ELSE StopWatching
       /\ pc' = CASE item = Pending -> "wait"
                  [] item = None -> "break"
                  [] item = Error -> "sweep"
                  [] OTHER -> IF route[item] = Unroutable THEN "sweep" ELSE "route"
       /\ hand' = IF item \in Updates /\ route[item] # Unroutable THEN item ELSE 0
       /\ given' = given \cup ({item} \cap Updates)
       /\ lost' = lost \cup {u \in {item} \cap Updates : route[u] = Unroutable}
       /\ unacked' = (unacked \/ (stopping /\ item = Error))
  /\ retried' = FALSE
  /\ UNCHANGED <<route, target, worker, reaping, runs, tasks, handled>>

\* Then it polls wait_for_changes, which listens from its first poll on.
Park ==
  /\ pc = "wait" /\ watch # "notified"
  /\ Listen
  /\ pc' = "parked"
  /\ UNCHANGED <<polling, route, hand, target, retried, worker, reaping, runs, tasks, history>>

\* 477-483: a change was announced; the stop token is used once, and a second
\* stop changes nothing.
SeeChange ==
  /\ pc = "wait" /\ watch = "notified"
  /\ StopWatching
  /\ IF IsShuttingDown THEN Stop ELSE UNCHANGED <<flag, woken>>
  /\ pc' = "sweep"
  /\ UNCHANGED <<sent, confirmed, faults, stream, discarded,
                 route, hand, target, retried, worker, reaping, runs, tasks, history>>

\* The task of the loop is polled again.
Unpark ==
  /\ pc = "parked" /\ (woken \/ watch = "notified")
  /\ woken' = FALSE /\ pc' = "poll"
  /\ UNCHANGED <<token, sent, confirmed, faults, stream, flag, discarded,
                 route, hand, target, retried, worker, reaping, runs, tasks, history>>

Spawn(t) ==
  /\ t = spawned + 1 /\ spawned' = t
  /\ key' = [key EXCEPT ![t] = route[hand]]
  /\ open' = [open EXCEPT ![t] = TRUE] /\ alive' = [alive EXCEPT ![t] = TRUE]
  /\ target' = t
  /\ UNCHANGED <<queue, running, is_waiting, deaths, max_active>>

\* try_dispatch_update: the worker is taken out of the map, or spawned.
Route ==
  /\ pc = "route" /\ pc' = "send"
  /\ LET k == route[hand]
     IN  /\ IF worker[k] # 0 THEN target' = worker[k] /\ UNCHANGED tasks
                             ELSE \E t \in Tasks : Spawn(t)
         /\ worker' = [worker EXCEPT ![k] = 0]
  /\ UNCHANGED <<token, polling, route, hand, retried, reaping, runs, history>>

Delivered ==
  /\ worker' = [worker EXCEPT ![route[hand]] = target]
  /\ pc' = "sweep" /\ hand' = 0 /\ target' = 0 /\ retried' = FALSE

HasRoom(t) == Len(queue[t]) < QueueSize

\* send() got its place in the channel: the worker is put back.
Send ==
  /\ pc = "send" /\ alive[target] /\ HasRoom(target)
  /\ queue' = [queue EXCEPT ![target] = Append(@, hand)]
  /\ Delivered
  /\ UNCHANGED <<token, polling, route, reaping, runs, spawned, key, open, running,
                 is_waiting, alive, deaths, max_active, history>>

\* The channel is closed, the worker dead and its handle awaited: the update
\* is tried once more, then reported as undeliverable.
SendFails ==
  /\ pc = "send" /\ ~alive[target]
  /\ open' = Closed({target}) /\ target' = 0
  /\ IF retried
     THEN pc' = "sweep" /\ hand' = 0 /\ retried' = FALSE /\ lost' = lost \cup {hand}
     ELSE pc' = "route" /\ retried' = TRUE /\ UNCHANGED <<hand, lost>>
  /\ UNCHANGED <<token, polling, route, worker, reaping, runs, spawned, key, queue, running,
                 is_waiting, alive, deaths, max_active, given, handled, unacked>>

\* Mutant: the default worker is forgotten.
Kept_KeyedOnly == {worker[k] : k \in Keys} \ {0}

\* The tasks in the map, and the default worker.
Kept == {worker[k] : k \in AllKeys} \ {0}

\* The listener is over; await_workers_shutdown drops every channel and
\* awaits every handle.
Break ==
  /\ pc = "break" /\ pc' = "drain"
  /\ worker' = [k \in AllKeys |-> 0] /\ open' = Closed(Kept) /\ reaping' = Kept
  /\ UNCHANGED <<token, polling, route, hand, target, retried, runs, spawned, key, queue,
                 running, is_waiting, alive, deaths, max_active, history>>

AwaitWorkers ==
  /\ pc = "drain" /\ Ended(reaping)
  /\ reaping' = {} /\ pc' = "done"
  /\ UNCHANGED <<token, polling, route, hand, target, retried, worker, runs, tasks, history>>

\* done() loads the state, notifies the callers, and stores Idle.
Done ==
  \/ /\ pc = "done" /\ UNCHANGED token
     /\ pc' = IF IsShuttingDown THEN "notify" ELSE "store"
  \/ pc = "notify" /\ NotifyBack /\ pc' = "store"
  \/ pc = "store" /\ BecomeIdle /\ pc' = "idle"

Loop ==
  \/ Sweep \/ Reap \/ PollListener \/ Park \/ SeeChange \/ Unpark \/ Route \/ Send
  \/ SendFails \/ Break \/ AwaitWorkers
  \/ /\ Done
     /\ UNCHANGED <<polling, route, hand, target, retried, worker, reaping, runs, tasks, history>>

Caller(c) ==
  /\ Shutdown(c) \/ AwaitShutdown(c)
  /\ UNCHANGED <<polling, loop, tasks, history>>

\* The servers' side: users and answers.
User == Receive /\ UNCHANGED <<token, loop, tasks, history>>
Wire == Network /\ UNCHANGED <<token, loop, tasks, history>>

Next == Start \/ Loop \/ User \/ Wire \/ (\E t \in Tasks : Work(t) \/ Abort(t)) \/ \E c \in Callers : Caller(c)

Spec == Init /\ [][Next]_vars

-----------------------------------------------------------------------------
(* What the dispatcher promises.                                           *)

TypeOK ==
  /\ TokenTypeOK /\ PollingTypeOK
  /\ route \in Routes
  /\ pc \in {"idle", "sweep", "reap", "poll", "wait", "parked", "route", "send", "break",
            "drain", "done", "notify", "store"}
  /\ hand \in Updates \cup {0} /\ target \in Tasks \cup {0} /\ retried \in BOOLEAN
  /\ worker \in [AllKeys -> Tasks \cup {0}] /\ reaping \subseteq Tasks
  /\ runs \in 0..MaxRuns /\ spawned \in 0..MaxTasks /\ deaths \in 0..MaxDeaths
  /\ key \in [Tasks -> AllKeys] /\ open \in [Tasks -> BOOLEAN]
  /\ queue \in [Tasks -> Seq(Updates)] /\ \A t \in Tasks : Len(queue[t]) <= QueueSize
  /\ running \in [Tasks -> SUBSET Updates]
  /\ is_waiting \in [Tasks -> BOOLEAN] /\ alive \in [Tasks -> BOOLEAN]
  /\ max_active \in 0..Cardinality(Keys)
  /\ given \subseteq Updates /\ handled \subseteq Updates /\ lost \subseteq Updates
  /\ unacked \in BOOLEAN

Queued(t) == {queue[t][i] : i \in DOMAIN queue[t]}

\* Updates that are on their way to a handler or in one.
InFlight == ({hand} \ {0}) \cup UNION {Queued(t) \cup running[t] : t \in {t \in Tasks : alive[t]}}

\* The acknowledgement only covers what has been yielded (PollStream): the
\* server never forgets an update the dispatcher was not given, in whatever
\* order answers, errors and the stop flag arrive, unless it was one that
\* drop_pending_updates throws away.
ConfirmedWasGiven == \A u \in 1..confirmed : u \in given \/ u <= discarded

\* No update vanishes inside the dispatcher: one that was given is on its way
\* or in a handler, or has been handled, or was refused or died with its
\* worker, while idle workers are removed and dead ones replaced.
NothingVanishes == given \subseteq InFlight \cup handled \cup lost

\* Updates of one key run in sequence and in order (dispatcher.rs:159-162):
\* when a worker takes one, no earlier one of its key is queued or running,
\* in this worker or in one that was removed before.
KeyOrder ==
  [][\A t \in Tasks : \A u \in running'[t] \ running[t] :
        key[t] # NoKey =>
          \A v \in InFlight' \ {u} : route[v] = key[t] => v > u]_vars

\* Shutting down is graceful: when a shutdown future resolves, and when the
\* dispatcher becomes idle, no worker runs and everything it was given is
\* settled.
ShutdownIsGraceful ==
  [][(pc # "idle" /\ pc' = "idle") \/ (\E c \in Callers : caller[c] # "resolved" /\ caller'[c] = "resolved")
     => /\ \A t \in Tasks : ~alive[t]
        /\ given \subseteq handled \cup lost]_vars

\* An update is delivered a second time only after a run whose final request
\* failed (polling.rs:425-430).
NoRepeats == [][\A u \in given : hand # u /\ hand' = u => unacked]_vars

\* The loop's task and the workers' tasks run, handlers end, requests are
\* answered or time out, and sleeps end.
Fairness ==
  /\ WF_vars(Loop) /\ WF_vars(Wire)
  /\ \A t \in Tasks : WF_vars(Work(t))

FairSpec == Spec /\ Fairness

\* A dispatcher that runs handles, in the end, every update users send, or
\* reports that it cannot, whatever requests fail and whichever worker dies.
EveryUpdateIsServed ==
  []<>(state # "Running" \/ \A u \in 1..sent : u \in handled \cup lost \/ u <= discarded)

\* A listener that is told to stop ends, and the dispatcher becomes idle.
StoppedMeansIdle == []<>(~flag \/ pc = "idle")

\* A shutdown that was accepted shuts the dispatcher down
\* (shutdown_token.rs:30, dispatcher.rs:120).
ShutdownEnds == state = "ShuttingDown" ~> state = "Idle"

=============================================================================
