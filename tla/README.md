# TLA+ specifications of teloxide

teloxide is a framework for Telegram bots in Rust. Most of its source describes
the Bot API: types, payloads, encoding. The part that can go wrong in ways a
test hardly reaches is the machinery around the requests and the updates: when
an outgoing request may be sent and in which order, what becomes of it when
processes stall, crash or are cancelled, how updates are fetched and handed to
handlers, how a running program is told to stop. This directory specifies that
machinery, checks it with TLC on small instances, and proves the central facts
about it with TLAPS for every instance.

The specifications are translated from the source under `src/crates`; paths
below are relative to it (`core` is `teloxide-core/src`, `bot` is
`teloxide/src`). `PROJECT.json` holds the machine-readable side: the components, the runs,
a mutation of the code that every checked property detects, the line range
every definition stands for, the findings, the hazards and the theorems.

## 1. Inventory

| component | source | modelled in |
|---|---|---|
| durable outbox | `core/outbound/outbox.rs` | `Outbox`, `OutboxDelivery` |
| outbound scheduler (pure core) | `core/outbound/scheduler.rs` | `OutboundScheduler` (partly) |
| outbound actor, handles, permits | `core/outbound/actor.rs` | `OutboundActor` |
| outbound types, classification | `core/outbound/{types,classify,observability}.rs` | - |
| outbound requester adaptor | `core/outbound/adaptor.rs`, `core/adaptors/throttle*` | planned |
| legacy throttle adaptor | `core/adaptors/throttle_compat*` | planned |
| dispatcher, shutdown token | `bot/dispatching/{dispatcher,distribution}.rs`, `bot/stop.rs`, `bot/utils/shutdown_token.rs` | `Dispatcher`, `ShutdownToken` |
| update listeners: long polling | `bot/update_listeners/polling.rs` | `Polling`, composed in `Dispatcher` |
| update listeners: webhooks | `bot/update_listeners/webhooks*` | - |
| drafter: machine, sources, text backends | `bot/drafter/{machine,source,telegram,config,error}.rs` | `Drafter`, `DraftSource` (partly) |
| drafter: limiters, observers | `bot/drafter/{limiter,outbound,observer}.rs` | - |
| dialogue storage | `bot/dispatching/dialogue/*` | - |
| other adaptors, network, API types, utilities | | - |

How they interact:

```
  polling --updates--> dispatcher --per-key queues--> handlers
                                                        |  requests
                                  drafter --flushes-----+
                                                        v
   outbox worker --acquire-->  queue handle  <--acquire-- requester adaptor
     |   ^                        |  ingress (bounded), lifecycle (unbounded)
 store ops, leases                v
     v   |                   outbound actor --calls--> SchedulerState
   OutboxStore                    |
                                  +--permits (oneshot)--> acquire futures
```

**Durable outbox.** State: per idempotency key a record with status, id,
attempt count, availability and lease; the token counter; per worker process
the futures of the claimed batch. Operations: enqueue, claim_due, renew_lease,
begin_attempt, complete, reschedule, fail, run_once, run_until, the heartbeat
that races every await. Hard: workers that stall past a lease and wake up,
processes that share the default worker id, crashes between any two steps, an
executor that failed although the remote side took the request, the store
failing for one record of a batch. Correct means: at most one future can change
a record, attempts bound the executions, a record is completed only if the
remote side took it and exhausted only if its attempts are spent, every record
settles.

**Outbound scheduler.** State: pending jobs, lanes with their lock or permit
count, the candidate heap, blocked references, window reservations with
parked queues, window ledgers, freezes. Operations: enqueue (also latest-wins),
cancel, start, complete in its variants, penalize, set_limits,
set_class_limits, snapshot, an admission pass, next_deadline. Hard: nothing
runs concurrently here, but the references to one job are spread over five
structures that must not lose it, and the deadlines are boundaries of half-open
intervals. Correct means: no window over its capacity, no grant in a freeze,
lanes exclude and are first in first out, reservations protect heavy requests,
no pending job is forgotten, the sleep is never too long.

**Outbound actor.** State: a bounded channel of enqueues, an unbounded one of
lifecycle commands, per acquire a shared atomic token state and two oneshots,
the actor's books (waiters, three token maps). Operations: acquire, enqueue,
poll, drop of every future, start, complete, complete_and_await, drop of a
permit, the handle's calls, shutdown; on the other side the drain, the pass,
deliver_grants, the select, the end of the loop. Hard: futures are dropped on
other threads between any two steps of the actor; a cancel crosses a grant;
shutdown and panics find enqueues in every stage. Correct means: a permit is
never lost, lanes exclude, the books agree with the scheduler, an ended acquire
leaves nothing behind, nobody hangs.

**Outbound requester adaptor.** Classifies a payload, acquires, starts the
permit, sends, and completes it with the outcome; reports RetryAfter. Correct
means: one permit per request, completed exactly once in every way a send can
end, ordinary requests never retried.

**Legacy throttle adaptor.** A worker task with a queue of locks, a history of
sent requests per chat and per second, and a freeze after a flood wait. Correct
means: limits hold over every interval, a frozen chat delays nobody else for
ever.

**Dispatcher and shutdown token.** A map of workers, one bounded queue per
distribution key, a default worker whose one task handles the updates without a
key concurrently, removal of idle workers, a shutdown state machine shared by tokens. Correct means:
updates of a key are handled in order and one at a time, no update is dropped,
a requested shutdown ends the loop, and every waiter of it is told. Hard: the
notification is a `Notify` without a stored permit, the idleness of a worker is
read from another task.

**Update listeners.** Long polling keeps an offset, a buffer, a stop flag, a
backoff; webhooks keep a channel and a stop flag. Correct means: no update is
skipped, the offset is acknowledged at the end, stop ends the stream.

**Drafter.** State: a source behind a mutex (gate, revision, dirtiness), a
worker with a schedule, flush waiters, a terminal call under way, a backend
that may own a message, a generation that handles read. Operations: push,
flush, commit_segment, finish, abort, a handle's stop, the drop of any of these
futures and of the drafter. Hard: the producer goes on while the limiter or the
Bot API is awaited, requests end without an answer, several parties open and
close one gate. Correct means: what is reported delivered is shown, a
permanent message is posted once and never edited or deleted afterwards, what
callers are told is true, everyone is answered, an ended drafter refuses
updates.

**Dialogue storage.** Single get, update and remove calls on a map or a
database; interleavings of handlers belong to the dispatcher's guarantee that
one key is handled by one worker.

**The rest** (bot, network, serialisation, API types, handlers, macros,
formatting and parsing utilities, wrappers such as `CacheMe`) has no state
machine or is input and output, and is not modelled.

`PROJECT.json` lists under `hazards`, each at its line, what in this code is
hard to test, with the properties that cover it or the reason none does.

## 2. The modules

| module | what it is |
|---|---|
| `Outbox.tla` | store, heartbeat, workers, crashes |
| `OutboxDelivery.tla` | abstract: at-least-once delivery with bounded attempts |
| `OutboxProofs.tla` | the inductive invariant of `Outbox`, its safety theorems, its action properties, and that it implements `OutboxDelivery` |
| `ActorProofs.tla`, `DispatcherProofs.tla`, `DrafterProofs.tla` | theorems about `OutboundActor`, `Dispatcher` and `Drafter` |
| `SchedulerLemmas.tla` | lemmas about the operators of `OutboundScheduler` |
| `SchedulerProofs.tla` | its inductive invariant and the theorems about lanes and freezes |
| `SchedulerWindowProofs.tla` | sums over sets, and the theorems about the rate windows |
| `SchedulerPlacesProofs.tla` | where the pending jobs wait: the type invariant, nothing is forgotten, the owners of reservations |
| `OutboundScheduler.tla` | `SchedulerState` and the discipline of its caller |
| `OutboundActor.tla` | acquire futures, permits, channels, the actor's loop |
| `ShutdownToken.tla` | the shared state and the two `Notify` of a shutdown |
| `Polling.tla` | the long polling stream and the server's update queue |
| `Dispatcher.tla` | loop and workers, composed with the two above |
| `DraftSource.tla` | the source of a drafter |
| `Drafter.tla` | worker, owner, handles and backend, composed with the source |
| `MCOutbox`, `MCOutboundScheduler`, `MCOutboundActor`, `MCDispatcher`, `MCDrafter` | instances for TLC |

In the outbound modules instants are relative to now: a timer is the number of
ticks left, an age the number of ticks since. That keeps the state space finite
without bounding time. In `Polling` and `Drafter`, where nothing depends on how
long a delay is, a timer is running or over and ends at any time.

### Outbox

`status`, `id`, `attempt`, `avail`, `lease` are the fields of the stored
record, `nextToken` and `failNext` those of the store. `job[w][k]` is the
`execute_claimed` future of worker `w` for key `k`; its `pc` names the await
it is suspended at, its `timer` the heartbeat of `LeaseHeartbeat::drive`. Each
stage is one action, so that the heartbeat, a crash or another worker may come
between any two; `Renew` is the timer's branch of the select. The store's
operations hold its mutex and are one step each. `ClaimDue` translates
`claim_due` with its order, its limit, its expiry and the records it fails as
exhausted on the way. `mode` is where `run_until` is.

Remote acceptance (`RemoteAccepts`) is a step of its own between the call of the
executor and its answer, so that an accepted request may still end in an
error or a crash. `started` and `accepted` are history.

Left out: payload, versions, metadata (opaque), `claim_count` and
`last_failure` (never read). The in-memory store answers in the poll that asks;
other stores are outside the repository.

### OutboundScheduler

`job` joins `jobs`, `in_flight`, `delayed` and the fate of finished jobs;
`lane`, `cands`, `blocked`, `hold` (reservations), `ledger` (window sets),
`limits` and `penalty` are the fields of the same meaning. A method that the
code calls from several places is an operator from core state to core state
(`RemoveWaiting`, `PushLane`, `ReleaseReservation`, `Refund`, ...), and an
operation is the action that installs the result. An admission pass is a chain
of steps, one for each iteration of the pop loop: `Rekey`, `Park`, `Pause`,
`Sleep` (the candidate is blocked until a deadline), `Grant`, until `EndPass`.

The caller's discipline is that of the actor: an enqueue comes from its sleep,
lifecycle commands may come before the pass that follows, nothing interrupts a
pass, and the timer is served at its tick.

Simplified: job ids are never reused and order the enqueues, a latest-wins
replacement inherits the sequence; heap entries that the code discards when
they surface are discarded when they die, except in lane queues and parked
queues, where dead entries have effects; no time passes between the start of a
pass and a pop, so promotion by age happens where keys are computed. Not
modelled: the rebasing of the 2^64 sequence counters, and the moments at which
idle windows and expired freezes are pruned.

### OutboundActor

An acquire stands for its client token and its job. `pc` says where its future
and then its permit is; a drop takes up to four steps (token, Cancel and
handle, grant receiver, response receiver), because other threads run between
them. `token` is the shared atomic, `response` and `granted` the oneshots.
`actor` is where the loop is: the drain of at most `DrainBatch` lifecycle
commands, the pass, `deliver_grants` one grant at a time, the select. The
handling of an enqueue is split at the token check that linearizes it against a
drop. `End` is what every way out of the loop does: waiters are resolved,
channels close, their contents are dropped.

The scheduler is reduced to backlog, flight and lane holders; a pass grants any
set that the lanes admit. A bounded lane excludes nobody from the actor's point
of view and is not distinguished from no lane. The maps `pending_tokens`,
`job_tokens` and `token_states` always have the same jobs and are one set,
`known`. A compare-and-swap on the token with the load that follows it is one
step. Penalize, the snapshots, the setters and the observer calls have no effect on this
state and are one command, `Call`. Observers, outcomes and correlation ids are
left out.

### Dispatcher, ShutdownToken, Polling

`Dispatcher` extends the two others, so that one state holds the server's
update queue, the stream, the loop, the workers and the callers of `shutdown`.
`pc` is where `start_listening` is; a round is `Sweep`, `Reap` (the removal of
idle workers), `PollListener`, and then either `Route` and `Send` or the second
half of the select, `Park` and `SeeChange`. A poll of the stream is one step
with one disjunct for each way through `poll_next`; between two polls of a
pending stream the loop's task sleeps until it is woken (`woken`). The updates
are numbers in the order of their ids, so the offset is one more than the last
one seen. The server keeps every update that no request confirmed and forgets
those below the offset; a request that is dropped or fails may have reached it.

A worker is a task with a channel. `worker` is the map (0: no entry, also while
an update is being sent, as in the code, which takes the entry out);
`is_waiting` is the relaxed flag, set in a step of its own after the update was
taken. `Die` ends a task from outside, with what it had taken and queued.

In `ShutdownToken` a `Notify` is the set of futures that have been polled:
`watch` for the dispatcher's one, `caller` for the futures of `shutdown`.
`done` is three steps, its load, the notification, the store.

Simplified: the worker's guard is dropped in the step that stores the flag;
the filter that selects idle workers reads every flag at one moment. The
handlers, the error handlers and what they are told are left out, as is the
hint of allowed updates.

### Drafter, DraftSource

`DraftSource` has one operator per critical section of the source's mutex; a
revision stands for the content pushed with it. In `Drafter`, `pc` is the await
the worker is at and everything it does up to the next await is one step:
`PreviewDue` up to the acquire, `Granted` (which takes the snapshot again),
`PreviewSuccess` or `PreviewFails`, `Receive` up to the first await of a
command, `WaitForPermit` and `TerminalCall` for each attempt, `Reply`. The
producer, callers and handles may act between any two. A call is `waiting`,
answered or `dropped`; dropping it closes the reply the worker watches.

A request to the Bot API that gets no answer may have arrived or not. `shown`,
`posts`, `accepted` and `sealed` record what the chat holds: the newest
revision, the preview messages sent, the permanent message of the call, and
whether the message the backend owns carries it.

`Modes` are NativeTextBackend and EditInPlaceBackend with the policy that
deletes the preview. Left out: the other backends of `telegram.rs`, priorities
and request classes, the request scheduler's contexts and its skipping of equal
previews, the observer's events, the outcome of a cleanup request, that `stop`
clears the generation after its answer (the worker does too), and the bound of
16 on the command channel, which two calls do not reach. The limiter grants or
refuses at any time. `Answer` tells the callers of commit and finish apart, whose
errors carry a delivery; an abort or a stop is answered `ok` also when the backend
could not clean up, which no property reads. The refresh timer ends only while the worker waits for
something to do: the interval is longer than a request (`config.rs:71`).

## 3. What the runs check

Sizes are distinct states. Every property has a mutation of the code
(`PROJECT.json`, `mutants`) under which the same run reports it violated.

**outbox_fenced** (194 284; three interchangeable workers with the same id, one
record, two attempts, leases of two ticks, late heartbeats allowed, one fault).
`ExecutionsBounded`, `ExhaustedMeansSpent`, `CompletedMeansAccepted`,
`OneHolder`, `LeaseProtects`, and `ImplementsDelivery`: the outbox refines
`OutboxDelivery`. Three workers are needed for a stale one, its successor and
the successor's successor; two attempts for a last one that is not the first;
four tokens let a record be reclaimed after both attempts.

**outbox_live** (237 411; one worker, batches of two, two records, one of which may
be retried, leases of two ticks, heartbeats in time, one fault). `HeartbeatKeepsLease` is what
leases are for: with `OneHolder` no two workers are active on a record. It holds
holds exactly when heartbeats are served in time. `OnlyCrashesAbandon` is the drain of
a batch after an error or a shutdown (that no claim follows the shutdown is the
guard of `Poll`, and no property says it), `EverythingSettles` the live side. A second
worker would only hide a worker that fails to make progress.

**sched_lanes** (613 099; an ordered lane with a slot, a global, a chat and a class
window with three limit sets, one of which pauses a class, two priorities, weights
one and two, delays and freezes of one tick, three jobs, one call). `TypeOK` (which
also says which structures may name dead jobs), `LocksAreHeld`, `LaneFifo`,
`DebitsAreExact`, `RateRespected`, `FreezeHonoured`. Three jobs give a holder, a head
and a successor, and the call a freeze or new limits between any two of their steps.
A lane that is ordered by starts, whose holders need not start, behaves in all the
ways a serial one does but that a start leaves a serial lane locked; a serial lane
is in **sched_phantom** and **actor_drops**, and `LocksAreAlwaysHeld` is about both.

**sched_holds** (1 278 386; four jobs: light and heavy requests of a chat, the heavy
ones in a slot, and a bounded lane; a global window that frees after one tick and a
chat window that frees after two, so that both come to have owners and parked
queues). `OwnersAreNotOvertaken`: a job of the highest priority that holds a window
lets no younger one into it, unless it has come to be parked behind the
reservation of another of its windows (section 5). `NothingIsForgotten`: the actor
does not go to sleep on a job that nothing will bring back. A parked job counts as
kept only as long as another pass comes, at a deadline or a completion, because a
hold that has ended sets no timer (section 5), or a window is paused.
`EveryJobLeavesTheQueue` is the live side. No request has a delay: with them
`NothingIsForgotten` fails for lanes, see **sched_phantom**. A request that fills a
window, the owner and two that are parked make four jobs.

**sched_rearm**, **sched_overrun**, **sched_phantom**, **shutdown**: the findings of section 5.

**actor_drops** (1 388 912; two interchangeable acquires of a serial or an ordered
lane, perhaps of one slot, dropped anywhere, capacity one, a drain of three, one call or
shutdown, panics). `PermitsAreNeverLost`,
`BooksAgree` (with both capacity limits), `LanesExclude`, `EndedAcquiresLeaveNothing`, and
`CompletionsApplyFirst`: a completion sent before an enqueue is applied before
that enqueue is admitted. Two acquires suffice
for every pair the actor relates: holder and successor, replaced and
replacement; a capacity of one makes a full ingress and a full backlog easy to
reach.

**actor_live** (about 312 000; two acquires of one lane and slot, shutdown, a closed
ingress, panics). `NobodyHangs`.

**dispatcher** (641 000; two updates of one key, of two keys, or without a key
and without a route, queues of one, answers of up to two, one failing request,
one dying worker, four tasks, one shutdown, two runs, with and without dropping
pending updates). `ConfirmedWasGiven` and `NoRepeats` relate the stream to the
server: nothing is acknowledged that the dispatcher was not given, and nothing
is given twice unless the final request of a run failed. `NothingVanishes`,
`KeyOrder` and `ShutdownIsGraceful` are the promises of the dispatcher, across
the removal and the replacement of workers. `EveryUpdateIsServed` and
`StoppedMeansIdle` are their live side. Two updates and two keys give the two
places where a worker can be removed: under an update of its own key and under
one of another. One death leaves out the second failure of one update
(`UpdateUndeliverable`), which needs two.

**drafter** (993 511; two updates, any two calls, one retry, two failures before
previews are disabled, one failing preview or acquire, both backends).
`FlushIsTruthful`: a flush succeeds only when its revision, or a newer one of
the segment, is shown. `FinalsAreKept`,
`PostedOnce`, `OnePreviewMessage`: what the chat holds. `AnswersAreTruthful`:
what commit and finish report of the delivery. `EndedMeansRefused`,
`EveryCallIsAnswered`, `UpdatesAreShown`: nobody believes in an ended worker,
nobody waits for ever, no notification or timer is missed. Two calls give every
pair: a flush behind a commit, a stop across a finish, a commit whose caller has
gone and the drop of the drafter, two flushes. Two updates give one that
arrives while another is on its way, and one in each of two segments.

The actor, the dispatcher and the drafter state a `TypeOK` for the reader and
for proofs to come; the runs check it only where it says more than types (the
outbox, whose proofs rest on it, and the scheduler).

Deadlock checking is off where the behaviour of a bounded instance may end
(every job used, every acquire finished, `CHECK_DEADLOCK FALSE`). In the
outbox a worker that ended can be run again and time passes, and deadlock is
checked.

### Bounds

`MaxToken`, `MaxFaults`, `MaxAge` (outbox), `MaxJobs`, `MaxCalls` (scheduler)
and `MaxCalls` and the set of acquires (actor), `MaxUpdates`, `MaxFaults`,
`MaxTasks`, `MaxDeaths`, `MaxRuns` (dispatcher), `MaxUpdates`, `MaxCalls`,
`MaxFaults` (drafter) are bounds of the models, not of the
code; each stands in the guard of the action it limits. Ages of records beyond `MaxAge` are not told
apart, which merges records that are long overdue. `QueueCapacity`,
`DrainBatch`, lease and window lengths are parameters of the code with small
values; `LIFECYCLE_DRAIN_BATCH` is 64 in the code, 3 in `actor_drops` (more than the
commands that can be queued at once ahead of the one in question) and 1 in
`actor_live`. `QueueSize`, `Limit`, `RetryBudget`, `MaxFailures` are parameters
too. Four worker tasks are as many as two updates can need. The limit sets of
one instance have windows of the same lengths, so that the history the
properties count over is exact.

### Fairness

*Outbox*: the runtime polls a future whose wake-up has come (weak fairness of
its steps and of the heartbeat), the scheduler and the executor answer, `run_until` polls
again, the application restarts a worker that has ended, time passes. Nothing
obliges the environment to crash, refuse or stop.

*Scheduler*: a pass under way goes on (stated with the phase, as weak
fairness; a pass can always make a step), time passes while the actor sleeps,
permits are completed: their drop completes them.

*Actor*: tasks are polled and drops run to their end, callers give permits
back, the actor's task is polled. `tokio::select!` without `biased` starts at a
random branch, so a branch that is ready again and again is taken at last:
strong fairness of the lifecycle and the enqueue branch. A pass grants a job
that it could grant again and again, which is `EveryJobLeavesTheQueue` of the
scheduler.

*Dispatcher*: the loop's task, the workers' tasks and their handlers run, every
request is answered or times out (the client has a timeout), sleeps end.
Nothing obliges a user to send, a worker to die or a caller to shut down.

*Drafter*: the worker's task is polled, the limiter and the Bot API answer or
time out (`request_timeout`), timers end, an abort takes effect. Nobody has to
push, call or drop anything.

What the live properties wait for does not come back: a settled record, a handled
update, an acquire that has ended stay so. Each is therefore stated as
`[]<>` of nothing being open, which TLC checks in one branch and not in one for
every record, update or call.

## 4. What is proved

Every theorem holds for all values of the constants, from the named assumptions
of the modules alone: sets are finite, numbers are natural, and the bounds that
the code requires to be positive are positive. There is no assumption on the
order of steps. Only `PunctualHeartbeatsKeepLeases` assumes anything about
timing (`Punctual`), only the two theorems about rate windows assume anything
about the limits that are configured (`SpansAreKept`), only
`CompletionsAlwaysApplyFirst` about the number of callers (`BatchIsAmple`), and
only `NothingIsEverForgotten` about the requests: none has a `not_before`, or
none has a lane.

### The outbox: `OutboxProofs`

| theorem | states |
|---|---|
| `TypeCorrect` | `Spec => []TypeOK` |
| `Inductive` | `Spec => []IInv` |
| `ExecutionsAreBounded` | `Spec => []ExecutionsBounded` |
| `ExhaustedOnlyWhenSpent` | `Spec => []ExhaustedMeansSpent` |
| `CompletedOnlyWhenAccepted` | `Spec => []CompletedMeansAccepted` |
| `AtMostOneHolder` | `Spec => []OneHolder` |
| `OutboxImplementsDelivery` | `Spec => ImplementsDelivery` |
| `LiveLeasesProtect` | `Spec => LeaseProtects` |
| `OnlyACrashAbandons` | `Spec => OnlyCrashesAbandon` |
| `PunctualHeartbeatsKeepLeases` | `Punctual`, `LeaseFor > 1`: `Spec => []HeartbeatKeepsLease` |

None of the four safety invariants is inductive. `IInv` adds what they rest on:

* `TokenInv`: no lease and no live future has a token above `nextToken`, and
  two live futures for a record never have the same token. A claim takes
  tokens above the counter, so a stale future cannot match a new lease;
  `OneHolder` follows because both futures match the one stored token.
* `CountInv`: `started` plus the futures between `begin_attempt` and the call
  is at most `attempt`; `accepted` plus the futures whose request is still out
  is at most `attempt`; `attempt` is at most `MaxAttempts`. Without the
  futures in flight the step that calls the executor could not be justified.
* `DecidedInv`: a future's attempt is at most the record's, and a mutation it
  has decided on is already justified (`Justified`): the decision is taken
  before the permit is retired and the store is called.
* `SettledInv`: what is settled is justified.

The proof that a step preserves them is split by what a step can do to the
futures: move one future (`FutureMoves`), a claim (`Poll`), or neither
(`Outside`); each part has a lemma for each conjunct.

The refinement maps `OutboxDelivery`'s state to the counters and statuses of
the store. A step of a future either commits its mutation under a current lease
(`Commits`), and is then an abstract settlement, retry or requeue that
`DecidedInv` and `SettledInv` justify, or leaves the statuses alone; `TokenInv` gives that the
record of a commit is the one the future claimed. `PunctualHeartbeatsKeepLeases` needs
a clock invariant (`BeatInv`): while a future is under way its lease is
the stored one, and its next heartbeat is due before that lease runs out. It
holds for every lease longer than one millisecond: the renewal period is a third
of the lease and at least a millisecond, so for a lease of one it is all of it.

### The actor: `ActorProofs`

| theorem | states |
|---|---|
| `TypeCorrect` | `Spec => []TypeOK` |
| `BooksAlwaysAgree` | `Spec => []BooksAgree` |
| `NoPermitIsLost` | `Spec => []PermitsAreNeverLost` |
| `LanesAlwaysExclude` | `Spec => []LanesExclude` |
| `NothingIsLeftBehind` | `Spec => []EndedAcquiresLeaveNothing` |
| `CompletionsAlwaysApplyFirst` | `BatchIsAmple`: `Spec => CompletionsApplyFirst` |

`IInv` follows an acquire from its future to the ingress, the hand of the actor, the
backlog, the grants of a pass and its buffered permit. `SoundInv` says for each place
what the other side may have done by then, and which command is on its way to
tell: a queued acquire was not granted; a pending one can still be cancelled,
because its future is alive, is cancelling, or has sent the `Cancel`
(`CancelReaches`); a flying one is in the grants, a buffered permit, a held
permit or a `Complete` on its way (`PermitSound`). The drops of futures are what
makes this strengthening necessary: each of the two channels may be closed
between any two steps of the other side. `LaneInv` adds that every permit in use
has its lane among the actor's holders and that holders have different lanes.

`CompletionsAlwaysApplyFirst` rests on a sum over all acquires (`CountInv`): the
commands in the channel, those the drain under way has taken, the acquires that
may still send their `Cancel` or `Start` (`MaySignal`) and those whose `Complete`
may still come (`MayComplete`) are together at most two per acquire and one per
call. So the lifecycle channel, which has no capacity, is bounded after all. Every
command that is sent uses up a sender (`SendersPay`); that `deliver_grants` drops a
permit only after the receiver is gone is what makes its `Complete` the last. An
acquire about to be granted still has its `Complete` to send, and its `Cancel` too
unless that is in the channel already, so a pass with a completion left would
have taken fewer commands than the batch. The hypothesis is exact for the run: with
two acquires and one call it asks for a batch of three, and with two TLC finds
the promise broken. An acquire of the model is used once, so the hypothesis counts
all acquires that send a command before the drain is over, those made during it
included; with the code's batch of 64 it covers 32 of them and two calls. For
any number of acquires the code does not keep the promise (section 5).

### The dispatcher: `DispatcherProofs`

| theorem | states |
|---|---|
| `TypeCorrect` | `Spec => []TypeOK` |
| `AcknowledgedWasGiven` | `Spec => []ConfirmedWasGiven` |
| `NoUpdateVanishes` | `Spec => []NothingVanishes` |
| `KeysRunInOrder` | `Spec => KeyOrder` |
| `ShutdownsAreGraceful` | `Spec => ShutdownIsGraceful` |
| `RepeatsNeedAFailedStop` | `Spec => NoRepeats` |

The invariant counts what the stream has yielded: `Upcoming`, the offset less what
is buffered, is the first update it has not.

* `StreamInv`: the request on its way is the one the stream would make now; the
  buffer holds the updates from `Upcoming` to the offset; an answer goes on
  where the server has forgotten, and is never ahead of what was sent.
* `GivenInv`: what is below `Upcoming`, and what the server has forgotten, was
  given or is discarded; as long as no final request failed, what was given in
  an earlier run is confirmed. A request may reach the server after the stream
  has dropped it (`ReachCovers`), which confirms no more than `Upcoming`.
* `LoopInv`, `TaskInv`: every running task is in the map, in the hand of the
  loop or awaited, and a key has one of them. So a replaced worker of a key is
  dead, and when the loop is over nothing runs.
* `OrderInv`: channels are in order, the update in hand is newer than all that
  is queued or running, and what is yet to come is newer still. `KeyOrder`
  follows: a task takes the head of its channel, and no other task has its key.

### The scheduler: `SchedulerLemmas`, `SchedulerProofs`, `SchedulerWindowProofs`, `SchedulerPlacesProofs`

| theorem | states |
|---|---|
| `QueuesAgree` | `Spec => []QueueInv` |
| `LocksAreAlwaysHeld` | `Spec => []LocksAreHeld` |
| `LanesAreFifo` | `Spec => LaneFifo` |
| `FreezesAreHonoured` | `Spec => FreezeHonoured` |
| `DebitsAreAlwaysExact` | `SpansAreKept`: `Spec => []DebitsAreExact` |
| `RatesAreRespected` | `SpansAreKept`: `Spec => RateRespected` |
| `PlacesAgree` | `Spec => []PlacesInv` |
| `StateIsTyped` | `Spec => []TypeOK` |
| `LooseJobsAreNotForgotten` | `Spec => []LooseJobsComeBack` |
| `NothingIsEverForgotten` | no `not_before`, or no lanes: `Spec => []NothingIsForgotten` |
| `OwnersKeepTheirTurn` | `Spec => OwnersAreNotOvertaken` |

Besides the typing of the constants these rest on `References` (a reference is a
job or a lane and never both) and on the limit sets having finitely many
limits altogether (`LimitsAreTyped`).

A step of the scheduler is a composition of operators on `Core`, so the lemmas
are about operators, and say how much of the state each one disturbs: it makes
no job wait and grants none (`Gentle`), keeps the debits as well (`Mild`), or
changes neither jobs nor locks, but for owners and delays (`Calm`). `Safe` is what
they all keep:

* `SeqsOk`: no two waiting jobs have the same sequence; a replacement takes the
  one of the job that dies for it.
* `PendingOk`: a waiting job with a lane is pending in that lane, and pending
  jobs belong to their lane.
* `LocksOk`: `LocksAreHeld`, that a lane with a holder counts it, and that a bounded
  lane counts no more permits than are out.
* `RefsOk`, `KeysOk`: candidate keys, blocked nodes and parked references name
  jobs without a lane or lanes, and no queue is parked without a hold; the key of
  a job is about that job.

`QueueInv` is `Safe` of `Core` with the numbering of the jobs. `LaneFifo` is then
a matter of one step: a lane is granted only when the popped key is that of its
head, the head is the first live job that is pending, and by `PendingOk` every
waiting job of the lane is pending. A grant finds the lane with capacity, hence
without a holder, so by `LocksOk` without an occupant. `FreezeHonoured`
needs that `Until` is a maximum over a finite set that includes both freezes,
and that every other step grants nothing (`GrantsNothing`).

*The rate windows.* `DebitsAreExact` is inductive once it is known that a job that
waits has no debit and no age since a grant (`BooksInv`). Each step then falls
into one of six cases: the books stand, as for all of a pass but a grant; one
grant is credited (`BooksCredited`); the ledger is carried over to new limits
(`BooksCarried`); an enqueue, a grant, or a tick. `RateRespected` counts over
the history of the jobs, while the admission counts over the ledger. A grant
finds no window short (`Until` is zero, and a short window would make it
positive), so the weights in the ledger that are younger than a limit leave
room for one more; by `DebitsAreExact` they are those of the history, and the
granted job is not among them yet. That the two sums then differ by its weight
(`WeighedOneMore`) needs that the fold by which the community modules define a
sum does not depend on the order of the members: `SumsExist` and `SumsSplit`
prove it over the number of members, with the least counterexample in the place
of the induction theorem.

`SpansAreKept` says that all limits that are ever configured agree on the
longest window of each window set. It leaves the capacities and the shorter
windows free, pauses included. Without it both properties are false, of the code
too: `SetLimits` rebuilds each rolling window from the entries of the old one,
which has pruned what was older than its own span, so a window made longer
knows nothing of earlier grants (the code says so at `scheduler.rs:2346`). The
limits of `sched_lanes` satisfy it.

*The places.* A pending job is asked for through its reference, and `PlacesInv`
says where references wait. `Orderly` has the parts:

* `Tidy`: a job without a lane is delayed, in the heap, blocked or parked, in one
  of them at most and in one queue once. This is not needed for its own sake: a
  reference that is taken from a place and put into another would otherwise be
  left behind in a third.
* `NodesAsk`: a node of `blocked` names a waiting job or the lane of one, which
  is what `TypeOK` adds to the types. Parked queues and the heap may name
  the dead, and are cleaned up lazily.
* `QueuedOk`: a lane marked as queued has its key, so that `push_lane`, which
  does nothing for a queued lane, loses nothing.
* `AllKept`: every reference that is asked for is in one of the places, but for
  lanes without capacity, whose next release pushes them. For lanes this needs
  `NotBefores = {}`: `sched_phantom` shows that a cancelled delay loses a lane.
  The actor sets no delays, so the hypothesis is what its users have; for jobs
  without a lane (`LooseJobsAreNotForgotten`) none is needed.

In the middle of an operation a reference is *in hand*: `Orderly(s, X, b)` excepts
the references in `X`, and a lemma for each operator says which ones it takes
(`Loosened`) and which it puts down. A lane must not be in the heap and blocked at
once, or the key that is popped would leave the node without effect. Between passes it
is not (`Watchful`); in a pass a promoted window or a served deadline can push a lane
that sleeps. `Drowsy` says why that is harmless: the head of such a lane is
still withheld, by a freeze, a window without room or a pause, so popping its key
can only block it again. It holds because grants only add to the windows
(`Heavier`) and a pass makes no new heads.

*What comes back.* A place is not yet a wake-up: a parked reference waits for the end
of its hold, and `next_deadline` passes over holds that have ended. `StirInv` says
that, unless a pass is due, no deadline and no delay is over (`Timed`), and that as
long as a live reference is parked (`Lingers`) something is left that begins a pass
(`Beats`: a permit that is out, a delay, a node of `blocked`, a hold that runs) or, in
the middle of one, another candidate (`Offers`): together, `Astir`. Every command,
and every tick that a deadline calls for, makes a pass due. The pass establishes the invariant whatever
it finds: it begins with the first live reference behind each hold that is over, so that a
queue is left behind only if that one is in the heap or waits for something that
beats. It then keeps it with each candidate it takes: one that is parked has met a hold that runs,
one that is granted is a permit that is out, one that is blocked is a node. A lane
without capacity has permits out (`FullLanesAreOut`), for which `LocksOk` counts those
of bounded lanes. So when the pass is over and no candidate is left, a beat is. A node
may be one without a deadline: what is claimed of a parked job is that another
pass comes or that some request is paused.

*The owners.* `OwnersAreNotOvertaken` follows from `HoldersInv`: an owner without
a lane is not delayed, and its node in `blocked`, if it has one, is not permanent and
has a deadline no later than the end of its hold, one that lies ahead in a pass.
`block_candidate` sets both to the same instant; after that the node only goes and
the hold either goes or, if it is the global window's, is extended by grants, but a
grant into a window whose hold is active is the owner's own. So when another candidate passes the
admission of the window, its hold is over, and then the owner is not asleep; it is
not parked by hypothesis, so by `AllKept` it has a key in the heap. That key has
the highest priority, and the candidate's key comes before it only by a smaller number.

### The drafter: `DrafterProofs`

| theorem | states |
|---|---|
| `TypeCorrect` | `Spec => []TypeOK` |
| `FinalsAreNeverTouched` | `Spec => []FinalsAreKept` |
| `NothingIsPostedTwice` | `Spec => []PostedOnce` |
| `PreviewsStayOneMessage` | `Spec => []OnePreviewMessage` |
| `NobodyFeedsTheDead` | `Spec => []EndedMeansRefused` |
| `FlushesAreDelivered` | `Spec => FlushIsTruthful` |
| `AnswersAreTrue` | `Spec => AnswersAreTruthful` |

`IInv` says what the worker knows at each await: which calls it holds
(`CallInv`), that what counts as delivered is in the chat (`RevisionInv`), that
the result of a terminal call is what the API did with its message, also after a
retry (`OutcomeInv`), that a sealed message is left alone because
the worker is about to end (`SealInv`), that once a first message may have arrived
the backend has its id or previews are disabled (`PreviewInv`), and that the
source does not run while a terminal call is under way or has failed
(`GateInv`).

### Only model-checked

* Liveness under fairness and statements with ENABLED, which are beyond the
  prover: `EveryUpdateIsServed`, `StoppedMeansIdle`, `ShutdownEnds`,
  `EveryCallIsAnswered`, `UpdatesAreShown`, `NobodyHangs`,
  `EveryJobLeavesTheQueue` and the liveness of the outbox.

## 5. Findings

* **A bounded lane forgets its permits** (`sched_overrun`,
  `scheduler.rs:1312`). `push_lane_head_candidate` removes a lane that has no
  live pending job, and with it the count of its permits in flight. Bound two,
  two permits out, a third request cancelled, one permit completed: the next
  two requests are both granted.
* **A cancelled delay leaves its lane asleep** (`sched_phantom`,
  `scheduler.rs:1096`). `remove_waiting` wakes a lane that sleeps in the blocked
  heap, and nothing else; `promote_delayed` skips entries whose job is gone. When
  the head of a lane has a `not_before` and is cancelled, the ready request behind
  it stays pending without a permit in its way and without a deadline, until
  another command pushes the lane. The comment at line 14 promises a cancellation
  "without a phantom lock". The actor itself sets no delays.
* **A hold is not extended by a grant** (`sched_rearm`, `scheduler.rs:1596`).
  `grant_ready` calls `grant`, which takes the job out of `jobs`, before
  `rearm_reservations`, which lists the windows of the job by looking it up there:
  it finds none and is left with the global window. The comments at 1609 and
  1754 promise that the hold of every window that was consumed is extended to the moment
  the next parked candidate fits, "so the parked queue paces itself". For the windows
  of chats and classes it does not: of a window with three places a heavy request has
  taken two; another heavy one owns the hold, and a light and a third heavy one are
  parked. When the hold ends, the owner and the light one are granted and fill the
  window, and the third heavy one stays in the queue of the ended hold although it
  does not fit. No timer is set for it, and newer traffic is not held back. `RearmReservations` models what the code
  does, so all runs and proofs are about that. Under a global window the same
  requests keep `HoldsLastUntilTheNextFits`.
* **A shutdown can go unheard** (`shutdown`, `dispatcher.rs:478`).
  `wait_for_changes` is created anew in every round, `notify_waiters` stores
  nothing, and the select polls the stream first: a shutdown requested while
  the stream is polled or an update is routed is accepted, changes the state
  and wakes nobody. Every later request finds `ShuttingDown` and does not
  notify again. The dispatcher goes on, and the future of `shutdown` waits.

Found while modelling, without a run of their own:

* A pass of the scheduler can end without a timer although a job fits
  (`scheduler.rs:2554`): `rearm_reservations` may end a hold at the instant of
  the pass, nothing pops its parked queue in that pass, and `next_deadline`
  ignores holds that have ended. The job waits for a permit to be completed, for
  another deadline or for an unrelated command; `NothingIsForgotten` asks that there
  is one of the first two, or a pause. When the
  reference that a pass takes from the queue finds a window paused, it is blocked
  without a deadline and the pass takes no other in its place: those behind it
  wait in the same way, also when none of their own windows is paused.
* First in first out within a rank does not hold for parked requests
  (`scheduler.rs:1546`, against the comment at line 10): a younger request can be
  granted while an identical older one is parked. The owner of a reservation is no
  exception: promoted at the end of its hold, it can find another of its windows
  reserved, is parked there, and is overtaken in the window that it owns. With
  five jobs this happens, so `OwnersAreNotOvertaken` is about owners that are not parked.
* A completion may be applied after a later acquire was granted
  (`actor.rs:1303`, against the comment at 1290) when more than
  `LIFECYCLE_DRAIN_BATCH` commands are ahead of it: with `DrainBatch` 1 or 2
  `actor_drops` finds `CompletionsApplyFirst` violated. `CompletionsAlwaysApplyFirst`
  proves how large the batch must be for it to hold.
* The future of `shutdown` listens from its first poll on
  (`shutdown_token.rs:40`): one that is first polled after `done`, or whose
  call falls between `done`'s load and its store, never completes.
* After a commit whose payload was invalid the drafter's source stays in
  transition (`machine.rs:1215`). A flush is then not served, and because
  `next_deadline` does not look at the gate, the worker goes round its loop
  without pause while an undelivered update exists. `EveryCallIsAnswered` excepts
  such flushes (`Forsaken`).
* A flush after a commit whose future was dropped may read its target from the
  old segment and wait for a revision that does not come up again
  (`machine.rs:2094`). Excepted likewise.
* The drop of a drafter closes the source and clears the generation, and then a
  worker past its last await may reopen and announce both before the abort
  takes effect (`machine.rs:1191`). `EndedMeansRefused` is stated for workers
  that end by themselves.
* An empty snapshot raises `last_delivered`, after which a first message that
  timed out is taken for an edit and sent again (`machine.rs:710`).
  `OnePreviewMessage` excepts workers that delivered an empty snapshot (`skipped`).

## 6. Plan

Done: the outbox, the actor, the dispatcher over the polling stream, the
drafter and the scheduler, each with proofs of all its safety properties. Next, in
this order:

1. Compositions: the actor over an abstract scheduler that
   `OutboundScheduler` implements, an outbox worker over the actor's permits.
2. `RequesterAdaptor`, `ThrottleCompat`, the in-process limiter of the drafter.

### Not modelled

The requester adaptor and the legacy throttle (clients of the same kind of
permit as the outbox worker, still on the plan); the drafter's limiters and its
four other backends, which differ in what they send and in the cleanup after
delivery; webhooks (an HTTP server library in front of a channel); dialogue
storage (single calls on a map or a database); everything without a state of
its own: API types and payloads, their encoding, the network client,
formatting and parsing, macros. These last ones are nine tenths of the
repository's lines, so most of the source is no subject of a state machine.

## 7. Running

    tlc -config Outbox_fenced.cfg MCOutbox
    tlapm OutboxProofs.tla          (and the other modules whose name ends in Proofs)

Every run is a line of `runs` in `PROJECT.json`; runs with `expect` violation are
the findings and end with a counterexample.
