------------------------------- MODULE Outbox -------------------------------
(***************************************************************************)
(* The durable outbox of teloxide-core (outbound/outbox.rs): a store of    *)
(* records, and workers that claim due records under a fenced lease, renew *)
(* the lease while they work, and commit the result to the store.          *)
(*                                                                         *)
(* Time is relative to now: a lease carries the ticks it has left, a       *)
(* record the ticks until it is available, a heartbeat the ticks until it  *)
(* fires.  A record that is overdue keeps its age (down to -MaxAge),       *)
(* because claims are ordered by it.                                       *)
(*                                                                         *)
(* Left out: payloads, versions and metadata (opaque to the runtime), and  *)
(* claim_count and last_failure (written for diagnostics, never read).     *)
(***************************************************************************)
EXTENDS Integers, FiniteSets

CONSTANTS
  Keys,                \* idempotency keys, one record each
  Workers,             \* worker processes, each running run_until
  WorkerId,            \* settings.worker of each process (the default is shared)
  MaxAttempts,         \* request.max_attempts of each key
  MaxInFlight,         \* settings.max_in_flight
  LeaseFor,            \* settings.lease_for, in ticks of one millisecond
  EnqueueDelays,       \* how far in the future an enqueued record may lie
  SchedulerRetryDelay, \* settings.scheduler_retry_delay
  RetryAfterDelay,     \* the provider's retry_after
  BackoffBase,         \* settings.transient_backoff_base
  BackoffMax,          \* settings.transient_backoff_max
  Stoppable,           \* workers whose shutdown future may resolve
  Punctual,            \* TRUE: no live worker lets a due heartbeat wait a tick
  MaxAge,              \* bound: ages beyond it are not told apart
  MaxToken,            \* bound on the lease tokens minted
  MaxFaults            \* bound on crashes, refused acquires and store faults

ASSUME OutboxAssumption ==
  /\ IsFiniteSet(Keys) /\ IsFiniteSet(Workers)
  /\ WorkerId \in [Workers -> Nat]
  /\ MaxAttempts \in [Keys -> Nat \ {0}]
  /\ MaxInFlight \in Nat \ {0}
  /\ LeaseFor \in Nat \ {0}
  /\ EnqueueDelays \subseteq Nat
  /\ SchedulerRetryDelay \in Nat /\ RetryAfterDelay \in Nat
  /\ BackoffBase \in Nat /\ BackoffMax \in Nat
  /\ Stoppable \subseteq Workers
  /\ Punctual \in BOOLEAN
  /\ MaxAge \in Nat /\ MaxToken \in Nat /\ MaxFaults \in Nat

VARIABLES
  status,     \* per key: Absent, Pending, Claimed, Completed, or Failed by kind
  id,         \* per key: the OutboxId, in order of insertion; 0 while Absent
  attempt,    \* per key: delivery attempts begun
  avail,      \* per key: ticks until available_at
  lease,      \* per key: the lease of a Claimed record
  nextToken,  \* next_lease_token of the store
  failNext,   \* fail_next_complete of the store
  job,        \* per worker and key: the execute_claimed future
  mode,       \* per worker: where run_until is
  shutdown,   \* the workers whose shutdown future has resolved
  faults,     \* adverse events so far
  started,    \* history, per key: executor invocations
  accepted    \* history, per key: invocations the remote side has accepted

store == <<status, id, attempt, avail, lease, nextToken, failNext>>
history == <<started, accepted>>
vars == <<status, id, attempt, avail, lease, nextToken, failNext,
          job, mode, shutdown, faults, started, accepted>>

-----------------------------------------------------------------------------
(* Values.                                                                 *)

Terminal == {"Completed", "FailedPermanent", "FailedExhausted"}
Statuses == {"Absent", "Pending", "Claimed"} \cup Terminal

Lease(w, t, n) == [worker |-> w, token |-> t, left |-> n]
Leases == [worker : Nat, token : Nat, left : Nat]
NoLease == Lease(0, 0, 0)

\* The store mutation a job has decided on: the status it leads to, and the
\* delay of a reschedule.
Op(status_, delay) == [to |-> status_, delay |-> delay]
Ops == [to : Terminal \cup {"Pending"}, delay : Nat]
Complete == Op("Completed", 0)
Fail(status_) == Op(status_, 0)
Reschedule(d) == Op("Pending", d)

\* Stages of execute_claimed that await something, in order; "accepted" is
\* "execute" after the remote side took the request, "begun" the instant
\* between the store's begin_attempt and the call of the executor.
Active == {"acquire", "begin", "begun", "execute", "accepted", "ack", "store"}
Job(pc, token, tries, timer, op) ==
  [pc |-> pc, token |-> token, attempt |-> tries, timer |-> timer, op |-> op]
Jobs == [pc : Active \cup {"idle", "done"}, token : Nat, attempt : Nat,
         timer : Nat, op : Ops]
Idle == Job("idle", 0, 0, 0, Complete)
Done == Job("done", 0, 0, 0, Complete)

\* What a job may change on the way: its stage, its mutation, its timer.
At(j, pc) == Job(pc, j.token, j.attempt, j.timer, j.op)
Deciding(j, pc, op) == Job(pc, j.token, j.attempt, j.timer, op)
Timed(j, n) == Job(j.pc, j.token, j.attempt, n, j.op)

\* "failing" is "running" once run_once has a first_error.
Modes == {"polling", "running", "failing", "stopped"}

IsActive(w, k) == job[w][k].pc \in Active
Settled(k) == status[k] \in Terminal

\* Mutant of RenewPeriod: the heartbeat waits for the whole lease.
RenewPeriod_WholeLease == LeaseFor

\* (lease_for / 3).max(1 ms)
RenewPeriod == IF LeaseFor \div 3 > 1 THEN LeaseFor \div 3 ELSE 1

\* transient_backoff: the base doubled attempt - 1 times, capped.
TransientBackoff(a) ==
  LET delay == BackoffBase * 2^(a - 1)
  IN  IF delay \in 0..BackoffMax THEN delay ELSE BackoffMax

\* Mutant of RetryOrFail: the attempt that is about to start counts as spent.
RetryOrFail_CountsNext(k, a, d) ==
  IF a + 1 >= MaxAttempts[k] THEN Fail("FailedExhausted") ELSE Reschedule(d)

\* retry_or_fail: the mutation a failed execution leads to.
RetryOrFail(k, a, d) ==
  IF a >= MaxAttempts[k] THEN Fail("FailedExhausted") ELSE Reschedule(d)

\* Mutant of LeaseIsCurrent: the worker id alone is the fence.
LeaseIsCurrent_WorkerOnly(w, k) ==
  /\ status[k] = "Claimed"
  /\ lease[k].worker = WorkerId[w]
  /\ lease[k].left > 0

\* lease_is_current: fenced by worker and token, alive by the CURRENT expiry.
LeaseIsCurrent(w, k) ==
  /\ status[k] = "Claimed"
  /\ lease[k].worker = WorkerId[w]
  /\ lease[k].token = job[w][k].token
  /\ lease[k].left > 0

-----------------------------------------------------------------------------
Init ==
  /\ status = [k \in Keys |-> "Absent"]
  /\ id = [k \in Keys |-> 0]
  /\ attempt = [k \in Keys |-> 0]
  /\ avail = [k \in Keys |-> 0]
  /\ lease = [k \in Keys |-> NoLease]
  /\ nextToken = 0
  /\ failNext = FALSE
  /\ job = [w \in Workers |-> [k \in Keys |-> Idle]]
  /\ mode = [w \in Workers |-> "polling"]
  /\ shutdown = {}
  /\ faults = 0
  /\ started = [k \in Keys |-> 0]
  /\ accepted = [k \in Keys |-> 0]

-----------------------------------------------------------------------------
(* The store.                                                              *)

\* enqueue: inserts a new key; a known key is deduplicated or a conflict,
\* and either way the stored record stays as it is.
Enqueue(k, delay) ==
  /\ \/ /\ status[k] = "Absent"
        /\ status' = [status EXCEPT ![k] = "Pending"]
        /\ id' = [id EXCEPT ![k] =
                    Cardinality({j \in Keys : status[j] # "Absent"}) + 1]
        /\ avail' = [avail EXCEPT ![k] = delay]
     \/ /\ status[k] # "Absent"
        /\ UNCHANGED <<status, id, avail>>
  /\ UNCHANGED <<attempt, lease, nextToken, failNext, job, mode, shutdown,
                 faults, history>>

\* Mutants of Expired: a lease is taken over in its last tick; never at all.
Expired_LastTick(k) == status[k] = "Claimed" /\ lease[k].left <= 1
Expired_Never(k) == FALSE

\* claim_due, first half: a lease that has run out leaves its record Pending.
Expired(k) == status[k] = "Claimed" /\ lease[k].left = 0

\* The due records, and their order (available_at, id).
Due == {k \in Keys : (status[k] = "Pending" \/ Expired(k)) /\ avail[k] <= 0}
Before(a, b) ==
  \/ avail[a] < avail[b]
  \/ avail[a] = avail[b] /\ id[a] < id[b]

\* Mutant of HasAttempts: off by one.
HasAttempts_OffByOne(k) == attempt[k] <= MaxAttempts[k]

HasAttempts(k) == attempt[k] < MaxAttempts[k]

\* The loop of claim_due stops at max_in_flight claims; a record whose
\* attempts are spent is failed on the way and uses no place in the batch.
Visited == {k \in Due :
  Cardinality({j \in Due : Before(j, k) /\ HasAttempts(j)}) < MaxInFlight}
Claims == {k \in Visited : HasAttempts(k)}

\* Every visited record, claimed or failed, takes the next token.
TokenFor(k) == nextToken + 1 + Cardinality({j \in Due : Before(j, k)})

\* claim_due, second half.
ClaimDue(w) ==
  /\ status' = [k \in Keys |->
       IF k \in Claims THEN "Claimed"
       ELSE IF k \in Visited THEN "FailedExhausted"
       ELSE IF Expired(k) THEN "Pending"
       ELSE status[k]]
  /\ lease' = [k \in Keys |->
       IF k \in Claims THEN Lease(WorkerId[w], TokenFor(k), LeaseFor)
       ELSE IF Expired(k) THEN NoLease
       ELSE lease[k]]
  /\ nextToken' = nextToken + Cardinality(Visited)
  /\ UNCHANGED <<id, attempt, avail, failNext>>

\* renew_lease: the owner and the token stay, the expiry moves.
Renewed(l) == Lease(l.worker, l.token, LeaseFor)

\* The result of a store mutation that found the lease current.
Apply(k, op) ==
  /\ status' = [status EXCEPT ![k] = op.to]
  /\ avail' = [avail EXCEPT ![k] = IF op.to = "Pending" THEN op.delay ELSE @]
  /\ lease' = [lease EXCEPT ![k] = NoLease]
  /\ UNCHANGED <<id, attempt, nextToken>>

-----------------------------------------------------------------------------
(* A claimed record under execute_claimed.                                 *)

\* The future returns; an error is remembered by run_once and the permit, if
\* there is one, is dropped.
Finish(w, k, failed) ==
  /\ job' = [job EXCEPT ![w][k] = Done]
  /\ mode' = [mode EXCEPT ![w] = IF failed THEN "failing" ELSE @]

\* LeaseHeartbeat::drive, the timer's branch: renew, or give up the future.
Renew(w, k) ==
  /\ job[w][k].pc \in Active \ {"begun"}
  /\ job[w][k].timer = 0
  /\ \/ /\ LeaseIsCurrent(w, k)
        /\ lease' = [lease EXCEPT ![k] = Renewed(@)]
        /\ job' = [job EXCEPT ![w][k] = Timed(@, RenewPeriod)]
        /\ UNCHANGED mode
     \/ /\ ~LeaseIsCurrent(w, k)
        /\ Finish(w, k, TRUE)
        /\ UNCHANGED lease
  /\ UNCHANGED <<status, id, attempt, avail, nextToken, failNext, shutdown,
                 faults, history>>

\* The scheduler grants the permit.
AcquireGranted(w, k) ==
  /\ job[w][k].pc = "acquire"
  /\ job' = [job EXCEPT ![w][k] = At(@, "begin")]
  /\ UNCHANGED <<store, mode, shutdown, faults, history>>

\* QueueFull, Closed or Superseded: retry_or_fail with the attempts so far.
AcquireRefused(w, k) ==
  /\ job[w][k].pc = "acquire"
  /\ faults < MaxFaults
  /\ faults' = faults + 1
  /\ job' = [job EXCEPT ![w][k] =
       Deciding(@, "store", RetryOrFail(k, @.attempt, SchedulerRetryDelay))]
  /\ UNCHANGED <<store, mode, shutdown, history>>

\* WeightExceedsWindow or IncompatibleCoalesceMetadata: fail for good.
AcquireRejected(w, k) ==
  /\ job[w][k].pc = "acquire"
  /\ job' = [job EXCEPT ![w][k] = Deciding(@, "store", Fail("FailedPermanent"))]
  /\ UNCHANGED <<store, mode, shutdown, faults, history>>

\* Mutant of BeginAttempt: the attempt is counted without a lease check.
BeginAttempt_Unfenced(w, k) ==
  /\ job[w][k].pc = "begin"
  /\ HasAttempts(k)
  /\ attempt' = [attempt EXCEPT ![k] = @ + 1]
  /\ job' = [job EXCEPT ![w][k] =
       Job("begun", @.token, attempt[k] + 1, @.timer, @.op)]
  /\ UNCHANGED <<status, id, avail, lease, nextToken, failNext, mode,
                 shutdown, faults, history>>

\* begin_attempt: counts the attempt under a current lease.
BeginAttempt(w, k) ==
  /\ job[w][k].pc = "begin"
  /\ \/ /\ LeaseIsCurrent(w, k)
        /\ attempt' = [attempt EXCEPT ![k] = IF HasAttempts(k) THEN @ + 1 ELSE @]
        /\ job' = [job EXCEPT ![w][k] =
             IF HasAttempts(k)
             THEN Job("begun", @.token, attempt[k] + 1, @.timer, @.op)
             ELSE Deciding(@, "ack", Fail("FailedExhausted"))]
        /\ UNCHANGED mode
     \/ /\ ~LeaseIsCurrent(w, k)
        /\ Finish(w, k, TRUE)
        /\ UNCHANGED attempt
  /\ UNCHANGED <<status, id, avail, lease, nextToken, failNext, shutdown,
                 faults, history>>

\* permit.start() and the call of the executor.
Invoke(w, k) ==
  /\ job[w][k].pc = "begun"
  /\ job' = [job EXCEPT ![w][k] = At(@, "execute")]
  /\ started' = [started EXCEPT ![k] = @ + 1]
  /\ UNCHANGED <<store, mode, shutdown, faults, accepted>>

\* The remote side accepts the request; the executor does not know it yet.
RemoteAccepts(w, k) ==
  /\ job[w][k].pc = "execute"
  /\ job' = [job EXCEPT ![w][k] = At(@, "accepted")]
  /\ accepted' = [accepted EXCEPT ![k] = @ + 1]
  /\ UNCHANGED <<store, mode, shutdown, faults, started>>

\* Mutant of Results: a transient error is taken for a success.
Results_TransientIsOk(w, k) ==
  {Complete, RetryOrFail(k, job[w][k].attempt, RetryAfterDelay), Fail("FailedPermanent")}

\* The executor's results.  A transient error may hide an accepted request.
Results(w, k) ==
  LET a == job[w][k].attempt
      transient == RetryOrFail(k, a, TransientBackoff(a))
  IN  IF job[w][k].pc = "accepted"
      THEN {Complete, transient}
      ELSE {transient, RetryOrFail(k, a, RetryAfterDelay), Fail("FailedPermanent")}

ExecutorReturns(w, k) ==
  /\ job[w][k].pc \in {"execute", "accepted"}
  /\ \E op \in Results(w, k) :
       job' = [job EXCEPT ![w][k] = Deciding(@, "ack", op)]
  /\ UNCHANGED <<store, mode, shutdown, faults, history>>

\* complete_and_await: the scheduler has retired the permit.
PermitRetired(w, k) ==
  /\ job[w][k].pc = "ack"
  /\ job' = [job EXCEPT ![w][k] = At(@, "store")]
  /\ UNCHANGED <<store, mode, shutdown, faults, history>>

\* complete, fail or reschedule.  An injected failure precedes the lease check.
StoreMutation(w, k) ==
  LET op == job[w][k].op
      injected == failNext /\ op.to = "Completed"
  IN  /\ job[w][k].pc = "store"
      /\ failNext' = IF injected THEN FALSE ELSE failNext
      /\ \/ /\ ~injected /\ LeaseIsCurrent(w, k)
            /\ Apply(k, op)
            /\ Finish(w, k, FALSE)
         \/ /\ injected \/ ~LeaseIsCurrent(w, k)
            /\ Finish(w, k, TRUE)
            /\ UNCHANGED <<status, id, attempt, avail, lease, nextToken>>
      /\ UNCHANGED <<shutdown, faults, history>>

-----------------------------------------------------------------------------
(* run_until: poll, run the batch to its end, poll again.                  *)

\* run_once up to the claims: one execute_claimed future per claimed record.
Poll(w) ==
  /\ mode[w] = "polling"
  /\ w \notin shutdown
  /\ nextToken + Cardinality(Visited) <= MaxToken
  /\ ClaimDue(w)
  /\ job' = [job EXCEPT ![w] = [k \in Keys |->
       IF k \in Claims
       THEN Job("acquire", TokenFor(k), attempt[k], RenewPeriod, Complete)
       ELSE Idle]]
  /\ mode' = [mode EXCEPT ![w] = IF Claims = {} THEN @ ELSE "running"]
  /\ UNCHANGED <<shutdown, faults, history>>

\* Mutant of BatchDone: the first error returns from run_once.
BatchDone_FirstError(w) == mode[w] = "failing" \/ \A k \in Keys : ~IsActive(w, k)

BatchDone(w) == \A k \in Keys : ~IsActive(w, k)

\* Every future of the batch has returned; the first error ends run_until.
BatchEnds(w) ==
  /\ mode[w] \in {"running", "failing"}
  /\ BatchDone(w)
  /\ job' = [job EXCEPT ![w] = [k \in Keys |-> Idle]]
  /\ mode' = [mode EXCEPT ![w] = IF @ = "failing" THEN "stopped" ELSE "polling"]
  /\ UNCHANGED <<store, shutdown, faults, history>>

SeesShutdown(w) == mode[w] = "polling" /\ w \in shutdown

\* The biased select of run_until sees the shutdown future first.
Stop(w) ==
  /\ SeesShutdown(w)
  /\ mode' = [mode EXCEPT ![w] = "stopped"]
  /\ UNCHANGED <<store, job, shutdown, faults, history>>

-----------------------------------------------------------------------------
(* The environment.                                                        *)

RequestShutdown(w) ==
  /\ w \in Stoppable
  /\ shutdown' = shutdown \cup {w}
  /\ UNCHANGED <<store, job, mode, faults, history>>

\* The process dies: its futures vanish, the store keeps what it has.
Crash(w) ==
  /\ faults < MaxFaults
  /\ faults' = faults + 1
  /\ mode[w] # "stopped"
  /\ job' = [job EXCEPT ![w] = [k \in Keys |-> Idle]]
  /\ mode' = [mode EXCEPT ![w] = "stopped"]
  /\ UNCHANGED <<store, shutdown, history>>

\* The application runs the outbox again after a crash or an error.
Restart(w) ==
  /\ mode[w] = "stopped"
  /\ w \notin shutdown
  /\ mode' = [mode EXCEPT ![w] = "polling"]
  /\ UNCHANGED <<store, job, shutdown, faults, history>>

\* fail_next_complete: the database loses the next completion.
InjectFailure ==
  /\ ~failNext
  /\ faults < MaxFaults
  /\ faults' = faults + 1
  /\ failNext' = TRUE
  /\ UNCHANGED <<status, id, attempt, avail, lease, nextToken, job, mode,
                 shutdown, history>>

\* Mutant of Elapse: time left is a signed difference.
Elapse_Signed(n) == n - 1

Older(n) == IF n > -MaxAge THEN n - 1 ELSE n
Elapse(n) == IF n > 0 THEN n - 1 ELSE 0

\* A heartbeat that is due may wait only where workers are not punctual (a
\* suspended process, a blocked thread).
Tick ==
  /\ Punctual => \A w \in Workers, k \in Keys :
                   IsActive(w, k) => job[w][k].timer > 0
  /\ avail' = [k \in Keys |-> IF status[k] \in {"Pending", "Claimed"}
                              THEN Older(avail[k]) ELSE avail[k]]
  /\ lease' = [k \in Keys |->
       Lease(lease[k].worker, lease[k].token, Elapse(lease[k].left))]
  /\ job' = [w \in Workers |-> [k \in Keys |->
       Timed(job[w][k], Elapse(job[w][k].timer))]]
  /\ UNCHANGED <<status, id, attempt, nextToken, failNext, mode, shutdown,
                 faults, history>>

-----------------------------------------------------------------------------
Work(w, k) ==
  \/ AcquireGranted(w, k)
  \/ AcquireRefused(w, k)
  \/ AcquireRejected(w, k)
  \/ BeginAttempt(w, k)
  \/ Invoke(w, k)
  \/ RemoteAccepts(w, k)
  \/ ExecutorReturns(w, k)
  \/ PermitRetired(w, k)
  \/ StoreMutation(w, k)

Next ==
  \/ \E k \in Keys, d \in EnqueueDelays : Enqueue(k, d)
  \/ \E w \in Workers, k \in Keys : Renew(w, k) \/ Work(w, k)
  \/ \E w \in Workers : Poll(w) \/ BatchEnds(w) \/ Stop(w)
  \/ \E w \in Workers : RequestShutdown(w) \/ Crash(w) \/ Restart(w)
  \/ InjectFailure
  \/ Tick

Spec == Init /\ [][Next]_vars

\* The runtime polls every future whose wake-up has come, the executor and the
\* scheduler answer, the application restarts a worker that has ended, and
\* time passes.  Nothing obliges the environment to fail or to stop.
Fairness ==
  /\ \A w \in Workers, k \in Keys : WF_vars(Work(w, k)) /\ WF_vars(Renew(w, k))
  /\ \A w \in Workers : /\ WF_vars(Poll(w)) /\ WF_vars(BatchEnds(w))
                       /\ WF_vars(Stop(w)) /\ WF_vars(Restart(w))
  /\ WF_vars(Tick)

FairSpec == Spec /\ Fairness

-----------------------------------------------------------------------------
(* Properties.                                                             *)

\* Every variable has its type: times, tokens and counters never go negative,
\* and a future carries a stage and a mutation that execute_claimed knows.
TypeOK ==
  /\ status \in [Keys -> Statuses]
  /\ id \in [Keys -> Nat]
  /\ attempt \in [Keys -> Nat]
  /\ avail \in [Keys -> Int]
  /\ lease \in [Keys -> Leases]
  /\ nextToken \in Nat
  /\ failNext \in BOOLEAN
  /\ job \in [Workers -> [Keys -> Jobs]]
  /\ mode \in [Workers -> Modes]
  /\ shutdown \subseteq Workers
  /\ faults \in Nat
  /\ started \in [Keys -> Nat]
  /\ accepted \in [Keys -> Nat]

\* No record is executed more often than max_attempts allows, whatever
\* crashes, reclaims and stalled workers there are: every invocation of the
\* executor was counted by begin_attempt first.
ExecutionsBounded ==
  \A k \in Keys : started[k] <= attempt[k] /\ attempt[k] <= MaxAttempts[k]

\* A record ends as exhausted only when every attempt has been spent: refused
\* acquires and leases lost before begin_attempt are free.
ExhaustedMeansSpent ==
  \A k \in Keys : status[k] = "FailedExhausted" => attempt[k] = MaxAttempts[k]

\* A record is marked completed only after the remote side took the request.
CompletedMeansAccepted ==
  \A k \in Keys : status[k] = "Completed" => accepted[k] > 0

\* Fencing: at most one future can still change a record, also when worker
\* processes share the default worker id.
OneHolder ==
  \A k \in Keys, w1, w2 \in Workers :
    /\ IsActive(w1, k) /\ LeaseIsCurrent(w1, k)
    /\ IsActive(w2, k) /\ LeaseIsCurrent(w2, k)
    => w1 = w2

\* As long as heartbeats are served on time, every future under way holds the
\* current lease of its record, however long the scheduler and the executor
\* take: no store mutation is fenced off, and with OneHolder no second worker
\* is ever active on the record.
HeartbeatKeepsLease ==
  \A w \in Workers, k \in Keys : IsActive(w, k) => LeaseIsCurrent(w, k)

\* A live lease protects its holder: while the future that holds it goes on,
\* no step of another worker takes the record away or changes its outcome.
LeaseProtects ==
  [][\A w \in Workers, k \in Keys :
       /\ IsActive(w, k) /\ LeaseIsCurrent(w, k)
       /\ IsActive(w, k)' /\ job'[w][k].token = job[w][k].token
       => /\ status'[k] = "Claimed"
          /\ lease'[k].token = lease[k].token]_vars

\* A store error in one future of a batch cancels none of its siblings, and
\* shutdown lets the batch finish: only a crash drops a future under way.
OnlyCrashesAbandon ==
  [][\A w \in Workers, k \in Keys :
       IsActive(w, k) /\ job'[w][k].pc = "idle" => faults' = faults + 1]_vars

\* Every record that was enqueued is completed or failed in the end, across
\* refused acquires, crashes between any two steps and lost completions, unless
\* every worker is told to stop.  (A settled record stays so: it is enough that
\* again and again nothing is left open.)
EverythingSettles ==
  []<>((\A k \in Keys : status[k] = "Absent" \/ Settled(k)) \/ Workers \subseteq shutdown)
-----------------------------------------------------------------------------
(* The outbox implements at-least-once delivery with bounded attempts.     *)

Outcome(s) ==
  CASE s = "Absent" -> "absent"
    [] s \in {"Pending", "Claimed"} -> "open"
    [] s = "Completed" -> "delivered"
    [] s = "FailedPermanent" -> "rejected"
    [] s = "FailedExhausted" -> "exhausted"

Delivery == INSTANCE OutboxDelivery WITH
  outcome <- [k \in Keys |-> Outcome(status[k])],
  tries <- attempt,
  effects <- accepted

\* Delivery is at least once: attempts are bounded, each takes effect at most
\* once, only an accepted record is completed, only a record without attempts
\* left is exhausted, and a settled record never changes again.
ImplementsDelivery == Delivery!Spec
=============================================================================
