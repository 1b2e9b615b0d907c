---------------------------- MODULE OutboxProofs ----------------------------
(* Theorems about Outbox, for every value of its constants. *)
EXTENDS Outbox, FiniteSetTheorems, TLAPS

LEMMA RenewPeriodType == RenewPeriod \in Nat \ {0}
  BY OutboxAssumption DEF RenewPeriod

LEMMA TransientBackoffType == ASSUME NEW a PROVE TransientBackoff(a) \in Nat
  BY OutboxAssumption DEF TransientBackoff

LEMMA RetryOrFailType ==
  ASSUME NEW k, NEW a, NEW d \in Nat
  PROVE  RetryOrFail(k, a, d) \in Ops
  BY DEF RetryOrFail, Ops, Op, Fail, Reschedule, Terminal

LEMMA ConstantOps ==
  /\ Complete \in Ops
  /\ Fail("FailedPermanent") \in Ops
  /\ Fail("FailedExhausted") \in Ops
  BY DEF Complete, Fail, Op, Ops, Terminal

LEMMA JobType ==
  ASSUME NEW pc \in Active \cup {"idle", "done"}, NEW t \in Nat, NEW a \in Nat,
         NEW n \in Nat, NEW op \in Ops
  PROVE  /\ Job(pc, t, a, n, op) \in Jobs
         /\ Job(pc, t, a, n, op).pc = pc
         /\ Job(pc, t, a, n, op).token = t
         /\ Job(pc, t, a, n, op).attempt = a
         /\ Job(pc, t, a, n, op).timer = n
         /\ Job(pc, t, a, n, op).op = op
  BY DEF Job, Jobs

LEMMA AtType == \A j \in Jobs, pc \in Active : At(j, pc) \in Jobs
  BY DEF At, Job, Jobs

LEMMA DecidingType ==
  \A j \in Jobs, pc \in Active, op \in Ops : Deciding(j, pc, op) \in Jobs
  BY DEF Deciding, Job, Jobs

LEMMA TimedType == \A j \in Jobs, n \in Nat : Timed(j, n) \in Jobs
  BY DEF Timed, Job, Jobs

LEMMA AtFields ==
  ASSUME NEW j, NEW pc
  PROVE  /\ At(j, pc).pc = pc /\ At(j, pc).token = j.token
         /\ At(j, pc).attempt = j.attempt /\ At(j, pc).op = j.op
  BY DEF At, Job

LEMMA DecidingFields ==
  ASSUME NEW j, NEW pc, NEW op
  PROVE  /\ Deciding(j, pc, op).pc = pc /\ Deciding(j, pc, op).token = j.token
         /\ Deciding(j, pc, op).attempt = j.attempt /\ Deciding(j, pc, op).op = op
  BY DEF Deciding, Job

LEMMA TimedFields ==
  ASSUME NEW j, NEW n
  PROVE  /\ Timed(j, n).pc = j.pc /\ Timed(j, n).token = j.token
         /\ Timed(j, n).attempt = j.attempt /\ Timed(j, n).op = j.op
  BY DEF Timed, Job

LEMMA Inactive == Idle.pc \notin Active /\ Done.pc \notin Active
  BY DEF Idle, Done, Job, Active

LEMMA IdleTypes == Idle \in Jobs /\ Done \in Jobs
  BY ConstantOps, JobType DEF Idle, Done

-----------------------------------------------------------------------------
LEMMA InitType == Init => TypeOK
<1> SUFFICES ASSUME Init PROVE TypeOK
  OBVIOUS
<1>1. failNext \in BOOLEAN
  BY DEF Init
<1>. QED BY <1>1, IdleTypes DEF Init, TypeOK, Lease, NoLease, Leases, Statuses, Modes

LEMMA FinishType ==
  ASSUME TypeOK, NEW w \in Workers, NEW k \in Keys, NEW failed \in BOOLEAN,
         Finish(w, k, failed)
  PROVE  /\ job' \in [Workers -> [Keys -> Jobs]]
         /\ mode' \in [Workers -> Modes]
  BY IdleTypes DEF TypeOK, Finish, Modes

LEMMA WorkType ==
  ASSUME TypeOK, NEW w \in Workers, NEW k \in Keys, Work(w, k)
  PROVE  TypeOK'
<1>0. job[w][k] \in Jobs
  BY DEF TypeOK
<1>1. CASE AcquireGranted(w, k)
  BY <1>0, <1>1, AtType, DecidingType DEF TypeOK, AcquireGranted, store, history, Active
<1>2. CASE AcquireRefused(w, k)
  <2>1. RetryOrFail(k, job[w][k].attempt, SchedulerRetryDelay) \in Ops
    BY RetryOrFailType, OutboxAssumption
  <2>. QED BY <1>0, <1>2, <2>1, AtType, DecidingType DEF TypeOK, AcquireRefused, store, history, Active
<1>3. CASE AcquireRejected(w, k)
  BY <1>0, <1>3, ConstantOps, AtType, DecidingType DEF TypeOK, AcquireRejected, store, history, Active
<1>4. CASE BeginAttempt(w, k)
  <2>1. CASE LeaseIsCurrent(w, k)
    <3>1. Job("begun", job[w][k].token, attempt[k] + 1, job[w][k].timer, job[w][k].op) \in Jobs
      BY <1>0, JobType DEF TypeOK, Active, Jobs
    <3>2. Deciding(job[w][k], "ack", Fail("FailedExhausted")) \in Jobs
      BY <1>0, ConstantOps, DecidingType DEF Active
    <3>. QED BY <1>4, <2>1, <3>1, <3>2 DEF TypeOK, BeginAttempt, history
  <2>2. CASE ~LeaseIsCurrent(w, k)
    BY <1>4, <2>2, FinishType DEF TypeOK, BeginAttempt, history
  <2>. QED BY <2>1, <2>2
<1>5. CASE Invoke(w, k)
  BY <1>0, <1>5, AtType, DecidingType DEF TypeOK, Invoke, store, history, Active
<1>6. CASE RemoteAccepts(w, k)
  BY <1>0, <1>6, AtType, DecidingType DEF TypeOK, RemoteAccepts, store, history, Active
<1>7. CASE ExecutorReturns(w, k)
  <2>1. Results(w, k) \subseteq Ops
    BY RetryOrFailType, TransientBackoffType, ConstantOps, OutboxAssumption DEF Results
  <2>. QED BY <1>0, <1>7, <2>1, AtType, DecidingType DEF TypeOK, ExecutorReturns, store, history, Active
<1>8. CASE PermitRetired(w, k)
  BY <1>0, <1>8, AtType, DecidingType DEF TypeOK, PermitRetired, store, history, Active
<1>9. CASE StoreMutation(w, k)
  <2>1. job[w][k].op \in Ops
    BY <1>0 DEF Jobs
  <2>4. failNext' \in BOOLEAN
    BY <1>9 DEF StoreMutation, TypeOK
  <2>2. CASE Apply(k, job[w][k].op) /\ Finish(w, k, FALSE)
    <3>1. status' \in [Keys -> Statuses]
      BY <2>1, <2>2 DEF Apply, Ops, TypeOK, Statuses
    <3>2. avail' \in [Keys -> Int] /\ lease' \in [Keys -> Leases]
      BY <2>1, <2>2 DEF Apply, Ops, TypeOK, NoLease, Lease, Leases
    <3>3. UNCHANGED <<id, attempt, nextToken, shutdown, faults, history>>
      BY <1>9, <2>2 DEF StoreMutation, Apply
    <3>. QED BY <2>2, <2>4, <3>1, <3>2, <3>3, FinishType DEF TypeOK, history
  <2>3. CASE Finish(w, k, TRUE) /\ UNCHANGED <<status, id, attempt, avail, lease, nextToken>>
    BY <1>9, <2>3, <2>4, FinishType DEF TypeOK, StoreMutation, history
  <2>. QED BY <1>9, <2>2, <2>3 DEF StoreMutation
<1>. QED BY <1>1, <1>2, <1>3, <1>4, <1>5, <1>6, <1>7, <1>8, <1>9 DEF Work

LEMMA VisitedFinite ==
  /\ IsFiniteSet(Visited) /\ Cardinality(Visited) \in Nat
  /\ \A k : IsFiniteSet({j \in Due : Before(j, k)})
  /\ \A k : Cardinality({j \in Due : Before(j, k)}) \in Nat
<1>1. Visited \subseteq Keys /\ \A k : {j \in Due : Before(j, k)} \subseteq Keys
  BY DEF Visited, Due
<1>. QED BY <1>1, OutboxAssumption, FS_Subset, FS_CardinalityType

LEMMA TokenForType ==
  ASSUME TypeOK, NEW k
  PROVE  TokenFor(k) \in Nat /\ TokenFor(k) > nextToken
<1>1. Cardinality({j \in Due : Before(j, k)}) \in Nat
  BY VisitedFinite
<1>. QED BY <1>1 DEF TokenFor, TypeOK

LEMMA PollType ==
  ASSUME TypeOK, NEW w \in Workers, Poll(w)
  PROVE  TypeOK'
<1>1. status' \in [Keys -> Statuses]
  BY DEF Poll, ClaimDue, TypeOK, Statuses, Terminal
<1>2. lease' \in [Keys -> Leases]
  BY TokenForType, OutboxAssumption DEF Poll, ClaimDue, TypeOK, Leases, Lease, NoLease
<1>3. nextToken' \in Nat
  BY VisitedFinite DEF Poll, ClaimDue, TypeOK
<1>4. job' \in [Workers -> [Keys -> Jobs]]
  <2>1. \A k \in Keys : Job("acquire", TokenFor(k), attempt[k], RenewPeriod, Complete) \in Jobs
    BY TokenForType, RenewPeriodType, ConstantOps, JobType DEF TypeOK, Active
  <2>. QED BY <2>1, IdleTypes DEF Poll, TypeOK
<1>5. mode' \in [Workers -> Modes]
  BY DEF Poll, TypeOK, Modes
<1>. QED BY <1>1, <1>2, <1>3, <1>4, <1>5 DEF Poll, ClaimDue, TypeOK, history

LEMMA TickType == TypeOK /\ Tick => TypeOK'
<1> SUFFICES ASSUME TypeOK, Tick PROVE TypeOK'
  OBVIOUS
<1>1. \A n \in Int : Older(n) \in Int
  BY OutboxAssumption DEF Older
<1>2. \A n \in Nat : Elapse(n) \in Nat
  BY DEF Elapse
<1>3. avail' \in [Keys -> Int]
  BY <1>1 DEF Tick, TypeOK
<1>4. lease' \in [Keys -> Leases]
  BY <1>2 DEF Tick, TypeOK, Lease, Leases
<1>5. job' \in [Workers -> [Keys -> Jobs]]
  <2>1. \A w \in Workers, k \in Keys : Timed(job[w][k], Elapse(job[w][k].timer)) \in Jobs
    BY <1>2 DEF TypeOK, Timed, Job, Jobs
  <2>. QED BY <2>1 DEF Tick, TypeOK
<1>. QED BY <1>3, <1>4, <1>5 DEF Tick, TypeOK, history

LEMMA RenewType ==
  ASSUME TypeOK, NEW w \in Workers, NEW k \in Keys, Renew(w, k)
  PROVE  TypeOK'
<1>1. CASE LeaseIsCurrent(w, k)
  <2>1. Timed(job[w][k], RenewPeriod) \in Jobs
    BY RenewPeriodType DEF TypeOK, Timed, Job, Jobs
  <2>2. Renewed(lease[k]) \in Leases
    BY OutboxAssumption DEF TypeOK, Renewed, Lease, Leases
  <2>3. /\ lease' = [lease EXCEPT ![k] = Renewed(lease[k])]
        /\ job' = [job EXCEPT ![w][k] = Timed(job[w][k], RenewPeriod)]
        /\ UNCHANGED <<status, id, attempt, avail, nextToken, failNext, mode,
                       shutdown, faults, history>>
    BY <1>1 DEF Renew
  <2>. QED BY <2>1, <2>2, <2>3 DEF TypeOK, history
<1>2. CASE ~LeaseIsCurrent(w, k)
  BY <1>2, FinishType DEF Renew, TypeOK, history
<1>. QED BY <1>1, <1>2

LEMMA NextType == TypeOK /\ [Next]_vars => TypeOK'
<1> SUFFICES ASSUME TypeOK, [Next]_vars PROVE TypeOK'
  OBVIOUS
<1>1. ASSUME NEW k \in Keys, NEW d \in EnqueueDelays, Enqueue(k, d) PROVE TypeOK'
  <2>1. Cardinality({j \in Keys : status[j] # "Absent"}) \in Nat
    BY OutboxAssumption, FS_Subset, FS_CardinalityType
  <2>. QED BY <1>1, <2>1, OutboxAssumption DEF Enqueue, TypeOK, Statuses, history
<1>2. ASSUME NEW w \in Workers, BatchEnds(w) PROVE TypeOK'
  BY <1>2, IdleTypes DEF BatchEnds, Modes, TypeOK, store, history
<1>3. ASSUME NEW w \in Workers, Stop(w) PROVE TypeOK'
  BY <1>3 DEF Stop, Modes, TypeOK, store, history
<1>4. ASSUME NEW w \in Workers, RequestShutdown(w) PROVE TypeOK'
  BY <1>4 DEF RequestShutdown, TypeOK, store, history
<1>5. ASSUME NEW w \in Workers, Crash(w) PROVE TypeOK'
  BY <1>5, IdleTypes DEF Crash, Modes, TypeOK, store, history
<1>6. ASSUME NEW w \in Workers, Restart(w) PROVE TypeOK'
  BY <1>6 DEF Restart, Modes, TypeOK, store, history
<1>7. CASE InjectFailure
  <2>1. failNext' \in BOOLEAN
    BY <1>7 DEF InjectFailure
  <2>. QED BY <1>7, <2>1 DEF InjectFailure, TypeOK, history
<1>8. CASE UNCHANGED vars
  BY <1>8 DEF vars, TypeOK
<1>. QED BY <1>1, <1>2, <1>3, <1>4, <1>5, <1>6, <1>7, <1>8,
            WorkType, RenewType, PollType, TickType DEF Next

\* Every reachable state is well typed: the store never mints a token, an
\* attempt count or a lease outside its type, for any workers and bounds.
THEOREM TypeCorrect == Spec => []TypeOK
  BY InitType, NextType, PTL DEF Spec

-----------------------------------------------------------------------------
(* The inductive invariant.  Tokens fence because every claim takes one    *)
(* above all earlier ones; attempts bound executions because a job between *)
(* begin_attempt and its effect accounts for the difference; and a decided *)
(* mutation stays justified because attempts and effects only grow.        *)

TokenInv ==
  /\ \A k \in Keys : lease[k].token <= nextToken
  /\ \A w \in Workers, k \in Keys : IsActive(w, k) => job[w][k].token <= nextToken
  /\ \A k \in Keys, w1, w2 \in Workers :
       IsActive(w1, k) /\ IsActive(w2, k) /\ job[w1][k].token = job[w2][k].token
       => w1 = w2

Begun(k) == {w \in Workers : job[w][k].pc = "begun"}
Flying(k) == {w \in Workers : job[w][k].pc \in {"begun", "execute"}}

CountInv ==
  \A k \in Keys : /\ started[k] + Cardinality(Begun(k)) <= attempt[k]
                  /\ accepted[k] + Cardinality(Flying(k)) <= attempt[k]
                  /\ attempt[k] <= MaxAttempts[k]

Justified(k, s) ==
  /\ s = "Completed" => accepted[k] > 0
  /\ s = "FailedExhausted" => attempt[k] = MaxAttempts[k]

DecidedInv ==
  \A w \in Workers, k \in Keys : IsActive(w, k) =>
    /\ job[w][k].attempt <= attempt[k]
    /\ job[w][k].pc = "accepted" => accepted[k] > 0
    /\ job[w][k].pc \in {"ack", "store"} => Justified(k, job[w][k].op.to)

SettledInv == \A k \in Keys : Justified(k, status[k])

IInv == TypeOK /\ TokenInv /\ CountInv /\ DecidedInv /\ SettledInv

-----------------------------------------------------------------------------
(* What a step does to the jobs.                                           *)

\* Only the job of w for k may change.
Local(w, k) ==
  \A v \in Workers, i \in Keys : v # w \/ i # k => job'[v][i] = job[v][i]

LEMMA JobUpdate ==
  ASSUME TypeOK, NEW w \in Workers, NEW k \in Keys, NEW j,
         job' = [job EXCEPT ![w][k] = j]
  PROVE  job'[w][k] = j /\ Local(w, k)
  BY DEF TypeOK, Local

LEMMA FinishJob ==
  ASSUME TypeOK, NEW w \in Workers, NEW k \in Keys, NEW failed,
         Finish(w, k, failed)
  PROVE  job'[w][k] = Done /\ Local(w, k)
  BY JobUpdate DEF Finish

\* One step of a future, stage by stage: it counts an attempt, calls the
\* executor, has the request accepted, decides, or just goes on.
Counts(w, k) ==
  /\ job[w][k].pc = "begin" /\ HasAttempts(k)
  /\ job'[w][k] = Job("begun", job[w][k].token, attempt[k] + 1, job[w][k].timer, job[w][k].op)
  /\ attempt' = [attempt EXCEPT ![k] = @ + 1]
  /\ UNCHANGED <<started, accepted>>

Calls(w, k) ==
  /\ job[w][k].pc = "begun" /\ job'[w][k] = At(job[w][k], "execute")
  /\ started' = [started EXCEPT ![k] = @ + 1]
  /\ UNCHANGED <<attempt, accepted>>

IsAccepted(w, k) ==
  /\ job[w][k].pc = "execute" /\ job'[w][k] = At(job[w][k], "accepted")
  /\ accepted' = [accepted EXCEPT ![k] = @ + 1]
  /\ UNCHANGED <<attempt, started>>

Decides(w, k) ==
  LET j == job[w][k]
  IN  /\ \/ /\ j.pc = "acquire"
            /\ \/ job'[w][k] = Deciding(j, "store", RetryOrFail(k, j.attempt, SchedulerRetryDelay))
               \/ job'[w][k] = Deciding(j, "store", Fail("FailedPermanent"))
         \/ /\ j.pc = "begin" /\ ~HasAttempts(k)
            /\ job'[w][k] = Deciding(j, "ack", Fail("FailedExhausted"))
         \/ /\ j.pc \in {"execute", "accepted"}
            /\ \E op \in Results(w, k) : job'[w][k] = Deciding(j, "ack", op)
      /\ UNCHANGED <<attempt, started, accepted>>

GoesOn(w, k) ==
  LET j == job[w][k]
  IN  /\ \/ j.pc = "acquire" /\ job'[w][k] = At(j, "begin")
         \/ j.pc = "ack" /\ job'[w][k] = At(j, "store")
         \/ j.pc \in Active /\ \E n \in Nat : job'[w][k] = Timed(j, n)
         \/ j.pc \in Active /\ job'[w][k] = Done
      /\ UNCHANGED <<attempt, started, accepted>>

Moves(w, k) ==
  Counts(w, k) \/ Calls(w, k) \/ IsAccepted(w, k) \/ Decides(w, k) \/ GoesOn(w, k)

LEMMA FutureMoves ==
  ASSUME TypeOK, NEW w \in Workers, NEW k \in Keys, Work(w, k) \/ Renew(w, k)
  PROVE  Moves(w, k) /\ Local(w, k)
<1>1. CASE AcquireGranted(w, k)
  <2>1. /\ job[w][k].pc = "acquire"
        /\ job' = [job EXCEPT ![w][k] = At(job[w][k], "begin")]
        /\ UNCHANGED <<attempt, started, accepted>>
    BY <1>1 DEF AcquireGranted, store, history
  <2>2. job'[w][k] = At(job[w][k], "begin") /\ Local(w, k)
    BY <2>1, JobUpdate
  <2>. QED BY <2>1, <2>2 DEF Moves, GoesOn
<1>2. CASE AcquireRefused(w, k)
  <2>. DEFINE op == RetryOrFail(k, job[w][k].attempt, SchedulerRetryDelay)
  <2>1. /\ job[w][k].pc = "acquire"
        /\ job' = [job EXCEPT ![w][k] = Deciding(job[w][k], "store", op)]
        /\ UNCHANGED <<attempt, started, accepted>>
    BY <1>2 DEF AcquireRefused, store, history
  <2>2. job'[w][k] = Deciding(job[w][k], "store", op) /\ Local(w, k)
    BY <2>1, JobUpdate
  <2>. QED BY <2>1, <2>2 DEF Moves, Decides
<1>3. CASE AcquireRejected(w, k)
  <2>. DEFINE op == Fail("FailedPermanent")
  <2>1. /\ job[w][k].pc = "acquire"
        /\ job' = [job EXCEPT ![w][k] = Deciding(job[w][k], "store", op)]
        /\ UNCHANGED <<attempt, started, accepted>>
    BY <1>3 DEF AcquireRejected, store, history
  <2>2. job'[w][k] = Deciding(job[w][k], "store", op) /\ Local(w, k)
    BY <2>1, JobUpdate
  <2>. QED BY <2>1, <2>2 DEF Moves, Decides
<1>4. CASE BeginAttempt(w, k)
  <2>1. CASE LeaseIsCurrent(w, k) /\ HasAttempts(k)
    <3>. DEFINE j == Job("begun", job[w][k].token, attempt[k] + 1, job[w][k].timer, job[w][k].op)
    <3>1. /\ job[w][k].pc = "begin"
          /\ attempt' = [attempt EXCEPT ![k] = @ + 1]
          /\ UNCHANGED <<started, accepted>>
      BY <1>4, <2>1 DEF BeginAttempt, history
    <3>3. job' = [job EXCEPT ![w][k] = j]
      BY <1>4, <2>1 DEF BeginAttempt
    <3>. HIDE DEF j
    <3>2. job'[w][k] = j /\ Local(w, k)
      BY <3>3, JobUpdate
    <3>. USE DEF j
    <3>. QED BY <2>1, <3>1, <3>2 DEF Moves, Counts
  <2>2. CASE LeaseIsCurrent(w, k) /\ ~HasAttempts(k)
    <3>1. /\ job[w][k].pc = "begin"
          /\ attempt' = [attempt EXCEPT ![k] = @]
          /\ UNCHANGED <<started, accepted>>
      BY <1>4, <2>2 DEF BeginAttempt, history
    <3>2. attempt' = attempt
      BY <3>1 DEF TypeOK
    <3>. DEFINE j == Deciding(job[w][k], "ack", Fail("FailedExhausted"))
    <3>4. job' = [job EXCEPT ![w][k] = j]
      BY <1>4, <2>2 DEF BeginAttempt
    <3>. HIDE DEF j
    <3>3. job'[w][k] = j /\ Local(w, k)
      BY <3>4, JobUpdate
    <3>. USE DEF j
    <3>. QED BY <2>2, <3>1, <3>2, <3>3 DEF Moves, Decides
  <2>3. CASE ~LeaseIsCurrent(w, k)
    BY <1>4, <2>3, FinishJob DEF BeginAttempt, history, Moves, GoesOn, Active
  <2>. QED BY <2>1, <2>2, <2>3
<1>5. CASE Invoke(w, k)
  <2>1. /\ job[w][k].pc = "begun"
        /\ job' = [job EXCEPT ![w][k] = At(job[w][k], "execute")]
        /\ started' = [started EXCEPT ![k] = @ + 1]
        /\ UNCHANGED <<attempt, accepted>>
    BY <1>5 DEF Invoke, store
  <2>2. job'[w][k] = At(job[w][k], "execute") /\ Local(w, k)
    BY <2>1, JobUpdate
  <2>. QED BY <2>1, <2>2 DEF Moves, Calls
<1>6. CASE RemoteAccepts(w, k)
  <2>1. /\ job[w][k].pc = "execute"
        /\ job' = [job EXCEPT ![w][k] = At(job[w][k], "accepted")]
        /\ accepted' = [accepted EXCEPT ![k] = @ + 1]
        /\ UNCHANGED <<attempt, started>>
    BY <1>6 DEF RemoteAccepts, store
  <2>2. job'[w][k] = At(job[w][k], "accepted") /\ Local(w, k)
    BY <2>1, JobUpdate
  <2>. QED BY <2>1, <2>2 DEF Moves, IsAccepted
<1>7. CASE ExecutorReturns(w, k)
  <2>1. PICK op \in Results(w, k) :
          job' = [job EXCEPT ![w][k] = Deciding(job[w][k], "ack", op)]
    BY <1>7 DEF ExecutorReturns
  <2>2. job'[w][k] = Deciding(job[w][k], "ack", op) /\ Local(w, k)
    BY <2>1, JobUpdate
  <2>3. job[w][k].pc \in {"execute", "accepted"} /\ UNCHANGED <<attempt, started, accepted>>
    BY <1>7 DEF ExecutorReturns, store, history
  <2>. QED BY <2>2, <2>3 DEF Moves, Decides
<1>8. CASE PermitRetired(w, k)
  <2>1. job' = [job EXCEPT ![w][k] = At(job[w][k], "store")]
    BY <1>8 DEF PermitRetired
  <2>2. job'[w][k] = At(job[w][k], "store") /\ Local(w, k)
    BY <2>1, JobUpdate
  <2>3. job[w][k].pc = "ack" /\ UNCHANGED <<attempt, started, accepted>>
    BY <1>8 DEF PermitRetired, store, history
  <2>. QED BY <2>2, <2>3 DEF Moves, GoesOn
<1>9. CASE StoreMutation(w, k)
  <2>1. /\ job[w][k].pc = "store" /\ \E f \in BOOLEAN : Finish(w, k, f)
        /\ UNCHANGED <<attempt, started, accepted>>
    BY <1>9 DEF StoreMutation, Apply, history
  <2>. QED BY <2>1, FinishJob DEF Moves, GoesOn, Active
<1>10. CASE Renew(w, k)
  <2>1. CASE LeaseIsCurrent(w, k)
    <3>1. /\ job[w][k].pc \in Active
          /\ job' = [job EXCEPT ![w][k] = Timed(job[w][k], RenewPeriod)]
          /\ UNCHANGED <<attempt, started, accepted>>
      BY <1>10, <2>1 DEF Renew, history
    <3>. QED BY <3>1, JobUpdate, RenewPeriodType DEF Moves, GoesOn
  <2>2. CASE ~LeaseIsCurrent(w, k)
    BY <1>10, <2>2, FinishJob DEF Renew, history, Moves, GoesOn
  <2>. QED BY <2>1, <2>2
<1>. QED BY <1>1, <1>2, <1>3, <1>4, <1>5, <1>6, <1>7, <1>8, <1>9, <1>10 DEF Work

-----------------------------------------------------------------------------
(* Tokens: they are kept by every step but Poll, which mints larger ones.  *)

Keeps ==
  /\ nextToken' = nextToken
  /\ \A k \in Keys : lease'[k].token \in {0, lease[k].token}
  /\ \A w \in Workers, k \in Keys :
       IsActive(w, k)' => IsActive(w, k) /\ job'[w][k].token = job[w][k].token

LEMMA MovesKeepToken ==
  ASSUME TypeOK, NEW w \in Workers, NEW k \in Keys, Moves(w, k), Local(w, k)
  PROVE  \A v \in Workers, i \in Keys :
           IsActive(v, i)' => IsActive(v, i) /\ job'[v][i].token = job[v][i].token
<1>1. IsActive(w, k)' => IsActive(w, k) /\ job'[w][k].token = job[w][k].token
  <2>1. CASE Counts(w, k) \/ Calls(w, k) \/ IsAccepted(w, k)
    BY <2>1 DEF Counts, Calls, IsAccepted, IsActive, Active, At, Job
  <2>2. CASE Decides(w, k)
    <3>1. job[w][k].pc \in Active /\ \E pc, op : job'[w][k] = Deciding(job[w][k], pc, op)
      BY <2>2 DEF Decides, Active
    <3>2. PICK pc, op : job'[w][k] = Deciding(job[w][k], pc, op)
      BY <3>1
    <3>. QED BY <3>1, <3>2, DecidingFields DEF IsActive
  <2>3. CASE GoesOn(w, k)
    <3>1. CASE \E pc : job'[w][k] = At(job[w][k], pc)
      BY <2>3, <3>1, AtFields DEF GoesOn, IsActive, Active
    <3>2. CASE \E n \in Nat : job'[w][k] = Timed(job[w][k], n)
      BY <2>3, <3>2, TimedFields DEF GoesOn, IsActive, Active
    <3>3. CASE job'[w][k] = Done
      BY <3>3, Inactive DEF IsActive
    <3>. QED BY <2>3, <3>1, <3>2, <3>3 DEF GoesOn
  <2>. QED BY <2>1, <2>2, <2>3 DEF Moves
<1>. QED BY <1>1 DEF Local, IsActive

LEMMA FutureKeeps ==
  ASSUME TypeOK, NEW w \in Workers, NEW k \in Keys, Work(w, k) \/ Renew(w, k)
  PROVE  Keeps
<1>1. nextToken' = nextToken /\ (UNCHANGED lease \/ lease' = [lease EXCEPT ![k] = NoLease]
                                 \/ lease' = [lease EXCEPT ![k] = Renewed(@)])
  <2>1. CASE StoreMutation(w, k)
    BY <2>1 DEF StoreMutation, Apply
  <2>2. CASE BeginAttempt(w, k)
    BY <2>2 DEF BeginAttempt
  <2>3. CASE Renew(w, k)
    BY <2>3 DEF Renew
  <2>4. CASE Work(w, k) /\ ~StoreMutation(w, k) /\ ~BeginAttempt(w, k)
    BY <2>4 DEF Work, AcquireGranted, AcquireRefused, AcquireRejected, Invoke,
                RemoteAccepts, ExecutorReturns, PermitRetired, store
  <2>. QED BY <2>1, <2>2, <2>3, <2>4
<1>2. \A i \in Keys : lease'[i].token \in {0, lease[i].token}
  BY <1>1 DEF TypeOK, NoLease, Lease, Renewed
<1>. QED BY <1>1, <1>2, FutureMoves, MovesKeepToken DEF Keeps

\* The steps that neither poll nor belong to one future.
Outside ==
  \/ \E k \in Keys, d \in EnqueueDelays : Enqueue(k, d)
  \/ \E w \in Workers : BatchEnds(w) \/ Stop(w) \/ RequestShutdown(w) \/ Crash(w) \/ Restart(w)
  \/ InjectFailure
  \/ Tick
  \/ UNCHANGED vars

LEMMA NextSplits ==
  ASSUME [Next]_vars
  PROVE  \/ Outside
         \/ \E w \in Workers, k \in Keys : Work(w, k) \/ Renew(w, k)
         \/ \E w \in Workers : Poll(w)
  BY DEF Next, Outside

\* An outside step leaves every job as it is, up to its timer, or idle.
LEMMA OutsideJobs ==
  ASSUME TypeOK, Outside
  PROVE  \A w \in Workers, k \in Keys :
           \/ job'[w][k] = job[w][k]
           \/ \E n \in Nat : job'[w][k] = Timed(job[w][k], n)
           \/ job'[w][k] = Idle
<1>1. CASE Tick
  <2>1. \A w \in Workers, k \in Keys : Elapse(job[w][k].timer) \in Nat
    BY DEF TypeOK, Jobs, Elapse
  <2>. QED BY <1>1, <2>1 DEF Tick
<1>2. ASSUME NEW w \in Workers, BatchEnds(w) \/ Crash(w)
      PROVE  \A v \in Workers, k \in Keys : job'[v][k] \in {job[v][k], Idle}
  BY <1>2 DEF BatchEnds, Crash, TypeOK
<1>3. CASE ~Tick /\ ~(\E w \in Workers : BatchEnds(w) \/ Crash(w))
  BY <1>3 DEF Outside, Enqueue, Stop, RequestShutdown, Restart, InjectFailure, vars
<1>. QED BY <1>1, <1>2, <1>3

LEMMA OutsideCounts ==
  Outside => UNCHANGED <<attempt, nextToken, started, accepted>>
  BY DEF Outside, Enqueue, BatchEnds, Stop, RequestShutdown, Crash, Restart,
         InjectFailure, Tick, vars, store, history

LEMMA OutsideLease ==
  ASSUME TypeOK, Outside
  PROVE  \A k \in Keys : lease'[k].token = lease[k].token
<1>1. CASE Tick
  BY <1>1 DEF Tick, TypeOK, Lease
<1>2. CASE ~Tick
  BY <1>2 DEF Outside, Enqueue, BatchEnds, Stop, RequestShutdown, Crash, Restart,
              InjectFailure, vars, store
<1>. QED BY <1>1, <1>2

LEMMA OutsideKeeps == ASSUME TypeOK, Outside PROVE Keeps
<1>1. \A w \in Workers, k \in Keys :
        IsActive(w, k)' => IsActive(w, k) /\ job'[w][k].token = job[w][k].token
  <2>. TAKE w \in Workers, k \in Keys
  <2>1. CASE job'[w][k] = job[w][k]
    BY <2>1 DEF IsActive
  <2>2. CASE \E n \in Nat : job'[w][k] = Timed(job[w][k], n)
    BY <2>2, TimedFields DEF IsActive
  <2>3. CASE job'[w][k] = Idle
    BY <2>3, Inactive DEF IsActive
  <2>. QED BY <2>1, <2>2, <2>3, OutsideJobs
<1>. QED BY <1>1, OutsideCounts, OutsideLease DEF Keeps

LEMMA KeepsTokenInv == ASSUME TypeOK, TokenInv, Keeps PROVE TokenInv'
<1>1. \A k \in Keys : lease'[k].token <= nextToken'
  BY DEF Keeps, TokenInv, TypeOK, Leases
<1>2. \A w \in Workers, k \in Keys : IsActive(w, k)' => job'[w][k].token <= nextToken'
  BY DEF Keeps, TokenInv
<1>3. \A k \in Keys, w1, w2 \in Workers :
        IsActive(w1, k)' /\ IsActive(w2, k)' /\ job'[w1][k].token = job'[w2][k].token
        => w1 = w2
  BY DEF Keeps, TokenInv
<1>. QED BY <1>1, <1>2, <1>3 DEF TokenInv, IsActive

LEMMA BeforeOrder ==
  ASSUME TypeOK, NEW a \in Keys, NEW b \in Keys, NEW c \in Keys
  PROVE  ~Before(a, a) /\ (Before(a, b) /\ Before(b, c) => Before(a, c))
  BY DEF Before, TypeOK

\* The records visited before a claimed one are visited too, so the tokens of
\* the claims lie above the old counter and not above the new one.
LEMMA TokenBounds ==
  ASSUME TypeOK, NEW k \in Visited
  PROVE  TokenFor(k) <= nextToken + Cardinality(Visited)
<1>. DEFINE B(i) == {j \in Due : Before(j, i)}
            C(i) == {j \in Due : Before(j, i) /\ HasAttempts(j)}
<1>1. Due \subseteq Keys /\ k \in Due
  BY DEF Due, Visited
<1>2. ASSUME NEW i \in B(k) PROVE i \in Visited
  <2>1. C(i) \subseteq C(k)
    BY <1>1, <1>2, BeforeOrder
  <2>2. IsFiniteSet(C(k)) /\ Cardinality(C(i)) <= Cardinality(C(k))
    BY <1>1, <2>1, OutboxAssumption, FS_Subset
  <2>3. IsFiniteSet(C(i)) /\ Cardinality(C(i)) \in Nat /\ Cardinality(C(k)) \in Nat
    BY <2>1, <2>2, FS_Subset, FS_CardinalityType
  <2>4. Cardinality(C(k)) < MaxInFlight
    BY DEF Visited
  <2>5. Cardinality(C(i)) < MaxInFlight
    BY <2>2, <2>3, <2>4, OutboxAssumption
  <2>. QED BY <1>2, <2>5 DEF Visited
<1>3. k \notin B(k)
  BY <1>1, BeforeOrder
<1>4. B(k) \cup {k} \subseteq Visited
  BY <1>2
<1>5. IsFiniteSet(B(k)) /\ Cardinality(B(k)) \in Nat
  BY VisitedFinite
<1>6. Cardinality(B(k) \cup {k}) = Cardinality(B(k)) + 1
  BY <1>3, <1>5, FS_AddElement
<1>7. Cardinality(B(k) \cup {k}) <= Cardinality(Visited)
  BY <1>4, VisitedFinite, FS_Subset
<1>. QED BY <1>5, <1>6, <1>7, VisitedFinite DEF TokenFor, TypeOK

LEMMA PollTokenInv ==
  ASSUME TypeOK, TokenInv, NEW w \in Workers, Poll(w)
  PROVE  TokenInv'
<1>0. /\ nextToken' = nextToken + Cardinality(Visited)
      /\ nextToken \in Nat /\ nextToken' \in Nat /\ nextToken <= nextToken'
  BY VisitedFinite DEF Poll, ClaimDue, TypeOK
<1>1. \A k \in Claims : /\ TokenFor(k) \in Nat
                        /\ nextToken < TokenFor(k) /\ TokenFor(k) <= nextToken'
  BY <1>0, TokenForType, TokenBounds DEF Claims
<1>2. \A k \in Keys : \/ lease'[k].token \in {0, lease[k].token}
                      \/ k \in Claims /\ lease'[k].token = TokenFor(k)
  <2>. TAKE k \in Keys
  <2>1. CASE k \in Claims
    BY <2>1 DEF Poll, ClaimDue, Lease
  <2>2. CASE k \notin Claims
    <3>1. lease'[k] = NoLease \/ lease'[k] = lease[k]
      BY <2>2 DEF Poll, ClaimDue
    <3>2. NoLease.token = 0
      BY DEF NoLease, Lease
    <3>. QED BY <3>1, <3>2
  <2>. QED BY <2>1, <2>2
<1>3. \A k \in Keys : lease'[k].token <= nextToken'
  <2>. TAKE k \in Keys
  <2>1. lease[k].token \in Nat /\ lease[k].token <= nextToken
    BY DEF TypeOK, TokenInv, Leases
  <2>. QED BY <1>0, <1>1, <1>2, <2>1
<1>4. \A v \in Workers, k \in Keys :
        \/ v # w /\ job'[v][k] = job[v][k]
        \/ v = w /\ k \notin Claims /\ job'[v][k] = Idle
        \/ v = w /\ k \in Claims /\ job'[v][k].token = TokenFor(k)
  <2>1. \A k \in Keys : job'[w][k] =
          IF k \in Claims
          THEN Job("acquire", TokenFor(k), attempt[k], RenewPeriod, Complete)
          ELSE Idle
    BY DEF Poll, TypeOK
  <2>2. \A v \in Workers : v # w => job'[v] = job[v]
    BY DEF Poll, TypeOK
  <2>3. \A pc, t, a, n, op : Job(pc, t, a, n, op).token = t
    BY DEF Job
  <2>. TAKE v \in Workers, k \in Keys
  <2>4. CASE v = w /\ k \in Claims
    BY <2>1, <2>3, <2>4
  <2>. QED BY <2>1, <2>2, <2>4
<1>5. \A v \in Workers, k \in Keys : job[v][k].token \in Nat
  BY DEF TypeOK, Jobs
<1>6. \A v \in Workers, k \in Keys : IsActive(v, k)' =>
        \/ v # w /\ job'[v][k].token <= nextToken /\ IsActive(v, k) /\ job'[v][k] = job[v][k]
        \/ v = w /\ nextToken < job'[v][k].token /\ job'[v][k].token <= nextToken'
  BY <1>1, <1>4, Inactive DEF IsActive, TokenInv
<1>7. \A v \in Workers, k \in Keys : IsActive(v, k)' => job'[v][k].token <= nextToken'
  BY <1>0, <1>5, <1>6
<1>8. \A k \in Keys, w1, w2 \in Workers :
        IsActive(w1, k)' /\ IsActive(w2, k)' /\ job'[w1][k].token = job'[w2][k].token
        => w1 = w2
  <2>. TAKE k \in Keys, w1, w2 \in Workers
  <2>1. CASE w1 # w /\ w2 # w
    BY <1>6, <2>1 DEF TokenInv
  <2>2. CASE w1 # w /\ w2 = w
    BY <1>0, <1>5, <1>6, <2>2
  <2>3. CASE w1 = w /\ w2 # w
    BY <1>0, <1>5, <1>6, <2>3
  <2>. QED BY <2>1, <2>2, <2>3
<1>. QED BY <1>3, <1>7, <1>8 DEF TokenInv, IsActive

LEMMA TokenStep == TypeOK /\ TokenInv /\ [Next]_vars => TokenInv'
  BY NextSplits, OutsideKeeps, FutureKeeps, KeepsTokenInv, PollTokenInv

-----------------------------------------------------------------------------
(* Attempts bound executions.                                              *)

LEMMA FlightFinite ==
  ASSUME NEW k
  PROVE  /\ IsFiniteSet(Begun(k)) /\ Cardinality(Begun(k)) \in Nat
         /\ IsFiniteSet(Flying(k)) /\ Cardinality(Flying(k)) \in Nat
<1>1. Begun(k) \subseteq Workers /\ Flying(k) \subseteq Workers
  BY DEF Begun, Flying
<1>. QED BY <1>1, OutboxAssumption, FS_Subset, FS_CardinalityType

\* Where no job enters a flight, its count cannot grow.
LEMMA FlightsShrink ==
  ASSUME NEW k, Begun(k)' \subseteq Begun(k), Flying(k)' \subseteq Flying(k)
  PROVE  /\ Cardinality(Begun(k)') \in Nat /\ Cardinality(Begun(k)') <= Cardinality(Begun(k))
         /\ Cardinality(Flying(k)') \in Nat /\ Cardinality(Flying(k)') <= Cardinality(Flying(k))
  BY FlightFinite, FS_Subset, FS_CardinalityType

\* A future that moves leaves the other records' flights alone.
LEMMA LocalFlights ==
  ASSUME NEW w \in Workers, NEW k \in Keys, Local(w, k)
  PROVE  /\ \A i \in Keys : i # k => /\ Begun(i)' = Begun(i)
                                     /\ Flying(i)' = Flying(i)
         /\ Begun(k)' \ {w} = Begun(k) \ {w}
         /\ Flying(k)' \ {w} = Flying(k) \ {w}
  BY DEF Local, Begun, Flying

LEMMA CalmCountInv ==
  ASSUME TypeOK, CountInv, UNCHANGED <<attempt, started, accepted>>,
         NEW k \in Keys, Begun(k)' \subseteq Begun(k), Flying(k)' \subseteq Flying(k)
  PROVE  /\ started'[k] + Cardinality(Begun(k)') <= attempt'[k]
         /\ accepted'[k] + Cardinality(Flying(k)') <= attempt'[k]
         /\ attempt'[k] <= MaxAttempts[k]
<1>1. /\ started[k] + Cardinality(Begun(k)) <= attempt[k]
      /\ accepted[k] + Cardinality(Flying(k)) <= attempt[k]
      /\ attempt[k] <= MaxAttempts[k]
  BY DEF CountInv
<1>2. started[k] \in Nat /\ accepted[k] \in Nat /\ attempt[k] \in Nat
  BY DEF TypeOK
<1>. QED BY <1>1, <1>2, FlightsShrink, FlightFinite

\* The counts of a record no future moves for.
LEMMA OtherCounts ==
  ASSUME TypeOK, CountInv, NEW w \in Workers, NEW k \in Keys, Local(w, k),
         NEW i \in Keys, i # k, attempt'[i] = attempt[i],
         started'[i] = started[i], accepted'[i] = accepted[i]
  PROVE  /\ started'[i] + Cardinality(Begun(i)') <= attempt'[i]
         /\ accepted'[i] + Cardinality(Flying(i)') <= attempt'[i]
         /\ attempt'[i] <= MaxAttempts[i]
  BY LocalFlights DEF CountInv

LEMMA MovesCountInv ==
  ASSUME TypeOK, CountInv, NEW w \in Workers, NEW k \in Keys,
         Moves(w, k), Local(w, k)
  PROVE  CountInv'
<1>. DEFINE OK(i) == /\ started'[i] + Cardinality(Begun(i)') <= attempt'[i]
                     /\ accepted'[i] + Cardinality(Flying(i)') <= attempt'[i]
                     /\ attempt'[i] <= MaxAttempts[i]
<1>0. /\ started[k] \in Nat /\ accepted[k] \in Nat /\ attempt[k] \in Nat
      /\ MaxAttempts[k] \in Nat
      /\ started[k] + Cardinality(Begun(k)) <= attempt[k]
      /\ accepted[k] + Cardinality(Flying(k)) <= attempt[k]
      /\ attempt[k] <= MaxAttempts[k]
  BY OutboxAssumption DEF TypeOK, CountInv
<1>1. ASSUME Counts(w, k) PROVE \A i \in Keys : OK(i)
  <2>1. /\ attempt'[k] = attempt[k] + 1 /\ attempt[k] < MaxAttempts[k]
        /\ UNCHANGED <<started, accepted>>
        /\ \A i \in Keys : i # k => attempt'[i] = attempt[i]
    BY <1>1 DEF Counts, HasAttempts, TypeOK
  <2>2. Begun(k)' \subseteq Begun(k) \cup {w} /\ Flying(k)' \subseteq Flying(k) \cup {w}
    BY LocalFlights
  <2>3. job[w][k].pc = "begin"
    BY <1>1 DEF Counts
  <2>4. w \notin Begun(k) /\ w \notin Flying(k)
    BY <2>3 DEF Begun, Flying
  <2>5. /\ Cardinality(Begun(k) \cup {w}) = Cardinality(Begun(k)) + 1
        /\ Cardinality(Flying(k) \cup {w}) = Cardinality(Flying(k)) + 1
        /\ IsFiniteSet(Begun(k) \cup {w}) /\ IsFiniteSet(Flying(k) \cup {w})
    BY <2>4, FlightFinite, FS_AddElement
  <2>6. /\ Cardinality(Begun(k)') \in Nat /\ Cardinality(Begun(k)') <= Cardinality(Begun(k)) + 1
        /\ Cardinality(Flying(k)') \in Nat /\ Cardinality(Flying(k)') <= Cardinality(Flying(k)) + 1
    BY <2>2, <2>5, FS_Subset, FS_CardinalityType
  <2>7. OK(k)
    BY <1>0, <2>1, <2>6, FlightFinite
  <2>. QED BY <2>1, <2>7, OtherCounts
<1>2. ASSUME Calls(w, k) PROVE \A i \in Keys : OK(i)
  <2>1. /\ started'[k] = started[k] + 1 /\ UNCHANGED <<attempt, accepted>>
        /\ \A i \in Keys : i # k => started'[i] = started[i]
    BY <1>2 DEF Calls, TypeOK
  <2>2. job[w][k].pc = "begun" /\ job'[w][k].pc = "execute"
    BY <1>2, AtFields DEF Calls
  <2>3. w \in Begun(k) /\ Begun(k)' = Begun(k) \ {w} /\ Flying(k)' = Flying(k)
    BY <2>2 DEF Begun, Flying, Local
  <2>4. Cardinality(Begun(k)') = Cardinality(Begun(k)) - 1
    BY <2>3, FlightFinite, FS_RemoveElement
  <2>5. OK(k)
    BY <1>0, <2>1, <2>3, <2>4, FlightFinite
  <2>. QED BY <2>1, <2>5, OtherCounts
<1>3. ASSUME IsAccepted(w, k) PROVE \A i \in Keys : OK(i)
  <2>1. /\ accepted'[k] = accepted[k] + 1 /\ UNCHANGED <<attempt, started>>
        /\ \A i \in Keys : i # k => accepted'[i] = accepted[i]
    BY <1>3 DEF IsAccepted, TypeOK
  <2>2. job[w][k].pc = "execute" /\ job'[w][k].pc = "accepted"
    BY <1>3, AtFields DEF IsAccepted
  <2>3. w \in Flying(k) /\ Flying(k)' = Flying(k) \ {w} /\ Begun(k)' = Begun(k)
    BY <2>2 DEF Begun, Flying, Local
  <2>4. Cardinality(Flying(k)') = Cardinality(Flying(k)) - 1
    BY <2>3, FlightFinite, FS_RemoveElement
  <2>5. OK(k)
    BY <1>0, <2>1, <2>3, <2>4, FlightFinite
  <2>. QED BY <2>1, <2>5, OtherCounts
<1>4. ASSUME Decides(w, k) \/ GoesOn(w, k) PROVE \A i \in Keys : OK(i)
  <2>1. UNCHANGED <<attempt, started, accepted>>
    BY <1>4 DEF Decides, GoesOn
  <2>2. job'[w][k].pc \in {"begun", "execute"} => job'[w][k].pc = job[w][k].pc
    <3>1. CASE Decides(w, k)
      <4>1. PICK pc, op : /\ pc \in {"store", "ack"}
                          /\ job'[w][k] = Deciding(job[w][k], pc, op)
        BY <3>1 DEF Decides
      <4>. QED BY <4>1, DecidingFields
    <3>2. CASE \E pc \in {"begin", "store"} : job'[w][k] = At(job[w][k], pc)
      BY <3>2, AtFields
    <3>3. CASE \E n \in Nat : job'[w][k] = Timed(job[w][k], n)
      BY <3>3, TimedFields
    <3>4. CASE job'[w][k] = Done
      BY <3>4 DEF Done, Job
    <3>. QED BY <1>4, <3>1, <3>2, <3>3, <3>4 DEF GoesOn
  <2>3. Begun(k)' \subseteq Begun(k) /\ Flying(k)' \subseteq Flying(k)
    BY <2>2 DEF Begun, Flying, Local
  <2>4. OK(k)
    BY <2>1, <2>3, CalmCountInv
  <2>. QED BY <2>1, <2>4, OtherCounts
<1>. QED BY <1>1, <1>2, <1>3, <1>4 DEF Moves, CountInv

\* An outside step or a poll moves no job into a flight.
LEMMA PollJobs ==
  ASSUME TypeOK, NEW w \in Workers, Poll(w)
  PROVE  \A v \in Workers, k \in Keys :
           \/ job'[v][k] = job[v][k]
           \/ job'[v][k] = Job("acquire", TokenFor(k), attempt[k], RenewPeriod, Complete)
           \/ job'[v][k] = Idle
  BY DEF Poll, TypeOK

LEMMA PollCounts ==
  ASSUME NEW w \in Workers, Poll(w)
  PROVE  UNCHANGED <<attempt, started, accepted>>
  BY DEF Poll, ClaimDue, history

LEMMA CountStep == TypeOK /\ CountInv /\ [Next]_vars => CountInv'
<1> SUFFICES ASSUME TypeOK, CountInv, [Next]_vars PROVE CountInv'
  OBVIOUS
<1>1. CASE \E w \in Workers, k \in Keys : Work(w, k) \/ Renew(w, k)
  BY <1>1, FutureMoves, MovesCountInv
<1>2. CASE Outside \/ \E w \in Workers : Poll(w)
  <2>1. UNCHANGED <<attempt, started, accepted>>
    BY <1>2, OutsideCounts, PollCounts
  <2>2. ASSUME NEW v \in Workers, NEW k \in Keys
        PROVE  job'[v][k].pc \in {"begun", "execute"} => job'[v][k].pc = job[v][k].pc
    <3>1. CASE \E n \in Nat : job'[v][k] = Timed(job[v][k], n)
      BY <3>1, TimedFields
    <3>2. CASE job'[v][k] = Idle
      BY <3>2 DEF Idle, Job
    <3>3. CASE job'[v][k] = Job("acquire", TokenFor(k), attempt[k], RenewPeriod, Complete)
      BY <3>3 DEF Job
    <3>4. CASE job'[v][k] = job[v][k]
      BY <3>4
    <3>. QED BY <1>2, <3>1, <3>2, <3>3, <3>4, OutsideJobs, PollJobs
  <2>3. \A k \in Keys : Begun(k)' \subseteq Begun(k) /\ Flying(k)' \subseteq Flying(k)
    BY <2>2 DEF Begun, Flying
  <2>. QED BY <2>1, <2>3, CalmCountInv DEF CountInv
<1>. QED BY <1>1, <1>2, NextSplits

-----------------------------------------------------------------------------
(* A decided mutation is and stays justified.                              *)

DecidedJob(w, k) ==
  IsActive(w, k) =>
    /\ job[w][k].attempt <= attempt[k]
    /\ job[w][k].pc = "accepted" => accepted[k] > 0
    /\ job[w][k].pc \in {"ack", "store"} => Justified(k, job[w][k].op.to)

\* Attempts and effects only grow, and not beyond max_attempts.
Grows(k) ==
  /\ attempt'[k] \in Nat /\ attempt[k] <= attempt'[k] /\ attempt'[k] <= MaxAttempts[k]
  /\ accepted'[k] \in Nat /\ accepted[k] <= accepted'[k]

LEMMA CountsGrow ==
  ASSUME TypeOK, CountInv, [Next]_vars, NEW k \in Keys
  PROVE  Grows(k)
<1>1. attempt'[k] \in Nat /\ accepted'[k] \in Nat /\ attempt'[k] <= MaxAttempts[k]
  BY NextType, CountStep DEF TypeOK, CountInv
<1>2. attempt[k] \in Nat /\ accepted[k] \in Nat
  BY DEF TypeOK
<1>3. CASE \E w \in Workers, i \in Keys : Work(w, i) \/ Renew(w, i)
  <2>1. PICK w \in Workers, i \in Keys : Moves(w, i)
    BY <1>3, FutureMoves
  <2>2. /\ attempt' = attempt \/ attempt' = [attempt EXCEPT ![i] = @ + 1]
        /\ accepted' = accepted \/ accepted' = [accepted EXCEPT ![i] = @ + 1]
    BY <2>1 DEF Moves, Counts, Calls, IsAccepted, Decides, GoesOn
  <2>3. attempt'[k] \in {attempt[k], attempt[k] + 1}
    BY <2>2 DEF TypeOK
  <2>4. accepted'[k] \in {accepted[k], accepted[k] + 1}
    BY <2>2 DEF TypeOK
  <2>. QED BY <1>1, <1>2, <2>3, <2>4 DEF Grows
<1>4. CASE Outside \/ \E w \in Workers : Poll(w)
  BY <1>1, <1>2, <1>4, OutsideCounts, PollCounts DEF Grows
<1>. QED BY <1>3, <1>4, NextSplits

LEMMA JustifiedStays ==
  ASSUME TypeOK, CountInv, NEW k \in Keys, Grows(k), NEW s, Justified(k, s)
  PROVE  /\ s = "Completed" => accepted'[k] > 0
         /\ s = "FailedExhausted" => attempt'[k] = MaxAttempts[k]
<1>1. attempt[k] \in Nat /\ accepted[k] \in Nat /\ MaxAttempts[k] \in Nat
  BY OutboxAssumption DEF TypeOK
<1>. QED BY <1>1 DEF Grows, Justified

LEMMA RetryJustified ==
  ASSUME TypeOK, CountInv, NEW k \in Keys, NEW a \in Nat, a <= attempt[k], NEW d
  PROVE  Justified(k, RetryOrFail(k, a, d).to)
<1>1. /\ attempt[k] \in Nat /\ MaxAttempts[k] \in Nat /\ attempt[k] <= MaxAttempts[k]
  BY OutboxAssumption DEF TypeOK, CountInv
<1>2. CASE a >= MaxAttempts[k]
  BY <1>1, <1>2 DEF RetryOrFail, Fail, Op, Justified
<1>3. CASE ~(a >= MaxAttempts[k])
  BY <1>3 DEF RetryOrFail, Reschedule, Op, Justified
<1>. QED BY <1>2, <1>3

\* A job that stays as it is, up to its timer or a stage that decides nothing,
\* stays decided.
LEMMA DecidedStays ==
  ASSUME TypeOK, CountInv, NEW w \in Workers, NEW k \in Keys, Grows(k),
         DecidedJob(w, k), IsActive(w, k),
         job'[w][k].attempt = job[w][k].attempt, job'[w][k].op = job[w][k].op,
         \/ job'[w][k].pc = job[w][k].pc
         \/ job'[w][k].pc \in {"begin", "execute"}
         \/ job[w][k].pc = "ack" /\ job'[w][k].pc = "store"
  PROVE  DecidedJob(w, k)'
<1>1. /\ job[w][k].attempt \in Nat /\ attempt[k] \in Nat /\ accepted[k] \in Nat
      /\ attempt'[k] \in Nat /\ accepted'[k] \in Nat
      /\ attempt[k] <= attempt'[k] /\ accepted[k] <= accepted'[k]
  BY DEF TypeOK, Jobs, Grows
<1>2. job[w][k].attempt <= attempt[k]
  BY DEF DecidedJob
<1>3. job'[w][k].attempt <= attempt'[k]
  BY <1>1, <1>2
<1>4. job'[w][k].pc = "accepted" => accepted'[k] > 0
  BY <1>1 DEF DecidedJob
<1>5. job'[w][k].pc \in {"ack", "store"} =>
        /\ job[w][k].op.to = "Completed" => accepted'[k] > 0
        /\ job[w][k].op.to = "FailedExhausted" => attempt'[k] = MaxAttempts[k]
  BY JustifiedStays DEF DecidedJob
<1>. QED BY <1>3, <1>4, <1>5 DEF DecidedJob, Justified

LEMMA MovesDecided ==
  ASSUME TypeOK, CountInv, NEW w \in Workers, NEW k \in Keys, Moves(w, k),
         Grows(k), DecidedJob(w, k), job'[w][k] \in Jobs
  PROVE  DecidedJob(w, k)'
<1>0. /\ job[w][k].attempt \in Nat /\ attempt[k] \in Nat /\ MaxAttempts[k] \in Nat
      /\ attempt[k] <= MaxAttempts[k]
  BY OutboxAssumption DEF TypeOK, Jobs, CountInv
<1>a. IsActive(w, k)
  BY DEF Moves, Counts, Calls, IsAccepted, Decides, GoesOn, IsActive, Active
<1>b. job[w][k].attempt <= attempt[k]
  BY <1>a DEF DecidedJob
<1>1. CASE Counts(w, k)
  <2>1. job'[w][k].pc = "begun" /\ job'[w][k].attempt = attempt[k] + 1
    BY <1>1 DEF Counts, Job
  <2>2. attempt'[k] = attempt[k] + 1
    BY <1>1 DEF Counts, TypeOK
  <2>. QED BY <1>0, <2>1, <2>2 DEF DecidedJob
<1>2. CASE Calls(w, k)
  BY <1>2, <1>a, AtFields, DecidedStays DEF Calls
<1>3. CASE IsAccepted(w, k)
  <2>1. /\ job'[w][k].pc = "accepted" /\ job'[w][k].attempt = job[w][k].attempt
        /\ attempt' = attempt
    BY <1>3, AtFields DEF IsAccepted
  <2>2. accepted'[k] > 0
    <3>1. accepted'[k] = accepted[k] + 1 /\ accepted[k] \in Nat
      BY <1>3 DEF IsAccepted, TypeOK
    <3>. QED BY <3>1
  <2>. QED BY <1>b, <2>1, <2>2 DEF DecidedJob
<1>4. CASE Decides(w, k)
  <2>1. UNCHANGED <<attempt, accepted>>
    BY <1>4 DEF Decides
  <2>2. \E pc, op : /\ pc \in {"ack", "store"}
                    /\ job'[w][k] = Deciding(job[w][k], pc, op)
                    /\ Justified(k, op.to)
    <3>1. Justified(k, "FailedPermanent")
      BY DEF Justified
    <3>2. CASE job[w][k].pc = "acquire"
      BY <1>0, <1>4, <1>b, <3>1, <3>2, RetryJustified DEF Decides, Fail, Op
    <3>3. CASE job[w][k].pc = "begin"
      <4>1. attempt[k] = MaxAttempts[k]
        BY <1>0, <1>4, <3>3 DEF Decides, HasAttempts
      <4>2. Justified(k, Fail("FailedExhausted").to)
        BY <4>1 DEF Justified, Fail, Op
      <4>. QED BY <1>4, <3>3, <4>2 DEF Decides
    <3>4. CASE job[w][k].pc \in {"execute", "accepted"}
      <4>1. PICK op \in Results(w, k) : job'[w][k] = Deciding(job[w][k], "ack", op)
        BY <1>4, <3>4 DEF Decides
      <4>2. job[w][k].pc = "accepted" => accepted[k] > 0
        BY <1>a DEF DecidedJob
      <4>3. \/ op = Complete /\ job[w][k].pc = "accepted"
            \/ \E d : op = RetryOrFail(k, job[w][k].attempt, d)
            \/ op = Fail("FailedPermanent")
        BY <4>1 DEF Results
      <4>4. Justified(k, op.to)
        <5>1. CASE op = Complete /\ job[w][k].pc = "accepted"
          BY <4>2, <5>1 DEF Complete, Op, Justified
        <5>2. CASE op = Fail("FailedPermanent")
          BY <3>1, <5>2 DEF Fail, Op
        <5>3. CASE \E d : op = RetryOrFail(k, job[w][k].attempt, d)
          BY <1>0, <1>b, <5>3, RetryJustified
        <5>. QED BY <4>3, <5>1, <5>2, <5>3
      <4>. QED BY <4>1, <4>4
    <3>. QED BY <1>4, <3>2, <3>3, <3>4 DEF Decides
  <2>3. PICK pc, op : /\ pc \in {"ack", "store"}
                      /\ job'[w][k] = Deciding(job[w][k], pc, op)
                      /\ Justified(k, op.to)
    BY <2>2
  <2>4. /\ job'[w][k].pc = pc /\ job'[w][k].op = op
        /\ job'[w][k].attempt = job[w][k].attempt
    BY <2>3, DecidingFields
  <2>. QED BY <1>b, <2>1, <2>3, <2>4 DEF DecidedJob, Justified
<1>5. CASE GoesOn(w, k)
  <2>1. CASE job'[w][k] = Done
    BY <2>1, Inactive DEF DecidedJob, IsActive
  <2>2. CASE \E n \in Nat : job'[w][k] = Timed(job[w][k], n)
    BY <1>a, <2>2, TimedFields, DecidedStays
  <2>3. CASE \/ job'[w][k] = At(job[w][k], "begin")
             \/ job[w][k].pc = "ack" /\ job'[w][k] = At(job[w][k], "store")
    BY <1>a, <2>3, AtFields, DecidedStays
  <2>. QED BY <1>5, <2>1, <2>2, <2>3 DEF GoesOn
<1>. QED BY <1>1, <1>2, <1>3, <1>4, <1>5 DEF Moves

LEMMA DecidedStep ==
  ASSUME TypeOK, CountInv, DecidedInv, [Next]_vars
  PROVE  DecidedInv'
<1> SUFFICES ASSUME NEW v \in Workers, NEW i \in Keys PROVE DecidedJob(v, i)'
  BY DEF DecidedInv, DecidedJob, IsActive, Justified
<1>1. Grows(i)
  BY CountsGrow
<1>2. DecidedJob(v, i)
  BY DEF DecidedInv, DecidedJob
<1>3. CASE job'[v][i] = job[v][i]
  BY <1>1, <1>2, <1>3, DecidedStays DEF DecidedJob, IsActive
<1>4. CASE \E w \in Workers, k \in Keys : Work(w, k) \/ Renew(w, k)
  <2>1. PICK w \in Workers, k \in Keys : Moves(w, k) /\ Local(w, k)
    BY <1>4, FutureMoves
  <2>2. CASE v = w /\ i = k
    <3>1. job'[v][i] \in Jobs
      BY NextType DEF TypeOK
    <3>. QED BY <1>1, <1>2, <2>1, <2>2, <3>1, MovesDecided
  <2>3. CASE v # w \/ i # k
    BY <1>3, <2>1, <2>3 DEF Local
  <2>. QED BY <2>2, <2>3
<1>5. CASE job'[v][i] = Idle
  BY <1>5, Inactive DEF DecidedJob, IsActive
<1>6. CASE Outside
  <2>1. CASE \E n \in Nat : job'[v][i] = Timed(job[v][i], n)
    <3>1. /\ job'[v][i].pc = job[v][i].pc /\ job'[v][i].attempt = job[v][i].attempt
          /\ job'[v][i].op = job[v][i].op
      BY <2>1, TimedFields
    <3>2. CASE IsActive(v, i)
      BY <1>1, <1>2, <3>1, <3>2, DecidedStays
    <3>3. CASE ~IsActive(v, i)
      BY <3>1, <3>3 DEF DecidedJob, IsActive
    <3>. QED BY <3>2, <3>3
  <2>. QED BY <1>3, <1>5, <1>6, <2>1, OutsideJobs
<1>7. CASE \E w \in Workers : Poll(w)
  <2>1. CASE job'[v][i] = Job("acquire", TokenFor(i), attempt[i], RenewPeriod, Complete)
    <3>1. job'[v][i].pc = "acquire" /\ job'[v][i].attempt = attempt[i]
      BY <2>1 DEF Job
    <3>2. attempt'[i] = attempt[i] /\ attempt[i] \in Nat
      BY <1>7, PollCounts DEF TypeOK
    <3>. QED BY <3>1, <3>2 DEF DecidedJob
  <2>. QED BY <1>3, <1>5, <1>7, <2>1, PollJobs
<1>. QED BY <1>4, <1>6, <1>7, NextSplits

-----------------------------------------------------------------------------
(* A settled record is and stays justified.                                *)

LEMMA SettledStep ==
  ASSUME TypeOK, CountInv, DecidedInv, SettledInv, [Next]_vars
  PROVE  SettledInv'
<1> SUFFICES ASSUME NEW i \in Keys
             PROVE  /\ status'[i] = "Completed" => accepted'[i] > 0
                    /\ status'[i] = "FailedExhausted" => attempt'[i] = MaxAttempts[i]
  BY DEF SettledInv, Justified
<1>1. Grows(i) /\ Justified(i, status[i])
  BY CountsGrow DEF SettledInv
<1>2. \A s : Justified(i, s) => /\ s = "Completed" => accepted'[i] > 0
                                /\ s = "FailedExhausted" => attempt'[i] = MaxAttempts[i]
  BY <1>1, JustifiedStays
<1>3. CASE status'[i] \in {status[i], "Pending", "Claimed"}
  BY <1>1, <1>2, <1>3
<1>4. CASE \E w \in Workers : Poll(w)
  <2>1. PICK w \in Workers : Poll(w)
    BY <1>4
  <2>2. status'[i] \in {status[i], "Pending", "Claimed"} \/ i \in Visited \ Claims
    BY <2>1 DEF Poll, ClaimDue
  <2>3. CASE i \in Visited \ Claims
    <3>1. ~(attempt[i] < MaxAttempts[i])
      BY <2>3 DEF Claims, HasAttempts
    <3>2. attempt[i] \in Nat /\ MaxAttempts[i] \in Nat /\ attempt[i] <= MaxAttempts[i]
      BY OutboxAssumption DEF TypeOK, CountInv
    <3>3. Justified(i, "FailedExhausted")
      BY <3>1, <3>2 DEF Justified
    <3>4. status'[i] = "FailedExhausted"
      BY <2>1, <2>3 DEF Poll, ClaimDue
    <3>. QED BY <1>2, <3>3, <3>4
  <2>. QED BY <1>3, <2>2, <2>3
<1>5. CASE \E w \in Workers, k \in Keys : StoreMutation(w, k)
  <2>1. PICK w \in Workers, k \in Keys : StoreMutation(w, k)
    BY <1>5
  <2>2. status' = status \/ status' = [status EXCEPT ![k] = job[w][k].op.to]
    BY <2>1 DEF StoreMutation, Apply
  <2>3. Justified(k, job[w][k].op.to)
    BY <2>1 DEF StoreMutation, DecidedInv, IsActive, Active
  <2>4. status'[i] = status[i] \/ (i = k /\ status'[i] = job[w][k].op.to)
    <3>. DEFINE s == job[w][k].op.to
    <3>1. status' = status \/ status' = [status EXCEPT ![k] = s]
      BY <2>2
    <3>. HIDE DEF s
    <3>2. status'[i] = status[i] \/ (i = k /\ status'[i] = s)
      BY <3>1 DEF TypeOK
    <3>. QED BY <3>2 DEF s
  <2>. QED BY <1>2, <1>3, <2>3, <2>4
<1>6. CASE Outside
  <2>1. CASE \E k \in Keys, d \in EnqueueDelays : Enqueue(k, d)
    <3>1. PICK k \in Keys, d \in EnqueueDelays : Enqueue(k, d)
      BY <2>1
    <3>2. status' = status \/ status' = [status EXCEPT ![k] = "Pending"]
      BY <3>1 DEF Enqueue
    <3>3. status'[i] \in {status[i], "Pending"}
      BY <3>2 DEF TypeOK
    <3>. QED BY <1>3, <3>3
  <2>2. CASE ~\E k \in Keys, d \in EnqueueDelays : Enqueue(k, d)
    <3>1. UNCHANGED status
      BY <1>6, <2>2 DEF Outside, BatchEnds, Stop, RequestShutdown, Crash, Restart,
                        InjectFailure, Tick, vars, store
    <3>. QED BY <1>3, <3>1
  <2>. QED BY <2>1, <2>2
<1>7. CASE \E w \in Workers, k \in Keys : (Work(w, k) \/ Renew(w, k)) /\ ~StoreMutation(w, k)
  <2>0. PICK w \in Workers, k \in Keys : (Work(w, k) \/ Renew(w, k)) /\ ~StoreMutation(w, k)
    BY <1>7
  <2>1. UNCHANGED status
    <3>1. CASE BeginAttempt(w, k)
      BY <3>1 DEF BeginAttempt
    <3>2. CASE Renew(w, k)
      BY <3>2 DEF Renew
    <3>3. CASE ~BeginAttempt(w, k) /\ ~Renew(w, k)
      BY <2>0, <3>3 DEF Work, AcquireGranted, AcquireRefused, AcquireRejected,
                        Invoke, RemoteAccepts, ExecutorReturns, PermitRetired, store
    <3>. QED BY <3>1, <3>2, <3>3
  <2>. QED BY <1>3, <2>1
<1>. QED BY <1>4, <1>5, <1>6, <1>7, NextSplits

-----------------------------------------------------------------------------
LEMMA InitIInv == Init => IInv
<1> SUFFICES ASSUME Init PROVE IInv
  OBVIOUS
<1>1. TypeOK
  BY InitType
<1>2. \A w \in Workers, k \in Keys : job[w][k] = Idle
  BY DEF Init
<1>3. \A w \in Workers, k \in Keys : ~IsActive(w, k)
  BY <1>2, Inactive DEF IsActive
<1>4. TokenInv
  BY <1>3 DEF Init, TokenInv, NoLease, Lease
<1>5. \A k \in Keys : Begun(k) = {} /\ Flying(k) = {}
  BY <1>2 DEF Begun, Flying, Idle, Job
<1>6. CountInv
  <2>1. \A k \in Keys : Cardinality(Begun(k)) = 0 /\ Cardinality(Flying(k)) = 0
    BY <1>5, FS_EmptySet
  <2>2. \A k \in Keys : MaxAttempts[k] \in Nat
    BY OutboxAssumption
  <2>. QED BY <2>1, <2>2 DEF CountInv, Init
<1>7. DecidedInv /\ SettledInv
  BY <1>3 DEF Init, DecidedInv, SettledInv, Justified
<1>. QED BY <1>1, <1>4, <1>6, <1>7 DEF IInv

LEMMA NextIInv == IInv /\ [Next]_vars => IInv'
  BY NextType, TokenStep, CountStep, DecidedStep, SettledStep DEF IInv

LEMMA Inductive == Spec => []IInv
  BY InitIInv, NextIInv, PTL DEF Spec

\* No record is executed more often than its max_attempts allows: begin_attempt
\* counts every invocation of the executor before it happens.
THEOREM ExecutionsAreBounded == Spec => []ExecutionsBounded
<1>1. IInv => ExecutionsBounded
  <2> SUFFICES ASSUME IInv, NEW k \in Keys
               PROVE  started[k] <= attempt[k] /\ attempt[k] <= MaxAttempts[k]
    BY DEF ExecutionsBounded
  <2>1. started[k] \in Nat /\ attempt[k] \in Nat
    BY DEF IInv, TypeOK
  <2>2. started[k] + Cardinality(Begun(k)) <= attempt[k] /\ attempt[k] <= MaxAttempts[k]
    BY DEF IInv, CountInv
  <2>. QED BY <2>1, <2>2, FlightFinite
<1>. QED BY <1>1, Inductive, PTL

\* A record ends as exhausted only with all its attempts spent: refused
\* acquires, lost leases and crashes before begin_attempt cost nothing.
THEOREM ExhaustedOnlyWhenSpent == Spec => []ExhaustedMeansSpent
<1>1. IInv => ExhaustedMeansSpent
  BY DEF IInv, SettledInv, Justified, ExhaustedMeansSpent
<1>. QED BY <1>1, Inductive, PTL

\* A record is marked completed only after the remote side took a request.
THEOREM CompletedOnlyWhenAccepted == Spec => []CompletedMeansAccepted
<1>1. IInv => CompletedMeansAccepted
  BY DEF IInv, SettledInv, Justified, CompletedMeansAccepted
<1>. QED BY <1>1, Inductive, PTL

\* At most one future can change a record, whatever worker ids are shared and
\* however long workers stall: the token of each claim is new.
THEOREM AtMostOneHolder == Spec => []OneHolder
<1>1. IInv => OneHolder
  BY DEF IInv, TokenInv, OneHolder, LeaseIsCurrent
<1>. QED BY <1>1, Inductive, PTL

-----------------------------------------------------------------------------
(* Outbox implements OutboxDelivery; what its steps may never do; and what *)
(* a punctual heartbeat is worth.                                          *)

(* What a step does to the statuses.                                       *)

LEMMA OutsideStatus ==
  ASSUME Outside
  PROVE  \/ UNCHANGED status
         \/ \E k \in Keys : status[k] = "Absent" /\ status' = [status EXCEPT ![k] = "Pending"]
  BY DEF Outside, Enqueue, BatchEnds, Stop, RequestShutdown, Crash, Restart,
         InjectFailure, Tick, vars, store

\* The step of a future that commits its mutation under a current lease.
Commits(w, k) ==
  /\ job[w][k].pc = "store" /\ LeaseIsCurrent(w, k)
  /\ Apply(k, job[w][k].op) /\ job'[w][k] = Done

LEMMA FutureStatus ==
  ASSUME TypeOK, NEW w \in Workers, NEW k \in Keys, Work(w, k) \/ Renew(w, k)
  PROVE  \/ Commits(w, k)
         \/ /\ UNCHANGED status
            /\ UNCHANGED lease \/ lease' = [lease EXCEPT ![k] = Renewed(@)]
<1>1. CASE StoreMutation(w, k)
  <2>1. CASE Apply(k, job[w][k].op) /\ LeaseIsCurrent(w, k) /\ Finish(w, k, FALSE)
    BY <1>1, <2>1, FinishJob DEF StoreMutation, Commits
  <2>2. CASE UNCHANGED <<status, lease>>
    BY <2>2
  <2>. QED BY <1>1, <2>1, <2>2 DEF StoreMutation
<1>2. CASE BeginAttempt(w, k)
  BY <1>2 DEF BeginAttempt
<1>3. CASE Renew(w, k)
  BY <1>3 DEF Renew
<1>4. CASE Work(w, k) /\ ~StoreMutation(w, k) /\ ~BeginAttempt(w, k)
  BY <1>4 DEF Work, AcquireGranted, AcquireRefused, AcquireRejected, Invoke,
              RemoteAccepts, ExecutorReturns, PermitRetired, store
<1>. QED BY <1>1, <1>2, <1>3, <1>4

LEMMA CommitStatus ==
  ASSUME TypeOK, NEW w \in Workers, NEW k \in Keys, Commits(w, k)
  PROVE  /\ status[k] = "Claimed"
         /\ \A i \in Keys : status'[i] = IF i = k THEN job[w][k].op.to ELSE status[i]
         /\ \A i \in Keys : i # k => lease'[i] = lease[i]
         /\ job[w][k].op \in Ops
<1>. DEFINE s == job[w][k].op.to
<1>1. status[k] = "Claimed" /\ status' = [status EXCEPT ![k] = s]
      /\ lease' = [lease EXCEPT ![k] = NoLease]
  BY DEF Commits, LeaseIsCurrent, Apply
<1>2. job[w][k].op \in Ops
  BY DEF TypeOK, Jobs
<1>. HIDE DEF s
<1>3. /\ \A i \in Keys : status'[i] = IF i = k THEN s ELSE status[i]
      /\ \A i \in Keys : i # k => lease'[i] = lease[i]
  BY <1>1 DEF TypeOK
<1>. QED BY <1>1, <1>2, <1>3 DEF s

-----------------------------------------------------------------------------
(* A record under work exists: no record ever becomes Absent again.        *)

PresentInv == \A w \in Workers, k \in Keys : IsActive(w, k) => status[k] # "Absent"

LEMMA PollStatus ==
  ASSUME TypeOK, NEW w \in Workers, Poll(w), NEW k \in Keys
  PROVE  \/ k \in Visited /\ status[k] \in {"Pending", "Claimed"}
            /\ status'[k] = IF k \in Claims THEN "Claimed" ELSE "FailedExhausted"
         \/ k \notin Visited /\ Expired(k) /\ status'[k] = "Pending"
         \/ k \notin Visited /\ ~Expired(k) /\ status'[k] = status[k]
  BY DEF Poll, ClaimDue, Claims, Visited, Due, Expired

LEMMA NeverAbsentAgain ==
  ASSUME TypeOK, [Next]_vars, NEW k \in Keys, status[k] # "Absent"
  PROVE  status'[k] # "Absent"
<1>1. CASE Outside
  BY <1>1, OutsideStatus DEF TypeOK
<1>2. CASE \E w \in Workers, i \in Keys : Work(w, i) \/ Renew(w, i)
  <2>1. PICK w \in Workers, i \in Keys : Work(w, i) \/ Renew(w, i)
    BY <1>2
  <2>2. CASE Commits(w, i)
    BY <2>2, CommitStatus DEF Ops, Terminal
  <2>. QED BY <2>1, <2>2, FutureStatus
<1>3. CASE \E w \in Workers : Poll(w)
  BY <1>3, PollStatus
<1>. QED BY <1>1, <1>2, <1>3, NextSplits

LEMMA PresentStep ==
  ASSUME TypeOK, PresentInv, [Next]_vars
  PROVE  PresentInv'
<1> SUFFICES ASSUME NEW v \in Workers, NEW i \in Keys, IsActive(v, i)'
             PROVE  status'[i] # "Absent"
  BY DEF PresentInv, IsActive
<1>1. CASE IsActive(v, i)
  BY <1>1, NeverAbsentAgain DEF PresentInv
<1>2. CASE Outside \/ \E w \in Workers, k \in Keys : Work(w, k) \/ Renew(w, k)
  BY <1>1, <1>2, OutsideKeeps, FutureKeeps DEF Keeps
<1>3. CASE \E w \in Workers : Poll(w)
  <2>1. PICK w \in Workers : Poll(w)
    BY <1>3
  <2>2. CASE v = w
    <3>1. i \in Claims
      BY <2>1, <2>2, Inactive DEF Poll, TypeOK, IsActive
    <3>. QED BY <2>1, <3>1, PollStatus DEF Claims
  <2>3. CASE v # w
    BY <1>1, <2>1, <2>3 DEF Poll, TypeOK, IsActive
  <2>. QED BY <2>2, <2>3
<1>. QED BY <1>2, <1>3, NextSplits

LEMMA InitPresent == Init => PresentInv
  BY Inactive DEF Init, PresentInv, IsActive

LEMMA Present == Spec => []PresentInv
<1>1. Init => TypeOK /\ PresentInv
  BY InitType, InitPresent
<1>2. TypeOK /\ PresentInv /\ [Next]_vars => (TypeOK /\ PresentInv)'
  BY NextType, PresentStep
<1>. QED BY <1>1, <1>2, PTL DEF Spec

-----------------------------------------------------------------------------
(* Refinement: a step of the outbox is a step of Delivery, or a stutter.   *)

outcomes == [k \in Keys |-> Outcome(status[k])]

LEMMA OutcomeOf ==
  /\ Outcome("Absent") = "absent"
  /\ Outcome("Pending") = "open" /\ Outcome("Claimed") = "open"
  /\ Outcome("Completed") = "delivered"
  /\ Outcome("FailedPermanent") = "rejected"
  /\ Outcome("FailedExhausted") = "exhausted"
  BY DEF Outcome

LEMMA InitRefines == Init => Delivery!Init
  BY OutcomeOf DEF Init, Delivery!Init

\* The settled records of a step, each with its justification.
LEMMA SettleStep ==
  ASSUME TypeOK, NEW S \in SUBSET Keys, UNCHANGED <<attempt, accepted>>,
         \A k \in S : /\ status[k] \in {"Pending", "Claimed"}
                      /\ status'[k] \in Terminal /\ Justified(k, status'[k]),
         \A k \in Keys \ S : Outcome(status'[k]) = Outcome(status[k])
  PROVE  Delivery!Settle
<1>. DEFINE o == [k \in S |-> Outcome(status'[k])]
<1>1. o \in [S -> {"delivered", "exhausted", "rejected"}]
  BY OutcomeOf DEF Terminal
<1>2. S \in SUBSET {k \in Keys : outcomes[k] = "open"}
  BY OutcomeOf DEF outcomes
<1>3. \A k \in S : Delivery!MaySettle(k, o[k])
  BY OutcomeOf DEF Delivery!MaySettle, Terminal, Justified
<1>4. outcomes' = [k \in Keys |-> IF k \in S THEN o[k] ELSE outcomes[k]]
  BY DEF outcomes
<1>. QED BY <1>1, <1>2, <1>3, <1>4 DEF Delivery!Settle, outcomes

LEMMA CommitRefines ==
  ASSUME IInv, NEW w \in Workers, NEW k \in Keys, Commits(w, k),
         UNCHANGED <<attempt, accepted>>
  PROVE  Delivery!Settle
<1>. DEFINE s == job[w][k].op.to
            S == IF s = "Pending" THEN {} ELSE {k}
<1>1. Justified(k, s)
  BY DEF IInv, DecidedInv, Commits, IsActive, Active
<1>2. /\ status[k] = "Claimed" /\ s \in Terminal \cup {"Pending"}
      /\ \A i \in Keys : status'[i] = IF i = k THEN s ELSE status[i]
  BY CommitStatus DEF IInv, Ops
<1>. HIDE DEF s
<1>3. S \in SUBSET Keys
  OBVIOUS
<1>4. \A i \in S : /\ status[i] \in {"Pending", "Claimed"}
                   /\ status'[i] \in Terminal /\ Justified(i, status'[i])
  BY <1>1, <1>2
<1>5. \A i \in Keys \ S : Outcome(status'[i]) = Outcome(status[i])
  BY <1>2, OutcomeOf
<1>. HIDE DEF S
<1>. QED BY <1>3, <1>4, <1>5, SettleStep DEF IInv

LEMMA PollRefines ==
  ASSUME IInv, NEW w \in Workers, Poll(w)
  PROVE  Delivery!Settle
<1>1. Visited \subseteq Keys
  BY DEF Visited, Due
<1>2. ASSUME NEW k \in Visited \ Claims
      PROVE  /\ status[k] \in {"Pending", "Claimed"}
             /\ status'[k] \in Terminal /\ Justified(k, status'[k])
  <2>1. /\ attempt[k] \in Nat /\ MaxAttempts[k] \in Nat
        /\ attempt[k] <= MaxAttempts[k] /\ ~(attempt[k] < MaxAttempts[k])
    BY <1>1, OutboxAssumption DEF IInv, TypeOK, CountInv, Claims, HasAttempts
  <2>2. status[k] \in {"Pending", "Claimed"} /\ status'[k] = "FailedExhausted"
    BY <1>1, PollStatus DEF IInv
  <2>. QED BY <2>1, <2>2 DEF Justified, Terminal
<1>3. ASSUME NEW k \in Keys \ (Visited \ Claims)
      PROVE  Outcome(status'[k]) = Outcome(status[k])
  BY PollStatus, OutcomeOf DEF IInv, Expired
<1>. QED BY <1>1, <1>2, <1>3, PollCounts, SettleStep DEF IInv

\* A future that moves and commits nothing begins an attempt, has one take
\* effect, or stutters.
LEMMA MovesRefine ==
  ASSUME IInv, PresentInv, NEW w \in Workers, NEW k \in Keys,
         Counts(w, k) => LeaseIsCurrent(w, k),
         Moves(w, k), UNCHANGED status
  PROVE  Delivery!Try(k) \/ Delivery!Effect(k) \/ UNCHANGED Delivery!dvars
<1>0. outcomes' = outcomes
  BY DEF outcomes
<1>1. CASE Counts(w, k)
  <2>1. outcomes[k] = "open"
    BY <1>1, OutcomeOf DEF LeaseIsCurrent, outcomes
  <2>. QED BY <1>0, <1>1, <2>1 DEF Counts, HasAttempts, Delivery!Try, outcomes
<1>2. CASE IsAccepted(w, k)
  <2>1. outcomes[k] # "absent"
    <3>1. status[k] # "Absent" /\ status[k] \in Statuses
      BY <1>2 DEF IsAccepted, IsActive, Active, PresentInv, IInv, TypeOK
    <3>. QED BY <3>1, OutcomeOf DEF Statuses, Terminal, outcomes
  <2>2. accepted[k] < attempt[k]
    <3>1. w \in Flying(k)
      BY <1>2 DEF IsAccepted, Flying
    <3>2. Cardinality(Flying(k)) # 0
      BY <3>1, FlightFinite, FS_EmptySet
    <3>3. accepted[k] + Cardinality(Flying(k)) <= attempt[k]
      BY DEF IInv, CountInv
    <3>. QED BY <3>2, <3>3, FlightFinite DEF IInv, TypeOK
  <2>. QED BY <1>0, <1>2, <2>1, <2>2 DEF IsAccepted, Delivery!Effect, outcomes
<1>3. CASE Calls(w, k) \/ Decides(w, k) \/ GoesOn(w, k)
  BY <1>0, <1>3 DEF Calls, Decides, GoesOn, Delivery!dvars, outcomes
<1>. QED BY <1>1, <1>2, <1>3 DEF Moves

LEMMA OutsideRefines ==
  ASSUME TypeOK, Outside
  PROVE  (\E k \in Keys : Delivery!Submit(k)) \/ UNCHANGED Delivery!dvars
<1>1. UNCHANGED <<attempt, accepted>>
  BY OutsideCounts
<1>2. CASE UNCHANGED status
  BY <1>1, <1>2 DEF Delivery!dvars
<1>3. CASE \E k \in Keys : status[k] = "Absent" /\ status' = [status EXCEPT ![k] = "Pending"]
  <2>1. PICK k \in Keys : status[k] = "Absent" /\ status' = [status EXCEPT ![k] = "Pending"]
    BY <1>3
  <2>2. \A i \in Keys : status'[i] = IF i = k THEN "Pending" ELSE status[i]
    BY <2>1 DEF TypeOK
  <2>3. \A i \in Keys : Outcome(status'[i]) = IF i = k THEN "open" ELSE Outcome(status[i])
    BY <2>2, OutcomeOf
  <2>4. outcomes[k] = "absent" /\ outcomes' = [outcomes EXCEPT ![k] = "open"]
    BY <2>1, <2>3, OutcomeOf DEF outcomes
  <2>. QED BY <1>1, <2>4 DEF Delivery!Submit, outcomes
<1>. QED BY <1>2, <1>3, OutsideStatus

\* The attempt is counted under a current lease.
LEMMA CountsUnderLease ==
  ASSUME TypeOK, NEW w \in Workers, NEW k \in Keys, Work(w, k) \/ Renew(w, k),
         Counts(w, k)
  PROVE  LeaseIsCurrent(w, k)
<1>1. job[w][k].pc = "begin" /\ attempt' # attempt
  BY DEF Counts, TypeOK
<1>2. Work(w, k) => BeginAttempt(w, k)
  BY <1>1 DEF Work, AcquireGranted, AcquireRefused, AcquireRejected, Invoke,
              RemoteAccepts, ExecutorReturns, PermitRetired, StoreMutation
<1>. QED BY <1>1, <1>2 DEF BeginAttempt, Renew

LEMMA NextRefines ==
  ASSUME IInv, PresentInv, [Next]_vars
  PROVE  [Delivery!Next]_(Delivery!dvars)
<1>1. CASE Outside
  BY <1>1, OutsideRefines DEF IInv, Delivery!Next
<1>2. CASE \E w \in Workers : Poll(w)
  BY <1>2, PollRefines DEF Delivery!Next
<1>3. CASE \E w \in Workers, k \in Keys : Work(w, k) \/ Renew(w, k)
  <2>1. PICK w \in Workers, k \in Keys : Work(w, k) \/ Renew(w, k)
    BY <1>3
  <2>2. CASE Commits(w, k)
    <3>1. UNCHANGED <<attempt, accepted>>
      <4>1. job[w][k].pc = "store"
        BY <2>2 DEF Commits
      <4>2. Moves(w, k)
        BY <2>1, FutureMoves DEF IInv
      <4>. QED BY <4>1, <4>2 DEF Moves, Counts, Calls, IsAccepted, Decides, GoesOn
    <3>. QED BY <2>2, <3>1, CommitRefines DEF Delivery!Next
  <2>3. CASE UNCHANGED status
    BY <2>1, <2>3, FutureMoves, CountsUnderLease, MovesRefine DEF IInv, Delivery!Next
  <2>. QED BY <2>1, <2>2, <2>3, FutureStatus DEF IInv
<1>. QED BY <1>1, <1>2, <1>3, NextSplits

\* The outbox with its workers, leases, crashes and clocks implements bounded
\* at-least-once delivery: every attempt is counted while its record is open,
\* takes effect at most once, and a record is settled once, for its reason.
THEOREM OutboxImplementsDelivery == Spec => ImplementsDelivery
<1>1. Init => Delivery!Init
  BY InitRefines
<1>2. IInv /\ PresentInv /\ [Next]_vars => [Delivery!Next]_(Delivery!dvars)
  BY NextRefines
<1>. QED BY <1>1, <1>2, Inductive, Present, PTL DEF Spec, ImplementsDelivery, Delivery!Spec

-----------------------------------------------------------------------------
(* What no step may do.                                                    *)

LEMMA OutsideProtects ==
  ASSUME TypeOK, Outside, NEW k \in Keys, status[k] = "Claimed"
  PROVE  status'[k] = "Claimed" /\ lease'[k].token = lease[k].token
  BY OutsideStatus, OutsideLease DEF TypeOK

LEMMA FutureProtects ==
  ASSUME IInv, NEW v \in Workers, NEW i \in Keys, Work(v, i) \/ Renew(v, i),
         NEW w \in Workers, NEW k \in Keys, IsActive(w, k), LeaseIsCurrent(w, k),
         IsActive(w, k)'
  PROVE  status'[k] = "Claimed" /\ lease'[k].token = lease[k].token
<1>0. TypeOK /\ TokenInv
  BY DEF IInv
<1>1. CASE Commits(v, i)
  <2>1. i # k
    <3>1. SUFFICES ASSUME i = k PROVE FALSE
      OBVIOUS
    <3>2. IsActive(v, k) /\ LeaseIsCurrent(v, k)
      BY <1>1, <3>1 DEF Commits, IsActive, Active
    <3>3. v = w
      BY <1>0, <3>2 DEF TokenInv, LeaseIsCurrent
    <3>. QED BY <1>1, <3>1, <3>3, Inactive DEF Commits, IsActive
  <2>. QED BY <1>0, <1>1, <2>1, CommitStatus DEF LeaseIsCurrent
<1>2. CASE UNCHANGED status /\ (UNCHANGED lease \/ lease' = [lease EXCEPT ![i] = Renewed(@)])
  <2>1. lease'[k].token = lease[k].token
    BY <1>0, <1>2 DEF TypeOK, Renewed, Lease
  <2>. QED BY <1>2, <2>1 DEF LeaseIsCurrent
<1>. QED BY <1>0, <1>1, <1>2, FutureStatus

\* A poll claims nothing whose lease is current.
LEMMA PollProtects ==
  ASSUME TypeOK, NEW v \in Workers, Poll(v), NEW k \in Keys,
         status[k] = "Claimed", lease[k].left > 0
  PROVE  status'[k] = "Claimed" /\ lease'[k] = lease[k] /\ k \notin Claims
<1>1. ~Expired(k) /\ k \notin Visited /\ k \notin Claims
  BY DEF Expired, Visited, Due, Claims, TypeOK, Leases
<1>. QED BY <1>1 DEF Poll, ClaimDue

\* A live lease protects its holder: while its future goes on, no claim,
\* commit or renewal of another worker takes the record away.
THEOREM LiveLeasesProtect == Spec => LeaseProtects
<1>. DEFINE Protects(w, k) ==
       /\ IsActive(w, k) /\ LeaseIsCurrent(w, k)
       /\ IsActive(w, k)' /\ job'[w][k].token = job[w][k].token
       => /\ status'[k] = "Claimed"
          /\ lease'[k].token = lease[k].token
<1>1. IInv /\ [Next]_vars => \A w \in Workers, k \in Keys : Protects(w, k)
  <2> SUFFICES ASSUME IInv, [Next]_vars, NEW w \in Workers, NEW k \in Keys,
                      IsActive(w, k), LeaseIsCurrent(w, k), IsActive(w, k)'
               PROVE  status'[k] = "Claimed" /\ lease'[k].token = lease[k].token
    OBVIOUS
  <2>0. TypeOK /\ status[k] = "Claimed" /\ lease[k].left > 0
    BY DEF IInv, LeaseIsCurrent
  <2>1. CASE Outside
    BY <2>0, <2>1, OutsideProtects
  <2>2. CASE \E v \in Workers : Poll(v)
    BY <2>0, <2>2, PollProtects
  <2>3. CASE \E v \in Workers, i \in Keys : Work(v, i) \/ Renew(v, i)
    BY <2>3, FutureProtects
  <2>. QED BY <2>1, <2>2, <2>3, NextSplits
<1>2. IInv /\ [Next]_vars => [\A w \in Workers, k \in Keys : Protects(w, k)]_vars
  BY <1>1
<1>. QED BY <1>2, Inductive, PTL DEF Spec, LeaseProtects

-----------------------------------------------------------------------------
(* A worker between batches, or stopped, has no future under way.          *)

ModeInv ==
  \A w \in Workers, k \in Keys : IsActive(w, k) => mode[w] \in {"running", "failing"}

LEMMA FutureMode ==
  ASSUME TypeOK, NEW w \in Workers, NEW k \in Keys, Work(w, k) \/ Renew(w, k)
  PROVE  /\ IsActive(w, k)
         /\ \A v \in Workers : mode'[v] = mode[v] \/ (v = w /\ mode'[v] = "failing")
<1>1. IsActive(w, k)
  BY FutureMoves DEF Moves, Counts, Calls, IsAccepted, Decides, GoesOn, IsActive, Active
<1>2. UNCHANGED mode \/ \E f \in BOOLEAN : Finish(w, k, f)
  <2>1. CASE StoreMutation(w, k)
    BY <2>1 DEF StoreMutation
  <2>2. CASE BeginAttempt(w, k)
    BY <2>2 DEF BeginAttempt
  <2>3. CASE Renew(w, k)
    BY <2>3 DEF Renew
  <2>4. CASE Work(w, k) /\ ~StoreMutation(w, k) /\ ~BeginAttempt(w, k)
    BY <2>4 DEF Work, AcquireGranted, AcquireRefused, AcquireRejected, Invoke,
                RemoteAccepts, ExecutorReturns, PermitRetired
  <2>. QED BY <2>1, <2>2, <2>3, <2>4
<1>. QED BY <1>1, <1>2 DEF Finish, TypeOK

LEMMA PollJobOf ==
  ASSUME TypeOK, NEW w \in Workers, Poll(w), NEW v \in Workers, NEW k \in Keys
  PROVE  job'[v][k] =
           IF v # w THEN job[v][k]
           ELSE IF k \in Claims
                THEN Job("acquire", TokenFor(k), attempt[k], RenewPeriod, Complete)
                ELSE Idle
  BY DEF Poll, TypeOK

LEMMA ModeStep ==
  ASSUME TypeOK, ModeInv, [Next]_vars
  PROVE  ModeInv'
<1> SUFFICES ASSUME NEW v \in Workers, NEW i \in Keys, IsActive(v, i)'
             PROVE  mode'[v] \in {"running", "failing"}
  BY DEF ModeInv, IsActive
<1>1. CASE \E w \in Workers, k \in Keys : Work(w, k) \/ Renew(w, k)
  <2>1. IsActive(v, i)
    BY <1>1, FutureKeeps DEF Keeps
  <2>. QED BY <1>1, <2>1, FutureMode DEF ModeInv
<1>2. CASE \E w \in Workers : Poll(w)
  <2>1. PICK w \in Workers : Poll(w)
    BY <1>2
  <2>2. CASE v = w
    <3>1. i \in Claims
      BY <2>1, <2>2, PollJobOf, Inactive DEF IsActive
    <3>. QED BY <2>1, <2>2, <3>1 DEF Poll, TypeOK
  <2>3. CASE v # w
    BY <2>1, <2>3, PollJobOf DEF ModeInv, IsActive, Poll, TypeOK
  <2>. QED BY <2>2, <2>3
<1>3. CASE Outside
  <2>1. IsActive(v, i)
    BY <1>3, OutsideKeeps DEF Keeps
  <2>2. mode[v] \in {"running", "failing"}
    BY <2>1 DEF ModeInv
  <2>3. ASSUME NEW w \in Workers, BatchEnds(w) \/ Crash(w)
        PROVE  v # w /\ mode'[v] = mode[v]
    <3>1. \A k \in Keys : job'[w][k] = Idle
      BY <2>3 DEF BatchEnds, Crash, TypeOK
    <3>2. v # w
      BY <3>1, Inactive DEF IsActive
    <3>. QED BY <2>3, <3>2 DEF BatchEnds, Crash, TypeOK
  <2>4. ASSUME NEW w \in Workers, Stop(w) \/ Restart(w)
        PROVE  mode'[v] = mode[v]
    BY <2>2, <2>4 DEF Stop, Restart, SeesShutdown, TypeOK
  <2>5. CASE ~\E w \in Workers : BatchEnds(w) \/ Crash(w) \/ Stop(w) \/ Restart(w)
    BY <1>3, <2>2, <2>5 DEF Outside, Enqueue, RequestShutdown, InjectFailure, Tick, vars
  <2>. QED BY <2>2, <2>3, <2>4, <2>5
<1>. QED BY <1>1, <1>2, <1>3, NextSplits

LEMMA ModesAgree == Spec => []ModeInv
<1>1. Init => TypeOK /\ ModeInv
  BY InitType, Inactive DEF Init, ModeInv, IsActive
<1>2. TypeOK /\ ModeInv /\ [Next]_vars => (TypeOK /\ ModeInv)'
  BY NextType, ModeStep
<1>. QED BY <1>1, <1>2, PTL DEF Spec

\* A store error or a lost lease in one future of a batch cancels none of its
\* siblings, and neither does a shutdown: only a crash drops one under way.
THEOREM OnlyACrashAbandons == Spec => OnlyCrashesAbandon
<1>. DEFINE Drops(w, k) == IsActive(w, k) /\ job'[w][k].pc = "idle"
<1>1. TypeOK /\ ModeInv /\ [Next]_vars =>
        \A w \in Workers, k \in Keys : Drops(w, k) => faults' = faults + 1
  <2> SUFFICES ASSUME TypeOK, ModeInv, [Next]_vars, NEW w \in Workers, NEW k \in Keys,
                      IsActive(w, k), job'[w][k].pc = "idle"
               PROVE  faults' = faults + 1
    OBVIOUS
  <2>0. mode[w] \in {"running", "failing"} /\ job'[w][k].pc # job[w][k].pc
    BY DEF ModeInv, IsActive, Active
  <2>1. CASE \E v \in Workers, i \in Keys : Work(v, i) \/ Renew(v, i)
    <3>1. PICK v \in Workers, i \in Keys : Moves(v, i) /\ Local(v, i)
      BY <2>1, FutureMoves
    <3>2. v = w /\ i = k
      BY <2>0, <3>1 DEF Local
    <3>3. \/ job'[w][k].pc \in Active \cup {"done"}
          \/ job'[w][k].pc = job[w][k].pc
      BY <3>1, <3>2, AtFields, DecidingFields, TimedFields
         DEF Moves, Counts, Calls, IsAccepted, Decides, GoesOn, Active, Job, Done
    <3>. QED BY <2>0, <3>3 DEF Active
  <2>2. CASE \E v \in Workers : Poll(v)
    <3>1. PICK v \in Workers : Poll(v)
      BY <2>2
    <3>2. v # w
      BY <2>0, <3>1 DEF Poll
    <3>. QED BY <2>0, <3>1, <3>2, PollJobOf
  <2>3. CASE Outside
    <3>1. ASSUME NEW v \in Workers, BatchEnds(v) PROVE FALSE
      <4>1. v # w
        BY <3>1 DEF BatchEnds, BatchDone
      <4>. QED BY <2>0, <3>1, <4>1 DEF BatchEnds, TypeOK
    <3>2. ASSUME NEW v \in Workers, Crash(v) PROVE faults' = faults + 1
      BY <3>2 DEF Crash
    <3>3. CASE Tick
      <4>1. job'[w][k].pc = job[w][k].pc
        BY <3>3, TimedFields DEF Tick
      <4>. QED BY <2>0, <4>1
    <3>4. CASE ~Tick /\ ~\E v \in Workers : BatchEnds(v) \/ Crash(v)
      BY <2>0, <2>3, <3>4 DEF Outside, Enqueue, Stop, RequestShutdown, Restart,
                              InjectFailure, vars
    <3>. QED BY <2>3, <3>1, <3>2, <3>3, <3>4
  <2>. QED BY <2>1, <2>2, <2>3, NextSplits
<1>2. TypeOK /\ ModeInv /\ [Next]_vars =>
        [\A w \in Workers, k \in Keys : Drops(w, k) => faults' = faults + 1]_vars
  BY <1>1
<1>. QED BY <1>2, TypeCorrect, ModesAgree, PTL DEF Spec, OnlyCrashesAbandon

-----------------------------------------------------------------------------
(* Heartbeats served on time.  The next heartbeat of a future is due before *)
(* its lease runs out, so a lease never reaches its end under a future and  *)
(* no poll finds the record expired.                                        *)

Beats(w, k) ==
  IsActive(w, k) => LeaseIsCurrent(w, k) /\ job[w][k].timer < lease[k].left

BeatInv == \A w \in Workers, k \in Keys : Beats(w, k)

\* lease_for / 3 leaves time for two more heartbeats, and its floor of one
\* millisecond is still below a lease of two.
LEMMA RenewsInTime == LeaseFor > 1 => RenewPeriod < LeaseFor
<1>1. LeaseFor \in Nat
  BY OutboxAssumption
<1>. QED BY <1>1 DEF RenewPeriod

\* What a step of a future does to its own timer.
LEMMA FutureTimer ==
  ASSUME TypeOK, NEW w \in Workers, NEW k \in Keys, Work(w, k) \/ Renew(w, k),
         LeaseIsCurrent(w, k), IsActive(w, k)'
  PROVE  /\ UNCHANGED status
         /\ \/ job'[w][k].timer = job[w][k].timer /\ UNCHANGED lease
            \/ /\ job'[w][k].timer = RenewPeriod
               /\ lease' = [lease EXCEPT ![k] = Renewed(@)]
<1>0. job'[w][k] # Done
  BY Inactive DEF IsActive
<1>1. CASE AcquireGranted(w, k) \/ Invoke(w, k) \/ RemoteAccepts(w, k) \/ PermitRetired(w, k)
  <2>1. UNCHANGED store /\ \E s : job' = [job EXCEPT ![w][k] = At(@, s)]
    BY <1>1 DEF AcquireGranted, Invoke, RemoteAccepts, PermitRetired
  <2>2. PICK s : job' = [job EXCEPT ![w][k] = At(job[w][k], s)]
    BY <2>1
  <2>3. job'[w][k] = At(job[w][k], s)
    BY <2>2 DEF TypeOK
  <2>. QED BY <2>1, <2>3 DEF store, At, Job
<1>2. CASE AcquireRefused(w, k) \/ AcquireRejected(w, k) \/ ExecutorReturns(w, k)
  <2>1. UNCHANGED store /\ \E s, op : job' = [job EXCEPT ![w][k] = Deciding(@, s, op)]
    BY <1>2 DEF AcquireRefused, AcquireRejected, ExecutorReturns
  <2>2. PICK s, op : job' = [job EXCEPT ![w][k] = Deciding(job[w][k], s, op)]
    BY <2>1
  <2>3. job'[w][k] = Deciding(job[w][k], s, op)
    BY <2>2 DEF TypeOK
  <2>. QED BY <2>1, <2>3 DEF store, Deciding, Job
<1>3. CASE BeginAttempt(w, k)
  <2>1. UNCHANGED <<status, lease>>
    BY <1>3 DEF BeginAttempt
  <2>. DEFINE j == IF HasAttempts(k)
                   THEN Job("begun", job[w][k].token, attempt[k] + 1, job[w][k].timer, job[w][k].op)
                   ELSE Deciding(job[w][k], "ack", Fail("FailedExhausted"))
  <2>2. job' = [job EXCEPT ![w][k] = j]
    BY <1>3 DEF BeginAttempt
  <2>3. j.timer = job[w][k].timer
    BY DEF Deciding, Job
  <2>. HIDE DEF j
  <2>4. job'[w][k] = j
    BY <2>2 DEF TypeOK
  <2>. QED BY <2>1, <2>3, <2>4
<1>4. CASE StoreMutation(w, k)
  BY <1>0, <1>4, FinishJob DEF StoreMutation
<1>5. CASE Renew(w, k)
  <2>1. /\ UNCHANGED status /\ lease' = [lease EXCEPT ![k] = Renewed(@)]
        /\ job' = [job EXCEPT ![w][k] = Timed(job[w][k], RenewPeriod)]
    BY <1>5 DEF Renew
  <2>2. job'[w][k] = Timed(job[w][k], RenewPeriod)
    BY <2>1 DEF TypeOK
  <2>. QED BY <2>1, <2>2 DEF Timed, Job
<1>. QED BY <1>1, <1>2, <1>3, <1>4, <1>5 DEF Work

\* All that the fence and the clock look at.
LEMMA BeatsStay ==
  ASSUME NEW w \in Workers, NEW k \in Keys, Beats(w, k),
         IsActive(w, k)' => IsActive(w, k),
         job'[w][k].token = job[w][k].token, status'[k] = status[k],
         lease'[k].worker = lease[k].worker, lease'[k].token = lease[k].token,
         lease'[k].left > 0, job'[w][k].timer < lease'[k].left
  PROVE  Beats(w, k)'
  BY DEF Beats, IsActive, LeaseIsCurrent

LEMMA FutureBeats ==
  ASSUME IInv, BeatInv, LeaseFor > 1, NEW v \in Workers, NEW i \in Keys,
         Work(v, i) \/ Renew(v, i), NEW w \in Workers, NEW k \in Keys
  PROVE  Beats(w, k)'
<1> SUFFICES ASSUME IsActive(w, k)' PROVE Beats(w, k)'
  BY DEF Beats, IsActive
<1>0. TypeOK /\ TokenInv
  BY DEF IInv
<1>1. IsActive(w, k) /\ job'[w][k].token = job[w][k].token
  BY <1>0, FutureKeeps DEF Keeps
<1>2. LeaseIsCurrent(w, k) /\ job[w][k].timer < lease[k].left /\ lease[k].left > 0
  BY <1>1 DEF BeatInv, Beats, LeaseIsCurrent
<1>3. IsActive(v, i) /\ LeaseIsCurrent(v, i)
  BY <1>0, FutureMode DEF BeatInv, Beats
<1>4. CASE v = w /\ i = k
  <2>1. /\ UNCHANGED status
        /\ \/ job'[w][k].timer = job[w][k].timer /\ UNCHANGED lease
           \/ /\ job'[w][k].timer = RenewPeriod
              /\ lease' = [lease EXCEPT ![k] = Renewed(@)]
    BY <1>0, <1>2, <1>4, FutureTimer
  <2>2. CASE job'[w][k].timer = job[w][k].timer /\ UNCHANGED lease
    BY <1>1, <1>2, <2>1, <2>2, BeatsStay DEF BeatInv
  <2>3. CASE job'[w][k].timer = RenewPeriod /\ lease' = [lease EXCEPT ![k] = Renewed(@)]
    <3>1. lease'[k] = Lease(lease[k].worker, lease[k].token, LeaseFor)
      BY <1>0, <2>3 DEF TypeOK, Renewed
    <3>2. lease'[k].worker = lease[k].worker /\ lease'[k].token = lease[k].token
          /\ lease'[k].left = LeaseFor
      BY <3>1 DEF Lease
    <3>3. LeaseFor > 0 /\ RenewPeriod < LeaseFor
      BY RenewsInTime, OutboxAssumption
    <3>. QED BY <1>1, <2>1, <2>3, <3>2, <3>3, BeatsStay DEF BeatInv
  <2>. QED BY <2>1, <2>2, <2>3
<1>5. CASE i = k /\ v # w
  BY <1>0, <1>1, <1>2, <1>3, <1>5 DEF TokenInv, LeaseIsCurrent
<1>6. CASE i # k
  <2>1. job'[w][k] = job[w][k]
    BY <1>0, <1>6, FutureMoves DEF Local
  <2>2. status'[k] = status[k] /\ lease'[k] = lease[k]
    BY <1>0, <1>6, FutureStatus, CommitStatus DEF TypeOK
  <2>. QED BY <1>1, <1>2, <2>1, <2>2, BeatsStay DEF BeatInv
<1>. QED BY <1>4, <1>5, <1>6

LEMMA PollBeats ==
  ASSUME TypeOK, BeatInv, LeaseFor > 1, NEW v \in Workers, Poll(v),
         NEW w \in Workers, NEW k \in Keys
  PROVE  Beats(w, k)'
<1> SUFFICES ASSUME IsActive(w, k)' PROVE Beats(w, k)'
  BY DEF Beats, IsActive
<1>1. CASE v = w
  <2>1. k \in Claims /\ job'[w][k] = Job("acquire", TokenFor(k), attempt[k], RenewPeriod, Complete)
    BY <1>1, PollJobOf, Inactive DEF IsActive
  <2>2. status'[k] = "Claimed" /\ lease'[k] = Lease(WorkerId[w], TokenFor(k), LeaseFor)
    BY <1>1, <2>1 DEF Poll, ClaimDue
  <2>3. LeaseFor > 0 /\ RenewPeriod < LeaseFor
    BY RenewsInTime, OutboxAssumption
  <2>. QED BY <2>1, <2>2, <2>3 DEF Beats, LeaseIsCurrent, Lease, Job
<1>2. CASE v # w
  <2>1. job'[w][k] = job[w][k] /\ IsActive(w, k)
    BY <1>2, PollJobOf DEF IsActive
  <2>2. status[k] = "Claimed" /\ lease[k].left > 0 /\ job[w][k].timer < lease[k].left
    BY <2>1 DEF BeatInv, Beats, LeaseIsCurrent
  <2>3. status'[k] = status[k] /\ lease'[k] = lease[k]
    BY <2>2, PollProtects
  <2>. QED BY <2>1, <2>2, <2>3, BeatsStay DEF BeatInv
<1>. QED BY <1>1, <1>2

LEMMA TickBeats ==
  ASSUME TypeOK, BeatInv, Punctual, Tick, NEW w \in Workers, NEW k \in Keys
  PROVE  Beats(w, k)'
<1> SUFFICES ASSUME IsActive(w, k)' PROVE Beats(w, k)'
  BY DEF Beats, IsActive
<1>1. /\ job'[w][k] = Timed(job[w][k], Elapse(job[w][k].timer))
      /\ lease'[k] = Lease(lease[k].worker, lease[k].token, Elapse(lease[k].left))
      /\ status' = status
  BY DEF Tick
<1>2. /\ job'[w][k].pc = job[w][k].pc /\ job'[w][k].token = job[w][k].token
      /\ job'[w][k].timer = Elapse(job[w][k].timer)
      /\ lease'[k].worker = lease[k].worker /\ lease'[k].token = lease[k].token
      /\ lease'[k].left = Elapse(lease[k].left)
  BY <1>1 DEF Timed, Job, Lease
<1>3. IsActive(w, k)
  BY <1>2 DEF IsActive
<1>4. job[w][k].timer \in Nat /\ lease[k].left \in Nat
  BY DEF TypeOK, Jobs, Leases
<1>5. job[w][k].timer > 0 /\ job[w][k].timer < lease[k].left
  BY <1>3 DEF Tick, BeatInv, Beats
<1>6. /\ Elapse(lease[k].left) > 0
      /\ Elapse(job[w][k].timer) < Elapse(lease[k].left)
  BY <1>4, <1>5 DEF Elapse
<1>. QED BY <1>1, <1>2, <1>3, <1>6, BeatsStay DEF BeatInv

LEMMA OutsideBeats ==
  ASSUME TypeOK, BeatInv, Punctual, Outside, NEW w \in Workers, NEW k \in Keys
  PROVE  Beats(w, k)'
<1>1. CASE Tick
  BY <1>1, TickBeats
<1>2. CASE ~Tick
  <2> SUFFICES ASSUME IsActive(w, k)' PROVE Beats(w, k)'
    BY DEF Beats, IsActive
  <2>1. job'[w][k] \in {job[w][k], Idle}
    <3>1. ASSUME NEW u \in Workers, BatchEnds(u) \/ Crash(u)
          PROVE  job'[w][k] \in {job[w][k], Idle}
      BY <3>1 DEF BatchEnds, Crash, TypeOK
    <3>2. CASE ~\E u \in Workers : BatchEnds(u) \/ Crash(u)
      BY <1>2, <3>2 DEF Outside, Enqueue, Stop, RequestShutdown, Restart, InjectFailure, vars
    <3>. QED BY <3>1, <3>2
  <2>2. job'[w][k] = job[w][k] /\ IsActive(w, k)
    BY <2>1, Inactive DEF IsActive
  <2>3. status[k] = "Claimed" /\ lease[k].left > 0 /\ job[w][k].timer < lease[k].left
    BY <2>2 DEF BeatInv, Beats, LeaseIsCurrent
  <2>4. status'[k] = status[k]
    BY <2>3, OutsideStatus DEF TypeOK
  <2>5. UNCHANGED lease
    BY <1>2 DEF Outside, Enqueue, BatchEnds, Stop, RequestShutdown, Crash, Restart,
                InjectFailure, vars, store
  <2>. QED BY <2>2, <2>3, <2>4, <2>5, BeatsStay DEF BeatInv
<1>. QED BY <1>1, <1>2

\* As long as no live worker lets a due heartbeat wait, every future under way
\* holds the lease of its record, however long the scheduler and the executor
\* take, whatever crashes and however many workers poll.  A lease of a single
\* millisecond is the exception: its renewal period is the whole of it.
THEOREM PunctualHeartbeatsKeepLeases ==
  ASSUME Punctual, LeaseFor > 1
  PROVE  Spec => []HeartbeatKeepsLease
<1>1. Init => BeatInv
  BY Inactive DEF Init, BeatInv, Beats, IsActive
<1>2. IInv /\ BeatInv /\ [Next]_vars => BeatInv'
  <2> SUFFICES ASSUME IInv, BeatInv, [Next]_vars, NEW w \in Workers, NEW k \in Keys
               PROVE  Beats(w, k)'
    BY DEF BeatInv
  <2>. QED BY NextSplits, FutureBeats, PollBeats, OutsideBeats DEF IInv
<1>3. BeatInv => HeartbeatKeepsLease
  BY DEF BeatInv, Beats, HeartbeatKeepsLease
<1>. QED BY <1>1, <1>2, <1>3, Inductive, PTL DEF Spec
=============================================================================
