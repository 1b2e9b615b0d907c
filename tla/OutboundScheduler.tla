------------------------- MODULE OutboundScheduler -------------------------
(***************************************************************************)
(* The outbound rate scheduler: SchedulerState of                          *)
(* teloxide-core/src/outbound/scheduler.rs, driven as the outbound actor   *)
(* drives it (a command, the lifecycle commands that have arrived, one     *)
(* admission pass, sleep until the next deadline).                         *)
(*                                                                         *)
(* Instants are relative: ages count the ticks since an instant, timers    *)
(* the ticks that are left.  Job identifiers are never reused, so they     *)
(* also order the enqueues.  A reference (CandidateRef) is a job or a      *)
(* lane.  Heap entries that the code drops when they surface are dropped   *)
(* here when they die; the lane queues and the parked queues keep their    *)
(* dead entries, as theirs have effects.                                   *)
(***************************************************************************)
EXTENDS Integers, Sequences, FiniteSets, SequencesExt, FiniteSetsExt

CONSTANTS
    Chats, NoChat,      \* OutboundChatKey; NoChat is OutboundScope::Global
    Classes, NoClass,   \* OutboundClass; NoClass for the unclassed windows
    Lanes, NoLane,      \* OutboundLaneKey
    OrderedStart,       \* the lanes of mode OrderedStart
    Bounded,            \* the lanes of mode BoundedOrderedStart
    MaxInFlight,        \* [Bounded -> Nat \ {0}], the bound of those lanes
    NoKey,              \* no latest-wins slot (OutboundEnqueueMode::Fifo)
    Metas,              \* the requests that callers submit
    NotBefores,         \* the delays of a not_before, in ticks
    LimitSets,          \* the rate limits that can be configured
    QueueCapacity,      \* queue_capacity
    Highest,            \* OutboundPriority::HIGHEST
    Quantum,            \* AgingPolicy::quantum
    RetryAfters,        \* what is left of a freeze when it is reported
    MaxJobs,            \* bound: enqueues of a behaviour
    MaxCalls            \* bound: calls of the handle besides requests

JobIds == 1 .. MaxJobs
Scopes == Chats \cup {NoChat}
Windows == Scopes \X (Classes \cup {NoClass})   \* WindowRef
GlobalWindow == <<NoChat, NoClass>>
NoWindow == <<>>
NoJob == 0
NoRef == 0

ASSUME LaneModes ==
    /\ OrderedStart \subseteq Lanes
    /\ Bounded \subseteq Lanes \ OrderedStart
    /\ MaxInFlight \in [Bounded -> Nat \ {0}]
ASSUME Sizes ==
    /\ MaxJobs \in Nat /\ MaxCalls \in Nat /\ QueueCapacity \in Nat
    /\ Highest \in Nat /\ Quantum \in Nat \ {0}
ASSUME RequestsAreTyped ==
    \A m \in Metas : /\ m.weight \in Nat \ {0} /\ m.prio \in 0 .. Highest
                     /\ m.chat \in Scopes /\ m.class \in Classes
                     /\ m.lane \in Lanes \cup {NoLane}
ASSUME LimitsAreTyped ==
    /\ \A ls \in LimitSets : \A w \in Windows : \A l \in ls[w] :
        l.cap \in Nat /\ l.len \in Nat \ {0}
    /\ IsFiniteSet(UNION {ls[w] : ls \in LimitSets, w \in Windows})
ASSUME References == NoLane \notin Lanes /\ Lanes \cap (0 .. MaxJobs) = {}
ASSUME DurationsAreTyped == NotBefores \subseteq Nat /\ RetryAfters \subseteq Nat

VARIABLES
    job,      \* jobs, in_flight, delayed and what became of the finished jobs
    lane,     \* lanes
    cands,    \* candidates
    blocked,  \* blocked
    hold,     \* reservations
    ledger,   \* the debited jobs of every window set
    limits,   \* the configured windows
    penalty,  \* penalties, ticks left
    phase,    \* where the actor is: asleep, due (an admission pass), pop
    nextJob,  \* next_job_id
    calls     \* bound: calls made so far

vars == <<job, lane, cands, blocked, hold, ledger, limits, penalty, phase,
          nextJob, calls>>

------------------------------------------------------------------------------
\* The state

NotDelayed == -1

\* A job of `jobs` is "waiting"; one of `in_flight` is "granted", or "started"
\* once its lane was released by a start.  `ago` counts the ticks since the
\* grant and `spent` tells that the grant was not refunded.
NewJob(m, seq, age, delay) ==
    [st |-> "waiting", meta |-> m, seq |-> seq, age |-> age, delay |-> delay,
     owns |-> NoWindow, ago |-> 0, spent |-> FALSE]
NeverUsed == [st |-> "none"]

NewLane == [pending |-> {}, holder |-> NoJob, count |-> 0, queued |-> FALSE]
NoHold == [on |-> FALSE, owner |-> NoRef, in |-> 0, queue |-> <<>>, stale |-> 0]

\* The part of the state that the methods of SchedulerState pass around.
Core == [job |-> job, lane |-> lane, cands |-> cands, blocked |-> blocked,
         hold |-> hold, ledger |-> ledger]

Install(s) ==
    /\ job' = s.job /\ lane' = s.lane /\ cands' = s.cands
    /\ blocked' = s.blocked /\ hold' = s.hold /\ ledger' = s.ledger

Waiting(s, j) == s.job[j].st = "waiting"
Flying(s, j) == s.job[j].st \in {"granted", "started"}

Longest(w) == Max({l.len : l \in limits[w]} \cup {0})
MaxLen == Max({l.len : l \in UNION {ls[w] : ls \in LimitSets, w \in Windows}} \cup {0})

Init ==
    /\ job = [j \in JobIds |-> NeverUsed]
    /\ lane = [l \in Lanes |-> NewLane]
    /\ cands = {} /\ blocked = {}
    /\ hold = [w \in Windows |-> NoHold]
    /\ ledger = [w \in Windows |-> {}]
    /\ limits \in LimitSets
    /\ penalty = [c \in Scopes |-> 0]
    /\ phase = "asleep" /\ nextJob = 1 /\ calls = 0

------------------------------------------------------------------------------
\* Rate windows

WindowsOf(m) ==
    <<GlobalWindow, <<NoChat, m.class>>>> \o
        IF m.chat = NoChat THEN <<>> ELSE <<<<m.chat, NoClass>>, <<m.chat, m.class>>>>

\* The weight of the jobs of S together.
Weighed(jobs, S) == MapThenSumSet(LAMBDA j : jobs[j].meta.weight, S)

Used(s, w, len, d) == Weighed(s.job, {j \in s.ledger[w] : s.job[j].ago + d < len})

\* Whether the window set will take `weight` more in d ticks.
CanConsume(s, w, weight, d) ==
    \A l \in limits[w] : Used(s, w, l.len, d) + weight <= l.cap

Never(w, weight) == \E l \in limits[w] : weight > l.cap

EarliestFor(s, w, weight) ==
    Min({d \in 0 .. Longest(w) : CanConsume(s, w, weight, d)})

Consume(s, j) ==
    [s EXCEPT !.ledger = [w \in Windows |->
        IF w \in Range(WindowsOf(s.job[j].meta)) /\ limits[w] # {}
        THEN @[w] \cup {j} ELSE @[w]]]

\* A weight above a positive capacity could never be granted; a window of
\* capacity zero is a pause.
TooHeavy(m, ls) ==
    \E w \in Range(WindowsOf(m)) : \E l \in ls[w] : l.cap # 0 /\ m.weight > l.cap

------------------------------------------------------------------------------
\* Candidates, lanes and reservations

Effective(r) == Min({Highest, r.meta.prio + (r.age \div Quantum)})

Key(s, ref, j) == [ref |-> ref, eff |-> Effective(s.job[j]), seq |-> s.job[j].seq]

\* A mutant: a replacement goes to the back of its lane.
Before_ById(s, i, j) == i < j

Before(s, i, j) ==
    \/ s.job[i].seq < s.job[j].seq
    \/ s.job[i].seq = s.job[j].seq /\ i < j

First(s, S) == CHOOSE j \in S : \A i \in S \ {j} : Before(s, j, i)

Live(s, l) == {j \in s.lane[l].pending : Waiting(s, j)}

Alive(s, ref) == IF ref \in Lanes THEN Live(s, ref) # {} ELSE Waiting(s, ref)

IsBlocked(s, ref) == \E n \in s.blocked : n.ref = ref

HasCapacity(s, l) == s.lane[l].count < IF l \in Bounded THEN MaxInFlight[l] ELSE 1

IsIdle(s, l) ==
    /\ s.lane[l].pending = {}
    /\ IF l \in Bounded THEN s.lane[l].count = 0 ELSE s.lane[l].holder = NoJob

RemoveIdle(s, l) == IF IsIdle(s, l) THEN [s EXCEPT !.lane[l] = NewLane] ELSE s

\* Drops the dead entries ahead of the first live one.
Drain(s, l) ==
    [s EXCEPT !.lane[l].pending =
        {j \in @ : Live(s, l) # {} /\ ~Before(s, j, First(s, Live(s, l)))}]

PushJob(s, j) == IF Waiting(s, j) THEN [s EXCEPT !.cands = @ \cup {Key(s, j, j)}] ELSE s

PushHead(s, l) ==
    LET head == First(s, s.lane[l].pending) IN
    IF s.job[head].delay > 0 \/ s.lane[l].queued
    THEN s
    ELSE [s EXCEPT !.lane[l].queued = TRUE, !.cands = @ \cup {Key(s, l, head)}]

\* A lane without a live pending job is removed, whatever it has in flight.
PushLane(s, l) ==
    IF ~HasCapacity(s, l) \/ IsBlocked(s, l) THEN s
    ELSE IF Live(s, l) = {} THEN [s EXCEPT !.lane[l] = NewLane]
    ELSE PushHead(Drain(s, l), l)

Push(s, ref) == IF ref \in Lanes THEN PushLane(s, ref) ELSE PushJob(s, ref)

\* One after the other: a push looks at its own reference, changes nothing but
\* its lane, and adds at most its key, so the order of the pushes is the same
\* to them all.
PushAll(s, refs) ==
    [s EXCEPT !.lane = [l \in Lanes |-> IF l \in refs THEN Push(s, l).lane[l] ELSE @[l]],
              !.cands = @ \cup UNION {Push(s, ref).cands : ref \in refs}]

Unblock(s, refs) == [s EXCEPT !.blocked = {n \in @ : n.ref \notin refs}]

Block(s, ref, in, permanent) ==
    [s EXCEPT !.blocked = {n \in @ : n.ref # ref}
                            \cup {[ref |-> ref, in |-> in, permanent |-> permanent]}]

RefOf(s, j) == IF s.job[j].meta.lane = NoLane THEN j ELSE s.job[j].meta.lane

\* A mutant: the last tick of a hold is not part of it.
HoldActive_EndsEarly(s, w) == s.hold[w].on /\ s.hold[w].in > 1

HoldActive(s, w) == s.hold[w].on /\ s.hold[w].in > 0

\* A mutant: the parked queue dies with the owner.
ReleaseReservation_DropsQueue(s, w, owner) ==
    IF w = NoWindow THEN s
    ELSE IF s.hold[w].on /\ s.hold[w].owner = owner THEN [s EXCEPT !.hold[w] = NoHold]
    ELSE s

ReleaseReservation(s, w, owner) ==
    IF w = NoWindow THEN s
    ELSE IF s.hold[w].on /\ s.hold[w].owner = owner
    THEN PushAll([s EXCEPT !.hold[w] = NoHold], Range(s.hold[w].queue))
    ELSE s

------------------------------------------------------------------------------
\* Commands

\* A mutant: the node of a lane that has no live job left is kept.
RewakeLane_KeepsNode(s, l) ==
    IF IsBlocked(s, l) /\ Live(s, l) # {} THEN Block(s, l, 0, FALSE) ELSE s

\* The lane of a job that died while the lane slept: its deadline was the dead
\* head's, so a live successor is woken at once.
RewakeLane(s, l) ==
    IF ~IsBlocked(s, l) THEN s
    ELSE IF Live(s, l) # {} THEN Block(s, l, 0, FALSE)
    ELSE Unblock(s, {l})

RemoveWaiting(s, j) ==
    LET l == s.job[j].meta.lane
        counted == [s EXCEPT !.hold = [w \in Windows |->
                        IF j \in Range(s.hold[w].queue)
                        THEN [s.hold[w] EXCEPT !.stale = @ + 1] ELSE s.hold[w]]]
        released == ReleaseReservation(counted, s.job[j].owns, RefOf(s, j))
        dead == [released EXCEPT !.job[j] = [@ EXCEPT !.st = "cancelled", !.owns = NoWindow,
                                                      !.age = 0, !.delay = NotDelayed],
                                 !.blocked = {n \in @ : n.ref # j},
                                 !.cands = {k \in @ : k.ref # j}]
    IN  IF l = NoLane THEN dead ELSE RewakeLane(dead, l)

Slot(m) == {j \in JobIds : /\ m.key # NoKey
                           /\ Waiting(Core, j)
                           /\ \A f \in {"chat", "lane", "class", "key"} : job[j].meta[f] = m[f]}

Backlog == Cardinality({j \in JobIds : Waiting(Core, j)})

Inserted(s, j, r, old) ==
    LET l == r.meta.lane
        stored == [s EXCEPT !.job[j] = r]
        first == First(stored, s.lane[l].pending \cup {j})
        entered == [s.lane[l] EXCEPT !.pending = @ \cup {j},
                                     !.queued = @ /\ first \notin old]
    IN  IF l # NoLane THEN PushLane([stored EXCEPT !.lane[l] = entered], l)
        ELSE IF r.delay = NotDelayed THEN PushJob(stored, j) ELSE stored

\* enqueue; the requests it refuses leave the state as it is.
Enqueue(m, delay) ==
    LET old == Slot(m)
        inherits == old # {} /\ \A i \in old : job[i].delay = NotDelayed
        seq == IF old = {} THEN nextJob ELSE job[Min(old)].seq
        age == IF inherits /\ delay = NotDelayed THEN job[Min(old)].age ELSE 0
        removed == IF old = {} THEN Core ELSE RemoveWaiting(Core, Min(old))
    IN  /\ phase = "asleep"
        /\ nextJob <= MaxJobs
        /\ ~TooHeavy(m, limits)
        /\ \A i \in old : job[i].meta.weight = m.weight
        /\ old # {} \/ Backlog < QueueCapacity
        /\ Install(Inserted(removed, nextJob, NewJob(m, seq, age, delay), old))
        /\ nextJob' = nextJob + 1
        /\ phase' = "due"
        /\ UNCHANGED <<limits, penalty, calls>>

\* A command other than an enqueue, handled while the actor sleeps or drained
\* before its next pass.
Command ==
    /\ phase \in {"asleep", "due"}
    /\ phase' = "due"
    /\ UNCHANGED nextJob

Cancel(j) ==
    /\ Command
    /\ Waiting(Core, j)
    /\ Install(RemoveWaiting(Core, j))
    /\ UNCHANGED <<limits, penalty, calls>>

\* A mutant: the next job of a vacated lane is not offered.
Vacated_WakesNobody(s, l) == RemoveIdle(s, l)

Vacated(s, l) ==
    IF s.lane[l].pending # {} THEN PushLane(s, l) ELSE RemoveIdle(s, l)

\* Only an OrderedStart lane is released by the start of its holder.
Start(j) ==
    /\ Command
    /\ job[j].st = "granted"
    /\ job[j].meta.lane \in OrderedStart
    /\ lane[job[j].meta.lane].holder = j
    /\ LET l == job[j].meta.lane IN
       Install(Vacated([Core EXCEPT !.job[j].st = "started",
                                    !.lane[l].holder = NoJob, !.lane[l].count = 0], l))
    /\ UNCHANGED <<limits, penalty, calls>>

\* A mutant: any completion releases the lane, not only its holder's.
ReleaseLane_IgnoresHolder(s, j) ==
    LET l == s.job[j].meta.lane IN
    IF l = NoLane THEN s
    ELSE Vacated([s EXCEPT !.lane[l].holder = NoJob, !.lane[l].count = Max({0, @ - 1})], l)

ReleaseLane(s, j) ==
    LET l == s.job[j].meta.lane IN
    IF l = NoLane THEN s
    ELSE IF l \in Bounded /\ s.lane[l].count > 0
    THEN Vacated([s EXCEPT !.lane[l].count = @ - 1], l)
    ELSE IF l \notin Bounded /\ s.lane[l].holder = j
    THEN Vacated([s EXCEPT !.lane[l].holder = NoJob, !.lane[l].count = 0], l)
    ELSE RemoveIdle(s, l)

Landed(s, j) == [s EXCEPT !.job[j].st = "done"]

\* complete with Success, Failure, CancelledAfterGrant...
Complete(j) ==
    /\ Command
    /\ Flying(Core, j)
    /\ Install(ReleaseLane(Landed(Core, j), j))
    /\ UNCHANGED <<limits, penalty, calls>>

\* The sleeping owners of the holds on windows ws compete again.
RearmReservationOwners(s, ws) ==
    LET owners == {s.hold[w].owner : w \in {w \in ws : s.hold[w].on}}
        asleep == {ref \in owners : IsBlocked(s, ref)}
    IN  PushAll(Unblock(s, asleep), asleep)

\* A mutant: only the global window is credited.
Refund_GlobalOnly(s, j) ==
    RearmReservationOwners([s EXCEPT !.job[j].spent = FALSE,
                                     !.ledger[GlobalWindow] = @ \ {j}],
                           {GlobalWindow})

Refund(s, j) ==
    LET refunded == {w \in Range(WindowsOf(s.job[j].meta)) : j \in s.ledger[w]}
        credited == [s EXCEPT !.job[j].spent = FALSE,
                              !.ledger = [w \in Windows |-> @[w] \ {j}]]
    IN  RearmReservationOwners(credited, refunded)

\* complete with NoRequest: nothing was sent, the debits are refunded.
CompleteNoRequest(j) ==
    /\ Command
    /\ Flying(Core, j)
    /\ Install(Refund(ReleaseLane(Landed(Core, j), j), j))
    /\ UNCHANGED <<limits, penalty, calls>>

Penalized(scope, left) == [penalty EXCEPT ![scope] = Max({@, left})]

\* complete with RetryAfter; `left` is what remains of the freeze now, as its
\* deadline counts from the moment the caller saw the error.
CompleteRetryAfter(j, scope, left) ==
    /\ Command
    /\ Flying(Core, j)
    /\ Install(ReleaseLane(Landed(Core, j), j))
    /\ penalty' = Penalized(scope, left)
    /\ UNCHANGED <<limits, calls>>

Call ==
    /\ Command
    /\ calls < MaxCalls
    /\ calls' = calls + 1

Penalize(scope, left) ==
    /\ Call
    /\ penalty' = Penalized(scope, left)
    /\ UNCHANGED <<job, lane, cands, blocked, hold, ledger, limits>>

\* A command that leaves the scheduler as it is: snapshot, limits, a refused
\* enqueue.  An admission pass follows it all the same.
Query ==
    /\ Call
    /\ phase = "asleep"
    /\ UNCHANGED <<job, lane, cands, blocked, hold, ledger, limits, penalty>>

\* rearm_blocked_and_parked
Rearmed(s) ==
    LET refs == {n.ref : n \in s.blocked}
                  \cup UNION {Range(s.hold[w].queue) : w \in Windows}
        cleared == [s EXCEPT !.blocked = {}, !.hold = [w \in Windows |-> NoHold],
                             !.job = [j \in JobIds |->
                                IF j \in refs /\ Waiting(s, j)
                                THEN [@[j] EXCEPT !.owns = NoWindow] ELSE @[j]]]
    IN  PushAll(cleared, refs)

\* A mutant: new limits start with a fresh budget.
Carried_Nothing(new) == [w \in Windows |-> {}]

\* The new windows inherit the debits that the longest of the old ones covers
\* and that they still cover themselves.
Carried(new) ==
    [w \in Windows |->
        {j \in ledger[w] : \E l \in new[w] : job[j].ago < l.len}]

ReplaceLimits(new) ==
    /\ Call
    /\ new # limits
    /\ \A j \in JobIds : Waiting(Core, j) => ~TooHeavy(job[j].meta, new)
    /\ limits' = new
    /\ Install(Rearmed([Core EXCEPT !.ledger = Carried(new)]))
    /\ UNCHANGED penalty

\* set_limits replaces the unclassed windows, set_class_limits the others.
SetLimits(new) ==
    /\ \A w \in Windows : w[2] # NoClass => new[w] = limits[w]
    /\ ReplaceLimits(new)

SetClassLimits(new) ==
    /\ \A w \in Windows : w[2] = NoClass => new[w] = limits[w]
    /\ ReplaceLimits(new)

------------------------------------------------------------------------------
\* The admission pass: grant_ready

PromoteDelayed(s) ==
    LET ready == {j \in JobIds : Waiting(s, j) /\ s.job[j].delay = 0}
        refs == {RefOf(s, j) : j \in ready}
    IN  PushAll([s EXCEPT !.job = [j \in JobIds |->
                    IF j \in ready THEN [@[j] EXCEPT !.delay = NotDelayed] ELSE @[j]]],
                refs)

PromoteBlocked(s) ==
    LET refs == {n.ref : n \in {n \in s.blocked : ~n.permanent /\ n.in = 0}}
    IN  PushAll(Unblock(s, refs), refs)

\* Of every expired reservation the first live parked reference competes
\* again; a reservation without one ends.
PromoteReservations(s) ==
    LET expired == {w \in Windows : s.hold[w].on /\ s.hold[w].in = 0}
        AliveIn(w) == {i \in DOMAIN s.hold[w].queue : Alive(s, s.hold[w].queue[i])}
        woken == {w \in expired : AliveIn(w) # {}}
        Popped(w) ==
            LET i == Min(AliveIn(w)) IN
            [s.hold[w] EXCEPT !.queue = SubSeq(@, i + 1, Len(@)),
                              !.stale = Max({0, @ - (i - 1)})]
    IN  PushAll([s EXCEPT !.hold = [w \in Windows |->
                    IF w \in woken THEN Popped(w)
                    ELSE IF w \in expired THEN NoHold ELSE @[w]]],
                {s.hold[w].queue[Min(AliveIn(w))] : w \in woken})

CompactLanes(s) ==
    [s EXCEPT !.lane = [l \in Lanes |->
        IF Cardinality(@[l].pending \ Live(s, l)) * 2 > Cardinality(@[l].pending)
        THEN [@[l] EXCEPT !.pending = Live(s, l)]
        ELSE @[l]]]

BeginPass ==
    /\ phase = "due"
    /\ phase' = "pop"
    /\ Install(CompactLanes(PromoteReservations(PromoteBlocked(PromoteDelayed(Core)))))
    /\ UNCHANGED <<limits, penalty, nextJob, calls>>

Top == CHOOSE k \in cands : \A o \in cands \ {k} :
            \/ k.eff > o.eff
            \/ k.eff = o.eff /\ k.seq < o.seq

\* The state once the top candidate is popped.
Popped ==
    LET s == [Core EXCEPT !.cands = @ \ {Top}] IN
    IF Top.ref \in Lanes THEN [s EXCEPT !.lane[Top.ref].queued = FALSE] ELSE s

\* The job that the top candidate stands for: for a lane its head, which must
\* still be the one the key was made for.
Grantable(s) ==
    IF Top.ref \notin Lanes THEN {Top.ref}
    ELSE IF ~HasCapacity(s, Top.ref) \/ Live(s, Top.ref) = {} THEN {}
    ELSE LET head == First(s, Live(s, Top.ref)) IN
         IF s.job[head].delay <= 0 /\ Key(s, Top.ref, head) = Top THEN {head} ELSE {}

\* A lane whose key does not fit its head: the lane is keyed afresh, or waits
\* for its head's delay or for capacity, or is removed.
Rekeyed(s, l) ==
    IF ~HasCapacity(s, l) THEN s
    ELSE IF Live(s, l) = {} THEN RemoveIdle([s EXCEPT !.lane[l].pending = {}], l)
    ELSE PushLane(Drain(s, l), l)

Rekey ==
    /\ phase = "pop" /\ cands # {}
    /\ Grantable(Popped) = {}
    /\ Install(Rekeyed(Popped, Top.ref))
    /\ UNCHANGED <<limits, penalty, phase, nextJob, calls>>

\* The candidate of the pass, drained to the front of its lane.
Candidate == Min(Grantable(Popped))
Selected == IF Top.ref \in Lanes THEN Drain(Popped, Top.ref) ELSE Popped
Meta == job[Candidate].meta

Considering ==
    /\ phase = "pop" /\ cands # {}
    /\ Grantable(Popped) # {}
    /\ UNCHANGED <<limits, penalty, phase, nextJob, calls>>

\* The windows whose active reservation keeps the candidate out, and those
\* without room for it; the admission looks at them in order.
Reserving(s) ==
    {w \in Range(WindowsOf(Meta)) : HoldActive(s, w) /\ s.hold[w].owner # Top.ref}

Short(s) == {w \in Range(WindowsOf(Meta)) : ~CanConsume(s, w, Meta.weight, 0)}

FirstOf(ws) ==
    LET order == WindowsOf(Meta) IN order[Min({i \in DOMAIN order : order[i] \in ws})]

Paused == \E w \in Range(WindowsOf(Meta)) : Never(w, Meta.weight)

\* A mutant: a freeze of everything does not hold back a chat's requests.
Until_OwnScopeOnly(s) ==
    Max({penalty[Meta.chat]}
          \cup {EarliestFor(s, w, Meta.weight) : w \in Short(s)})

\* The ticks until penalties and windows all let the candidate pass.
Until(s) ==
    Max({penalty[NoChat], penalty[Meta.chat]}
          \cup {EarliestFor(s, w, Meta.weight) : w \in Short(s)})

ReleasePreviousReservation(s, next) ==
    LET previous == s.job[Candidate].owns IN
    IF previous = next \/ previous = NoWindow THEN s
    ELSE [ReleaseReservation(s, previous, Top.ref) EXCEPT !.job[Candidate].owns = NoWindow]

\* Admission::Reserved
Park ==
    /\ Considering
    /\ Reserving(Selected) # {}
    /\ Install([Selected EXCEPT !.hold[FirstOf(Reserving(Selected))].queue = Append(@, Top.ref)])

\* Admission::BlockedForever
Pause ==
    /\ Considering
    /\ Reserving(Selected) = {}
    /\ Paused
    /\ Install(Block(ReleasePreviousReservation(Selected, NoWindow), Top.ref, 0, TRUE))

Reserved(s, w, until) ==
    IF w = NoWindow THEN s
    ELSE IF s.hold[w].on /\ until <= s.hold[w].in THEN s
    ELSE [s EXCEPT !.hold[w] = [@ EXCEPT !.on = TRUE, !.in = until, !.owner = Top.ref],
                   !.job[Candidate].owns = w]

\* Admission::Blocked
Sleep ==
    /\ Considering
    /\ Reserving(Selected) = {}
    /\ ~Paused
    /\ Until(Selected) > 0
    /\ LET until == Until(Selected)
           window == IF Short(Selected) = {} THEN NoWindow ELSE FirstOf(Short(Selected))
       IN  Install(Block(Reserved(ReleasePreviousReservation(Selected, window), window, until),
                         Top.ref, until, FALSE))

\* The hold of the global window is extended to the moment its first parked job
\* fits.  Only this one: the granted job has left `jobs`, and the windows of a job
\* that is not found are the global one alone (applicable_windows).
RearmReservations(s) ==
    LET w == GlobalWindow
        Weight(ref) ==
            IF ref \in Lanes THEN {s.job[First(s, p)].meta.weight :
                                      p \in {p \in {s.lane[ref].pending} :
                                                p # {} /\ Waiting(s, First(s, p))}}
            ELSE {s.job[j].meta.weight : j \in {j \in {ref} : Waiting(s, j)}}
        weights == IF s.hold[w].on /\ s.hold[w].queue # <<>>
                   THEN {x \in Weight(Head(s.hold[w].queue)) : ~Never(w, x)} ELSE {}
    IN  IF weights = {} THEN s
        ELSE [s EXCEPT !.hold[w].in = EarliestFor(s, w, Min(weights))]

TakeLane(s, j) ==
    LET l == s.job[j].meta.lane
        taken == [s.lane[l] EXCEPT !.pending = @ \ {j}, !.count = @ + 1,
                                   !.holder = IF l \in Bounded THEN @ ELSE j]
    IN  IF l = NoLane THEN s ELSE [s EXCEPT !.lane[l] = taken]

RearmLane(s, l) ==
    IF l \in Bounded /\ HasCapacity(s, l) /\ s.lane[l].pending # {}
    THEN PushLane(s, l) ELSE s

Granted(s, j) ==
    LET taken == [s EXCEPT !.job[j] = [@ EXCEPT !.st = "granted", !.owns = NoWindow,
                                                !.age = 0, !.delay = NotDelayed,
                                                !.spent = TRUE]]
    IN  RearmLane(Consume(TakeLane(taken, j), j), s.job[j].meta.lane)

\* Admission::Pass
Grant ==
    /\ Considering
    /\ Reserving(Selected) = {}
    /\ ~Paused
    /\ Until(Selected) = 0
    /\ Install(RearmReservations(Granted(Selected, Candidate)))

\* The queue without its dead references, in the same order.
Survivors(s, queue) ==
    LET alive == {i \in DOMAIN queue : Alive(s, queue[i])}
        Rank(i) == Cardinality({h \in alive : h <= i})
    IN  [k \in 1 .. Cardinality(alive) |-> queue[CHOOSE i \in alive : Rank(i) = k]]

CompactReservations(s) ==
    [s EXCEPT !.hold = [w \in Windows |->
        LET h == s.hold[w] IN
        IF h.stale = 0 \/ h.stale * 2 < Len(h.queue) THEN h
        ELSE [h EXCEPT !.queue = Survivors(s, h.queue), !.stale = 0]]]

EndPass ==
    /\ phase = "pop" /\ cands = {}
    /\ phase' = "asleep"
    /\ Install(CompactReservations(Core))
    /\ UNCHANGED <<limits, penalty, nextJob, calls>>

------------------------------------------------------------------------------
\* Time

Less(n) == Max({0, n - 1})

\* next_deadline: an instant that the actor's timer is set to arrives.
DeadlineNext ==
    \/ \E j \in JobIds : Waiting(Core, j) /\ job[j].delay = 1
    \/ \E n \in blocked : ~n.permanent /\ n.in = 1
    \/ \E w \in Windows : hold[w].on /\ hold[w].in = 1

Aged(r) ==
    CASE r.st = "none" -> r
      [] r.st = "waiting" ->
            IF r.delay = NotDelayed
            THEN [r EXCEPT !.age = Min({Highest * Quantum, @ + 1})]
            ELSE [r EXCEPT !.delay = Less(@)]
      [] OTHER -> [r EXCEPT !.ago = Min({MaxLen, @ + 1})]

\* Time passes while the actor sleeps; its timer is served in time.
Tick ==
    /\ phase = "asleep"
    /\ job' = [j \in JobIds |-> Aged(job[j])]
    /\ blocked' = {[n EXCEPT !.in = Less(@)] : n \in blocked}
    /\ hold' = [w \in Windows |-> [hold[w] EXCEPT !.in = Less(@)]]
    /\ ledger' = [w \in Windows |-> {j \in ledger[w] : job'[j].ago < Longest(w)}]
    /\ penalty' = [c \in Scopes |-> Less(penalty[c])]
    /\ phase' = IF DeadlineNext THEN "due" ELSE "asleep"
    /\ UNCHANGED <<lane, cands, limits, nextJob, calls>>

------------------------------------------------------------------------------

Pass == BeginPass \/ Rekey \/ Park \/ Pause \/ Sleep \/ Grant \/ EndPass

Next ==
    \/ \E m \in Metas, d \in NotBefores \cup {NotDelayed} : Enqueue(m, d)
    \/ \E j \in JobIds : Cancel(j) \/ Start(j) \/ Complete(j) \/ CompleteNoRequest(j)
    \/ \E j \in JobIds, c \in Scopes, d \in RetryAfters : CompleteRetryAfter(j, c, d)
    \/ \E c \in Scopes, d \in RetryAfters : Penalize(c, d)
    \/ \E new \in LimitSets : SetLimits(new) \/ SetClassLimits(new)
    \/ Query
    \/ Pass
    \/ Tick

Spec == Init /\ [][Next]_vars

------------------------------------------------------------------------------
\* Properties

JobRecords ==
    {NeverUsed} \cup
    [st : {"waiting", "granted", "started", "done", "cancelled"}, meta : Metas,
     seq : JobIds, age : 0 .. Highest * Quantum, delay : {NotDelayed} \cup Nat,
     owns : Windows \cup {NoWindow}, ago : 0 .. MaxLen, spent : BOOLEAN]

\* The type invariant; it also tells which entries may name dead jobs.
TypeOK ==
    /\ \A j \in JobIds : job[j] \in JobRecords /\ (job[j] = NeverUsed <=> j >= nextJob)
    /\ \A l \in Lanes :
        /\ lane[l].pending \subseteq JobIds /\ lane[l].count \in Nat
        /\ lane[l].holder \in JobIds \cup {NoJob} /\ lane[l].queued \in BOOLEAN
    /\ \A k \in cands : k.ref \in Lanes \/ Waiting(Core, k.ref)
    /\ \A n \in blocked : Alive(Core, n.ref) /\ n.in \in Nat
    /\ \A w \in Windows :
        /\ Range(hold[w].queue) \subseteq JobIds \cup Lanes
        /\ hold[w].in \in Nat /\ hold[w].stale \in Nat
        /\ \A j \in ledger[w] : job[j].spent
    /\ limits \in LimitSets
    /\ penalty \in [Scopes -> Nat]
    /\ phase \in {"asleep", "due", "pop"}

\* The jobs that hold a permit of lane l: until their start on an OrderedStart
\* lane, until their completion on the others.
Occupants(l) ==
    {j \in JobIds : /\ Flying(Core, j) /\ job[j].meta.lane = l
                    /\ job[j].st = "granted"}

\* A Serial lane is locked by exactly the job that it granted last until that
\* job completes, an OrderedStart lane until the job starts; no interleaving of
\* cancels, replacements and completions leaves a lock behind or loses one.
LocksAreHeld ==
    \A l \in Lanes \ Bounded :
        Occupants(l) = (IF lane[l].holder = NoJob THEN {} ELSE {lane[l].holder})

\* OutboundLaneMode::BoundedOrderedStart "keeps a bounded number of permits
\* active until completion" (types.rs).
PermitsAreBounded ==
    \A l \in Bounded : Cardinality(Occupants(l)) <= MaxInFlight[l]

GrantedNow(j) == Waiting(Core, j) /\ job'[j].st = "granted"

\* "ordering lanes are strictly FIFO in enqueue order regardless of priority or
\* not_before" (scheduler.rs): no job is granted before an older one of its
\* lane; a replacement has the place of the job it replaced.
LaneFifo ==
    [][\A i, j \in JobIds :
        (/\ GrantedNow(j) /\ Waiting(Core, i) /\ i # j
         /\ job[j].meta.lane # NoLane /\ job[i].meta.lane = job[j].meta.lane)
        => job[j].seq < job[i].seq]_vars

\* A grant never takes a window over its capacity: counted over the history of
\* the jobs, across refunds, replaced limits and pruned windows, the weights
\* granted within any window's length stay within its capacity.
RateRespected ==
    [][\A j \in JobIds : GrantedNow(j) =>
        \A w \in Range(WindowsOf(job[j].meta)) : \A l \in limits[w] :
            Weighed(job', {i \in JobIds : /\ job'[i].st # "none" /\ job'[i].spent
                                          /\ job'[i].ago < l.len
                                          /\ w \in Range(WindowsOf(job'[i].meta))})
              <= l.cap]_vars

\* The ledger of a window set is the history that its longest window covers: a
\* refund removes the debits of that grant from every window that it charged
\* and no other debit, and nothing is charged twice or kept too long.
DebitsAreExact ==
    \A w \in Windows : limits[w] # {} =>
        ledger[w] = {j \in JobIds : /\ job[j].st # "none" /\ job[j].spent
                                    /\ job[j].ago < Longest(w)
                                    /\ w \in Range(WindowsOf(job[j].meta))}

\* A reported RetryAfter freezes its scope until its deadline: nothing is
\* granted in it meanwhile, and no other report makes it shorter.
FreezeHonoured ==
    [][\A c \in Scopes :
        /\ penalty'[c] < penalty[c] => phase = "asleep" /\ penalty'[c] = penalty[c] - 1
        /\ penalty[c] > 0 => \A j \in JobIds :
            GrantedNow(j) => c # NoChat /\ c # job[j].meta.chat]_vars

ParkedSomewhere(ref) == \E w \in Windows : ref \in Range(hold[w].queue)

LaneIsKept(l) ==
    \/ ~HasCapacity(Core, l)
    \/ IsBlocked(Core, l) \/ ParkedSomewhere(l)
    \/ job[First(Core, Live(Core, l))].delay # NotDelayed

\* The actor will begin another pass unasked: at a deadline, or when a permit that
\* is out is completed.
AnotherPassComes ==
    \/ \E j \in JobIds : Flying(Core, j) \/ (Waiting(Core, j) /\ job[j].delay > 0)
    \/ \E n \in blocked : ~n.permanent /\ n.in > 0
    \/ \E w \in Windows : hold[w].on /\ hold[w].in > 0

SomethingIsPaused == \E n \in blocked : n.permanent

\* Something brings the pending job j back: its delay, or the one of its lane's
\* head; a deadline that has not passed, or its window is paused; the completions
\* that make room in its lane; or it is parked, and another pass comes.  A parked
\* job may wait for a completion of others, as its hold may have ended without a
\* timer, and a pass that wakes a paused one wakes no other.
ComesBack(j) ==
    LET ref == RefOf(Core, j)
        head == IF ref \in Lanes THEN First(Core, Live(Core, ref)) ELSE j
    IN  \/ job[head].delay > 0
        \/ \E n \in blocked : n.ref = ref /\ (n.permanent \/ n.in > 0)
        \/ ref \in Lanes /\ ~HasCapacity(Core, ref) /\ Occupants(ref) # {}
        \/ ParkedSomewhere(ref) /\ (AnotherPassComes \/ SomethingIsPaused)

\* The actor never goes to sleep on a job that nothing will bring back.  (With a
\* not_before in a lane this fails: NoPhantomLock.)
NothingIsForgotten ==
    phase = "asleep" => \A j \in JobIds : Waiting(Core, j) => ComesBack(j)

\* "cancelling a waiting job removes it without a phantom lock" (scheduler.rs):
\* a lane with pending jobs is kept from them by its permits, its deadline, a
\* reservation or its head's delay, and by nothing that is gone.
NoPhantomLock ==
    phase = "asleep" => \A l \in Lanes : Live(Core, l) # {} => LaneIsKept(l)

\* A candidate that reserved a window and has aged to the highest priority is
\* not overtaken in that window by a younger job, unless it came to wait for the
\* reservation of another of its windows.
OwnersAreNotOvertaken ==
    [][\A i, j \in JobIds :
        (/\ GrantedNow(j) /\ Waiting(Core, i) /\ i # j /\ job[i].meta.lane = NoLane
         /\ job[i].owns # NoWindow
         /\ hold[job[i].owns].on /\ hold[job[i].owns].owner = i
         /\ job[i].owns \in Range(WindowsOf(job[j].meta))
         /\ Effective(job[i]) = Highest /\ ~ParkedSomewhere(i))
        => job[j].seq < job[i].seq]_vars

\* The actor's task goes on with a pass it has begun (a pass can always make
\* a step, so this is the weak fairness of Pass), its timer is served, and
\* every permit is completed, by its holder or by its drop.
Fairness ==
    /\ []<>(phase = "asleep") \/ []<><<Pass>>_vars
    /\ WF_vars(Tick)
    /\ \A j \in JobIds : []<>~Flying(Core, j)

FairSpec == Spec /\ Fairness

\* Every pending job is granted or cancelled at last, whatever is cancelled or
\* refunded, as long as no window is paused; neither an admission pass that does
\* not end nor a timer that is not set keeps it waiting.  (A job that has left does
\* not come back: it is enough that the queue empties.)
EveryJobLeavesTheQueue ==
    []<>(\A j \in JobIds : job[j].st # "waiting")

\* "After a grant consumed a window, extends the window's hold (if any) to the
\* moment the next parked candidate fits" (scheduler.rs): a window with a parked
\* job that does not fit yet is held while the actor sleeps.
HoldsLastUntilTheNextFits ==
    phase = "asleep" =>
        \A w \in Windows : hold[w].on /\ hold[w].queue # <<>> =>
            \A j \in JobIds \cap {Head(hold[w].queue)} :
                Waiting(Core, j) /\ ~CanConsume(Core, w, job[j].meta.weight, 0)
                    => HoldActive(Core, w)

=============================================================================
