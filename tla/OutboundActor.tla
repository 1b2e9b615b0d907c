--------------------------- MODULE OutboundActor ---------------------------
(***************************************************************************)
(* The outbound queue of teloxide-core (outbound/actor.rs): acquire        *)
(* futures and permits held by any number of tasks and threads, and the    *)
(* actor that serves them.  They share two channels (a bounded ingress of  *)
(* enqueues, an unbounded one of lifecycle commands), two oneshots and one *)
(* atomic token state per acquire.                                         *)
(*                                                                         *)
(* An acquire stands for its client token and for its job id: both are     *)
(* minted once per acquire and never reused.  The pure scheduler is        *)
(* abstracted to what the actor can see of it: which jobs are pending,     *)
(* which are in flight, and which of those blocks its lane; a pass grants  *)
(* any set of pending jobs the lanes admit (OutboundScheduler has the      *)
(* rest).  Observers, correlation ids and outcomes are left out.           *)
(***************************************************************************)
EXTENDS Integers, FiniteSets, Sequences

CONSTANTS
  Acquires,       \* acquire futures, each used once
  Lanes,          \* lanes that block while one of their jobs is in flight
  OrderedStart,   \* the lanes that unblock when the holder starts
  NoLane,
  Slots,          \* latest-wins slots
  NoSlot,
  Metas,          \* the lane and slot requests come with
  QueueCapacity,  \* settings.queue_capacity
  DrainBatch,     \* LIFECYCLE_DRAIN_BATCH
  MaxCalls,       \* bound on shutdown, penalize, limits and snapshot calls
  MayPanic        \* whether the loop may panic

ASSUME ActorAssumption ==
  /\ IsFiniteSet(Acquires)
  /\ NoLane \notin Lanes /\ NoSlot \notin Slots
  /\ Metas \subseteq [lane : Lanes \cup {NoLane}, slot : Slots \cup {NoSlot}]
  /\ OrderedStart \subseteq Lanes
  /\ QueueCapacity \in Nat \ {0} /\ DrainBatch \in Nat \ {0}
  /\ MaxCalls \in Nat /\ MayPanic \in BOOLEAN

VARIABLES
  meta,       \* per acquire: its lane and slot, once it is enqueued
  pc,         \* per acquire: where its future, and then its permit, is
  token,      \* per acquire: the shared token state
  response,   \* per acquire: the oneshot with the answer to the enqueue
  granted,    \* per acquire: the oneshot with the outcome of the wait
  handle,     \* whether the application still owns a queue handle
  calls,      \* calls made by the application so far
  ingress,    \* the bounded channel: the acquires to enqueue
  lifecycle,  \* the unbounded channel
  actor,      \* where the actor loop is
  drained,    \* lifecycle commands taken by the current drain
  hand,       \* the acquire whose enqueue has passed its token check
  grants,     \* granted jobs that deliver_grants has yet to hand out
  pending,    \* the scheduler's backlog
  flying,     \* the scheduler's jobs in flight
  holders,    \* those of them that block their lane
  waiters,    \* jobs with a waiter
  known,      \* jobs in pending_tokens, job_tokens and token_states
  behind      \* history, per acquire: completions sent before its enqueue

scheduler == <<pending, flying, holders>>
books == <<waiters, known>>
channels == <<ingress, lifecycle>>
loop == <<actor, drained, hand, grants>>
vars == <<meta, pc, token, response, granted, handle, calls, ingress, lifecycle,
          actor, drained, hand, grants, pending, flying, holders, waiters,
          known, behind>>

Nobody == "nobody"

-----------------------------------------------------------------------------
(* Values.                                                                 *)

\* An OutboundEnqueue ("enqueuing") becomes an OutboundGrant ("waiting").  A
\* drop takes up to four steps: the token, the Cancel and the handle
\* ("cancelling"), the grant receiver ("dropping"), the response receiver
\* ("emptying").  A permit is "held" or "started" until it is given back;
\* "awaiting" is complete_and_await.
FutureStages == {"enqueuing", "waiting"}
DropStages == {"cancelling", "dropping", "emptying"}
PermitStages == {"held", "started"}
Stages == {"idle"} \cup FutureStages \cup DropStages \cup PermitStages
          \cup {"awaiting", "failed", "dropped", "done"}

\* "refused" is a response sent by the handle itself: the ingress was full.
Refusals == {"QueueFull", "Rejected", "Closed"}
Responses == {"open", "gone", "refused", "accepted", "taken"} \cup Refusals
Outcomes == {"open", "gone", "permit", "superseded", "closed", "taken"}

Command(kind, c) == [kind |-> kind, job |-> c]
Cancel(c) == Command("Cancel", c)
Start(c) == Command("Start", c)
Complete(c) == Command("Complete", c)
Call == Command("Call", Nobody)
Shutdown == Command("Shutdown", Nobody)
Commands == [kind : {"Cancel", "Start", "Complete"}, job : Acquires]
            \cup {Call, Shutdown}

Sent(command) == \E i \in DOMAIN lifecycle : lifecycle[i] = command
Alive == actor # "gone"

\* Which receivers still exist, and which futures hold a handle.
HasResponse(c) == pc[c] \in {"enqueuing", "cancelling", "dropping", "emptying"}
                  /\ response[c] # "taken"
HasReceiver(c) == pc[c] \in FutureStages \cup {"cancelling", "dropping"}
HoldsHandle(c) == pc[c] \in FutureStages \cup {"cancelling"}

Init ==
  /\ meta = [c \in Acquires |-> [lane |-> NoLane, slot |-> NoSlot]]
  /\ pc = [c \in Acquires |-> "idle"]
  /\ token = [c \in Acquires |-> "pending"]
  /\ response = [c \in Acquires |-> "open"]
  /\ granted = [c \in Acquires |-> "open"]
  /\ handle = TRUE /\ calls = 0
  /\ ingress = <<>> /\ lifecycle = <<>>
  /\ actor = "drain" /\ drained = 0 /\ hand = Nobody /\ grants = {}
  /\ pending = {} /\ flying = {} /\ holders = {} /\ waiters = {} /\ known = {}
  /\ behind = [c \in Acquires |-> {}]

-----------------------------------------------------------------------------
(* The shared objects.                                                     *)

\* A send on the lifecycle channel; a closed channel swallows it.
Send(command) == lifecycle' = IF Alive THEN Append(lifecycle, command) ELSE lifecycle

\* Values sent on the oneshots; one whose receiver is gone drops them.
Answer(c, value) ==
  response' = [response EXCEPT ![c] = IF HasResponse(c) THEN value ELSE @]
Resolve(s, value) ==
  granted' = [c \in Acquires |-> IF c \in s /\ HasReceiver(c) THEN value ELSE granted[c]]

\* Mutant of DropPermit: a permit nobody received vanishes.
DropPermit_Silent(c) == UNCHANGED lifecycle

\* OutboundPermit::drop
DropPermit(c) == Send(Complete(c))

\* Mutant of CancelToken: only an enqueue the actor has not seen is cancelled.
CancelToken_PendingOnly(c) == token[c] = "pending"

\* cancel_token succeeds
CancelToken(c) == token[c] \in {"pending", "accepted"}

-----------------------------------------------------------------------------
(* The caller's side: handles, futures and permits.                        *)

\* enqueue_inner: the token and the oneshots are minted, the command is sent.
Enqueue(c) ==
  /\ handle /\ pc[c] = "idle"
  /\ \E m \in Metas : meta' = [meta EXCEPT ![c] = m]
  /\ pc' = [pc EXCEPT ![c] = "enqueuing"]
  /\ \/ /\ Alive /\ Len(ingress) < QueueCapacity
        /\ ingress' = Append(ingress, c)
        /\ behind' = [behind EXCEPT ![c] = {b \in Acquires : Sent(Complete(b))}]
        /\ UNCHANGED <<response, granted>>
     \/ /\ Alive /\ Len(ingress) = QueueCapacity
        /\ response' = [response EXCEPT ![c] = "refused"]
        /\ granted' = [granted EXCEPT ![c] = "gone"]
        /\ UNCHANGED <<ingress, behind>>
     \/ /\ ~Alive
        /\ response' = [response EXCEPT ![c] = "gone"]
        /\ granted' = [granted EXCEPT ![c] = "gone"]
        /\ UNCHANGED <<ingress, behind>>
  /\ UNCHANGED <<token, handle, calls, lifecycle, loop, scheduler, books>>

\* OutboundEnqueue::poll
PollEnqueue(c) ==
  /\ pc[c] = "enqueuing" /\ response[c] # "open"
  /\ response' = [response EXCEPT ![c] = "taken"]
  /\ pc' = [pc EXCEPT ![c] = IF response[c] = "accepted" THEN "waiting" ELSE "failed"]
  /\ UNCHANGED <<meta, token, granted, handle, calls, channels, loop, scheduler, books, behind>>

\* OutboundGrant::poll
PollGrant(c) ==
  /\ pc[c] = "waiting" /\ granted[c] # "open"
  /\ granted' = [granted EXCEPT ![c] = "taken"]
  /\ pc' = [pc EXCEPT ![c] = IF granted[c] = "permit" THEN "held" ELSE "failed"]
  /\ UNCHANGED <<meta, token, response, handle, calls, channels, loop, scheduler, books, behind>>

\* Drop of OutboundEnqueue or OutboundGrant, up to its token: a command that
\* never reached the ingress is not cancelled.
DropFuture(c) ==
  /\ pc[c] \in FutureStages
  /\ IF response[c] # "refused" /\ CancelToken(c)
     THEN /\ token' = [token EXCEPT ![c] = "cancelled"]
          /\ pc' = [pc EXCEPT ![c] = "cancelling"]
     ELSE /\ pc' = [pc EXCEPT ![c] = "dropping"]
          /\ UNCHANGED token
  /\ UNCHANGED <<meta, response, granted, handle, calls, channels, loop, scheduler, books, behind>>

\* The same drop: the Cancel is sent, then the handle is released.
SendCancel(c) ==
  /\ pc[c] = "cancelling"
  /\ Send(Cancel(c))
  /\ pc' = [pc EXCEPT ![c] = "dropping"]
  /\ UNCHANGED <<meta, token, response, granted, handle, calls, ingress, loop, scheduler, books,
                 behind>>

\* The same drop: the grant receiver goes, with a permit buffered in it.
DropReceiver(c) ==
  /\ pc[c] = "dropping"
  /\ IF granted[c] = "permit" THEN DropPermit(c) ELSE UNCHANGED lifecycle
  /\ granted' = [granted EXCEPT ![c] = "taken"]
  /\ pc' = [pc EXCEPT ![c] = IF response[c] = "taken" THEN "dropped" ELSE "emptying"]
  /\ UNCHANGED <<meta, token, response, handle, calls, ingress, loop, scheduler, books, behind>>

\* The drop of an OutboundEnqueue ends with the response receiver.
DropResponse(c) ==
  /\ pc[c] = "emptying"
  /\ response' = [response EXCEPT ![c] = "taken"]
  /\ pc' = [pc EXCEPT ![c] = "dropped"]
  /\ UNCHANGED <<meta, token, granted, handle, calls, channels, loop, scheduler, books, behind>>

\* OutboundPermit::start
StartPermit(c) ==
  /\ pc[c] = "held"
  /\ Send(Start(c))
  /\ pc' = [pc EXCEPT ![c] = "started"]
  /\ UNCHANGED <<meta, token, response, granted, handle, calls, ingress, loop, scheduler, books,
                 behind>>

\* OutboundPermit::complete stores the terminal token, complete_and_await
\* waits for the answer, and a drop does neither.
GiveBack(c) ==
  /\ pc[c] \in PermitStages
  /\ Send(Complete(c))
  /\ \/ token' = [token EXCEPT ![c] = "terminal"] /\ pc' = [pc EXCEPT ![c] = "done"]
     \/ UNCHANGED token /\ pc' = [pc EXCEPT ![c] = "done"]
     \/ UNCHANGED token /\ pc' = [pc EXCEPT ![c] = IF Alive THEN "awaiting" ELSE "done"]
  /\ UNCHANGED <<meta, response, granted, handle, calls, ingress, loop, scheduler, books, behind>>

\* penalize, limits, class_limits, set_limits, set_class_limits, snapshot,
\* set_observer, clear_observer
MakeCall ==
  /\ handle /\ calls < MaxCalls
  /\ calls' = calls + 1
  /\ Send(Call)
  /\ UNCHANGED <<meta, pc, token, response, granted, handle, ingress, loop, scheduler, books,
                 behind>>

\* OutboundQueueHandle::shutdown
RequestShutdown ==
  /\ handle /\ calls < MaxCalls
  /\ calls' = calls + 1
  /\ Send(Shutdown)
  /\ UNCHANGED <<meta, pc, token, response, granted, handle, ingress, loop, scheduler, books,
                 behind>>

\* The application drops its last handle; futures keep clones of theirs.
DropHandle ==
  /\ handle
  /\ handle' = FALSE
  /\ UNCHANGED <<meta, pc, token, response, granted, calls, channels, loop, scheduler, books,
                 behind>>

\* complete_and_await when the actor ends before it answers.
AwaitEnds(c) ==
  /\ pc[c] = "awaiting" /\ ~Alive
  /\ pc' = [pc EXCEPT ![c] = "done"]
  /\ UNCHANGED <<meta, token, response, granted, handle, calls, channels, loop, scheduler,
                 books, behind>>

\* What a task does by itself once it is polled or a drop has begun.
Continue(c) ==
  \/ PollEnqueue(c) \/ PollGrant(c) \/ SendCancel(c) \/ DropReceiver(c)
  \/ DropResponse(c) \/ GiveBack(c) \/ AwaitEnds(c)

Caller(c) == Enqueue(c) \/ DropFuture(c) \/ StartPermit(c) \/ Continue(c)

-----------------------------------------------------------------------------
(* The actor's side: handle_command.                                       *)

\* Mutant of Forget: the mappings of a cancelled job stay.
Forget_KeepsMapping(s) ==
  /\ UNCHANGED known
  /\ token' = [c \in Acquires |-> IF c \in s \cap known THEN "terminal" ELSE token[c]]

\* forget_job of every job in s: tokens are terminal once forgotten.
Forget(s) ==
  /\ known' = known \ s
  /\ token' = [c \in Acquires |-> IF c \in s \cap known THEN "terminal" ELSE token[c]]

\* Mutant of HandleCancel: a late cancel completes a job in flight.
HandleCancel_FreesLane(c) ==
  /\ IF c \in known
     THEN /\ waiters' = waiters \ {c}
          /\ Resolve(waiters \cap {c}, "gone")
          /\ pending' = pending \ {c}
          /\ Forget({c})
     ELSE UNCHANGED <<waiters, granted, pending, known, token>>
  /\ flying' = flying \ {c} /\ holders' = holders \ {c}
  /\ UNCHANGED pc

\* Cancel of a job that is still in the books; its waiter is dropped.
HandleCancel(c) ==
  /\ IF c \in known
     THEN /\ waiters' = waiters \ {c}
          /\ Resolve(waiters \cap {c}, "gone")
          /\ pending' = pending \ {c}
          /\ Forget({c})
     ELSE UNCHANGED <<waiters, granted, pending, known, token>>
  /\ UNCHANGED <<pc, flying, holders>>

\* Start: an OrderedStart lane is released by its holder.
HandleStart(c) ==
  /\ holders' = IF meta[c].lane \in OrderedStart THEN holders \ {c} ELSE holders
  /\ UNCHANGED <<pc, token, granted, pending, flying, books>>

\* Complete: the scheduler releases the slot and the lane, the token is
\* terminal, the books forget the job, complete_and_await is answered.
HandleComplete(c) ==
  /\ flying' = flying \ {c} /\ holders' = holders \ {c}
  /\ known' = known \ {c}
  /\ token' = [token EXCEPT ![c] = "terminal"]
  /\ pc' = [pc EXCEPT ![c] = IF @ = "awaiting" THEN "done" ELSE @]
  /\ UNCHANGED <<granted, pending, waiters>>

HandleLifecycle(command) ==
  \/ command.kind = "Cancel" /\ HandleCancel(command.job)
  \/ command.kind = "Start" /\ HandleStart(command.job)
  \/ command.kind = "Complete" /\ HandleComplete(command.job)
  \/ command.kind = "Call" /\ UNCHANGED <<pc, token, granted, scheduler, books>>

\* Enqueue, up to the token check that linearizes it against a drop.
TakeEnqueue(c) ==
  IF token[c] = "pending"
  THEN /\ token' = [token EXCEPT ![c] = "accepted"]
       /\ hand' = c /\ actor' = "enqueue"
       /\ UNCHANGED <<response, granted>>
  ELSE /\ token' = [token EXCEPT ![c] = "terminal"]
       /\ Answer(c, "Closed") /\ Resolve({c}, "gone")
       /\ actor' = "drain"
       /\ UNCHANGED hand

\* The pending jobs a latest-wins enqueue of c replaces.
Superseded(c) == {j \in pending : meta[c].slot # NoSlot /\ meta[j].slot = meta[c].slot}

BacklogFull == Cardinality(pending) >= QueueCapacity

\* The scheduler refuses the enqueue: the backlog is full, or weight or
\* metadata do not fit (which the model does not see).
RefuseEnqueue(c) ==
  /\ \E refusal \in {"QueueFull", "Rejected"} :
       /\ refusal = "QueueFull" => BacklogFull /\ Superseded(c) = {}
       /\ Answer(c, refusal)
  /\ token' = [token EXCEPT ![c] = "terminal"]
  /\ Resolve({c}, "gone")
  /\ UNCHANGED <<pending, books>>

\* The scheduler takes the job: the replaced jobs are resolved and forgotten,
\* and a job whose caller is gone by now is cancelled on the spot.
AcceptEnqueue(c) ==
  /\ ~BacklogFull \/ Superseded(c) # {}
  /\ LET s == Superseded(c)
         lost == IF HasResponse(c) THEN {} ELSE {c}
     IN  /\ pending' = ((pending \ s) \cup {c}) \ lost
         /\ known' = ((known \ s) \cup {c}) \ lost
         /\ waiters' = ((waiters \ s) \cup {c}) \ lost
         /\ token' = [j \in Acquires |-> IF j \in (s \cap known) \cup lost
                                         THEN "terminal" ELSE token[j]]
         /\ granted' = [j \in Acquires |->
                          CASE j \in s \cap waiters /\ HasReceiver(j) -> "superseded"
                            [] j \in lost /\ HasReceiver(j) -> "gone"
                            [] OTHER -> granted[j]]
  /\ Answer(c, "accepted")

-----------------------------------------------------------------------------
(* The actor's side: the loop.                                             *)

Quiet == UNCHANGED <<meta, handle, calls, behind>>

\* The drain takes one lifecycle command ahead of everything else.
Drain ==
  /\ actor = "drain" /\ drained < DrainBatch
  /\ lifecycle # <<>> /\ Head(lifecycle) # Shutdown
  /\ HandleLifecycle(Head(lifecycle))
  /\ lifecycle' = Tail(lifecycle)
  /\ drained' = drained + 1
  /\ UNCHANGED <<response, ingress, actor, hand, grants>> /\ Quiet

\* What the lanes let the scheduler grant in one pass: a lane has one blocker.
Grantable(g) ==
  /\ g \subseteq pending
  /\ \A c \in g : meta[c].lane # NoLane =>
        \A j \in (g \ {c}) \cup holders : meta[j].lane # meta[c].lane

\* Mutant of DrainIsOver: the pass does not wait for the drain.
DrainIsOver_AtOnce == TRUE

\* The drain ends with the queue, or with its batch.
DrainIsOver == drained = DrainBatch \/ lifecycle = <<>>

\* The admission pass, once the drain is over.
Pass(g) ==
  /\ actor = "drain" /\ DrainIsOver
  /\ Grantable(g)
  /\ pending' = pending \ g
  /\ flying' = flying \cup g
  /\ holders' = holders \cup {c \in g : meta[c].lane # NoLane}
  /\ grants' = g
  /\ actor' = "deliver" /\ drained' = 0
  /\ UNCHANGED <<pc, token, response, granted, channels, hand, books>> /\ Quiet

\* deliver_grants: a permit is minted for a job in the books; without a
\* waiter, or with a waiter whose receiver is gone, it is dropped.
Deliver(c) ==
  /\ actor = "deliver" /\ c \in grants
  /\ grants' = grants \ {c}
  /\ waiters' = IF c \in known THEN waiters \ {c} ELSE waiters
  /\ IF c \in known /\ ~(c \in waiters /\ HasReceiver(c))
     THEN DropPermit(c) ELSE UNCHANGED lifecycle
  /\ Resolve(known \cap waiters \cap {c}, "permit")
  /\ UNCHANGED <<pc, token, response, ingress, actor, drained, hand, scheduler, known>> /\ Quiet

\* The actor goes to sleep.
Sleep ==
  /\ actor = "deliver" /\ grants = {}
  /\ actor' = "select"
  /\ UNCHANGED <<pc, token, response, granted, channels, drained, hand, grants, scheduler, books>>
  /\ Quiet

\* select: the timer fires.
Wake ==
  /\ actor = "select"
  /\ actor' = "drain"
  /\ UNCHANGED <<pc, token, response, granted, channels, drained, hand, grants, scheduler, books>>
  /\ Quiet

\* select: a lifecycle command.
SelectLifecycle ==
  /\ actor = "select"
  /\ lifecycle # <<>> /\ Head(lifecycle) # Shutdown
  /\ HandleLifecycle(Head(lifecycle))
  /\ lifecycle' = Tail(lifecycle)
  /\ actor' = "drain"
  /\ UNCHANGED <<response, ingress, drained, hand, grants>> /\ Quiet

\* select: an enqueue.
SelectEnqueue ==
  /\ actor = "select" /\ ingress # <<>>
  /\ TakeEnqueue(Head(ingress))
  /\ ingress' = Tail(ingress)
  /\ UNCHANGED <<pc, lifecycle, drained, grants, scheduler, books>> /\ Quiet

\* The rest of that enqueue.
FinishEnqueue ==
  /\ actor = "enqueue"
  /\ RefuseEnqueue(hand) \/ AcceptEnqueue(hand)
  /\ actor' = "drain" /\ hand' = Nobody
  /\ UNCHANGED <<pc, channels, drained, grants, flying, holders>> /\ Quiet

\* Mutant of Dropped: the waiters keep waiting when the actor ends.
Dropped_NoWaiters == {}

\* The acquires whose oneshots the actor still owns when it ends.
Dropped == waiters \cup {ingress[i] : i \in DOMAIN ingress}
           \cup (IF hand = Nobody THEN {} ELSE {hand})

\* The actor ends: its waiters resolve, its channels close with what is in
\* them, buffered permits stay valid, permits not yet handed out die.
End ==
  /\ actor' = "gone" /\ drained' = 0 /\ hand' = Nobody /\ grants' = {}
  /\ Resolve(Dropped, "closed")
  /\ response' = [c \in Acquires |-> IF c \in Dropped /\ response[c] = "open" /\ HasResponse(c)
                                     THEN "gone" ELSE response[c]]
  /\ ingress' = <<>> /\ lifecycle' = <<>>
  /\ pending' = {} /\ flying' = {} /\ holders' = {}
  /\ waiters' = {} /\ known' = {}
  /\ UNCHANGED <<pc, token>> /\ Quiet

\* Shutdown, from the drain or from the select.
SeeShutdown ==
  /\ actor \in {"drain", "select"} /\ (actor = "drain" => drained < DrainBatch)
  /\ lifecycle # <<>> /\ Head(lifecycle) = Shutdown
  /\ End

\* select: every handle is gone, those of the futures included.
SeeClosed ==
  /\ actor = "select" /\ ingress = <<>>
  /\ ~handle /\ \A c \in Acquires : ~HoldsHandle(c)
  /\ End

\* catch_unwind: a panic anywhere in the loop.
Panic ==
  /\ MayPanic /\ Alive
  /\ End

Loop ==
  \/ Drain \/ (\E g \in SUBSET pending : Pass(g)) \/ (\E c \in Acquires : Deliver(c))
  \/ Sleep \/ Wake \/ SelectLifecycle \/ SelectEnqueue \/ FinishEnqueue
  \/ SeeShutdown \/ SeeClosed

Next ==
  \/ \E c \in Acquires : Caller(c)
  \/ MakeCall \/ RequestShutdown \/ DropHandle
  \/ Loop \/ Panic

Spec == Init /\ [][Next]_vars

-----------------------------------------------------------------------------
(* What the queue promises.                                                *)

\* Every variable has its type.
TypeOK ==
  /\ meta \in [Acquires -> [lane : Lanes \cup {NoLane}, slot : Slots \cup {NoSlot}]]
  /\ pc \in [Acquires -> Stages]
  /\ token \in [Acquires -> {"pending", "cancelled", "accepted", "terminal"}]
  /\ response \in [Acquires -> Responses] /\ granted \in [Acquires -> Outcomes]
  /\ handle \in BOOLEAN /\ calls \in 0..MaxCalls
  /\ ingress \in Seq(Acquires)
  /\ lifecycle \in Seq(Commands)
  /\ actor \in {"drain", "deliver", "select", "enqueue", "gone"}
  /\ drained \in 0..DrainBatch /\ hand \in Acquires \cup {Nobody}
  /\ pending \subseteq Acquires
  /\ holders \subseteq flying /\ flying \subseteq Acquires
  /\ grants \subseteq flying /\ waiters \subseteq Acquires /\ known \subseteq Acquires
  /\ behind \in [Acquires -> SUBSET Acquires]

Buffered(c) == granted[c] = "permit" /\ HasReceiver(c)

\* A permit is never lost (deliver_grants): while the actor runs, whatever is
\* in flight is about to be handed out, buffered for a living future, held
\* by its caller, or on its way back, however drops, cancels and grants
\* cross each other.
PermitsAreNeverLost ==
  Alive => \A c \in flying :
    c \in grants \/ Buffered(c) \/ pc[c] \in PermitStages \/ Sent(Complete(c))

\* The actor's books agree with the scheduler: what is pending can be
\* cancelled and has a waiter, and no mapping or waiter stays for a job that
\* is gone (forget_job, the Cancel that arrives late, the failed response);
\* neither the ingress nor the backlog outgrows the capacity.
BooksAgree ==
  /\ Len(ingress) <= QueueCapacity /\ Cardinality(pending) <= QueueCapacity
  /\ pending \subseteq known \cap waiters
  /\ waiters \subseteq pending \cup grants
  /\ known \subseteq pending \cup flying

InUse(c) ==
  \/ c \in grants \/ Buffered(c) \/ pc[c] = "held"
  \/ pc[c] = "started" /\ meta[c].lane \notin OrderedStart

\* What callers can rely on (serial_lane, ordered_start_lane): of a lane, at
\* most one permit is outstanding, or outstanding and not started, even
\* while cancels of granted jobs are on their way.
LanesExclude ==
  \A c, d \in Acquires : InUse(c) /\ InUse(d) /\ meta[c].lane = meta[d].lane /\ c # d
                         => meta[c].lane = NoLane

\* An acquire that has ended leaves nothing behind: when the actor sleeps and
\* no lifecycle command is left, neither a dropped future nor a permit that
\* was given back keeps a place in the backlog, a slot or a lane, at
\* whichever point of the enqueue or the grant it was dropped.
EndedAcquiresLeaveNothing ==
  actor = "select" /\ lifecycle = <<>> =>
    \A c \in Acquires : pc[c] \in {"failed", "dropped", "done"} => c \notin pending \cup flying

\* The drain's promise (run, 1286-1295): a completion that was sent before a
\* later acquire is applied before that acquire is granted, although the two
\* travel in different channels.  It needs a batch that no queue of lifecycle
\* commands exceeds.
CompletionsApplyFirst ==
  [][\A c \in Acquires : c \in flying' \ flying => \A b \in behind[c] : ~Sent(Complete(b))]_vars

\* Tasks are polled, drops run to their end, callers give their permits back;
\* the actor's task runs; select polls its branches in a random order, so
\* none that is ready again and again is passed over for ever; and the
\* scheduler grants what it can grant again and again.
Fairness ==
  /\ \A c \in Acquires :
       /\ WF_vars(Continue(c))
       /\ SF_vars(\E g \in SUBSET pending : c \in g /\ Pass(g))
  /\ WF_vars(Loop)
  /\ SF_vars(SelectLifecycle \/ SeeShutdown) /\ SF_vars(SelectEnqueue)

FairSpec == Spec /\ Fairness

\* No caller hangs: every acquire ends with a permit, a refusal, a
\* replacement or Closed, and complete_and_await returns, through shutdown,
\* a closed ingress and a panic of the actor.  (An acquire is used once, so it is
\* enough that again and again nobody waits.)
NobodyHangs ==
  []<>(\A c \in Acquires : pc[c] \notin FutureStages \cup {"awaiting"})

=============================================================================
