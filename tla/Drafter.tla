------------------------------ MODULE Drafter ------------------------------
(***************************************************************************)
(* A drafter (drafter/machine.rs): a worker task that shows the latest     *)
(* state of a source (DraftSource) as a preview, and ends a segment or the *)
(* whole draft with a permanent message.  The producer, the owner of the   *)
(* Drafter, handles that stop it, the worker, the rate limiter and the Bot *)
(* API interleave; a step of the worker is what it does between two awaits.*)
(* The backend is one of drafter/telegram.rs: "native" is                  *)
(* NativeTextBackend, "edit" is EditInPlaceBackend with                    *)
(* DeletePreviewBestEffort.                                                *)
(*                                                                         *)
(* Left out: priorities, request classes and the per-request contexts of   *)
(* the request scheduler, the events of the observer, the fingerprint that *)
(* skips a preview equal to the last one, and the length of every delay (a *)
(* timer that was set ends at any later time).                             *)
(***************************************************************************)
EXTENDS DraftSource, Sequences, FiniteSets, FiniteSetsExt

CONSTANTS
  Modes,       \* the backends to consider
  MaxCalls,    \* bound on the calls made to the drafter and its handles
  RetryBudget, \* terminal_retry_budget
  MaxFailures, \* max_consecutive_preview_failures
  MaxFaults    \* bound on the previews and the acquires that fail

ASSUME DrafterAssumption ==
  /\ Modes \subseteq {"native", "edit"} /\ MaxCalls \in Nat /\ RetryBudget \in Nat
  /\ MaxFailures \in Nat /\ MaxFaults \in Nat

VARIABLES
  mode,             \* capabilities.mode
  pc,               \* the await the worker is at
  op,               \* the terminal call it is executing, or 0
  at,               \* the revision of the preview it is about to send or sending
  last_delivered,
  held,             \* last_attempt + min_update_interval or retry_not_before is ahead
  watch,            \* next_watchdog: "none", "armed" or "over"
  failures,         \* consecutive_preview_failures
  preview_disabled,
  waiters,          \* flush_waiters
  retries,          \* retry_count of the terminal call
  result,           \* its outcome
  message_id,       \* the backend's message_id is Some
  generation,       \* the shared generation is Some
  call,             \* per call: where it is, or what it was answered
  kind,             \* per call: which method
  target,           \* per flush: its revision
  queue,            \* the command channel
  notified,         \* a permit is stored in notify
  owner,            \* the Drafter: "held", "consumed" by finish or abort, "dropped"
  aborting,         \* worker.abort() was called
  faults,
  shown,            \* history: the latest revision of this segment the chat shows
  posts,            \* history: preview messages sent, not edited, in this segment
  skipped,          \* history: a snapshot of this segment was empty
  accepted,         \* history: times the API accepted the message of this call
  sealed            \* history: the message of message_id holds a final text

task == <<pc, op, at>>
schedule == <<last_delivered, held, watch, failures, preview_disabled>>
terminal == <<retries, result, accepted>>
backend == <<mode, message_id, sealed>>
calls == <<call, kind, target>>
api == <<owner, aborting>>
history == <<shown, posts, skipped>>
vars == <<source, task, schedule, waiters, terminal, backend, generation, calls, queue,
          notified, api, faults, history>>

Calls == 1..MaxCalls
Kinds == {"none", "flush", "commit", "finish", "abort", "stop"}
\* Outcomes of a terminal call, and what an answer tells the caller: "denied"
\* is an error whose delivery is NotAttempted or Rejected, "failed" any other.
Results == {"ok", "invalid", "rejected", "notattempted", "unknown"}
Answers == {"ok", "denied", "failed"}
Answer(r) == IF r \in {"none", "ok"} THEN "ok"
             ELSE IF r = "unknown" THEN "failed" ELSE "denied"
Ended == pc = "ended"
Waiting == {c \in Calls : call[c] = "waiting"}

TypeOK ==
  /\ SourceTypeOK
  /\ mode \in Modes
  /\ pc \in {"loop", "parked", "acquiring", "updating", "waiting", "calling",
             "concluding", "stopping", "ended"}
  /\ op \in 0..MaxCalls /\ at \in Revisions /\ last_delivered \in Revisions
  /\ held \in BOOLEAN /\ watch \in {"none", "armed", "over"}
  /\ failures \in 0..MaxFaults /\ preview_disabled \in BOOLEAN /\ waiters \subseteq Calls
  /\ retries \in 0..RetryBudget /\ result \in Results \cup {"none"}
  /\ message_id \in BOOLEAN /\ generation \in BOOLEAN
  /\ call \in [Calls -> Answers \cup {"none", "waiting", "dropped"}]
  /\ kind \in [Calls -> Kinds] /\ target \in [Calls -> Revisions]
  /\ queue \in Seq(Calls) /\ notified \in BOOLEAN
  /\ owner \in {"held", "consumed", "dropped"} /\ aborting \in BOOLEAN
  /\ faults \in 0..MaxFaults
  /\ shown \in Revisions /\ posts \in Nat /\ skipped \in BOOLEAN
  /\ accepted \in Nat /\ sealed \in BOOLEAN

Init ==
  /\ SourceInit
  /\ mode \in Modes
  /\ pc = "loop" /\ op = 0 /\ at = 0
  /\ last_delivered = 0 /\ held = FALSE /\ watch = "none" /\ failures = 0
  /\ preview_disabled = FALSE /\ waiters = {}
  /\ retries = 0 /\ result = "none" /\ message_id = FALSE
  /\ generation = (mode = "native")
  /\ call = [c \in Calls |-> "none"] /\ kind = [c \in Calls |-> "none"]
  /\ target = [c \in Calls |-> 0] /\ queue = <<>> /\ notified = FALSE
  /\ owner = "held" /\ aborting = FALSE /\ faults = 0
  /\ shown = 0 /\ posts = 0 /\ skipped = FALSE /\ accepted = 0 /\ sealed = FALSE

-----------------------------------------------------------------------------
(* The callers.                                                            *)

\* The answer a oneshot sender delivers if its receiver is still there.
Answered(S, a) == [c \in Calls |-> IF c \in S \cap Waiting THEN a ELSE call[c]]

\* A new call sends its command; without a worker there is no receiver.
Send(c, k, t) ==
  /\ call[c] = "none" /\ \A d \in Calls : d < c => call[d] # "none"
  /\ kind' = [kind EXCEPT ![c] = k]
  /\ target' = [target EXCEPT ![c] = t]
  /\ call' = [call EXCEPT ![c] = IF Ended THEN "failed" ELSE "waiting"]
  /\ queue' = IF Ended THEN queue ELSE Append(queue, c)
  /\ UNCHANGED <<task, schedule, waiters, terminal, backend, generation, notified,
                 aborting, faults, history>>

\* The calls of the owner that borrow the Drafter.
Borrows(K) == \E c \in Waiting : kind[c] \in K

\* update, push: the producer.
Push ==
  /\ Apply
  /\ notified' = TRUE
  /\ UNCHANGED <<task, schedule, waiters, terminal, backend, generation, calls, queue, api,
                 faults, history>>

\* flush borrows the Drafter, flushes may be concurrent.
Flush(c) ==
  /\ owner = "held" /\ ~Borrows({"commit"})
  /\ Send(c, "flush", revision)
  /\ UNCHANGED <<source, owner>>

\* commit_segment borrows it mutably.
CommitSegment(c) ==
  /\ owner = "held" /\ ~Borrows({"flush", "commit"})
  /\ BeginTransition
  /\ Send(c, "commit", 0)
  /\ UNCHANGED owner

\* finish and abort take it.
Conclude(c, k) ==
  /\ owner = "held" /\ ~Borrows({"flush", "commit"})
  /\ owner' = "consumed"
  /\ Close
  /\ Send(c, k, 0)

\* DrafterHandle::stop, which any task may call.  That it clears generation
\* after its answer is left to the worker, which does the same.
Stop(c) == Close /\ Send(c, "stop", 0) /\ UNCHANGED owner

\* The caller drops the future of a flush or of a commit.
Leave(c) ==
  /\ call[c] = "waiting" /\ kind[c] \in {"flush", "commit"}
  /\ call' = [call EXCEPT ![c] = "dropped"]
  /\ UNCHANGED <<source, task, schedule, waiters, terminal, backend, generation, kind,
                 target, queue, notified, api, faults, history>>

\* Drop for Drafter.  finish and abort drop it too, when their futures are
\* dropped or when they have an answer and the worker has ended.
DropDrafter ==
  /\ \/ owner = "held" /\ ~Borrows({"flush", "commit"}) /\ UNCHANGED call
     \/ /\ owner = "consumed"
        /\ Ended \/ Borrows({"finish", "abort"})
        /\ call' = [c \in Calls |-> IF c \in Waiting /\ kind[c] \in {"finish", "abort"}
                                    THEN "dropped" ELSE call[c]]
  /\ owner' = "dropped" /\ Close /\ generation' = FALSE /\ aborting' = ~Ended
  /\ UNCHANGED <<task, schedule, waiters, terminal, backend, kind, target, queue, notified,
                 faults, history>>

-----------------------------------------------------------------------------
(* The previews of the worker.                                             *)

Changed == revision > last_delivered
FlushRequested == \E w \in waiters : target[w] > last_delivered

\* Mutant of Reached: off by one.
Reached_Strictly(t, last) == t < last

\* complete_flushes, with the values of last_delivered and preview_disabled.
Reached(t, last) == t <= last
CompleteFlushes(last, disabled) ==
  /\ waiters' = {w \in waiters : ~Reached(target[w], last) /\ ~disabled}
  /\ call' = [c \in Calls |->
                IF c \notin waiters \cap Waiting THEN call[c]
                ELSE IF Reached(target[c], last) THEN "ok"
                ELSE IF disabled THEN "failed" ELSE "waiting"]
  /\ UNCHANGED <<kind, target>>

\* Timers: the interval or the delay before the next attempt, the watchdog.
\* The refresh interval is longer than a request (DraftConfig::validate): it
\* does not pass between the update that starts it and the next select.
Rest ==
  /\ held /\ held' = FALSE
  /\ UNCHANGED <<source, task, last_delivered, watch, failures, preview_disabled, waiters,
                 terminal, backend, generation, calls, queue, notified, api, faults, history>>
Expire ==
  /\ watch = "armed" /\ watch' = "over" /\ pc = "parked"
  /\ UNCHANGED <<source, task, last_delivered, held, failures, preview_disabled, waiters,
                 terminal, backend, generation, calls, queue, notified, api, faults, history>>
Coalesce ==
  /\ Ripen
  /\ UNCHANGED <<task, schedule, waiters, terminal, backend, generation, calls, queue,
                 notified, api, faults, history>>

ChangedDue == Changed /\ (FlushRequested \/ dirty = "ripe") /\ ~held
RefreshDue == ~Changed /\ mode = "native" /\ watch = "over" /\ ~held

\* run_due_preview up to the acquire, or idle.
NothingDue ==
  /\ pc = "loop" /\ pc' = "parked"
  /\ \/ ~IsRunning /\ UNCHANGED <<waiters, calls>>
     \/ /\ IsRunning
        /\ preview_disabled \/ ~(ChangedDue \/ RefreshDue)
        /\ CompleteFlushes(last_delivered, preview_disabled)
  /\ UNCHANGED <<source, op, at, schedule, terminal, backend, generation, queue, notified,
                 api, faults, history>>
PreviewDue ==
  /\ pc = "loop" /\ IsRunning /\ ~preview_disabled
  /\ ChangedDue \/ RefreshDue
  /\ pc' = "acquiring" /\ at' = revision
  /\ UNCHANGED <<source, op, schedule, waiters, terminal, backend, generation, calls, queue,
                 notified, api, faults, history>>

\* next_deadline has passed.
DeadlinePassed ==
  /\ ~preview_disabled /\ ~held
  /\ IF Changed THEN FlushRequested \/ dirty # "fresh" ELSE watch = "over"

\* The select of run_loop without a command: a notification, or the deadline.
Wake ==
  /\ pc = "parked" /\ queue = <<>> /\ pc' = "loop"
  /\ notified \/ DeadlinePassed
  /\ notified' = FALSE
  /\ UNCHANGED <<source, op, at, schedule, waiters, terminal, backend, generation, calls,
                 queue, api, faults, history>>

\* The permit is granted: nothing is sent if the source stopped running or
\* has nothing to show; otherwise its newest preview is.
NoLongerRunning ==
  /\ ~IsRunning /\ pc' = "loop" /\ at' = 0
  /\ UNCHANGED <<source, schedule, waiters, calls, history>>
NothingToShow ==
  /\ IsRunning /\ pc' = "loop" /\ at' = 0
  /\ last_delivered' = at /\ watch' = "none"
  /\ MarkDelivered(at)
  /\ CompleteFlushes(at, preview_disabled)
  /\ shown' = revision /\ skipped' = TRUE
  /\ UNCHANGED <<held, failures, preview_disabled, posts>>
SendPreview ==
  /\ IsRunning /\ pc' = "updating"
  /\ at' = revision /\ held' = TRUE
  /\ UNCHANGED <<source, last_delivered, watch, failures, preview_disabled, waiters, calls,
                 history>>
Granted ==
  /\ pc = "acquiring"
  /\ NoLongerRunning \/ NothingToShow \/ SendPreview
  /\ UNCHANGED <<op, terminal, backend, generation, queue, notified, api, faults>>

\* The limiter refuses: fail_flushes, and a retry later.
AcquireFails ==
  /\ pc = "acquiring" /\ faults < MaxFaults /\ faults' = faults + 1
  /\ pc' = "loop" /\ at' = 0 /\ held' = TRUE
  /\ waiters' = {} /\ call' = Answered(waiters, "failed")
  /\ UNCHANGED <<source, op, last_delivered, watch, failures, preview_disabled,
                 terminal, backend, generation, kind, target, queue, notified, api, history>>

\* What the chat shows once the request has arrived: a message it has, or
\* the first one, is sent the text.
Arrived ==
  /\ shown' = Max({shown, at})
  /\ posts' = IF mode = "edit" /\ ~message_id THEN posts + 1 ELSE posts
  /\ UNCHANGED skipped

\* Mutant of Delivered: what is current at the answer counts as delivered.
Delivered_Current(r) == Max({last_delivered, revision})

\* PreviewAck.
Delivered(r) == Max({last_delivered, r})
PreviewSuccess ==
  /\ pc = "updating" /\ pc' = "loop" /\ at' = 0
  /\ Arrived
  /\ message_id' = (mode = "edit")
  /\ last_delivered' = Delivered(at)
  /\ MarkDelivered(at)
  /\ failures' = 0 /\ watch' = IF mode = "native" THEN "armed" ELSE "none"
  /\ CompleteFlushes(Delivered(at), preview_disabled)
  /\ UNCHANGED <<op, held, preview_disabled, terminal, mode, sealed, generation, queue,
                 notified, api, faults>>

\* handle_preview_error: another attempt later, or no more previews.
TryAgain ==
  /\ held' = TRUE
  /\ UNCHANGED <<last_delivered, watch, preview_disabled, waiters, calls>>
GiveUp ==
  /\ preview_disabled' = TRUE /\ watch' = "none"
  /\ CompleteFlushes(last_delivered, TRUE)
  /\ UNCHANGED <<last_delivered, held>>
Transient(retry_safe) ==
  IF retry_safe /\ failures + 1 < MaxFailures THEN TryAgain ELSE GiveUp

\* Mutant of TimeoutRetrySafe: every preview may be sent again.
TimeoutRetrySafe_Always == TRUE

\* Whether sending the same preview again is harmless: after a timeout the
\* worker decides by what was delivered, after a network error the backend
\* by the message it has.
TimeoutRetrySafe == mode = "native" \/ last_delivered > 0
NetworkRetrySafe == mode = "native" \/ message_id

PreviewFails ==
  /\ pc = "updating" /\ pc' = "loop" /\ at' = 0
  /\ faults < MaxFaults /\ faults' = faults + 1
  /\ failures' = failures + 1
  /\ \/ TryAgain /\ UNCHANGED history                 \* RetryAfter
     \/ GiveUp /\ UNCHANGED history                   \* InvalidPayload, Permanent
     \/ /\ Transient(TimeoutRetrySafe) \/ Transient(NetworkRetrySafe)
        /\ Arrived \/ UNCHANGED history
  /\ UNCHANGED <<source, op, terminal, backend, generation, queue, notified, api>>

-----------------------------------------------------------------------------
(* The commands.                                                           *)

\* Command::Flush
ReceiveFlush(c) ==
  /\ kind[c] = "flush" /\ pc' = "loop"
  /\ IF Reached(target[c], last_delivered)
     THEN call' = Answered({c}, "ok") /\ UNCHANGED waiters
     ELSE IF preview_disabled
     THEN call' = Answered({c}, "failed") /\ UNCHANGED waiters
     ELSE waiters' = waiters \cup {c} /\ UNCHANGED call
  /\ UNCHANGED <<source, op>>

\* Command::Commit, Command::Finish and Command::Abort up to the first await.
BeginTerminal(c) ==
  /\ pc' = IF kind[c] \in {"commit", "finish"} THEN "waiting" ELSE "concluding"
  /\ op' = c
  /\ waiters' = {} /\ call' = Answered(waiters, "failed")
ReceiveCommit(c) == kind[c] = "commit" /\ BeginTransition /\ BeginTerminal(c)
ReceiveFinish(c) == kind[c] = "finish" /\ Close /\ BeginTerminal(c)
\* Mutant of ReceiveAbort: stop is trusted to have closed the source.
ReceiveAbort_Trusting(c) ==
  kind[c] \in {"abort", "stop"} /\ UNCHANGED source /\ BeginTerminal(c)

ReceiveAbort(c) == kind[c] \in {"abort", "stop"} /\ Close /\ BeginTerminal(c)

Receive ==
  /\ pc \in {"parked", "acquiring"} /\ queue # <<>>
  /\ LET c == Head(queue) IN
       ReceiveFlush(c) \/ ReceiveCommit(c) \/ ReceiveFinish(c) \/ ReceiveAbort(c)
  /\ queue' = Tail(queue)
  /\ at' = 0
  /\ UNCHANGED <<schedule, terminal, backend, generation, kind, target, notified, api, faults,
                 history>>

\* What is certain while no attempt is under way: the last one was refused.
Standing == IF retries > 0 THEN "rejected" ELSE "notattempted"
CallerGone == call[op] = "dropped"

\* The caller's end of the reply is closed: the worker ends at once and leaves
\* the source as it is.
Cancel == pc' = "stopping" /\ op' = 0 /\ retries' = 0 /\ UNCHANGED <<at, result>>
Settle(r) == pc' = "concluding" /\ result' = r /\ UNCHANGED <<op, at, retries>>

\* wait_for_terminal_permit
WaitForPermit ==
  /\ pc = "waiting"
  /\ \/ CallerGone /\ Cancel
     \/ /\ ~CallerGone
        /\ \/ pc' = "calling" /\ UNCHANGED <<op, at, retries, result>>
           \/ Settle("notattempted")   \* the limiter refuses
           \/ Settle(Standing)         \* operation_deadline
  /\ UNCHANGED <<source, schedule, waiters, accepted, backend, generation, calls, queue,
                 notified, api, faults, history>>

\* The API takes the text: into the message the backend has, or a new one.
Accept ==
  /\ accepted' = accepted + 1
  /\ sealed' = (mode = "edit" /\ message_id)
Lost == Accept \/ UNCHANGED <<accepted, sealed>>

\* The answers of the API to the permanent message.  A commit that succeeds
\* leaves the backend without a message.
Succeeds ==
  /\ accepted' = accepted + 1 /\ Settle("ok")
  /\ message_id' = (message_id /\ kind[op] # "commit")
  /\ sealed' = (mode = "edit" /\ message_id')

Limited ==
  /\ IF retries < RetryBudget
     THEN pc' = "waiting" /\ retries' = retries + 1 /\ UNCHANGED <<op, at, result>>
     ELSE Settle("rejected")
  /\ UNCHANGED <<accepted, message_id, sealed>>
Refused ==
  /\ Settle("invalid") \/ Settle("rejected")
  /\ UNCHANGED <<accepted, message_id, sealed>>
\* Mutant of NoAnswer: a call without an answer is made again.
NoAnswer_Retried ==
  /\ IF retries < RetryBudget
     THEN pc' = "waiting" /\ retries' = retries + 1 /\ UNCHANGED <<op, at, result>>
     ELSE Settle("unknown")
  /\ Lost /\ UNCHANGED message_id

\* Mutant of NoAnswer: the certainty of the attempt before is reported.
NoAnswer_AsBefore == Settle(Standing) /\ Lost /\ UNCHANGED message_id

\* A timeout, the deadline or a network error: it may have arrived.
NoAnswer == Settle("unknown") /\ Lost /\ UNCHANGED message_id

TerminalCall ==
  /\ pc = "calling"
  /\ \/ CallerGone /\ Cancel /\ Lost /\ UNCHANGED message_id
     \/ ~CallerGone /\ (Succeeds \/ Limited \/ Refused \/ NoAnswer)
  /\ UNCHANGED <<source, schedule, waiters, mode, generation, calls, queue, notified, api,
                 faults, history>>

\* Mutant of Withdraws: the preview is deleted after every failure.
Withdraws_AfterAnyFailure == result # "ok"

\* Whether the backend's abort() deletes the preview message: for Abort, and
\* after a delivery that certainly failed unless the commit may be corrected.
Withdraws ==
  \/ kind[op] \in {"abort", "stop"}
  \/ result \in {"rejected", "notattempted"}
  \/ result = "invalid" /\ kind[op] = "finish"

\* A segment ends: reset_segment_state, reopen_segment, sync_generation.
Rotate ==
  /\ kind[op] = "commit" /\ result = "ok" /\ pc' = "loop"
  /\ last_delivered' = 0 /\ held' = FALSE /\ watch' = "none" /\ failures' = 0
  /\ preview_disabled' = FALSE
  /\ ReopenSegment
  /\ generation' = (mode = "native")
  /\ shown' = 0 /\ posts' = 0 /\ skipped' = FALSE
\* A payload that may be corrected: nothing changes.
KeepWorking ==
  /\ kind[op] = "commit" /\ result = "invalid" /\ pc' = "loop"
  /\ UNCHANGED <<source, schedule, generation, history>>
\* A commit that failed closes the source; the others have closed it.
StopWorking ==
  /\ kind[op] = "commit" => result \notin {"ok", "invalid"}
  /\ pc' = "stopping"
  /\ IF kind[op] = "commit" THEN Close ELSE UNCHANGED source
  /\ UNCHANGED <<schedule, generation, history>>

\* The cleanup request, if any, is over: the end of a terminal command.
Reply ==
  /\ pc = "concluding"
  /\ Rotate \/ KeepWorking \/ StopWorking
  /\ call' = Answered({op}, Answer(result))
  /\ op' = 0 /\ result' = "none" /\ retries' = 0 /\ accepted' = 0
  /\ UNCHANGED <<at, waiters, backend, kind, target, queue, notified,
                 api, faults>>

-----------------------------------------------------------------------------
(* The end of the worker: its fields go, its channel, and with it every    *)
(* sender of a reply.                                                      *)
HangUp ==
  /\ pc' = "ended" /\ op' = 0 /\ at' = 0
  /\ last_delivered' = 0 /\ held' = FALSE /\ watch' = "none" /\ failures' = 0
  /\ preview_disabled' = FALSE /\ message_id' = FALSE /\ sealed' = FALSE
  /\ retries' = 0 /\ result' = "none" /\ accepted' = 0 /\ notified' = FALSE
  /\ queue' = <<>> /\ waiters' = {} /\ call' = Answered(Calls, "failed")
  /\ UNCHANGED <<source, mode, kind, target, api, faults, history>>

\* run: the loop has returned.
End == pc = "stopping" /\ HangUp /\ generation' = FALSE

\* The abort takes effect at an await, when the poll in progress, if there is
\* one, is over: until then the worker goes on.
Die == aborting /\ ~Ended /\ HangUp /\ UNCHANGED generation

Worker ==
  \/ NothingDue \/ PreviewDue \/ Wake \/ Granted \/ AcquireFails \/ PreviewSuccess
  \/ PreviewFails \/ Receive \/ WaitForPermit \/ TerminalCall \/ Reply \/ End

Caller ==
  \/ \E c \in Calls :
       \/ Flush(c) \/ CommitSegment(c) \/ Conclude(c, "finish") \/ Conclude(c, "abort")
       \/ Stop(c) \/ Leave(c)
  \/ DropDrafter

Next == Push \/ Caller \/ Worker \/ Die \/ Rest \/ Expire \/ Coalesce

Spec == Init /\ [][Next]_vars

\* The runtime polls the worker, the limiter and the API answer, and timers end.
Fairness == WF_vars(Worker) /\ WF_vars(Die) /\ WF_vars(Rest) /\ WF_vars(Coalesce)

FairSpec == Spec /\ Fairness

-----------------------------------------------------------------------------
(* Safety.                                                                 *)

\* flush "waits until a revision existing at call time has been delivered":
\* it succeeds only when the chat shows its revision, or a newer one, of the
\* segment; a revision that was merely current when the request was sent, or
\* is current when it returns, does not count.
FlushIsTruthful ==
  [][\A c \in Calls : kind[c] = "flush" /\ call[c] = "waiting" /\ call'[c] = "ok"
       => shown' >= target[c]]_vars

\* No preview edits, and no cleanup deletes, a message that holds a permanent
\* text, whatever answer the worker had to the call that put it there.
FinalsAreKept == (pc = "updating" \/ (pc = "concluding" /\ Withdraws)) => ~sealed

\* commit_segment and finish post their message at most once, over all the
\* retries of one call.
PostedOnce == accepted <= 1

\* What the caller is told of its message is true: it was posted, or it
\* certainly was not.
AnswersAreTruthful ==
  [][\A c \in Calls : call[c] = "waiting" /\ kind[c] \in {"commit", "finish"} =>
       /\ call'[c] = "ok" => accepted = 1
       /\ call'[c] = "denied" => accepted = 0]_vars

\* A segment has one preview message: a first message that may have arrived is
\* not sent again.  A worker that has delivered an empty snapshot is excepted:
\* it takes the first message for an edit after a timeout.
OnePreviewMessage == posts <= 1 \/ skipped

\* When the worker has ended by itself no producer and no handle believes in
\* it: the source refuses updates although a commit may have reopened it after
\* it was closed, and no generation is announced.
EndedMeansRefused == Ended /\ ~aborting => ~IsRunning /\ ~generation

-----------------------------------------------------------------------------
(* Liveness.                                                               *)

\* Two flushes wait as long as the worker: after a payload that may be
\* corrected the source stays in transition, and a revision read before a
\* commit whose caller had gone may not come up again.
Forsaken(c) == kind[c] = "flush" /\ (gate = "Transition" \/ target[c] > revision)

\* Every other call is answered or learns that the worker has gone.
EveryCallIsAnswered ==
  \A c \in Calls : []<>(call[c] # "waiting") \/ <>[]Forsaken(c)

\* Every update of a running source is shown, alone or within a newer one,
\* unless previews were disabled: no notification and no timer is missed.
UpdatesAreShown ==
  []<>(shown = revision \/ ~IsRunning \/ preview_disabled \/ owner = "dropped")

=============================================================================
