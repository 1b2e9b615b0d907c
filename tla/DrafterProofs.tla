--------------------------- MODULE DrafterProofs ---------------------------
(* Theorems about Drafter, for every value of its constants. *)
EXTENDS Drafter, SequenceTheorems, TLAPS

(***************************************************************************)
(* The inductive invariant: what the worker knows at each await.           *)
(***************************************************************************)

Terminating == pc \in {"waiting", "calling", "concluding"}
Queued(c) == \E i \in DOMAIN queue : queue[i] = c

\* Calls whose reply the worker holds, or its channel.
Known(c) == c \in waiters \/ c = op \/ Queued(c)

CallInv ==
  /\ \A c \in Calls : Known(c) => call[c] # "none"
  /\ \A c \in waiters : kind[c] = "flush"
  /\ op # 0 <=> Terminating
  /\ pc \in {"waiting", "calling"} => kind[op] \in {"commit", "finish"}
  /\ pc = "concluding" => kind[op] \in {"commit", "finish", "abort", "stop"}

\* What counts as delivered is in the chat; a segment ends without a preview
\* under way.
RevisionInv ==
  /\ revision <= pushed /\ failures <= faults
  /\ at <= revision /\ (Terminating => at = 0)
  /\ last_delivered <= shown

\* The outcome of a terminal call is what the API did with its message.
OutcomeInv ==
  /\ accepted <= 1
  /\ pc \notin {"concluding", "stopping"} => accepted = 0
  /\ pc # "concluding" => result = "none"
  /\ pc = "concluding" =>
       /\ kind[op] \in {"abort", "stop"} <=> result = "none"
       /\ result = "ok" => accepted = 1
       /\ result \in {"invalid", "rejected", "notattempted"} => accepted = 0

\* A message that is final is not edited again: the worker ends.
SealInv ==
  sealed => \/ pc = "stopping"
            \/ /\ pc = "concluding"
               /\ result = "unknown" \/ (result = "ok" /\ kind[op] = "finish")

\* A commit has taken the message, and the segment is not reset yet.
Committed == pc = "concluding" /\ result = "ok" /\ kind[op] = "commit"

\* Once a first message may have arrived, the backend has it or the worker
\* sends no more previews.
PreviewInv ==
  /\ pc \in {"acquiring", "updating"} => ~preview_disabled
  /\ mode = "edit" /\ ~skipped =>
       /\ last_delivered > 0 => message_id \/ Committed
       /\ posts > 0 => message_id \/ preview_disabled \/ Committed \/ Ended
  /\ OnePreviewMessage

\* The source does not run while a terminal call is under way or has failed.
GateInv ==
  /\ Terminating \/ pc = "stopping" => ~IsRunning
  /\ EndedMeansRefused
  /\ aborting => owner = "dropped"

IInv ==
  /\ TypeOK /\ CallInv /\ RevisionInv /\ OutcomeInv /\ SealInv /\ PreviewInv /\ GateInv

-----------------------------------------------------------------------------
(* Calls and their replies.                                                *)

CallStates == Answers \cup {"none", "waiting", "dropped"}

LEMMA MaxOfTwo ==
  ASSUME NEW a \in Nat, NEW b \in Nat
  PROVE  /\ Max({a, b}) \in {a, b} /\ Max({a, b}) >= a /\ Max({a, b}) >= b
<1>1. \E x \in {a, b} : \A y \in {a, b} : x >= y
  <2>1. CASE a >= b
    BY <2>1
  <2>2. CASE b >= a
    BY <2>2
  <2>. QED BY <2>1, <2>2
<1>. QED BY <1>1 DEF Max

\* An answer reaches the calls that wait, and changes no other.
LEMMA AnsweredCalls ==
  ASSUME TypeOK, NEW S, NEW a \in Answers, call' = Answered(S, a)
  PROVE  /\ call' \in [Calls -> CallStates]
         /\ \A c \in Calls : call'[c] # call[c] =>
              c \in S /\ call[c] = "waiting" /\ call'[c] = a
  BY DEF TypeOK, Answered, CallStates, Waiting

\* Completing the flushes answers those that wait for it, and no other call.
LEMMA CompletedCalls ==
  ASSUME TypeOK, NEW last, NEW disabled, CompleteFlushes(last, disabled)
  PROVE  /\ call' \in [Calls -> CallStates] /\ waiters' \subseteq waiters
         /\ kind' = kind /\ target' = target
         /\ \A c \in Calls : call'[c] # call[c] =>
              /\ c \in waiters /\ call[c] = "waiting" /\ call'[c] \in {"ok", "failed"}
              /\ call'[c] = "ok" => target[c] <= last
  BY DEF TypeOK, CompleteFlushes, Reached, CallStates, Answers, Waiting

\* The worker takes the command at the head, and no other.
LEMMA TailQueue ==
  ASSUME queue \in Seq(Calls), queue # <<>>, queue' = Tail(queue)
  PROVE  /\ queue' \in Seq(Calls) /\ Head(queue) \in Calls /\ Queued(Head(queue))
         /\ \A c : Queued(c)' => Queued(c)
<1>1. /\ Len(queue) \in Nat /\ Len(queue) > 0 /\ DOMAIN queue = 1..Len(queue)
      /\ Head(queue) = queue[1] /\ queue[1] \in Calls
      /\ queue' \in Seq(Calls) /\ DOMAIN queue' = 1..(Len(queue) - 1)
      /\ \A i \in 1..(Len(queue) - 1) : queue'[i] = queue[i + 1]
  BY HeadTailProperties, LenProperties, ElementOfSeq, EmptySeq
<1>. QED BY <1>1 DEF Queued

LEMMA AppendQueue ==
  ASSUME queue \in Seq(Calls), NEW c \in Calls, queue' = Append(queue, c)
  PROVE  queue' \in Seq(Calls) /\ \A d : Queued(d)' => Queued(d) \/ d = c
<1>1. /\ DOMAIN queue' = 1..(Len(queue) + 1) /\ queue' \in Seq(Calls)
      /\ DOMAIN queue = 1..Len(queue) /\ Len(queue) \in Nat
      /\ \A i \in 1..Len(queue) : queue'[i] = queue[i]
      /\ queue'[Len(queue) + 1] = c
  BY AppendProperties
<1>. QED BY <1>1 DEF Queued

-----------------------------------------------------------------------------
(* Types.                                                                  *)

\* The parts of a state the callers change, and those the worker keeps to
\* itself.
CallType ==
  /\ SourceTypeOK
  /\ call \in [Calls -> CallStates] /\ kind \in [Calls -> Kinds]
  /\ target \in [Calls -> Revisions] /\ queue \in Seq(Calls)
  /\ generation \in BOOLEAN /\ notified \in BOOLEAN
  /\ owner \in {"held", "consumed", "dropped"} /\ aborting \in BOOLEAN

WorkerType ==
  /\ mode \in Modes
  /\ pc \in {"loop", "parked", "acquiring", "updating", "waiting", "calling",
             "concluding", "stopping", "ended"}
  /\ op \in 0..MaxCalls /\ at \in Revisions /\ last_delivered \in Revisions
  /\ held \in BOOLEAN /\ watch \in {"none", "armed", "over"}
  /\ failures \in 0..MaxFaults /\ preview_disabled \in BOOLEAN /\ waiters \subseteq Calls
  /\ retries \in 0..RetryBudget /\ result \in Results \cup {"none"}
  /\ message_id \in BOOLEAN /\ faults \in 0..MaxFaults
  /\ shown \in Revisions /\ posts \in Nat /\ skipped \in BOOLEAN
  /\ accepted \in Nat /\ sealed \in BOOLEAN

LEMMA TypeSplits ==
  (TypeOK <=> CallType /\ WorkerType) /\ (CallType' /\ WorkerType' => TypeOK')
  BY DEF TypeOK, CallType, WorkerType, CallStates

LEMMA InitType == Init => TypeOK
<1> SUFFICES ASSUME Init PROVE TypeOK
  OBVIOUS
<1>1. /\ MaxUpdates \in Nat /\ MaxCalls \in Nat /\ RetryBudget \in Nat
      /\ MaxFailures \in Nat /\ MaxFaults \in Nat /\ queue \in Seq(Calls)
  BY SourceAssumption, DrafterAssumption, EmptySeq DEF Init
<1>2. /\ generation \in BOOLEAN /\ notified \in BOOLEAN /\ aborting \in BOOLEAN
      /\ held \in BOOLEAN /\ preview_disabled \in BOOLEAN /\ message_id \in BOOLEAN
      /\ skipped \in BOOLEAN /\ sealed \in BOOLEAN
  BY Zenon DEF Init
<1>3. /\ gate = "Running" /\ revision = 0 /\ dirty = "clean" /\ pushed = 0
      /\ mode \in Modes /\ pc = "loop" /\ op = 0 /\ at = 0 /\ last_delivered = 0
      /\ watch = "none" /\ failures = 0 /\ waiters = {} /\ retries = 0 /\ result = "none"
      /\ owner = "held" /\ faults = 0 /\ shown = 0 /\ posts = 0 /\ accepted = 0
      /\ call = [c \in Calls |-> "none"] /\ kind = [c \in Calls |-> "none"]
      /\ target = [c \in Calls |-> 0]
  BY Zenon DEF Init, SourceInit
<1>4. CallType
  BY <1>1, <1>2, <1>3 DEF CallType, CallStates, SourceTypeOK, Revisions, Kinds
<1>5. WorkerType
  BY <1>1, <1>2, <1>3 DEF WorkerType, Revisions, Results
<1>. QED BY <1>4, <1>5, TypeSplits

\* What the source may become.
SourceStep ==
  \/ UNCHANGED source \/ Apply \/ Ripen \/ BeginTransition \/ Close \/ ReopenSegment
  \/ \E r \in Revisions : MarkDelivered(r)

LEMMA SourceTypes ==
  ASSUME SourceTypeOK, revision <= pushed, SourceStep
  PROVE  SourceTypeOK' /\ revision' <= pushed'
  BY SourceAssumption
     DEF SourceStep, source, Apply, Ripen, BeginTransition, Close, ReopenSegment, MarkDelivered,
         AfterDelivery, SourceTypeOK, Revisions, IsRunning

LEMMA NextSource ==
  ASSUME TypeOK, Next
  PROVE  SourceStep
<1>1. CASE Push \/ Caller \/ Die \/ Rest \/ Expire \/ Coalesce
  BY <1>1 DEF SourceStep, Push, Caller, Flush, CommitSegment, Conclude, Stop, Leave,
              DropDrafter, Die, HangUp, Rest, Expire, Coalesce
<1>2. CASE Granted \/ PreviewSuccess
  BY <1>2 DEF SourceStep, Granted, NoLongerRunning, NothingToShow, SendPreview, PreviewSuccess,
              TypeOK
<1>3. CASE Receive
  BY <1>3 DEF SourceStep, Receive, ReceiveFlush, ReceiveCommit, ReceiveFinish, ReceiveAbort
<1>4. CASE NothingDue \/ PreviewDue \/ Wake \/ AcquireFails \/ PreviewFails \/ WaitForPermit
           \/ TerminalCall \/ End
  BY <1>4 DEF SourceStep, NothingDue, PreviewDue, Wake, AcquireFails, PreviewFails,
              WaitForPermit, TerminalCall, End, HangUp
<1>5. CASE Reply
  BY <1>5 DEF SourceStep, Reply, Rotate, KeepWorking, StopWorking
<1>. QED BY <1>1, <1>2, <1>3, <1>4, <1>5 DEF Next, Worker

\* Sending a command: the bookkeeping of a new call.
LEMMA SendCalls ==
  ASSUME CallType, NEW c \in Calls, NEW k \in Kinds, NEW t \in Revisions, Send(c, k, t)
  PROVE  /\ call' \in [Calls -> CallStates] /\ kind' \in [Calls -> Kinds]
         /\ target' \in [Calls -> Revisions] /\ queue' \in Seq(Calls)
         /\ call[c] = "none" /\ call'[c] \in {"failed", "waiting"} /\ kind'[c] = k
         /\ \A d \in Calls : d # c => call'[d] = call[d] /\ kind'[d] = kind[d]
         /\ \A d : Queued(d)' => Queued(d) \/ (d = c /\ ~Ended)
         /\ UNCHANGED <<task, schedule, waiters, terminal, backend, generation, notified,
                        aborting, faults, history>>
<1>1. /\ call \in [Calls -> CallStates] /\ kind \in [Calls -> Kinds]
      /\ target \in [Calls -> Revisions] /\ queue \in Seq(Calls)
  BY DEF CallType
<1>2. queue' \in Seq(Calls) /\ \A d : Queued(d)' => Queued(d) \/ (d = c /\ ~Ended)
  <2>1. CASE Ended
    <3>1. queue' = queue
      BY <2>1 DEF Send
    <3>. QED BY <1>1, <3>1 DEF Queued
  <2>2. CASE ~Ended
    <3>1. queue' = Append(queue, c)
      BY <2>2 DEF Send
    <3>. QED BY <1>1, <2>2, <3>1, AppendQueue
  <2>. QED BY <2>1, <2>2
<1>3. call' = [call EXCEPT ![c] = IF Ended THEN "failed" ELSE "waiting"]
  BY DEF Send
<1>4. /\ call' \in [Calls -> CallStates] /\ call'[c] \in {"failed", "waiting"}
      /\ \A d \in Calls : d # c => call'[d] = call[d]
  BY <1>1, <1>3 DEF CallStates, Answers
<1>5. /\ kind' \in [Calls -> Kinds] /\ target' \in [Calls -> Revisions] /\ kind'[c] = k
      /\ call[c] = "none" /\ \A d \in Calls : d # c => kind'[d] = kind[d]
  BY <1>1 DEF Send
<1>. QED BY <1>2, <1>4, <1>5 DEF Send

\* What a step may make of the calls: a new one, or answers to waiting ones.
LEMMA CallTypes ==
  ASSUME TypeOK, revision <= pushed, Next
  PROVE  CallType'
<1>0. CallType /\ WorkerType /\ SourceTypeOK' /\ revision \in Revisions /\ 0 \in Revisions
  BY TypeSplits, NextSource, SourceTypes, SourceAssumption DEF CallType, SourceTypeOK, Revisions
<1>1. ASSUME NEW c \in Calls, Flush(c) \/ CommitSegment(c) \/ Conclude(c, "finish")
                              \/ Conclude(c, "abort") \/ Stop(c)
      PROVE CallType'
  <2>1. \E k \in Kinds : \E t \in Revisions : Send(c, k, t)
    BY <1>0, <1>1 DEF Flush, CommitSegment, Conclude, Stop, Kinds
  <2>2. owner' \in {"held", "consumed", "dropped"}
    BY <1>0, <1>1 DEF Flush, CommitSegment, Conclude, Stop, CallType
  <2>. QED BY <1>0, <2>1, <2>2, SendCalls DEF CallType
<1>2. ASSUME NEW c \in Calls, Leave(c)
      PROVE CallType'
  <2>1. call' \in [Calls -> CallStates]
    BY <1>0, <1>2 DEF Leave, CallType, CallStates
  <2>. QED BY <1>0, <1>2, <2>1 DEF Leave, CallType, api
<1>3. CASE DropDrafter
  <2>1. call' \in [Calls -> CallStates]
    BY <1>0, <1>3 DEF DropDrafter, CallType, CallStates, Waiting
  <2>2. generation' \in BOOLEAN /\ aborting' \in BOOLEAN /\ owner' = "dropped"
        /\ UNCHANGED <<kind, target, queue, notified>>
    BY <1>3, Zenon DEF DropDrafter
  <2>. QED BY <1>0, <2>1, <2>2 DEF CallType
<1>4. CASE UNCHANGED <<calls, queue, generation, api>> /\ notified' \in BOOLEAN
  BY <1>0, <1>4 DEF CallType, calls, api
<1>5. CASE Push \/ Rest \/ Expire \/ Coalesce \/ PreviewDue \/ Wake \/ WaitForPermit \/ TerminalCall
  <2>1. UNCHANGED <<calls, queue, generation, api>> /\ notified' \in BOOLEAN
    BY <1>0, <1>5, Zenon DEF Push, Rest, Expire, Coalesce, PreviewDue, Wake, WaitForPermit,
                             TerminalCall, CallType
  <2>. QED BY <1>4, <2>1
<1>6. CASE /\ UNCHANGED <<queue, notified, api>> /\ generation' \in BOOLEAN
           /\ UNCHANGED <<kind, target>> /\ call' \in [Calls -> CallStates]
  BY <1>0, <1>6 DEF CallType, api
<1>7. CASE NothingDue \/ PreviewSuccess \/ Granted \/ AcquireFails \/ PreviewFails
  <2>1. UNCHANGED <<queue, notified, api, generation>>
    BY <1>7 DEF NothingDue, PreviewSuccess, Granted, AcquireFails, PreviewFails
  <2>2. \/ UNCHANGED calls
        \/ UNCHANGED <<kind, target>> /\ call' = Answered(waiters, "failed")
        \/ \E last, disabled : CompleteFlushes(last, disabled)
    BY <1>7 DEF NothingDue, PreviewSuccess, Granted, NoLongerRunning, NothingToShow,
                SendPreview, AcquireFails, PreviewFails, TryAgain, GiveUp, Transient
  <2>3. UNCHANGED <<kind, target>> /\ call' \in [Calls -> CallStates]
    BY <1>0, <2>2, AnsweredCalls, CompletedCalls DEF CallType, calls, Answers
  <2>. QED BY <1>0, <1>6, <2>1, <2>3 DEF CallType
<1>8. CASE Receive
  <2>1. UNCHANGED <<kind, target, generation, notified, api>> /\ queue' \in Seq(Calls)
    BY <1>0, <1>8, TailQueue DEF Receive, CallType
  <2>2. \/ call' = call
        \/ \E S : call' = Answered(S, "failed") \/ call' = Answered(S, "ok")
    BY <1>8 DEF Receive, ReceiveFlush, ReceiveCommit, ReceiveFinish, ReceiveAbort, BeginTerminal
  <2>3. call' \in [Calls -> CallStates]
    BY <1>0, <2>2, AnsweredCalls DEF CallType, Answers
  <2>. QED BY <1>0, <2>1, <2>3 DEF CallType, api
<1>9. CASE Reply
  <2>1. UNCHANGED <<kind, target, queue, notified, api>> /\ generation' \in BOOLEAN
    BY <1>0, <1>9, Zenon DEF Reply, Rotate, KeepWorking, StopWorking, CallType
  <2>2. call' \in [Calls -> CallStates]
    BY <1>9, AnsweredCalls DEF Reply, Answer, Answers
  <2>. QED BY <1>6, <2>1, <2>2
<1>10. CASE End \/ Die
  <2>1. generation' \in BOOLEAN /\ notified' \in BOOLEAN /\ UNCHANGED <<kind, target, api>>
        /\ queue' = <<>> /\ call' = Answered(Calls, "failed")
    BY <1>0, <1>10, Zenon DEF End, Die, HangUp, CallType
  <2>2. call' \in [Calls -> CallStates] /\ queue' \in Seq(Calls)
    BY <2>1, AnsweredCalls, EmptySeq DEF Answers
  <2>. QED BY <1>0, <2>1, <2>2 DEF CallType, api
<1>. QED BY <1>1, <1>2, <1>3, <1>5, <1>7, <1>8, <1>9, <1>10 DEF Next, Worker, Caller

LEMMA WorkerTypes ==
  ASSUME TypeOK, RevisionInv, Next
  PROVE  WorkerType'
<1>0. /\ CallType /\ WorkerType /\ revision \in Revisions /\ Revisions \subseteq Nat
      /\ 0 \in Revisions /\ MaxCalls \in Nat /\ RetryBudget \in Nat /\ MaxFaults \in Nat
  BY TypeSplits, SourceAssumption, DrafterAssumption DEF CallType, SourceTypeOK, Revisions
<1>1. CASE Push \/ Caller \/ Coalesce
  <2>1. UNCHANGED <<task, schedule, waiters, terminal, backend, faults, history>>
    BY <1>1 DEF Push, Caller, Coalesce, Flush, CommitSegment, Conclude, Stop, Send, Leave,
                DropDrafter
  <2>. QED BY <1>0, <2>1
           DEF WorkerType, task, schedule, terminal, backend, history
<1>2. CASE Rest \/ Expire \/ PreviewDue \/ Wake
  <2>1. held' \in BOOLEAN
    BY <1>0, <1>2, Zenon DEF Rest, Expire, PreviewDue, Wake, WorkerType, schedule
  <2>. QED BY <1>0, <1>2, <2>1
           DEF Rest, Expire, PreviewDue, Wake, WorkerType, task, schedule, terminal, backend,
               history
<1>3. CASE NothingDue \/ AcquireFails
  <2>1. waiters' \subseteq Calls
    BY <1>0, <1>3, CompletedCalls DEF NothingDue, AcquireFails, WorkerType
  <2>2. held' \in BOOLEAN
    BY <1>0, <1>3, Zenon DEF NothingDue, AcquireFails, WorkerType, schedule
  <2>. QED BY <1>0, <1>3, <2>1, <2>2
           DEF NothingDue, AcquireFails, WorkerType, task, schedule, terminal, backend, history
<1>4. CASE Granted
  <2>1. waiters' \subseteq Calls
    BY <1>0, <1>4, CompletedCalls
       DEF Granted, NoLongerRunning, NothingToShow, SendPreview, WorkerType
  <2>2. held' \in BOOLEAN /\ skipped' \in BOOLEAN
    BY <1>0, <1>4, Zenon DEF Granted, NoLongerRunning, NothingToShow, SendPreview, WorkerType,
                             schedule, history
  <2>. QED BY <1>0, <1>4, <2>1, <2>2
           DEF Granted, NoLongerRunning, NothingToShow, SendPreview, WorkerType, schedule,
               terminal, backend, history
<1>5. ASSUME Arrived
      PROVE  shown' \in Revisions /\ posts' \in Nat /\ skipped' \in BOOLEAN
  BY <1>0, <1>5, MaxOfTwo DEF Arrived, WorkerType
<1>6. CASE PreviewSuccess
  <2>1. waiters' \subseteq Calls
    BY <1>0, <1>6, CompletedCalls DEF PreviewSuccess, WorkerType
  <2>2. last_delivered' \in Revisions /\ message_id' \in BOOLEAN
    BY <1>0, <1>6, MaxOfTwo DEF PreviewSuccess, Delivered, WorkerType
  <2>. QED BY <1>0, <1>5, <1>6, <2>1, <2>2
           DEF PreviewSuccess, WorkerType, terminal
<1>7. CASE PreviewFails
  <2>1. waiters' \subseteq Calls /\ held' \in BOOLEAN /\ preview_disabled' \in BOOLEAN
        /\ watch' \in {"none", "armed", "over"} /\ last_delivered' = last_delivered
    BY <1>0, <1>7, CompletedCalls DEF PreviewFails, TryAgain, GiveUp, Transient, WorkerType
  <2>2. shown' \in Revisions /\ posts' \in Nat /\ skipped' \in BOOLEAN
    BY <1>0, <1>5, <1>7 DEF PreviewFails, history, WorkerType
  <2>3. failures' \in 0..MaxFaults /\ faults' \in 0..MaxFaults
    BY <1>0, <1>7 DEF PreviewFails, WorkerType, RevisionInv
  <2>. QED BY <1>0, <1>7, <2>1, <2>2, <2>3 DEF PreviewFails, WorkerType, terminal, backend
<1>8. CASE Receive
  <2>1. Head(queue) \in Calls /\ Calls \subseteq 0..MaxCalls
    BY <1>0, <1>8, TailQueue DEF Receive, CallType, Calls
  <2>2. waiters' \subseteq Calls /\ op' \in 0..MaxCalls /\ pc' \in {"loop", "waiting", "concluding"}
    BY <1>0, <1>8, <2>1
       DEF Receive, ReceiveFlush, ReceiveCommit, ReceiveFinish, ReceiveAbort, BeginTerminal,
           WorkerType
  <2>. QED BY <1>0, <1>8, <2>2
           DEF Receive, WorkerType, schedule, terminal, backend, history
<1>9. CASE WaitForPermit
  <2>1. Standing \in Results
    BY DEF Standing, Results
  <2>. QED BY <1>0, <1>9, <2>1
           DEF WaitForPermit, Cancel, Settle, Results, WorkerType, schedule, backend, history
<1>10. CASE TerminalCall
  <2>1. message_id' \in BOOLEAN /\ sealed' \in BOOLEAN
    BY <1>0, <1>10
       DEF TerminalCall, Succeeds, Limited, Refused, NoAnswer, Lost, Accept, Settle, WorkerType
  <2>2. accepted' \in Nat /\ retries' \in 0..RetryBudget /\ result' \in Results \cup {"none"}
        /\ op' \in 0..MaxCalls /\ at' \in Revisions
        /\ pc' \in {"waiting", "concluding", "stopping"}
    BY <1>0, <1>10
       DEF TerminalCall, Cancel, Succeeds, Limited, Refused, NoAnswer, Lost, Accept, Settle,
           Results, WorkerType
  <2>. QED BY <1>0, <1>10, <2>1, <2>2 DEF TerminalCall, WorkerType, schedule, history
<1>11. CASE Reply
  <2>1. held' \in BOOLEAN /\ preview_disabled' \in BOOLEAN /\ skipped' \in BOOLEAN
    BY <1>0, <1>11, Zenon
       DEF Reply, Rotate, KeepWorking, StopWorking, WorkerType, schedule, history
  <2>. QED BY <1>0, <1>11, <2>1
           DEF Reply, Rotate, KeepWorking, StopWorking, WorkerType, schedule, backend, history
<1>12. CASE End \/ Die
  <2>1. UNCHANGED <<mode, faults, history>> /\ held' \in BOOLEAN
        /\ preview_disabled' \in BOOLEAN /\ message_id' \in BOOLEAN /\ sealed' \in BOOLEAN
    BY <1>12, Zenon DEF End, Die, HangUp
  <2>2. skipped' \in BOOLEAN /\ shown' = shown /\ posts' = posts
    BY <1>0, <2>1 DEF history, WorkerType
  <2>3. /\ pc' = "ended" /\ op' = 0 /\ at' = 0 /\ last_delivered' = 0 /\ watch' = "none"
        /\ failures' = 0 /\ retries' = 0 /\ result' = "none" /\ accepted' = 0 /\ waiters' = {}
    BY <1>12 DEF End, Die, HangUp
  <2>. QED BY <1>0, <2>1, <2>2, <2>3 DEF WorkerType
<1>. QED BY <1>1, <1>2, <1>3, <1>4, <1>6, <1>7, <1>8, <1>9, <1>10, <1>11, <1>12
         DEF Next, Worker

-----------------------------------------------------------------------------
(* The steps of the worker, by what they may do to the calls.              *)

\* Neither the worker nor the callers forget a call that was made.
LEMMA CallsAdvance ==
  ASSUME TypeOK, Next, NEW c \in Calls, call[c] # "none"
  PROVE  call'[c] # "none" /\ kind'[c] = kind[c]
<1>0. CallType /\ WorkerType /\ 0 \in Revisions /\ revision \in Revisions
  BY TypeSplits, SourceAssumption DEF CallType, SourceTypeOK, Revisions
<1>1. ASSUME NEW d \in Calls, Flush(d) \/ CommitSegment(d) \/ Conclude(d, "finish")
                              \/ Conclude(d, "abort") \/ Stop(d)
      PROVE call'[c] # "none" /\ kind'[c] = kind[c]
  <2>1. \E k \in Kinds : \E t \in Revisions : Send(d, k, t)
    BY <1>0, <1>1 DEF Flush, CommitSegment, Conclude, Stop, Kinds
  <2>2. call[d] = "none" /\ \A e \in Calls : e # d => call'[e] = call[e] /\ kind'[e] = kind[e]
    BY <1>0, <2>1, SendCalls
  <2>. QED BY <2>2
<1>2. CASE (\E d \in Calls : Leave(d)) \/ DropDrafter
  BY <1>0, <1>2 DEF Leave, DropDrafter, CallType
<1>3. CASE Push \/ Rest \/ Expire \/ Coalesce \/ PreviewDue \/ Wake \/ WaitForPermit \/ TerminalCall
  BY <1>3 DEF Push, Rest, Expire, Coalesce, PreviewDue, Wake, WaitForPermit, TerminalCall, calls
<1>4. CASE NothingDue \/ PreviewSuccess \/ Granted \/ AcquireFails \/ PreviewFails
  <2>1. \/ UNCHANGED calls
        \/ UNCHANGED <<kind, target>> /\ call' = Answered(waiters, "failed")
        \/ \E last, disabled : CompleteFlushes(last, disabled)
    BY <1>4 DEF NothingDue, PreviewSuccess, Granted, NoLongerRunning, NothingToShow,
                SendPreview, AcquireFails, PreviewFails, TryAgain, GiveUp, Transient
  <2>. QED BY <2>1, AnsweredCalls, CompletedCalls DEF Answers, calls
<1>5. CASE Receive \/ Reply \/ End \/ Die
  <2>1. /\ kind' = kind
        /\ call' = call \/ \E S : \E a \in Answers : call' = Answered(S, a)
    BY <1>5 DEF Receive, ReceiveFlush, ReceiveCommit, ReceiveFinish, ReceiveAbort,
                BeginTerminal, Reply, End, Die, HangUp, Answer, Answers
  <2>. QED BY <2>1, AnsweredCalls DEF Answers
<1>. QED BY <1>1, <1>2, <1>3, <1>4, <1>5 DEF Next, Worker, Caller

\* Steps of the callers, the producer and the timers leave the worker alone.
Outside == Push \/ Caller \/ Coalesce \/ Rest \/ Expire

LEMMA OutsideKeeps ==
  ASSUME Outside
  PROVE  /\ UNCHANGED <<task, waiters, terminal, backend, history, last_delivered, failures,
                        preview_disabled, faults>>
         /\ pc' = pc /\ op' = op /\ at' = at /\ result' = result
  BY DEF Outside, Push, Caller, Coalesce, Rest, Expire, Flush, CommitSegment, Conclude, Stop,
         Send, Leave, DropDrafter, task, schedule, terminal

\* Steps of the worker on its previews.
Preview ==
  NothingDue \/ PreviewDue \/ Wake \/ Granted \/ AcquireFails \/ PreviewSuccess \/ PreviewFails

LEMMA NextSplits ==
  Next => Outside \/ Preview \/ Receive \/ WaitForPermit \/ TerminalCall \/ Reply \/ End \/ Die
  BY DEF Next, Worker, Outside, Preview

LEMMA PreviewKeeps ==
  ASSUME TypeOK, Preview
  PROVE  /\ pc \in {"loop", "parked", "acquiring", "updating"}
         /\ pc' \in {"loop", "parked", "acquiring", "updating"}
         /\ UNCHANGED <<op, terminal, generation, kind, queue, api, mode, sealed>>
         /\ gate' = gate /\ waiters' \subseteq waiters
<1>1. /\ pc \in {"loop", "parked", "acquiring", "updating"}
      /\ pc' \in {"loop", "parked", "acquiring", "updating"}
  BY DEF Preview, NothingDue, PreviewDue, Wake, Granted, NoLongerRunning, NothingToShow,
         SendPreview, AcquireFails, PreviewSuccess, PreviewFails
<1>2. UNCHANGED <<op, terminal, generation, kind, queue, api, mode, sealed>>
  BY CompletedCalls
     DEF Preview, NothingDue, PreviewDue, Wake, Granted, NoLongerRunning, NothingToShow,
         SendPreview, AcquireFails, PreviewSuccess, PreviewFails, TryAgain, GiveUp, Transient,
         task, calls, backend, CompleteFlushes
<1>3. gate' = gate
  BY DEF Preview, NothingDue, PreviewDue, Wake, Granted, NoLongerRunning, NothingToShow,
         SendPreview, AcquireFails, PreviewSuccess, PreviewFails, MarkDelivered, source
<1>4. waiters' \subseteq waiters
  BY CompletedCalls
     DEF Preview, NothingDue, PreviewDue, Wake, Granted, NoLongerRunning, NothingToShow,
         SendPreview, AcquireFails, PreviewSuccess, PreviewFails, TryAgain, GiveUp, Transient
<1>. QED BY <1>1, <1>2, <1>3, <1>4

-----------------------------------------------------------------------------
(* The inductive invariant, part by part.                                  *)

LEMMA InitIInv == Init => IInv
<1> SUFFICES ASSUME Init PROVE IInv
  OBVIOUS
<1>1. /\ gate = "Running" /\ revision = 0 /\ pushed = 0 /\ pc = "loop" /\ op = 0 /\ at = 0
      /\ last_delivered = 0 /\ failures = 0 /\ waiters = {} /\ result = "none" /\ faults = 0
      /\ shown = 0 /\ posts = 0 /\ accepted = 0 /\ queue = <<>> /\ sealed = FALSE
      /\ aborting = FALSE /\ preview_disabled = FALSE
  BY Zenon DEF Init, SourceInit
<1>2. CallInv
  BY <1>1 DEF CallInv, Known, Queued, Terminating, Calls
<1>3. RevisionInv /\ OutcomeInv
  BY <1>1 DEF RevisionInv, OutcomeInv
<1>4. SealInv /\ PreviewInv /\ GateInv
  BY <1>1 DEF SealInv, PreviewInv, OnePreviewMessage, GateInv, EndedMeansRefused, Ended,
              Terminating
<1>. QED BY <1>2, <1>3, <1>4, InitType DEF IInv

LEMMA CallStep ==
  ASSUME TypeOK, CallInv, Next
  PROVE  CallInv'
<1>0. CallType /\ WorkerType /\ 0 \in Revisions /\ revision \in Revisions
  BY TypeSplits, SourceAssumption DEF CallType, SourceTypeOK, Revisions
<1>1. ASSUME NEW c \in Calls, Known(c) PROVE call'[c] # "none" /\ kind'[c] = kind[c]
  BY <1>1, CallsAdvance DEF CallInv
<1>2. \A c \in waiters : c \in Calls /\ Known(c)
  BY DEF Known, TypeOK
<1>3. op # 0 => op \in Calls /\ Known(op)
  BY DrafterAssumption DEF Known, TypeOK, Calls
<1>4. ASSUME UNCHANGED <<pc, op>>, waiters' \subseteq waiters,
             \A c \in Calls : Queued(c)' => Queued(c) \/ call'[c] # "none"
      PROVE  CallInv'
  <2>1. \A c \in Calls : Known(c)' => call'[c] # "none"
    BY <1>1, <1>4 DEF Known
  <2>2. \A c \in waiters' : kind'[c] = "flush"
    BY <1>1, <1>2, <1>4 DEF CallInv
  <2>. QED BY <1>1, <1>3, <1>4, <2>1, <2>2 DEF CallInv, Terminating
<1>5. CASE Outside
  <2>1. UNCHANGED <<pc, op>> /\ waiters' = waiters
    BY <1>5, OutsideKeeps
  <2>2. CASE \E d \in Calls : \/ Flush(d) \/ CommitSegment(d) \/ Conclude(d, "finish")
                              \/ Conclude(d, "abort") \/ Stop(d)
    <3>1. \E d \in Calls : \E k \in Kinds : \E t \in Revisions : Send(d, k, t)
      BY <1>0, <2>2 DEF Flush, CommitSegment, Conclude, Stop, Kinds
    <3>2. \A c \in Calls : Queued(c)' => Queued(c) \/ call'[c] # "none"
      BY <1>0, <3>1, SendCalls
    <3>. QED BY <1>4, <2>1, <3>2
  <2>3. CASE Push \/ Coalesce \/ Rest \/ Expire \/ DropDrafter \/ \E d \in Calls : Leave(d)
    <3>1. queue' = queue
      BY <2>3 DEF Push, Coalesce, Rest, Expire, DropDrafter, Leave
    <3>. QED BY <1>4, <2>1, <3>1 DEF Queued
  <2>. QED BY <1>5, <2>2, <2>3 DEF Outside, Caller
<1>6. CASE Preview
  <2>1. /\ op' = op /\ queue' = queue /\ waiters' \subseteq waiters
        /\ pc \notin {"waiting", "calling", "concluding"}
        /\ pc' \notin {"waiting", "calling", "concluding"}
    BY <1>6, PreviewKeeps
  <2>2. \A c \in Calls : Known(c)' => Known(c)
    BY <2>1 DEF Known, Queued
  <2>. QED BY <1>1, <1>2, <2>1, <2>2 DEF CallInv, Terminating
<1>7. CASE Receive
  <2>. DEFINE h == Head(queue)
  <2>1. /\ h \in Calls /\ Queued(h) /\ \A c : Queued(c)' => Queued(c)
        /\ pc \in {"parked", "acquiring"} /\ kind' = kind
    BY <1>0, <1>7, TailQueue DEF Receive, CallType
  <2>2. \/ op' = op /\ pc' = "loop" /\ waiters' \subseteq waiters
        \/ op' = op /\ pc' = "loop" /\ kind[h] = "flush" /\ waiters' = waiters \cup {h}
        \/ op' = h /\ waiters' = {} /\ kind[h] \in {"commit", "finish"} /\ pc' = "waiting"
        \/ op' = h /\ waiters' = {} /\ kind[h] \in {"abort", "stop"} /\ pc' = "concluding"
    BY <1>7 DEF Receive, ReceiveFlush, ReceiveCommit, ReceiveFinish, ReceiveAbort, BeginTerminal
  <2>3. h # 0
    BY <2>1, DrafterAssumption DEF Calls
  <2>. HIDE DEF h
  <2>4. \A c \in Calls : Known(c)' => Known(c)
    BY <2>1, <2>2 DEF Known
  <2>5. \A c \in waiters' : kind'[c] = "flush"
    BY <2>1, <2>2 DEF CallInv
  <2>. QED BY <1>1, <2>1, <2>2, <2>3, <2>4, <2>5 DEF CallInv, Terminating
<1>8. CASE WaitForPermit \/ TerminalCall \/ Reply
  <2>1. /\ UNCHANGED <<queue, kind, waiters>>
        /\ \/ op' = op /\ pc' \in {"waiting", "calling", "concluding"}
              /\ pc \in {"waiting", "calling"}
           \/ op' = 0 /\ pc' \notin {"waiting", "calling", "concluding"}
    BY <1>8 DEF WaitForPermit, TerminalCall, Reply, Cancel, Settle, Succeeds, Limited, Refused,
                NoAnswer, Rotate, KeepWorking, StopWorking, calls
  <2>2. \A c \in Calls : Known(c)' => Known(c)
    BY <2>1, DrafterAssumption DEF Known, Queued, Calls
  <2>. QED BY <1>1, <1>2, <2>1, <2>2 DEF CallInv, Terminating
<1>9. CASE End \/ Die
  BY <1>9, DrafterAssumption DEF End, Die, HangUp, CallInv, Terminating, Known, Queued, Calls
<1>. QED BY <1>5, <1>6, <1>7, <1>8, <1>9, NextSplits

LEMMA RevisionStep ==
  ASSUME TypeOK, CallInv, RevisionInv, Next
  PROVE  RevisionInv'
<1>0. /\ SourceTypeOK /\ CallType /\ WorkerType /\ SourceTypeOK' /\ revision' <= pushed'
      /\ Revisions \subseteq Nat /\ Revisions \subseteq Int
  BY NextSource, SourceTypes, TypeSplits, SourceAssumption
     DEF RevisionInv, CallType, Revisions
<1>1. CASE Outside
  <2>1. UNCHANGED <<pc, at, last_delivered, shown, failures, faults>>
    BY <1>1, OutsideKeeps DEF history
  <2>2. revision <= revision'
    BY <1>0, <1>1 DEF Outside, Push, Caller, Coalesce, Rest, Expire, Flush, CommitSegment,
                      Conclude, Stop, Leave, DropDrafter, Apply, Ripen, BeginTransition, Close,
                      source, SourceTypeOK
  <2>. QED BY <1>0, <2>1, <2>2 DEF RevisionInv, Terminating, WorkerType, SourceTypeOK
<1>2. CASE NothingDue \/ PreviewDue \/ Wake \/ AcquireFails
  BY <1>0, <1>2
     DEF NothingDue, PreviewDue, Wake, AcquireFails, RevisionInv, Terminating, WorkerType,
         SourceTypeOK, source, schedule, history
<1>3. CASE Granted
  BY <1>0, <1>3
     DEF Granted, NoLongerRunning, NothingToShow, SendPreview, MarkDelivered, RevisionInv,
         Terminating, WorkerType, SourceTypeOK, source, schedule, history
<1>4. ASSUME Arrived
      PROVE  shown' \in Nat /\ shown' >= shown /\ shown' >= at
  BY <1>0, <1>4, MaxOfTwo DEF Arrived, WorkerType
<1>5. CASE PreviewSuccess
  <2>1. last_delivered' \in {last_delivered, at}
    BY <1>0, <1>5, MaxOfTwo DEF PreviewSuccess, Delivered, WorkerType
  <2>. QED BY <1>0, <1>4, <1>5, <2>1
           DEF PreviewSuccess, MarkDelivered, RevisionInv, Terminating, WorkerType, SourceTypeOK
<1>6. CASE PreviewFails
  <2>1. last_delivered' = last_delivered
    BY <1>6 DEF PreviewFails, TryAgain, GiveUp, Transient
  <2>2. shown' \in Nat /\ shown' >= shown
    BY <1>0, <1>4, <1>6 DEF PreviewFails, history, WorkerType
  <2>. QED BY <1>0, <1>6, <2>1, <2>2
           DEF PreviewFails, RevisionInv, Terminating, WorkerType, SourceTypeOK, source
<1>7. CASE Receive
  <2>1. at' = 0 /\ revision' = revision
        /\ UNCHANGED <<last_delivered, shown, failures, faults>>
    BY <1>7 DEF Receive, ReceiveFlush, ReceiveCommit, ReceiveFinish, ReceiveAbort,
                BeginTransition, Close, source, schedule, history
  <2>. QED BY <1>0, <2>1 DEF RevisionInv, WorkerType, SourceTypeOK
<1>8. CASE WaitForPermit \/ TerminalCall
  <2>1. pc \in {"waiting", "calling"}
        /\ UNCHANGED <<at, revision, last_delivered, shown, failures, faults>>
    BY <1>8 DEF WaitForPermit, TerminalCall, Cancel, Settle, Succeeds, Limited, Refused,
                NoAnswer, source, schedule, history
  <2>. QED BY <1>0, <2>1 DEF RevisionInv, Terminating, WorkerType, SourceTypeOK
<1>9. CASE Reply
  BY <1>0, <1>9
     DEF Reply, Rotate, KeepWorking, StopWorking, ReopenSegment, Close, RevisionInv,
         Terminating, WorkerType, SourceTypeOK, source, schedule, history
<1>10. CASE End \/ Die
  BY <1>0, <1>10
     DEF End, Die, HangUp, RevisionInv, Terminating, WorkerType, SourceTypeOK, source, history
<1>. QED BY <1>1, <1>2, <1>3, <1>5, <1>6, <1>7, <1>8, <1>9, <1>10 DEF Next, Worker, Outside

\* The kind of the terminal call at work does not change under the worker.
LEMMA TerminalKind ==
  ASSUME TypeOK, CallInv, Next, Terminating
  PROVE  op \in Calls /\ kind'[op] = kind[op]
<1>1. op \in Calls /\ call[op] # "none"
  BY DrafterAssumption DEF CallInv, TypeOK, Known, Calls
<1>. QED BY <1>1, CallsAdvance

LEMMA OutcomeStep ==
  ASSUME TypeOK, CallInv, OutcomeInv, Next
  PROVE  OutcomeInv'
<1>1. CASE Outside
  <2>1. UNCHANGED <<pc, op, result, accepted>>
    BY <1>1, OutsideKeeps DEF terminal
  <2>. QED BY <2>1, TerminalKind DEF OutcomeInv, Terminating
<1>2. CASE Preview
  <2>1. UNCHANGED <<result, accepted>> /\ pc \in {"loop", "parked", "acquiring", "updating"}
        /\ pc' \in {"loop", "parked", "acquiring", "updating"}
    BY <1>2, PreviewKeeps DEF terminal
  <2>. QED BY <2>1 DEF OutcomeInv
<1>3. CASE Receive
  BY <1>3 DEF Receive, ReceiveFlush, ReceiveCommit, ReceiveFinish, ReceiveAbort, BeginTerminal,
              OutcomeInv, terminal
<1>4. CASE WaitForPermit
  BY <1>4 DEF WaitForPermit, Cancel, Settle, Standing, OutcomeInv, CallInv, calls
<1>5. CASE TerminalCall
  <2>1. accepted = 0 /\ kind' = kind /\ kind[op] \in {"commit", "finish"} /\ result = "none"
    BY <1>5 DEF TerminalCall, OutcomeInv, CallInv, calls
  <2>. QED BY <1>5, <2>1
           DEF TerminalCall, Cancel, Succeeds, Limited, Refused, NoAnswer, Lost, Accept, Settle,
               OutcomeInv
<1>6. CASE Reply
  BY <1>6 DEF Reply, Rotate, KeepWorking, StopWorking, OutcomeInv
<1>7. CASE End \/ Die
  BY <1>7 DEF End, Die, HangUp, OutcomeInv
<1>. QED BY <1>1, <1>2, <1>3, <1>4, <1>5, <1>6, <1>7, NextSplits

LEMMA SealStep ==
  ASSUME TypeOK, CallInv, OutcomeInv, SealInv, Next
  PROVE  SealInv'
<1>1. CASE Outside
  <2>1. UNCHANGED <<pc, op, result, sealed>>
    BY <1>1, OutsideKeeps DEF terminal, backend
  <2>. QED BY <2>1, TerminalKind DEF SealInv, Terminating
<1>2. CASE Preview
  <2>1. sealed' = sealed /\ pc \in {"loop", "parked", "acquiring", "updating"}
    BY <1>2, PreviewKeeps
  <2>. QED BY <2>1 DEF SealInv
<1>3. CASE Receive \/ WaitForPermit
  BY <1>3 DEF Receive, WaitForPermit, SealInv, backend
<1>4. CASE TerminalCall
  <2>1. ~sealed /\ kind' = kind /\ kind[op] \in {"commit", "finish"}
    BY <1>4 DEF TerminalCall, SealInv, CallInv, calls
  <2>2. CASE Succeeds
    BY <2>1, <2>2 DEF Succeeds, Settle, SealInv
  <2>3. CASE CallerGone /\ Cancel
    BY <2>3 DEF Cancel, SealInv
  <2>4. CASE Limited \/ Refused
    BY <2>1, <2>4 DEF Limited, Refused, SealInv
  <2>5. CASE NoAnswer
    BY <2>5 DEF NoAnswer, Settle, SealInv
  <2>. QED BY <1>4, <2>2, <2>3, <2>4, <2>5 DEF TerminalCall
<1>5. CASE Reply
  BY <1>5 DEF Reply, Rotate, KeepWorking, StopWorking, SealInv, backend
<1>6. CASE End \/ Die
  BY <1>6 DEF End, Die, HangUp, SealInv
<1>. QED BY <1>1, <1>2, <1>3, <1>4, <1>5, <1>6, NextSplits

LEMMA GateStep ==
  ASSUME TypeOK, CallInv, GateInv, Next
  PROVE  GateInv'
<1>1. CASE Outside
  <2>1. UNCHANGED <<pc, op>>
    BY <1>1, OutsideKeeps
  <2>2. IsRunning' => IsRunning
    BY <1>1 DEF Outside, Push, Caller, Coalesce, Rest, Expire, Flush, CommitSegment, Conclude,
                Stop, Leave, DropDrafter, Apply, Ripen, BeginTransition, Close, IsRunning, source
  <2>3. CASE DropDrafter
    <3>1. owner # "dropped" /\ owner' = "dropped" /\ ~generation' /\ ~IsRunning'
      BY <2>3 DEF DropDrafter, Close, IsRunning
    <3>. QED BY <2>1, <3>1 DEF GateInv, EndedMeansRefused, Terminating
  <2>4. CASE ~DropDrafter
    <3>1. UNCHANGED <<aborting, generation>> /\ (owner = "dropped" => owner' = "dropped")
      BY <1>1, <2>4 DEF Outside, Push, Caller, Coalesce, Rest, Expire, Flush, CommitSegment,
                        Conclude, Stop, Send, Leave, api
    <3>. QED BY <2>1, <2>2, <3>1 DEF GateInv, EndedMeansRefused, Terminating, Ended
  <2>. QED BY <2>3, <2>4
<1>2. CASE Preview
  <2>1. /\ UNCHANGED <<gate, api>> /\ pc' \in {"loop", "parked", "acquiring", "updating"}
    BY <1>2, PreviewKeeps
  <2>. QED BY <2>1 DEF GateInv, EndedMeansRefused, Terminating, Ended, api
<1>3. CASE Receive
  BY <1>3 DEF Receive, ReceiveFlush, ReceiveCommit, ReceiveFinish, ReceiveAbort, BeginTerminal,
              BeginTransition, Close, GateInv, EndedMeansRefused, Terminating, Ended, api,
              IsRunning
<1>4. CASE WaitForPermit \/ TerminalCall
  <2>1. UNCHANGED <<gate, api>> /\ pc \in {"waiting", "calling"} /\ pc' # "ended"
    BY <1>4 DEF WaitForPermit, TerminalCall, Cancel, Settle, Succeeds, Limited, Refused,
                NoAnswer, source
  <2>. QED BY <2>1 DEF GateInv, EndedMeansRefused, Terminating, Ended, IsRunning, api
<1>5. CASE Reply
  BY <1>5 DEF Reply, Rotate, KeepWorking, StopWorking, Close, GateInv, EndedMeansRefused,
              Terminating, Ended, IsRunning, api, source
<1>6. CASE End \/ Die
  BY <1>6 DEF End, Die, HangUp, GateInv, EndedMeansRefused, Terminating, Ended, IsRunning, api,
              source
<1>. QED BY <1>1, <1>2, <1>3, <1>4, <1>5, <1>6, NextSplits

LEMMA PreviewStep ==
  ASSUME TypeOK, CallInv, PreviewInv, Next
  PROVE  PreviewInv'
<1>0. WorkerType /\ Revisions \subseteq Nat
  BY TypeSplits, SourceAssumption DEF Revisions
<1>1. CASE Outside
  <2>1. UNCHANGED <<pc, op, result, mode, message_id, last_delivered, preview_disabled, posts,
                    skipped>>
    BY <1>1, OutsideKeeps DEF terminal, backend, history
  <2>2. Committed' => Committed
    BY <2>1, TerminalKind DEF Committed, Terminating
  <2>3. Committed => Committed'
    BY <2>1, TerminalKind DEF Committed, Terminating
  <2>. QED BY <2>1, <2>2, <2>3 DEF PreviewInv, OnePreviewMessage, Ended
<1>2. CASE NothingDue \/ PreviewDue \/ Wake \/ AcquireFails
  BY <1>2 DEF NothingDue, PreviewDue, Wake, AcquireFails, PreviewInv, OnePreviewMessage,
              Committed, Ended, schedule, backend, history
<1>3. CASE Granted
  <2>1. CASE NoLongerRunning \/ SendPreview
    BY <1>3, <2>1 DEF Granted, NoLongerRunning, SendPreview, PreviewInv, OnePreviewMessage,
                      Committed, Ended, schedule, backend, history
  <2>2. CASE NothingToShow
    BY <1>3, <2>2 DEF Granted, NothingToShow, PreviewInv, OnePreviewMessage
  <2>. QED BY <1>3, <2>1, <2>2 DEF Granted
\* No first message has arrived when one is about to be sent.
<1>4. ASSUME pc = "updating", Arrived
      PROVE  posts' <= 1 \/ skipped'
  <2>1. CASE mode = "edit" /\ ~message_id
    <3>1. posts = 0 \/ skipped
      BY <1>0, <1>4, <2>1 DEF PreviewInv, Committed, Ended, WorkerType
    <3>. QED BY <1>0, <1>4, <2>1, <3>1 DEF Arrived, WorkerType
  <2>2. CASE ~(mode = "edit" /\ ~message_id)
    BY <1>4, <2>2 DEF Arrived, PreviewInv, OnePreviewMessage
  <2>. QED BY <2>1, <2>2
<1>5. CASE PreviewSuccess
  <2>1. posts' <= 1 \/ skipped'
    BY <1>4, <1>5 DEF PreviewSuccess
  <2>2. pc' = "loop" /\ (mode' = "edit" => message_id')
    BY <1>5 DEF PreviewSuccess
  <2>. QED BY <2>1, <2>2 DEF PreviewInv, OnePreviewMessage
<1>6. CASE PreviewFails
  <2>1. pc = "updating" /\ pc' = "loop" /\ UNCHANGED <<mode, message_id, last_delivered>>
    BY <1>6 DEF PreviewFails, TryAgain, GiveUp, Transient, backend
  <2>2. CASE UNCHANGED history
    <3>1. preview_disabled => preview_disabled'
      BY <1>6 DEF PreviewFails, TryAgain, GiveUp, Transient
    <3>. QED BY <2>1, <2>2, <3>1
             DEF PreviewInv, OnePreviewMessage, Committed, Ended, history
  <2>3. CASE Arrived /\ (Transient(TimeoutRetrySafe) \/ Transient(NetworkRetrySafe))
    <3>1. posts' <= 1 \/ skipped'
      BY <1>4, <2>1, <2>3
    <3>2. skipped' = skipped
      BY <2>3 DEF Arrived
    <3>3. preview_disabled' \/ TimeoutRetrySafe \/ NetworkRetrySafe
      BY <2>3 DEF Transient, GiveUp
    <3>4. mode = "edit" /\ ~skipped => preview_disabled' \/ message_id
      BY <2>1, <3>3 DEF TimeoutRetrySafe, NetworkRetrySafe, PreviewInv, Committed
    <3>. QED BY <2>1, <3>1, <3>2, <3>4
             DEF PreviewInv, OnePreviewMessage, Committed
  <2>. QED BY <1>6, <2>2, <2>3 DEF PreviewFails
<1>7. CASE Receive
  <2>1. pc \in {"parked", "acquiring"} /\ pc' \in {"loop", "waiting", "concluding"}
        /\ UNCHANGED <<mode, message_id, last_delivered, preview_disabled, posts, skipped>>
    BY <1>7 DEF Receive, ReceiveFlush, ReceiveCommit, ReceiveFinish, ReceiveAbort,
                BeginTerminal, schedule, backend, history
  <2>. QED BY <2>1 DEF PreviewInv, OnePreviewMessage, Committed, Ended
<1>8. CASE WaitForPermit
  BY <1>8 DEF WaitForPermit, Cancel, Settle, PreviewInv, OnePreviewMessage, Committed, Ended,
              schedule, backend, history
<1>9. CASE TerminalCall
  <2>1. /\ pc = "calling" /\ pc' \in {"waiting", "concluding", "stopping"}
        /\ UNCHANGED <<kind, mode, last_delivered, preview_disabled, posts, skipped>>
    BY <1>9 DEF TerminalCall, Cancel, Settle, Succeeds, Limited, Refused, NoAnswer, schedule,
                calls, history
  <2>2. message_id => message_id' \/ Committed'
    BY <1>9, <2>1 DEF TerminalCall, Settle, Succeeds, Limited, Refused, NoAnswer, Committed
  <2>. QED BY <2>1, <2>2 DEF PreviewInv, OnePreviewMessage, Committed, Ended
<1>10. CASE Reply
  <2>1. CASE Rotate
    BY <1>10, <2>1 DEF Reply, Rotate, PreviewInv, OnePreviewMessage
  <2>2. CASE KeepWorking \/ StopWorking
    BY <1>10, <2>2 DEF Reply, KeepWorking, StopWorking, PreviewInv, OnePreviewMessage,
                       Committed, Ended, schedule, backend, history
  <2>. QED BY <1>10, <2>1, <2>2 DEF Reply
<1>11. CASE End \/ Die
  BY <1>11 DEF End, Die, HangUp, PreviewInv, OnePreviewMessage, Ended, history
<1>. QED BY <1>1, <1>2, <1>3, <1>5, <1>6, <1>7, <1>8, <1>9, <1>10, <1>11
         DEF Next, Worker, Outside

LEMMA IInvStep == IInv /\ [Next]_vars => IInv'
<1>1. ASSUME IInv, Next PROVE IInv'
  <2>1. TypeOK'
    BY <1>1, CallTypes, WorkerTypes, TypeSplits DEF IInv, RevisionInv
  <2>. QED BY <1>1, <2>1, CallStep, RevisionStep, OutcomeStep, SealStep, PreviewStep, GateStep
           DEF IInv
<1>2. ASSUME IInv, UNCHANGED vars PROVE IInv'
  BY <1>2
     DEF vars, source, task, schedule, terminal, backend, calls, api, history, IInv, TypeOK,
         SourceTypeOK, CallInv, Known, Queued, Terminating, RevisionInv, OutcomeInv, SealInv,
         PreviewInv, OnePreviewMessage, Committed, Ended, GateInv, EndedMeansRefused, IsRunning
<1>. QED BY <1>1, <1>2

LEMMA Invariance == Spec => []IInv
  BY InitIInv, IInvStep, PTL DEF Spec

-----------------------------------------------------------------------------
(* The theorems.                                                           *)

\* Every variable keeps its type, whatever the bounds are.
THEOREM TypeCorrect == Spec => []TypeOK
<1>1. IInv => TypeOK
  BY DEF IInv
<1>. QED BY <1>1, Invariance, PTL

\* The worker never edits and never deletes a message that holds a permanent
\* text (machine.rs, execute_terminal and abort_after_terminal_failure).
THEOREM FinalsAreNeverTouched == Spec => []FinalsAreKept
<1>1. IInv => FinalsAreKept
  BY DEF IInv, SealInv, OutcomeInv, CallInv, FinalsAreKept, Withdraws
<1>. QED BY <1>1, Invariance, PTL

\* However often a terminal call is retried, the API takes its message once.
THEOREM NothingIsPostedTwice == Spec => []PostedOnce
<1>1. IInv => PostedOnce
  BY DEF IInv, OutcomeInv, PostedOnce
<1>. QED BY <1>1, Invariance, PTL

\* A segment has one preview message, whatever requests time out.
THEOREM PreviewsStayOneMessage == Spec => []OnePreviewMessage
<1>1. IInv => OnePreviewMessage
  BY DEF IInv, PreviewInv
<1>. QED BY <1>1, Invariance, PTL

\* A worker that has ended by itself leaves a source that refuses updates.
THEOREM NobodyFeedsTheDead == Spec => []EndedMeansRefused
<1>1. IInv => EndedMeansRefused
  BY DEF IInv, GateInv
<1>. QED BY <1>1, Invariance, PTL

\* A flush that succeeds has its revision in the chat.
THEOREM FlushesAreDelivered == Spec => FlushIsTruthful
<1>1. ASSUME IInv, [Next]_vars, NEW c \in Calls,
             kind[c] = "flush", call[c] = "waiting", call'[c] = "ok"
      PROVE  shown' >= target[c]
  <2>0. /\ CallType /\ WorkerType /\ Revisions \subseteq Nat /\ call \in [Calls -> CallStates]
        /\ last_delivered <= shown /\ at <= revision /\ TypeOK /\ target[c] \in Nat
        /\ SourceTypeOK
    BY <1>1, TypeSplits, SourceAssumption DEF IInv, RevisionInv, Revisions, CallType
  <2>1. Next
    BY <1>1 DEF vars, calls
  <2>2. ASSUME Outside PROVE FALSE
    <3>1. CASE \E d \in Calls : \/ Flush(d) \/ CommitSegment(d) \/ Conclude(d, "finish")
                                \/ Conclude(d, "abort") \/ Stop(d)
      <4>1. \E d \in Calls : \E k \in Kinds : \E t \in Revisions : Send(d, k, t)
        BY <2>0, <3>1, SourceAssumption
           DEF Flush, CommitSegment, Conclude, Stop, Kinds, Revisions, SourceTypeOK
      <4>. QED BY <1>1, <2>0, <4>1, SendCalls
    <3>2. CASE Push \/ Coalesce \/ Rest \/ Expire \/ DropDrafter \/ \E d \in Calls : Leave(d)
      BY <1>1, <2>0, <3>2 DEF Push, Coalesce, Rest, Expire, DropDrafter, Leave, calls
    <3>. QED BY <2>2, <3>1, <3>2 DEF Outside, Caller
  <2>3. CASE NothingDue
    <3>1. target[c] <= last_delivered /\ shown' = shown
      BY <1>1, <2>0, <2>3, CompletedCalls DEF NothingDue, calls, history
    <3>. QED BY <2>0, <3>1 DEF WorkerType
  <2>4. CASE Granted
    <3>1. NothingToShow
      BY <1>1, <2>4 DEF Granted, NoLongerRunning, SendPreview, calls
    <3>2. target[c] <= at /\ shown' = revision
      BY <1>1, <2>0, <3>1, CompletedCalls DEF NothingToShow
    <3>. QED BY <2>0, <3>2 DEF WorkerType, SourceTypeOK
  <2>5. ASSUME Arrived
        PROVE  shown' \in Nat /\ shown' >= shown /\ shown' >= at
    BY <2>0, <2>5, MaxOfTwo DEF Arrived, WorkerType
  <2>6. CASE PreviewSuccess
    <3>1. Delivered(at) \in {last_delivered, at}
      BY <2>0, MaxOfTwo DEF Delivered, WorkerType
    <3>2. target[c] <= Delivered(at)
      BY <1>1, <2>0, <2>6, CompletedCalls DEF PreviewSuccess
    <3>. QED BY <2>0, <2>5, <2>6, <3>1, <3>2 DEF PreviewSuccess, WorkerType
  <2>7. CASE PreviewFails
    <3>1. CompleteFlushes(last_delivered, TRUE)
      BY <1>1, <2>7 DEF PreviewFails, TryAgain, GiveUp, Transient, calls
    <3>2. target[c] <= last_delivered
      BY <1>1, <2>0, <3>1, CompletedCalls
    <3>3. shown' \in Nat /\ shown' >= shown
      BY <2>0, <2>5, <2>7 DEF PreviewFails, history, WorkerType
    <3>. QED BY <2>0, <3>2, <3>3 DEF WorkerType
  <2>8. CASE Receive
    <3>1. PICK d : target[d] <= last_delivered /\ call' = Answered({d}, "ok")
      BY <1>1, <2>0, <2>8, AnsweredCalls
         DEF Receive, ReceiveFlush, ReceiveCommit, ReceiveFinish, ReceiveAbort, BeginTerminal,
             Reached, Answers
    <3>2. c = d
      BY <1>1, <2>0, <3>1, AnsweredCalls DEF Answers
    <3>3. target[c] <= last_delivered /\ shown' = shown
      BY <2>8, <3>1, <3>2 DEF Receive, history
    <3>. QED BY <2>0, <3>3 DEF WorkerType
  <2>9. ASSUME Reply PROVE FALSE
    <3>1. call' = Answered({op}, Answer(result)) /\ Answer(result) \in Answers /\ kind[op] # "flush"
      BY <1>1, <2>9 DEF Reply, Answer, Answers, IInv, CallInv
    <3>. QED BY <1>1, <2>0, <3>1, AnsweredCalls
  <2>10. ASSUME AcquireFails \/ End \/ Die PROVE FALSE
    <3>1. \E S : call' = Answered(S, "failed")
      BY <2>10 DEF AcquireFails, End, Die, HangUp
    <3>. QED BY <1>1, <2>0, <3>1, AnsweredCalls DEF Answers
  <2>11. ASSUME PreviewDue \/ Wake \/ WaitForPermit \/ TerminalCall PROVE FALSE
    BY <1>1, <2>11 DEF PreviewDue, Wake, WaitForPermit, TerminalCall, calls
  <2>. QED BY <2>1, <2>2, <2>3, <2>4, <2>6, <2>7, <2>8, <2>9, <2>10, <2>11
           DEF Next, Worker, Outside
<1>2. IInv /\ [Next]_vars =>
        [\A c \in Calls : kind[c] = "flush" /\ call[c] = "waiting" /\ call'[c] = "ok"
           => shown' >= target[c]]_vars
  BY <1>1
<1>. QED BY <1>2, Invariance, PTL DEF Spec, FlushIsTruthful

\* A commit or a finish that succeeds has posted its message, and one that is
\* refused with certainty has not.
THEOREM AnswersAreTrue == Spec => AnswersAreTruthful
<1>1. ASSUME IInv, [Next]_vars, NEW c \in Calls,
             call[c] = "waiting", kind[c] \in {"commit", "finish"}, call'[c] \in {"ok", "denied"}
      PROVE  IF call'[c] = "ok" THEN accepted = 1 ELSE accepted = 0
  <2>0. /\ CallType /\ WorkerType /\ call \in [Calls -> CallStates] /\ TypeOK
        /\ revision \in Revisions /\ 0 \in Revisions /\ c \notin waiters
    BY <1>1, TypeSplits, SourceAssumption DEF IInv, CallInv, CallType, SourceTypeOK, Revisions
  <2>1. Next
    BY <1>1 DEF vars, calls
  <2>2. CASE \E d \in Calls : \/ Flush(d) \/ CommitSegment(d) \/ Conclude(d, "finish")
                              \/ Conclude(d, "abort") \/ Stop(d)
    <3>1. \E d \in Calls : \E k \in Kinds : \E t \in Revisions : Send(d, k, t)
      BY <2>0, <2>2 DEF Flush, CommitSegment, Conclude, Stop, Kinds
    <3>. QED BY <1>1, <2>0, <3>1, SendCalls
  <2>3. CASE DropDrafter \/ \E d \in Calls : Leave(d)
    BY <1>1, <2>0, <2>3 DEF DropDrafter, Leave
  <2>4. CASE Push \/ Coalesce \/ Rest \/ Expire \/ PreviewDue \/ Wake \/ WaitForPermit \/ TerminalCall
    BY <1>1, <2>4 DEF Push, Coalesce, Rest, Expire, PreviewDue, Wake, WaitForPermit,
                      TerminalCall, calls
  <2>5. CASE NothingDue \/ PreviewSuccess \/ Granted \/ AcquireFails \/ PreviewFails
    <3>1. \/ UNCHANGED calls
          \/ call' = Answered(waiters, "failed")
          \/ \E last, disabled : CompleteFlushes(last, disabled)
      BY <2>5 DEF NothingDue, PreviewSuccess, Granted, NoLongerRunning, NothingToShow,
                  SendPreview, AcquireFails, PreviewFails, TryAgain, GiveUp, Transient
    <3>. QED BY <1>1, <2>0, <3>1, AnsweredCalls, CompletedCalls DEF Answers, calls
  <2>6. CASE Receive
    <3>1. \/ call' = call
          \/ \E S : call' = Answered(S, "failed")
          \/ kind[Head(queue)] = "flush" /\ call' = Answered({Head(queue)}, "ok")
      BY <2>6 DEF Receive, ReceiveFlush, ReceiveCommit, ReceiveFinish, ReceiveAbort,
                  BeginTerminal
    <3>. QED BY <1>1, <2>0, <3>1, AnsweredCalls DEF Answers
  <2>7. CASE Reply
    <3>1. pc = "concluding" /\ call' = Answered({op}, Answer(result)) /\ Answer(result) \in Answers
      BY <2>7 DEF Reply, Answer, Answers
    <3>2. c = op /\ call'[c] = Answer(result)
      BY <1>1, <2>0, <3>1, AnsweredCalls
    <3>. QED BY <1>1, <3>1, <3>2 DEF IInv, OutcomeInv, Answer, WorkerType, TypeOK, Results
  <2>8. CASE End \/ Die
    <3>1. call' = Answered(Calls, "failed")
      BY <2>8 DEF End, Die, HangUp
    <3>. QED BY <1>1, <2>0, <3>1, AnsweredCalls DEF Answers
  <2>. QED BY <2>1, <2>2, <2>3, <2>4, <2>5, <2>6, <2>7, <2>8 DEF Next, Worker, Caller
<1>2. IInv /\ [Next]_vars =>
        [\A c \in Calls : call[c] = "waiting" /\ kind[c] \in {"commit", "finish"} =>
           /\ call'[c] = "ok" => accepted = 1
           /\ call'[c] = "denied" => accepted = 0]_vars
  BY <1>1
<1>. QED BY <1>2, Invariance, PTL DEF Spec, AnswersAreTruthful

=============================================================================
