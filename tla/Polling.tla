------------------------------ MODULE Polling ------------------------------
(***************************************************************************)
(* The long polling update listener (update_listeners/polling.rs, stop.rs) *)
(* and the update queue of the Bot API server it polls.  A stream does     *)
(* nothing unless it is polled: PollStream is one call of poll_next, which *)
(* the consumer makes.  Updates are numbered in the order of their ids.    *)
(*                                                                         *)
(* Left out: the allowed_updates hint, the delay of a retry (the sleep     *)
(* takes any time), and the payload of an error.                           *)
(***************************************************************************)
EXTENDS Integers, Sequences

CONSTANTS
  MaxUpdates,  \* bound on the updates the server receives
  Limit,       \* polling.limit: updates per answer
  DropChoices, \* the values of drop_pending_updates to consider
  MaxFaults    \* bound on the requests that fail

ASSUME PollingAssumption ==
  /\ MaxUpdates \in Nat /\ Limit \in Nat \ {0} /\ MaxFaults \in Nat
  /\ DropChoices \subseteq BOOLEAN

VARIABLES
  sent,         \* server: updates received from users so far
  confirmed,    \* server: the latest update it has forgotten
  faults,       \* requests that have failed so far
  dropPending,  \* PollingStream::drop_pending_updates
  offset,       \* PollingStream::offset
  force_stop,
  stopping,
  buffer,       \* the updates of the last answer that are yet to be yielded
  in_flight,    \* where the current get_updates call is
  request,      \* its offset and limit
  answer,       \* the updates it was answered with
  flag,         \* whether the stop token has been stopped
  eepy,         \* the sleep after an error
  woken,        \* whether the task that polls the stream has been woken
  discarded     \* history: updates thrown away by drop_pending_updates

forgotten == <<confirmed, discarded>>
requests == <<in_flight, request, answer>>
stream == <<dropPending, offset, force_stop, stopping, buffer, in_flight, request,
            answer, eepy>>
polling == <<sent, confirmed, faults, dropPending, offset, force_stop, stopping, buffer,
             in_flight, request, answer, flag, eepy, woken, discarded>>

Updates == 1..MaxUpdates
NoRequest == [offset |-> 0, limit |-> Limit]

\* What a poll returns: nothing yet, the end, an error or an update.
Pending == 0
None == -1
Error == -2

PollingTypeOK ==
  /\ sent \in 0..MaxUpdates /\ confirmed \in 0..sent /\ faults \in 0..MaxFaults
  /\ dropPending \in BOOLEAN /\ force_stop \in BOOLEAN /\ stopping \in BOOLEAN
  /\ flag \in BOOLEAN /\ woken \in BOOLEAN
  /\ offset \in 0..(MaxUpdates + 1)
  /\ buffer \in Seq(Updates) /\ answer \in Seq(Updates)
  /\ in_flight \in {"none", "created", "sent", "answered", "failed"}
  /\ request \in [offset : -1..(MaxUpdates + 1), limit : {1, Limit}]
  /\ eepy \in {"none", "sleeping", "elapsed"}
  /\ discarded \in 0..sent

\* as_stream: the state of a stream, and a fresh flag.
FreshStream(drop) ==
  /\ dropPending' = drop /\ offset' = 0 /\ force_stop' = FALSE /\ stopping' = FALSE
  /\ buffer' = <<>> /\ in_flight' = "none" /\ request' = NoRequest /\ answer' = <<>>
  /\ flag' = FALSE /\ eepy' = "none" /\ woken' = TRUE

PollingInit ==
  /\ sent = 0 /\ confirmed = 0 /\ faults = 0 /\ discarded = 0
  /\ dropPending = FALSE /\ offset = 0 /\ force_stop = FALSE /\ stopping = FALSE
  /\ buffer = <<>> /\ in_flight = "none" /\ request = NoRequest /\ answer = <<>>
  /\ flag = FALSE /\ eepy = "none" /\ woken = FALSE

-----------------------------------------------------------------------------
(* The server, the network and the timer.                                  *)

\* A user sends an update.
Receive ==
  /\ sent < MaxUpdates
  /\ sent' = sent + 1
  /\ UNCHANGED <<confirmed, faults, discarded, stream, flag, woken>>

AtLeast(a, b) == IF a < b THEN b ELSE a

\* The server forgets the updates before the offset of the request, and with
\* offset -1 all but the last one.
Confirmed(r) == AtLeast(confirmed, IF r.offset = -1 THEN sent - 1 ELSE r.offset - 1)

\* What a request finds: the first updates the server has not forgotten.
Found(r) ==
  LET first == Confirmed(r) + 1
      last == IF first + r.limit - 1 < sent THEN first + r.limit - 1 ELSE sent
  IN  [i \in 1..(last - first + 1) |-> first + i - 1]

\* A request with offset -1 is made to throw away what it finds.
Discarded(r) == IF r.offset = -1 THEN sent ELSE discarded

\* The request reaches the server.
Reach(r) == confirmed' = Confirmed(r) /\ discarded' = Discarded(r)

\* The server answers, at once or after its timeout.
Answer ==
  /\ in_flight = "sent"
  /\ in_flight' = "answered" /\ answer' = Found(request)
  /\ Reach(request)
  /\ woken' = TRUE
  /\ UNCHANGED <<sent, faults, dropPending, offset, force_stop, stopping, buffer,
                 request, flag, eepy>>

\* The request fails, on its way to the server or on its way back.
Fail ==
  /\ in_flight = "sent" /\ faults < MaxFaults
  /\ in_flight' = "failed" /\ faults' = faults + 1
  /\ Reach(request) \/ UNCHANGED forgotten
  /\ woken' = TRUE
  /\ UNCHANGED <<sent, dropPending, offset, force_stop, stopping, buffer, request,
                 answer, flag, eepy>>

\* The delay of the backoff strategy, or of RetryAfter, is over.
SleepEnds ==
  /\ eepy = "sleeping"
  /\ eepy' = "elapsed" /\ woken' = TRUE
  /\ UNCHANGED <<sent, confirmed, faults, dropPending, offset, force_stop, stopping, buffer,
                 requests, flag, discarded>>

\* StopToken::stop
Stop == flag' = TRUE /\ woken' = TRUE

Network == Answer \/ Fail \/ SleepEnds

-----------------------------------------------------------------------------
(* poll_next, 389-507: one disjunct per way through it.                    *)

\* Mutant: the final request acknowledges nothing.
NextRequest_FinalFromZero(stop, drop, off) ==
  [offset |-> IF stop THEN 0 ELSE IF drop THEN -1 ELSE off,
   limit |-> IF stop \/ drop THEN 1 ELSE Limit]

\* 456-473: offset, limit and timeout of the next request.
NextRequest(stop, drop, off) ==
  [offset |-> IF drop /\ ~stop THEN -1 ELSE off,
   limit |-> IF stop \/ drop THEN 1 ELSE Limit]

\* Mutant: the task is not woken.
CreateRequest_Zombie(stop, drop, off) ==
  /\ in_flight' = "created" /\ request' = NextRequest(stop, drop, off)
  /\ answer' = <<>> /\ UNCHANGED woken

\* 475-492: the request is created, not yet sent, and the task woken at once.
CreateRequest(stop, drop, off) ==
  /\ in_flight' = "created" /\ request' = NextRequest(stop, drop, off)
  /\ answer' = <<>> /\ woken' = TRUE

Forced(item) ==
  /\ force_stop /\ item = None
  /\ UNCHANGED <<stream, forgotten, woken>>

\* Mutant: the stop flag is looked at before the buffer.
Buffered_UnlessStopped == buffer # <<>> /\ ~flag

\* 395-398: the buffer comes first.
Buffered == buffer # <<>>

YieldBuffered(item) ==
  /\ ~force_stop /\ Buffered
  /\ item = Head(buffer) /\ buffer' = Tail(buffer)
  /\ UNCHANGED <<dropPending, offset, force_stop, stopping, requests, eepy, forgotten, woken>>

\* Mutant: the flag is looked at only when no request is in flight.
SeesStop_WhenQuiet ==
  ~force_stop /\ ~Buffered /\ ~stopping /\ in_flight = "none" /\ flag

\* Whether this poll is the one that sees the stop flag.
SeesStop == ~force_stop /\ ~Buffered /\ ~stopping /\ flag

\* The request in flight is dropped; if it was sent, it may still reach the
\* server.  The final request confirms what has been yielded.
BeginStop(item) ==
  /\ SeesStop /\ item = Pending
  /\ stopping' = TRUE
  /\ \/ in_flight = "sent" /\ Reach(request)
     \/ UNCHANGED forgotten
  /\ CreateRequest(TRUE, dropPending, offset)
  /\ UNCHANGED <<dropPending, offset, force_stop, buffer, eepy>>

Working == ~force_stop /\ ~Buffered /\ ~SeesStop

\* The first poll of the request sends it.
SendRequest(item) ==
  /\ Working /\ in_flight = "created" /\ item = Pending
  /\ in_flight' = "sent"
  /\ UNCHANGED <<dropPending, offset, force_stop, stopping, buffer, request, answer,
                 eepy, forgotten, woken>>

AwaitAnswer(item) ==
  /\ Working /\ in_flight = "sent" /\ item = Pending
  /\ UNCHANGED <<stream, forgotten, woken>>

\* 422-430: a stopping stream ends with the answer to its final request, or
\* yields the error and ends.
FinishStop(item) ==
  /\ Working /\ stopping /\ in_flight \in {"answered", "failed"}
  /\ in_flight' = "none" /\ request' = NoRequest /\ answer' = <<>>
  /\ force_stop' = (in_flight = "failed")
  /\ item = IF in_flight = "failed" THEN Error ELSE None
  /\ UNCHANGED <<dropPending, offset, stopping, buffer, eepy, forgotten, woken>>

\* 431-442: the offset moves past the answer, which is buffered or dropped,
\* and the next request is created.
TakeAnswer(item) ==
  /\ Working /\ ~stopping /\ in_flight = "answered" /\ item = Pending
  /\ offset' = IF answer = <<>> THEN offset ELSE answer[Len(answer)] + 1
  /\ buffer' = IF dropPending THEN <<>> ELSE answer
  /\ dropPending' = FALSE
  /\ CreateRequest(FALSE, FALSE, offset')
  /\ UNCHANGED <<force_stop, stopping, eepy, forgotten>>

\* 443-468: the error is yielded and the next request waits for a delay.
TakeError(item) ==
  /\ Working /\ ~stopping /\ in_flight = "failed" /\ item = Error
  /\ in_flight' = "none" /\ request' = NoRequest
  /\ eepy' = "sleeping"
  /\ UNCHANGED <<dropPending, offset, force_stop, stopping, buffer, answer, forgotten, woken>>

Asleep(item) ==
  /\ Working /\ in_flight = "none" /\ eepy = "sleeping" /\ item = Pending
  /\ UNCHANGED <<stream, forgotten, woken>>

StartRequest(item) ==
  /\ Working /\ in_flight = "none" /\ eepy # "sleeping" /\ item = Pending
  /\ eepy' = "none"
  /\ CreateRequest(stopping, dropPending, offset)
  /\ UNCHANGED <<dropPending, offset, force_stop, stopping, buffer, forgotten>>

PollStream(item) ==
  /\ \/ Forced(item) \/ YieldBuffered(item) \/ BeginStop(item)
     \/ SendRequest(item) \/ AwaitAnswer(item) \/ FinishStop(item)
     \/ TakeAnswer(item) \/ TakeError(item) \/ Asleep(item) \/ StartRequest(item)
  /\ UNCHANGED <<sent, faults, flag>>

=============================================================================
