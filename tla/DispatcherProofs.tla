-------------------------- MODULE DispatcherProofs --------------------------
(* Theorems about Dispatcher, for every value of its constants. *)
EXTENDS Dispatcher, FiniteSetTheorems, SequenceTheorems, TLAPS

(***************************************************************************)
(* The inductive invariant.  Updates are numbered, and the listener yields *)
(* them in that order: what it has yielded in this run are the updates     *)
(* below Upcoming, whatever requests failed on the way.                    *)
(***************************************************************************)

\* The first update this stream has not yielded.
Upcoming == offset - Len(buffer)

\* The request on its way is the one the stream would make now, the buffer
\* holds the updates up to the offset, and an answer goes on where the server
\* has forgotten.
StreamInv ==
  /\ in_flight # "none" => request = NextRequest(stopping, dropPending, offset)
  /\ in_flight \in {"sent", "answered", "failed"} => buffer = <<>>
  /\ \A i \in DOMAIN buffer : buffer[i] = Upcoming + i - 1
  /\ buffer # <<>> => confirmed < Upcoming
  /\ dropPending => offset = 0
  /\ offset <= sent + 1
  /\ in_flight = "answered" =>
       /\ \A i \in DOMAIN answer : answer[i] = confirmed + i
       /\ confirmed + Len(answer) <= sent
       /\ request.offset <= confirmed + 1
       /\ request.offset = -1 => confirmed + Len(answer) <= discarded

\* The loop between two runs, and when every worker has ended.
Settled == {"done", "notify", "store", "idle"}
Over == Settled \cup {"break", "drain"}

\* What the offset covers was given; what was given in an earlier run is
\* covered by the acknowledgement of that run.
GivenInv ==
  /\ ConfirmedWasGiven
  /\ \A u \in 1..(Upcoming - 1) : u \in given \/ u <= discarded
  /\ force_stop => unacked
  /\ ~unacked => \A u \in given : u <= confirmed \/ (u < Upcoming /\ pc \notin Over)

LoopInv ==
  /\ hand # 0 <=> pc \in {"route", "send"}
  /\ hand # 0 => route[hand] # Unroutable
  /\ target # 0 <=> pc = "send"
  /\ reaping # {} => pc \in {"reap", "drain"}
  /\ pc \in Settled \cup {"drain"} => \A k \in AllKeys : worker[k] = 0
  /\ pc \in Settled => \A t \in Tasks : ~alive[t]

\* A task that runs is in the map, in the hand of the loop, or awaited; one
\* key has one of them.
TaskInv ==
  /\ \A t \in Tasks : alive[t] => worker[key[t]] = t \/ target = t \/ t \in reaping
  /\ \A t, s \in Tasks : alive[t] /\ alive[s] /\ key[t] = key[s] => t = s
  /\ \A k \in AllKeys : worker[k] # 0 => key[worker[k]] = k
  /\ target # 0 => key[target] = route[hand]
  /\ \A t \in Tasks : t > spawned =>
       ~alive[t] /\ queue[t] = <<>> /\ running[t] = {} /\ \A k \in AllKeys : worker[k] # t

Has(t, u) == alive[t] /\ u \in Queued(t) \cup running[t]

\* Channels are in order, the update in hand is newer than all of them, and
\* the updates yet to come are newer still.
OrderInv ==
  /\ \A t \in Tasks : \A u \in Updates :
       Has(t, u) => route[u] = key[t] /\ u < Upcoming /\ (hand # 0 => u < hand)
  /\ \A t \in Tasks : alive[t] =>
       \A i, j \in DOMAIN queue[t] : i < j => queue[t][i] < queue[t][j]
  /\ hand # 0 => hand < Upcoming

IInv ==
  /\ TypeOK /\ StreamInv /\ GivenInv /\ LoopInv /\ TaskInv /\ OrderInv /\ NothingVanishes

-----------------------------------------------------------------------------
(* The server and its answers.                                             *)

\* A request confirms at most what the server has, and finds what follows.
LEMMA FoundUpdates ==
  ASSUME PollingTypeOK, NEW r \in [offset : -1..(MaxUpdates + 1), limit : {1, Limit}],
         r.offset <= sent + 1
  PROVE  /\ Confirmed(r) \in confirmed..sent /\ r.offset <= Confirmed(r) + 1
         /\ Found(r) \in Seq(Updates) /\ Len(Found(r)) \in Nat
         /\ Confirmed(r) + Len(Found(r)) <= sent
         /\ \A i \in DOMAIN Found(r) : Found(r)[i] = Confirmed(r) + i
         /\ Discarded(r) \in discarded..sent
         /\ r.offset = -1 => Discarded(r) = sent
<1>0. /\ MaxUpdates \in Nat /\ Limit \in Nat /\ Limit >= 1 /\ r.limit \in Nat /\ r.limit >= 1
      /\ sent \in Nat /\ sent <= MaxUpdates /\ confirmed \in Nat /\ confirmed <= sent
      /\ discarded \in Nat /\ discarded <= sent /\ r.offset \in Int
  BY PollingAssumption DEF PollingTypeOK
<1>1. /\ Confirmed(r) \in Nat /\ confirmed <= Confirmed(r) /\ Confirmed(r) <= sent
      /\ r.offset <= Confirmed(r) + 1
  BY <1>0 DEF Confirmed, AtLeast
<1>. DEFINE first == Confirmed(r) + 1
            last == IF first + r.limit - 1 < sent THEN first + r.limit - 1 ELSE sent
            n == last - first + 1
<1>2. /\ n \in Nat /\ Confirmed(r) + n <= sent /\ Found(r) = [i \in 1..n |-> first + i - 1]
  BY <1>0, <1>1 DEF Found
<1>. HIDE DEF n, last
<1>3. \A i \in 1..n : first + i - 1 \in Updates /\ first + i - 1 = Confirmed(r) + i
  BY <1>0, <1>1, <1>2 DEF Updates
<1>. HIDE DEF first
<1>4. Found(r) \in [1..n -> Updates]
  BY <1>2, <1>3
<1>5. Found(r) \in Seq(Updates)
  BY <1>2, <1>4, SeqDef
<1>6. DOMAIN Found(r) = 1..n
  BY <1>4
<1>7. Len(Found(r)) = n
  BY <1>2, <1>5, <1>6, LenProperties
<1>8. Discarded(r) \in discarded..sent /\ (r.offset = -1 => Discarded(r) = sent)
  BY <1>0 DEF Discarded
<1>. QED BY <1>0, <1>1, <1>2, <1>3, <1>5, <1>6, <1>7, <1>8

LEMMA RequestType ==
  ASSUME PollingTypeOK, NEW stop \in BOOLEAN, NEW drop \in BOOLEAN, NEW off \in 0..(MaxUpdates + 1)
  PROVE  /\ NextRequest(stop, drop, off) \in [offset : -1..(MaxUpdates + 1), limit : {1, Limit}]
         /\ NextRequest(stop, drop, off).offset \in {-1, off}
         /\ NextRequest(stop, drop, off).offset = -1 <=> drop /\ ~stop
<1>0. MaxUpdates \in Nat
  BY PollingAssumption
<1>. QED BY <1>0 DEF NextRequest

\* The request in flight, and what it would confirm.
LEMMA InFlightRequest ==
  ASSUME PollingTypeOK, StreamInv, in_flight # "none"
  PROVE  /\ request.offset \in {-1, offset} /\ request.offset <= sent + 1
         /\ request.offset = -1 <=> dropPending /\ ~stopping
<1>1. /\ request = NextRequest(stopping, dropPending, offset)
      /\ offset <= sent + 1 /\ offset \in Nat /\ sent \in Nat
      /\ stopping \in BOOLEAN /\ dropPending \in BOOLEAN
  BY PollingAssumption DEF PollingTypeOK, StreamInv
<1>2. request.offset = IF dropPending /\ ~stopping THEN -1 ELSE offset
  BY <1>1 DEF NextRequest
<1>. QED BY <1>1, <1>2

\* What poll_next takes from its buffer.
LEMMA TailBuffer ==
  ASSUME PollingTypeOK, StreamInv, buffer # <<>>, buffer' = Tail(buffer), offset' = offset
  PROVE  /\ buffer' \in Seq(Updates) /\ Head(buffer) = Upcoming /\ Upcoming \in Updates
         /\ Upcoming' = Upcoming + 1
         /\ \A i \in DOMAIN buffer' : buffer'[i] = Upcoming' + i - 1
<1>1. /\ Len(buffer) \in Nat /\ Len(buffer) > 0 /\ DOMAIN buffer = 1..Len(buffer)
      /\ Head(buffer) = buffer[1] /\ buffer[1] \in Updates
      /\ buffer' \in Seq(Updates) /\ DOMAIN buffer' = 1..(Len(buffer) - 1)
      /\ Len(buffer') = Len(buffer) - 1 /\ offset \in Int
      /\ \A i \in 1..(Len(buffer) - 1) : buffer'[i] = buffer[i + 1]
  BY HeadTailProperties, LenProperties, ElementOfSeq, EmptySeq, PollingAssumption
     DEF PollingTypeOK
<1>2. Upcoming \in Int /\ Upcoming' = Upcoming + 1
  BY <1>1 DEF Upcoming
<1>3. \A i \in DOMAIN buffer : buffer[i] = Upcoming + i - 1
  BY DEF StreamInv
<1>. QED BY <1>1, <1>2, <1>3

-----------------------------------------------------------------------------
(* The stream.                                                             *)

\* The numbers of the stream, as the provers need them.
LEMMA PollingNumbers ==
  ASSUME PollingTypeOK
  PROVE  /\ MaxUpdates \in Nat /\ sent \in Nat /\ confirmed \in Nat /\ discarded \in Nat
         /\ sent <= MaxUpdates /\ confirmed <= sent /\ discarded <= sent
         /\ offset \in Nat /\ offset <= MaxUpdates + 1 /\ Len(buffer) \in Nat
         /\ Len(answer) \in Nat /\ Upcoming \in Int
         /\ DOMAIN buffer = 1..Len(buffer) /\ DOMAIN answer = 1..Len(answer)
         /\ (buffer = <<>> => Len(buffer) = 0 /\ Upcoming = offset)
  BY PollingAssumption, LenProperties, EmptySeq DEF PollingTypeOK, Upcoming

LEMMA AnswerTaken ==
  ASSUME PollingTypeOK, StreamInv, NEW item, TakeAnswer(item)
  PROVE  /\ offset' \in 0..(MaxUpdates + 1) /\ offset' <= sent + 1 /\ buffer' \in Seq(Updates)
         /\ offset' >= offset /\ buffer = <<>> /\ buffer' \in {<<>>, answer}
         /\ Upcoming' >= Upcoming /\ Upcoming' \in Int /\ Upcoming = offset
         /\ dropPending => buffer' = <<>>
         /\ \A i \in DOMAIN buffer' : buffer'[i] = Upcoming' + i - 1
         /\ buffer' # <<>> => Upcoming' = confirmed + 1
         /\ \A u \in offset..(Upcoming' - 1) : u <= confirmed \/ u <= discarded
<1>1. /\ ~stopping /\ in_flight = "answered" /\ buffer = <<>>
      /\ offset' = IF answer = <<>> THEN offset ELSE answer[Len(answer)] + 1
      /\ buffer' = IF dropPending THEN <<>> ELSE answer
  BY DEF TakeAnswer, Working, Buffered
<1>2. /\ \A i \in 1..Len(answer) : answer[i] = confirmed + i
      /\ confirmed + Len(answer) <= sent /\ request.offset <= confirmed + 1
      /\ request.offset = -1 => confirmed + Len(answer) <= discarded
      /\ offset <= sent + 1 /\ (dropPending => offset = 0)
  BY <1>1, PollingNumbers DEF StreamInv
<1>3. /\ request.offset = -1 <=> dropPending
      /\ ~dropPending => request.offset = offset
  BY <1>1, InFlightRequest
<1>4. answer \in Seq(Updates) /\ <<>> \in Seq(Updates) /\ Len(<<>>) = 0
      /\ (answer = <<>> => Len(answer) = 0) /\ (answer # <<>> => Len(answer) > 0)
  BY EmptySeq DEF PollingTypeOK
<1>5. offset' = IF answer = <<>> THEN offset ELSE confirmed + Len(answer) + 1
  BY <1>1, <1>2, <1>4, PollingNumbers
<1>6. /\ offset' \in Nat /\ offset' <= sent + 1 /\ offset' >= offset
      /\ buffer' \in Seq(Updates) /\ buffer' \in {<<>>, answer}
      /\ dropPending => buffer' = <<>>
  BY <1>1, <1>2, <1>3, <1>4, <1>5, PollingNumbers
<1>7. CASE dropPending \/ answer = <<>>
  <2>1. buffer' = <<>>
    BY <1>1, <1>7
  <2>2. Upcoming' = offset'
    <3>1. Len(buffer') = 0 /\ offset' \in Nat
      BY <1>6, <2>1, EmptySeq
    <3>2. \A n \in Nat : n - 0 = n
      OBVIOUS
    <3>. QED BY <3>1, <3>2, Zenon DEF Upcoming
  <2>3. DOMAIN buffer' = {}
    BY <2>1
  <2>4. \A u \in offset..(Upcoming' - 1) : u <= confirmed \/ u <= discarded
    BY <1>2, <1>3, <1>5, <1>7, <2>2, PollingNumbers
  <2>. QED BY <1>1, <1>6, <2>1, <2>2, <2>3, <2>4, PollingNumbers
<1>8. CASE ~dropPending /\ answer # <<>>
  <2>1. buffer' = answer
    BY <1>1, <1>8
  <2>2. Upcoming' = confirmed + 1
    BY <1>5, <1>8, <2>1, PollingNumbers DEF Upcoming
  <2>3. \A i \in DOMAIN buffer' : buffer'[i] = Upcoming' + i - 1
    BY <1>2, <2>1, <2>2, PollingNumbers
  <2>4. \A u \in offset..(Upcoming' - 1) : u <= confirmed \/ u <= discarded
    BY <2>2, PollingNumbers
  <2>5. Upcoming' >= offset
    BY <1>2, <1>3, <1>8, <2>2, PollingNumbers
  <2>. QED BY <1>1, <1>6, <1>8, <2>2, <2>3, <2>4, <2>5, PollingNumbers
<1>. QED BY <1>7, <1>8

\* The stop may let the request in flight reach the server; no other poll
\* changes what the server has.
LEMMA PollTypes ==
  ASSUME PollingTypeOK, StreamInv, NEW item, PollStream(item)
  PROVE  PollingTypeOK'
<1>0. /\ MaxUpdates \in Nat /\ <<>> \in Seq(Updates)
      /\ NoRequest \in [offset : -1..(MaxUpdates + 1), limit : {1, Limit}]
      /\ offset \in 0..(MaxUpdates + 1)
      /\ stopping \in BOOLEAN /\ dropPending \in BOOLEAN
  BY PollingAssumption, EmptySeq DEF NoRequest, PollingTypeOK
<1>1. CASE Forced(item) \/ SendRequest(item) \/ AwaitAnswer(item) \/ Asleep(item)
  <2>1. UNCHANGED <<sent, confirmed, faults, discarded, dropPending, offset, force_stop,
                    stopping, buffer, request, answer, flag, eepy, woken>>
        /\ in_flight' \in {in_flight, "sent"}
    BY <1>1 DEF Forced, SendRequest, AwaitAnswer, Asleep, PollStream, stream, forgotten
  <2>. QED BY <2>1 DEF PollingTypeOK
<1>2. CASE YieldBuffered(item)
  <2>1. buffer' \in Seq(Updates)
    BY <1>2, TailBuffer DEF YieldBuffered, Buffered
  <2>2. UNCHANGED <<sent, confirmed, faults, discarded, dropPending, offset, force_stop,
                    stopping, in_flight, request, answer, flag, eepy, woken>>
    BY <1>2 DEF YieldBuffered, PollStream, requests, forgotten
  <2>. QED BY <2>1, <2>2 DEF PollingTypeOK
<1>3. CASE BeginStop(item)
  <2>1. confirmed' \in 0..sent /\ discarded' \in 0..sent
    <3>1. CASE UNCHANGED forgotten
      BY <3>1 DEF forgotten, PollingTypeOK
    <3>2. CASE in_flight = "sent" /\ Reach(request)
      <4>1. Confirmed(request) \in confirmed..sent /\ Discarded(request) \in discarded..sent
        BY <3>2, FoundUpdates, InFlightRequest DEF PollingTypeOK
      <4>. QED BY <3>2, <4>1, PollingNumbers DEF Reach
    <3>. QED BY <1>3, <3>1, <3>2 DEF BeginStop
  <2>2. request' \in [offset : -1..(MaxUpdates + 1), limit : {1, Limit}]
    BY <1>0, <1>3, RequestType DEF BeginStop, CreateRequest
  <2>3. UNCHANGED <<sent, faults, dropPending, offset, force_stop, buffer, flag, eepy>>
        /\ stopping' \in BOOLEAN /\ woken' \in BOOLEAN /\ in_flight' = "created" /\ answer' = <<>>
    BY <1>3 DEF BeginStop, PollStream, CreateRequest
  <2>. QED BY <1>0, <2>1, <2>2, <2>3 DEF PollingTypeOK
<1>4. CASE FinishStop(item)
  <2>1. UNCHANGED <<sent, confirmed, faults, discarded, dropPending, offset, stopping, buffer,
                    flag, eepy, woken>>
        /\ in_flight' = "none" /\ request' = NoRequest /\ answer' = <<>>
    BY <1>4 DEF FinishStop, PollStream, forgotten
  <2>2. force_stop' \in BOOLEAN
    BY <1>4, Zenon DEF FinishStop
  <2>. QED BY <1>0, <2>1, <2>2 DEF PollingTypeOK
<1>5. CASE TakeAnswer(item)
  <2>1. offset' \in 0..(MaxUpdates + 1) /\ buffer' \in Seq(Updates)
    BY <1>5, AnswerTaken
  <2>2. request' \in [offset : -1..(MaxUpdates + 1), limit : {1, Limit}]
    BY <1>0, <1>5, <2>1, RequestType DEF TakeAnswer, CreateRequest
  <2>3. UNCHANGED <<sent, confirmed, faults, discarded, force_stop, stopping, flag, eepy>>
        /\ dropPending' \in BOOLEAN /\ woken' \in BOOLEAN /\ in_flight' = "created"
        /\ answer' = <<>>
    BY <1>5 DEF TakeAnswer, PollStream, CreateRequest, forgotten
  <2>. QED BY <1>0, <2>1, <2>2, <2>3 DEF PollingTypeOK
<1>6. CASE TakeError(item)
  <2>1. UNCHANGED <<sent, confirmed, faults, discarded, dropPending, offset, force_stop,
                    stopping, buffer, answer, flag, woken>>
        /\ in_flight' = "none" /\ request' = NoRequest /\ eepy' = "sleeping"
    BY <1>6 DEF TakeError, PollStream, forgotten
  <2>. QED BY <1>0, <2>1 DEF PollingTypeOK
<1>7. CASE StartRequest(item)
  <2>1. request' \in [offset : -1..(MaxUpdates + 1), limit : {1, Limit}]
    BY <1>0, <1>7, RequestType DEF StartRequest, CreateRequest
  <2>2. UNCHANGED <<sent, confirmed, faults, discarded, dropPending, offset, force_stop,
                    stopping, buffer, flag>>
        /\ woken' \in BOOLEAN /\ in_flight' = "created" /\ answer' = <<>> /\ eepy' = "none"
    BY <1>7 DEF StartRequest, PollStream, CreateRequest, forgotten
  <2>. QED BY <1>0, <2>1, <2>2 DEF PollingTypeOK
<1>. QED BY <1>1, <1>2, <1>3, <1>4, <1>5, <1>6, <1>7 DEF PollStream

LEMMA ServerTypes ==
  ASSUME PollingTypeOK, StreamInv, Receive \/ Network
  PROVE  PollingTypeOK'
<1>0. in_flight = "sent" =>
        /\ Confirmed(request) \in confirmed..sent /\ Discarded(request) \in discarded..sent
        /\ Found(request) \in Seq(Updates)
  BY FoundUpdates, InFlightRequest DEF PollingTypeOK
<1>1. CASE Receive
  <2>1. sent' = sent + 1 /\ sent < MaxUpdates
        /\ UNCHANGED <<confirmed, faults, discarded, stream, flag, woken>>
    BY <1>1 DEF Receive
  <2>2. sent' \in 0..MaxUpdates /\ confirmed \in 0..sent' /\ discarded \in 0..sent'
    BY <2>1, PollingNumbers
  <2>. QED BY <2>1, <2>2 DEF PollingTypeOK, stream
<1>2. CASE Answer \/ Fail
  <2>1. confirmed' \in 0..sent /\ discarded' \in 0..sent
    BY <1>0, <1>2, PollingNumbers DEF Answer, Fail, Reach, forgotten
  <2>2. answer' \in Seq(Updates) /\ faults' \in 0..MaxFaults
    BY SMTT(30), <1>0, <1>2, PollingAssumption DEF Answer, Fail, PollingTypeOK
  <2>3. UNCHANGED <<sent, dropPending, offset, force_stop, stopping, buffer, request, flag, eepy>>
        /\ in_flight' \in {"answered", "failed"} /\ woken' \in BOOLEAN
    BY <1>2 DEF Answer, Fail
  <2>. QED BY <2>1, <2>2, <2>3 DEF PollingTypeOK
<1>3. CASE SleepEnds
  BY <1>3 DEF SleepEnds, PollingTypeOK, requests
<1>. QED BY <1>1, <1>2, <1>3 DEF Network

-----------------------------------------------------------------------------
(* What the listener keeps, poll by poll.                                  *)

\* The stream of a fresh listener.
LEMMA FreshKeeps ==
  ASSUME PollingTypeOK, NEW drop \in DropChoices, FreshStream(drop),
         UNCHANGED <<sent, confirmed, faults, discarded>>
  PROVE  PollingTypeOK' /\ StreamInv' /\ Upcoming' = 0 /\ ~force_stop'
<1>1. /\ offset' = 0 /\ buffer' = <<>> /\ in_flight' = "none" /\ request' = NoRequest
      /\ answer' = <<>> /\ eepy' = "none" /\ ~force_stop'
      /\ dropPending' \in BOOLEAN /\ force_stop' \in BOOLEAN /\ stopping' \in BOOLEAN
      /\ flag' \in BOOLEAN /\ woken' \in BOOLEAN
  BY PollingAssumption, Zenon DEF FreshStream
<1>2. /\ <<>> \in Seq(Updates) /\ Len(<<>>) = 0 /\ MaxUpdates \in Nat
      /\ NoRequest \in [offset : -1..(MaxUpdates + 1), limit : {1, Limit}]
  BY PollingAssumption, EmptySeq DEF NoRequest
<1>3. PollingTypeOK'
  BY <1>1, <1>2 DEF PollingTypeOK
<1>4. DOMAIN buffer' = {} /\ Upcoming' = 0
  <2>1. Len(buffer') = 0 /\ DOMAIN buffer' = {}
    BY <1>1, EmptySeq
  <2>2. Upcoming' = 0 - 0
    BY <1>1, <2>1, Zenon DEF Upcoming
  <2>. QED BY <2>1, <2>2
<1>5. StreamInv'
  BY <1>1, <1>4, PollingNumbers DEF StreamInv
<1>. QED BY <1>1, <1>3, <1>4, <1>5

LEMMA PollKeepsStream ==
  ASSUME PollingTypeOK, StreamInv, NEW item, PollStream(item)
  PROVE  StreamInv'
<1>1. CASE Forced(item) \/ AwaitAnswer(item) \/ Asleep(item)
  BY <1>1 DEF Forced, AwaitAnswer, Asleep, PollStream, stream, forgotten, StreamInv, Upcoming
<1>2. CASE YieldBuffered(item)
  <2>1. UNCHANGED <<sent, confirmed, discarded, dropPending, offset, stopping, in_flight,
                    request, answer>> /\ buffer # <<>> /\ buffer' = Tail(buffer)
    BY <1>2 DEF YieldBuffered, Buffered, PollStream, requests, forgotten
  <2>2. /\ \A i \in DOMAIN buffer' : buffer'[i] = Upcoming' + i - 1
        /\ Upcoming' = Upcoming + 1 /\ confirmed < Upcoming
        /\ in_flight \notin {"sent", "answered", "failed"}
    BY <2>1, TailBuffer DEF StreamInv
  <2>. QED BY <2>1, <2>2, PollingNumbers DEF StreamInv
<1>3. CASE BeginStop(item) \/ StartRequest(item)
  <2>1. /\ UNCHANGED <<sent, dropPending, offset, buffer>> /\ buffer = <<>>
        /\ in_flight' = "created" /\ request' = NextRequest(stopping', dropPending', offset')
    BY <1>3 DEF BeginStop, StartRequest, SeesStop, Working, Buffered, CreateRequest, PollStream
  <2>. QED BY <2>1 DEF StreamInv, Upcoming
<1>4. CASE SendRequest(item)
  <2>1. /\ UNCHANGED <<sent, confirmed, discarded, dropPending, offset, stopping, buffer,
                       request, answer>>
        /\ buffer = <<>> /\ in_flight = "created" /\ in_flight' = "sent"
    BY <1>4 DEF SendRequest, Working, Buffered, PollStream, forgotten
  <2>. QED BY <2>1 DEF StreamInv, Upcoming
<1>5. CASE FinishStop(item) \/ TakeError(item)
  <2>1. /\ UNCHANGED <<sent, confirmed, discarded, dropPending, offset, stopping, buffer>>
        /\ in_flight' = "none"
    BY <1>5 DEF FinishStop, TakeError, PollStream, forgotten
  <2>. QED BY <2>1 DEF StreamInv, Upcoming
<1>6. CASE TakeAnswer(item)
  <2>1. /\ UNCHANGED <<sent, confirmed, discarded, stopping>> /\ ~stopping
        /\ in_flight' = "created" /\ request' = NextRequest(FALSE, FALSE, offset')
        /\ dropPending' = FALSE
    BY <1>6 DEF TakeAnswer, CreateRequest, PollStream, forgotten
  <2>2. request' = NextRequest(stopping', dropPending', offset')
    BY <2>1 DEF NextRequest
  <2>3. buffer' # <<>> => confirmed < Upcoming'
    BY <1>6, AnswerTaken, PollingNumbers
  <2>. QED BY <1>6, <2>1, <2>2, <2>3, AnswerTaken DEF StreamInv
<1>. QED BY <1>1, <1>2, <1>3, <1>4, <1>5, <1>6 DEF PollStream

LEMMA ServerKeepsStream ==
  ASSUME PollingTypeOK, StreamInv, Receive \/ Network
  PROVE  StreamInv' /\ Upcoming' = Upcoming
<1>1. CASE Receive
  <2>1. sent' = sent + 1 /\ UNCHANGED <<confirmed, discarded, stream>>
    BY <1>1 DEF Receive
  <2>. QED BY <2>1, PollingNumbers DEF StreamInv, Upcoming, stream
<1>2. CASE Answer
  <2>1. /\ UNCHANGED <<sent, dropPending, offset, stopping, buffer, request>>
        /\ in_flight = "sent" /\ buffer = <<>> /\ in_flight' = "answered"
        /\ answer' = Found(request) /\ confirmed' = Confirmed(request)
        /\ discarded' = Discarded(request)
    BY <1>2 DEF Answer, Reach, StreamInv
  <2>2. /\ \A i \in DOMAIN answer' : answer'[i] = confirmed' + i
        /\ confirmed' + Len(answer') <= sent' /\ request'.offset <= confirmed' + 1
        /\ request'.offset = -1 => confirmed' + Len(answer') <= discarded'
    BY <2>1, FoundUpdates, InFlightRequest DEF PollingTypeOK
  <2>. QED BY <2>1, <2>2 DEF StreamInv, Upcoming
<1>3. CASE Fail
  <2>1. /\ UNCHANGED <<sent, dropPending, offset, stopping, buffer, request>>
        /\ in_flight = "sent" /\ buffer = <<>> /\ in_flight' = "failed"
    BY <1>3 DEF Fail, StreamInv
  <2>. QED BY <2>1 DEF StreamInv, Upcoming
<1>4. CASE SleepEnds
  BY <1>4 DEF SleepEnds, StreamInv, Upcoming, requests
<1>. QED BY <1>1, <1>2, <1>3, <1>4 DEF Network

-----------------------------------------------------------------------------
(* Types.                                                                  *)

LoopType ==
  /\ route \in Routes
  /\ pc \in {"idle", "sweep", "reap", "poll", "wait", "parked", "route", "send", "break",
            "drain", "done", "notify", "store"}
  /\ hand \in Updates \cup {0} /\ target \in Tasks \cup {0} /\ retried \in BOOLEAN
  /\ worker \in [AllKeys -> Tasks \cup {0}] /\ reaping \subseteq Tasks
  /\ runs \in 0..MaxRuns

TaskType ==
  /\ spawned \in 0..MaxTasks /\ deaths \in 0..MaxDeaths
  /\ key \in [Tasks -> AllKeys] /\ open \in [Tasks -> BOOLEAN]
  /\ queue \in [Tasks -> Seq(Updates)] /\ \A t \in Tasks : Len(queue[t]) <= QueueSize
  /\ running \in [Tasks -> SUBSET Updates]
  /\ is_waiting \in [Tasks -> BOOLEAN] /\ alive \in [Tasks -> BOOLEAN]
  /\ max_active \in 0..Cardinality(Keys)

HistoryType ==
  /\ given \subseteq Updates /\ handled \subseteq Updates /\ lost \subseteq Updates
  /\ unacked \in BOOLEAN

LEMMA TypeSplits ==
  /\ TypeOK <=> TokenTypeOK /\ PollingTypeOK /\ LoopType /\ TaskType /\ HistoryType
  /\ TokenTypeOK' /\ PollingTypeOK' /\ LoopType' /\ TaskType' /\ HistoryType' => TypeOK'
  BY DEF TypeOK, LoopType, TaskType, HistoryType

\* The constants, and the key of an update that is routed.
LEMMA Numbers ==
  /\ MaxUpdates \in Nat /\ MaxTasks \in Nat /\ MaxDeaths \in Nat /\ MaxRuns \in Nat
  /\ QueueSize \in Nat /\ QueueSize >= 1 /\ Cardinality(Keys) \in Nat /\ IsFiniteSet(Keys)
  /\ 0 \notin Updates /\ 0 \notin Tasks /\ Updates \subseteq Nat /\ Tasks \subseteq Nat
  /\ NoKey \notin Keys /\ NoKey \in AllKeys /\ Keys \subseteq AllKeys
  BY PollingAssumption, DispatcherAssumption, FS_CardinalityType DEF Updates, Tasks, AllKeys

LEMMA HandKey ==
  ASSUME LoopType, LoopInv, pc \in {"route", "send"}
  PROVE  hand \in Updates /\ route[hand] \in AllKeys
<1>1. hand \in Updates /\ route[hand] # Unroutable
  BY DEF LoopType, LoopInv
<1>2. route \in [Updates -> Keys \cup {NoKey, Unroutable}]
  BY DispatcherAssumption DEF LoopType
<1>3. route[hand] \in Keys \cup {NoKey, Unroutable}
  BY <1>1, <1>2
<1>. QED BY <1>1, <1>3 DEF AllKeys

LEMMA HeadQueue ==
  ASSUME TaskType, NEW t \in Tasks, queue[t] # <<>>
  PROVE  /\ Head(queue[t]) \in Updates /\ Head(queue[t]) \in Queued(t)
         /\ Tail(queue[t]) \in Seq(Updates) /\ Len(Tail(queue[t])) = Len(queue[t]) - 1
         /\ Len(queue[t]) \in Nat /\ Len(queue[t]) > 0
         /\ DOMAIN queue[t] = 1..Len(queue[t]) /\ Head(queue[t]) = queue[t][1]
         /\ DOMAIN Tail(queue[t]) = 1..(Len(queue[t]) - 1)
         /\ \A i \in 1..(Len(queue[t]) - 1) : Tail(queue[t])[i] = queue[t][i + 1]
<1>1. queue[t] \in Seq(Updates)
  BY DEF TaskType
<1>. DEFINE q == queue[t]
<1>2. /\ Len(q) \in Nat /\ Len(q) > 0 /\ DOMAIN q = 1..Len(q) /\ Head(q) = q[1]
      /\ q[1] \in Updates /\ Tail(q) \in Seq(Updates) /\ DOMAIN Tail(q) = 1..(Len(q) - 1)
      /\ Len(Tail(q)) = Len(q) - 1
      /\ \A i \in 1..(Len(q) - 1) : Tail(q)[i] = q[i + 1]
  BY <1>1, HeadTailProperties, LenProperties, ElementOfSeq, EmptySeq
<1>3. 1 \in DOMAIN q
  BY <1>2
<1>4. Head(q) \in Queued(t)
  BY <1>2, <1>3 DEF Queued
<1>. QED BY <1>2, <1>4

\* A key has one task at work, so there are not more of those than keys.
LEMMA ActiveBound ==
  ASSUME TaskType, TaskInv, NEW t \in Tasks, alive[t], key[t] # NoKey, is_waiting[t]
  PROVE  Cardinality(Active) \in Nat /\ Cardinality(Active) + 1 <= Cardinality(Keys)
<1>. DEFINE S == Active \cup {t}
            f == [s \in S |-> key[s]]
<1>1. \A s \in S : s \in Tasks /\ alive[s] /\ key[s] \in Keys
  BY DEF TaskType, Active, AllKeys
<1>2. f \in Injection(S, Keys)
  BY <1>1 DEF TaskInv, Injection, IsInjective
<1>3. t \notin Active
  BY DEF Active
<1>. HIDE DEF f
<1>4. IsFiniteSet(S) /\ Cardinality(S) <= Cardinality(Keys)
  BY <1>2, Numbers, FS_Injection
<1>5. Active \subseteq S
  OBVIOUS
<1>6. IsFiniteSet(Active) /\ Cardinality(Active) \in Nat
  BY <1>4, <1>5, FS_Subset, FS_CardinalityType
<1>7. Cardinality(S) = Cardinality(Active) + 1
  BY <1>3, <1>6, FS_AddElement
<1>. QED BY <1>4, <1>6, <1>7

LEMMA InitType == Init => TypeOK
<1> SUFFICES ASSUME Init PROVE TypeOK
  OBVIOUS
<1>1. <<>> \in Seq(Updates) /\ Len(<<>>) = 0
  BY EmptySeq
<1>2. TokenTypeOK
  BY DEF Init, TokenInit, TokenTypeOK, ShutdownStates, Watches, Calls
<1>3. PollingTypeOK
  <2>1. NoRequest \in [offset : -1..(MaxUpdates + 1), limit : {1, Limit}]
    BY Numbers DEF NoRequest
  <2>2. /\ sent = 0 /\ confirmed = 0 /\ faults = 0 /\ discarded = 0 /\ offset = 0
        /\ buffer = <<>> /\ in_flight = "none" /\ request = NoRequest /\ answer = <<>>
        /\ eepy = "none"
    BY Zenon DEF Init, PollingInit
  <2>3. /\ dropPending \in BOOLEAN /\ force_stop \in BOOLEAN /\ stopping \in BOOLEAN
        /\ flag \in BOOLEAN /\ woken \in BOOLEAN
    BY Zenon DEF Init, PollingInit
  <2>. QED BY <1>1, <2>1, <2>2, <2>3, PollingAssumption DEF PollingTypeOK
<1>4. LoopType
  <2>1. retried \in BOOLEAN
    BY Zenon DEF Init
  <2>. QED BY <2>1, Numbers DEF Init, LoopType
<1>5. TaskType
  BY <1>1, Numbers DEF Init, TaskType
<1>6. HistoryType
  <2>1. unacked \in BOOLEAN /\ given = {} /\ handled = {} /\ lost = {}
    BY Zenon DEF Init
  <2>. QED BY <2>1 DEF HistoryType
<1>. QED BY <1>2, <1>3, <1>4, <1>5, <1>6, TypeSplits

LEMMA TokenTypes ==
  ASSUME TokenTypeOK, Next
  PROVE  TokenTypeOK'
<1>1. CASE Start \/ Loop
  BY <1>1 DEF Start, StartDispatching, Loop, Sweep, Reap, PollListener, Park, SeeChange, Unpark,
              Route, Send, SendFails, Break, AwaitWorkers, Done, StopWatching, Listen, NotifyBack,
              BecomeIdle, Notified, token, TokenTypeOK, ShutdownStates, Watches, Calls
<1>2. CASE \E c \in Callers : Caller(c)
  BY <1>2 DEF Caller, Shutdown, AwaitShutdown, ShutdownTells, Notified, TokenTypeOK,
              ShutdownStates, Watches, Calls
<1>3. CASE User \/ Wire \/ \E t \in Tasks : Work(t) \/ Abort(t)
  BY <1>3 DEF User, Wire, Work, Abort, token, TokenTypeOK
<1>. QED BY <1>1, <1>2, <1>3 DEF Next

\* Steps that leave the listener and its stream alone, but for the flag and
\* the wakeup.
LEMMA QuietStream ==
  ASSUME Next, ~Start, ~PollListener, ~User, ~Wire
  PROVE  UNCHANGED <<sent, confirmed, faults, discarded, stream>>
         /\ flag' \in {flag, TRUE} /\ woken' \in {woken, TRUE, FALSE}
<1>1. CASE Loop
  BY <1>1 DEF Loop, Sweep, Reap, Park, SeeChange, Unpark, Route, Send, SendFails, Break,
              AwaitWorkers, polling, stream, Stop
<1>2. CASE (\E t \in Tasks : Work(t) \/ Abort(t)) \/ \E c \in Callers : Caller(c)
  BY <1>2 DEF Work, Abort, Caller, polling, stream
<1>. QED BY <1>1, <1>2 DEF Next

LEMMA ListenerTypes ==
  ASSUME PollingTypeOK, StreamInv, Next
  PROVE  PollingTypeOK'
<1>1. CASE Start
  BY <1>1, FreshKeeps DEF Start
<1>2. CASE PollListener
  BY <1>2, PollTypes DEF PollListener
<1>3. CASE User \/ Wire
  BY <1>3, ServerTypes DEF User, Wire
<1>4. CASE ~Start /\ ~PollListener /\ ~User /\ ~Wire
  BY ZenonT(60), <1>4, QuietStream DEF PollingTypeOK, stream
<1>. QED BY <1>1, <1>2, <1>3, <1>4

LEMMA StreamStep ==
  ASSUME PollingTypeOK, StreamInv, Next
  PROVE  StreamInv'
<1>1. CASE Start
  BY <1>1, FreshKeeps DEF Start
<1>2. CASE PollListener
  BY <1>2, PollKeepsStream DEF PollListener
<1>3. CASE User \/ Wire
  BY <1>3, ServerKeepsStream DEF User, Wire
<1>4. CASE ~Start /\ ~PollListener /\ ~User /\ ~Wire
  BY <1>4, QuietStream DEF StreamInv, Upcoming, stream
<1>. QED BY <1>1, <1>2, <1>3, <1>4

LEMMA LoopTypes ==
  ASSUME TypeOK, LoopInv, Next
  PROVE  LoopType'
<1>0. LoopType /\ TaskType /\ 0 \notin Tasks
  BY TypeSplits, Numbers
<1>1. CASE Start
  <2>1. retried' = retried /\ runs' \in 0..MaxRuns
        /\ UNCHANGED <<route, hand, target, worker, reaping>> /\ pc' = "sweep"
    BY <1>0, <1>1, Numbers DEF Start, LoopType
  <2>. QED BY <1>0, <2>1 DEF LoopType
<1>2. CASE Sweep
  <2>1. worker' \in [AllKeys -> Tasks \cup {0}] /\ reaping' \subseteq Tasks
    <3>1. CASE Cardinality(Held) <= max_active
      BY <1>0, <1>2, <3>1 DEF Sweep, LoopType
    <3>2. CASE ~(Cardinality(Held) <= max_active)
      <4>1. \A k \in Held : worker[k] \in Tasks
        BY <1>0, Numbers DEF Held, LoopType
      <4>. QED BY <1>0, <1>2, <3>2, <4>1 DEF Sweep, LoopType
    <3>. QED BY <3>1, <3>2
  <2>2. UNCHANGED <<route, hand, target, retried, runs>> /\ pc' \in {"poll", "reap"}
    BY <1>2 DEF Sweep
  <2>. QED BY <1>0, <2>1, <2>2 DEF LoopType
<1>3. CASE Reap \/ Park \/ SeeChange \/ Unpark \/ AwaitWorkers
  <2>1. UNCHANGED <<route, hand, target, retried, worker, runs>> /\ reaping' \subseteq reaping
        /\ pc' \in {"poll", "parked", "sweep", "done"}
    BY <1>3 DEF Reap, Park, SeeChange, Unpark, AwaitWorkers
  <2>. QED BY <1>0, <2>1 DEF LoopType
<1>4. CASE PollListener
  <2>1. UNCHANGED <<route, target, worker, reaping, runs>> /\ hand' \in Updates \cup {0}
        /\ pc' \in {"wait", "break", "sweep", "route"}
    BY <1>4 DEF PollListener
  <2>2. retried' \in BOOLEAN
    BY <1>4, Zenon DEF PollListener
  <2>. QED BY <1>0, <2>1, <2>2 DEF LoopType
<1>5. CASE Route
  <2>1. route[hand] \in AllKeys
    BY <1>0, <1>5, HandKey DEF Route
  <2>2. target' \in Tasks \cup {0} /\ worker' \in [AllKeys -> Tasks \cup {0}]
    BY <1>0, <1>5, <2>1 DEF Route, Spawn, LoopType
  <2>. QED BY <1>0, <1>5, <2>2 DEF Route, LoopType
<1>6. CASE Send
  <2>1. worker' \in [AllKeys -> Tasks \cup {0}]
    BY <1>0, <1>6 DEF Send, Delivered, LoopType
  <2>2. retried' \in BOOLEAN
    BY <1>6, Zenon DEF Send, Delivered
  <2>. QED BY <1>0, <1>6, <2>1, <2>2 DEF Send, Delivered, LoopType
<1>7. CASE SendFails
  <2>1. retried' \in BOOLEAN
    BY <1>7, Zenon DEF SendFails
  <2>. QED BY <1>0, <1>7, <2>1 DEF SendFails, LoopType
<1>8. CASE Break
  BY <1>0, <1>8 DEF Break, Kept, LoopType
<1>9. CASE Done /\ UNCHANGED <<route, hand, target, retried, worker, reaping, runs>>
  BY <1>0, <1>9 DEF Done, LoopType
<1>10. CASE UNCHANGED loop
  BY <1>0, <1>10 DEF loop, LoopType
<1>11. CASE User \/ Wire \/ (\E t \in Tasks : Work(t) \/ Abort(t)) \/ \E c \in Callers : Caller(c)
  BY <1>10, <1>11 DEF User, Wire, Work, Abort, Caller
<1>. QED BY <1>1, <1>2, <1>3, <1>4, <1>5, <1>6, <1>7, <1>8, <1>9, <1>11 DEF Next, Loop

\* What a task does by itself, or is done to it.
TaskStep(t) == Take(t) \/ Begin(t) \/ End(t) \/ Finish(t) \/ Die(t)

LEMMA TaskTypes ==
  ASSUME TypeOK, LoopInv, TaskInv, Next
  PROVE  TaskType'
<1>0. LoopType /\ TaskType /\ 0 \notin Tasks /\ MaxTasks \in Nat /\ MaxDeaths \in Nat
      /\ Cardinality(Keys) \in Nat
  BY TypeSplits, Numbers
<1>1. CASE UNCHANGED tasks
  BY <1>0, <1>1 DEF tasks, TaskType
<1>2. CASE \/ Start \/ Reap \/ PollListener \/ Park \/ SeeChange \/ Unpark \/ AwaitWorkers
           \/ User \/ Wire \/ (\E c \in Callers : Caller(c)) \/ (Done /\ UNCHANGED tasks)
  BY <1>1, <1>2 DEF Start, Reap, PollListener, Park, SeeChange, Unpark, AwaitWorkers, User, Wire,
                    Caller
<1>3. CASE Sweep \/ Break \/ SendFails
  <2>1. open' \in [Tasks -> BOOLEAN]
    BY <1>0, <1>3 DEF Sweep, Break, SendFails, Closed, TaskType
  <2>2. UNCHANGED <<spawned, key, queue, running, is_waiting, alive, deaths, max_active>>
    BY <1>3 DEF Sweep, Break, SendFails
  <2>. QED BY <1>0, <2>1, <2>2 DEF TaskType
<1>4. CASE Route
  <2>1. route[hand] \in AllKeys
    BY <1>0, <1>4, HandKey DEF Route
  <2>2. CASE UNCHANGED tasks
    BY <1>1, <2>2
  <2>3. ASSUME NEW t \in Tasks, Spawn(t) PROVE TaskType'
    <3>1. key' \in [Tasks -> AllKeys] /\ open' \in [Tasks -> BOOLEAN] /\ alive' \in [Tasks -> BOOLEAN]
      BY <1>0, <2>1, <2>3 DEF Spawn, TaskType
    <3>2. spawned' \in 0..MaxTasks
      BY <1>0, <2>3 DEF Spawn, TaskType, Tasks
    <3>3. UNCHANGED <<queue, running, is_waiting, deaths, max_active>>
      BY <2>3 DEF Spawn
    <3>. QED BY <1>0, <3>1, <3>2, <3>3 DEF TaskType
  <2>. QED BY <1>4, <2>2, <2>3 DEF Route
<1>5. CASE Send
  <2>1. target \in Tasks /\ hand \in Updates
    BY <1>0, <1>5, HandKey DEF Send, LoopInv, LoopType
  <2>. DEFINE q == Append(queue[target], hand)
  <2>2. q \in Seq(Updates) /\ Len(q) <= QueueSize
    <3>1. queue[target] \in Seq(Updates) /\ Len(queue[target]) < QueueSize
      BY <1>0, <1>5, <2>1 DEF Send, HasRoom, TaskType
    <3>2. Len(q) = Len(queue[target]) + 1 /\ q \in Seq(Updates) /\ Len(queue[target]) \in Nat
      BY <2>1, <3>1, AppendProperties, LenProperties
    <3>. QED BY <3>1, <3>2, Numbers
  <2>3. queue' = [queue EXCEPT ![target] = q]
    BY <1>5 DEF Send
  <2>. HIDE DEF q
  <2>4. queue' \in [Tasks -> Seq(Updates)] /\ \A t \in Tasks : Len(queue'[t]) <= QueueSize
    BY <1>0, <2>1, <2>2, <2>3 DEF TaskType
  <2>5. UNCHANGED <<spawned, key, open, running, is_waiting, alive, deaths, max_active>>
    BY <1>5 DEF Send
  <2>. QED BY <1>0, <2>4, <2>5 DEF TaskType
<1>6. ASSUME NEW t \in Tasks, Take(t) PROVE TaskType'
  <2>1. queue[t] # <<>> /\ queue' = [queue EXCEPT ![t] = Tail(queue[t])]
        /\ running' = [running EXCEPT ![t] = running[t] \cup {Head(queue[t])}]
        /\ UNCHANGED <<spawned, key, open, is_waiting, alive, deaths, max_active>>
    BY <1>6 DEF Take, Takes
  <2>2. /\ Head(queue[t]) \in Updates /\ Tail(queue[t]) \in Seq(Updates)
        /\ Len(Tail(queue[t])) <= QueueSize
    BY <1>0, <2>1, HeadQueue, Numbers DEF TaskType
  <2>3. queue' \in [Tasks -> Seq(Updates)] /\ \A s \in Tasks : Len(queue'[s]) <= QueueSize
    BY <1>0, <2>1, <2>2 DEF TaskType
  <2>4. running' \in [Tasks -> SUBSET Updates]
    BY <1>0, <2>1, <2>2 DEF TaskType
  <2>. QED BY <1>0, <2>1, <2>3, <2>4 DEF TaskType
<1>7. ASSUME NEW t \in Tasks, Begin(t) PROVE TaskType'
  <2>1. is_waiting' \in [Tasks -> BOOLEAN]
    BY <1>0, <1>7 DEF Begin, TaskType
  <2>2. max_active' \in 0..Cardinality(Keys)
    BY <1>0, <1>7, ActiveBound DEF Begin, AtLeast, TaskType
  <2>3. UNCHANGED <<spawned, key, queue, open, running, alive, deaths>>
    BY <1>7 DEF Begin
  <2>. QED BY <1>0, <2>1, <2>2, <2>3 DEF TaskType
<1>8. ASSUME NEW t \in Tasks, End(t) \/ Finish(t) PROVE TaskType'
  <2>1. alive' \in [Tasks -> BOOLEAN] /\ is_waiting' \in [Tasks -> BOOLEAN]
        /\ running' \in [Tasks -> SUBSET Updates]
    <3>1. CASE End(t)
      BY <1>0, <3>1 DEF End, TaskType
    <3>2. CASE Finish(t)
      <4>1. PICK u \in running[t] : /\ running' = [running EXCEPT ![t] = running[t] \ {u}]
                                    /\ is_waiting' = [is_waiting EXCEPT ![t] = TRUE]
                                    /\ alive' = alive
        BY <3>2 DEF Finish
      <4>. QED BY <1>0, <4>1 DEF TaskType
    <3>. QED BY <1>8, <3>1, <3>2
  <2>2. UNCHANGED <<spawned, key, queue, open, deaths, max_active>>
    BY <1>8 DEF End, Finish
  <2>. QED BY <1>0, <2>1, <2>2 DEF TaskType
<1>9. ASSUME NEW t \in Tasks, Die(t) PROVE TaskType'
  <2>1. alive' \in [Tasks -> BOOLEAN] /\ running' \in [Tasks -> SUBSET Updates]
        /\ deaths' \in 0..MaxDeaths
    BY <1>0, <1>9 DEF Die, TaskType
  <2>2. queue' \in [Tasks -> Seq(Updates)] /\ \A s \in Tasks : Len(queue'[s]) <= QueueSize
    BY <1>0, <1>9, EmptySeq, Numbers DEF Die, TaskType
  <2>3. UNCHANGED <<spawned, key, open, is_waiting, max_active>>
    BY <1>9 DEF Die
  <2>. QED BY <1>0, <2>1, <2>2, <2>3 DEF TaskType
<1>. QED BY <1>2, <1>3, <1>4, <1>5, <1>6, <1>7, <1>8, <1>9 DEF Next, Loop, Work, Abort

LEMMA QueuedUpdates ==
  ASSUME TaskType, NEW t \in Tasks
  PROVE  Queued(t) \subseteq Updates /\ running[t] \subseteq Updates
<1>1. queue[t] \in Seq(Updates)
  BY DEF TaskType
<1>2. \A i \in DOMAIN queue[t] : queue[t][i] \in Updates
  BY <1>1, LenProperties, ElementOfSeq
<1>. QED BY <1>2 DEF Queued, TaskType

LEMMA HistoryTypes ==
  ASSUME TypeOK, LoopInv, Next
  PROVE  HistoryType'
<1>0. LoopType /\ TaskType /\ HistoryType
  BY TypeSplits
<1>1. CASE UNCHANGED history
  BY <1>0, <1>1 DEF history, HistoryType
<1>2. CASE PollListener
  <2>1. given' \subseteq Updates /\ lost' \subseteq Updates /\ handled' = handled
    BY <1>0, <1>2 DEF PollListener, HistoryType
  <2>2. unacked' \in BOOLEAN
    BY <1>2, Zenon DEF PollListener
  <2>. QED BY <1>0, <2>1, <2>2 DEF HistoryType
<1>3. CASE SendFails
  <2>1. hand \in Updates
    BY <1>0, <1>3, HandKey DEF SendFails
  <2>. QED BY <1>0, <1>3, <2>1 DEF SendFails, HistoryType
<1>4. ASSUME NEW t \in Tasks, Finish(t) \/ Die(t) PROVE HistoryType'
  <2>1. running[t] \subseteq Updates /\ Queued(t) \subseteq Updates
    BY <1>0, QueuedUpdates
  <2>2. /\ given' = given /\ unacked' = unacked
        /\ handled' = handled \/ \E u \in running[t] : handled' = handled \cup {u}
        /\ lost' = lost \/ lost' = lost \cup running[t] \cup Queued(t)
    BY <1>4 DEF Finish, Die, Queued
  <2>. QED BY <1>0, <2>1, <2>2 DEF HistoryType
<1>5. CASE \/ Start \/ Sweep \/ Reap \/ Park \/ SeeChange \/ Unpark \/ Route \/ Send \/ Break
           \/ AwaitWorkers \/ (Done /\ UNCHANGED history) \/ User \/ Wire
           \/ \E c \in Callers : Caller(c)
  BY <1>1, <1>5 DEF Start, Sweep, Reap, Park, SeeChange, Unpark, Route, Send, Break,
                    AwaitWorkers, User, Wire, Caller
<1>. QED BY <1>1, <1>2, <1>3, <1>4, <1>5 DEF Next, Loop, Work, Abort

-----------------------------------------------------------------------------
(* The loop and its workers.                                               *)

\* What a task's own step leaves alone, and that it starts no task.
LEMMA TaskKeeps ==
  ASSUME TaskType, NEW t \in Tasks, Work(t) \/ Abort(t)
  PROVE  /\ UNCHANGED <<token, polling, loop, spawned, key, open, given, unacked>>
         /\ \A s \in Tasks : alive'[s] => alive[s]
         /\ \A s \in Tasks : s # t =>
              alive'[s] = alive[s] /\ queue'[s] = queue[s] /\ running'[s] = running[s]
         /\ \A s \in Tasks : ~alive[s] /\ queue[s] = <<>> /\ running[s] = {} =>
              queue'[s] = <<>> /\ running'[s] = {}
<1>1. UNCHANGED <<token, polling, loop, spawned, key, open, given, unacked>>
  BY DEF Work, Abort, Take, Begin, End, Finish, Die, history
<1>2. \A s \in Tasks : alive'[s] => alive[s]
  BY DEF Work, Abort, Take, Begin, End, Finish, Die, TaskType
<1>3. \A s \in Tasks : s # t =>
        alive'[s] = alive[s] /\ queue'[s] = queue[s] /\ running'[s] = running[s]
  BY DEF Work, Abort, Take, Begin, End, Finish, Die, TaskType
<1>4. ~alive[t] /\ running[t] = {} => FALSE
  BY DEF Work, Abort, Take, Takes, Begin, End, Finish, Die
<1>. QED BY <1>1, <1>2, <1>3, <1>4

LEMMA LoopStep ==
  ASSUME TypeOK, LoopInv, TaskInv, Next
  PROVE  LoopInv'
<1>0. LoopType /\ TaskType /\ 0 \notin Updates /\ 0 \notin Tasks
  BY TypeSplits, Numbers
<1>1. CASE Start
  BY <1>1 DEF Start, tasks, LoopInv, Settled
<1>2. CASE Sweep
  BY <1>2 DEF Sweep, LoopInv, Settled
<1>3. CASE Reap \/ Park \/ SeeChange \/ Unpark
  BY <1>3 DEF Reap, Park, SeeChange, Unpark, LoopInv, Settled
<1>4. CASE PollListener
  <2>1. PICK item \in {Pending, None, Error} \cup Updates :
          /\ pc' = CASE item = Pending -> "wait"
                     [] item = None -> "break"
                     [] item = Error -> "sweep"
                     [] OTHER -> IF route[item] = Unroutable THEN "sweep" ELSE "route"
          /\ hand' = IF item \in Updates /\ route[item] # Unroutable THEN item ELSE 0
    BY <1>4 DEF PollListener
  <2>2. pc = "poll" /\ UNCHANGED <<route, target, worker, reaping>>
    BY <1>4 DEF PollListener
  <2>3. Pending \notin Updates /\ None \notin Updates /\ Error \notin Updates
    BY Numbers DEF Pending, None, Error, Updates
  <2>4. /\ hand' # 0 <=> pc' \in {"route", "send"}
        /\ hand' # 0 => route'[hand'] # Unroutable
        /\ pc' \in {"wait", "break", "sweep", "route"}
    BY <1>0, <2>1, <2>2, <2>3
  <2>. QED BY <2>2, <2>4 DEF LoopInv, Settled
<1>5. CASE Route
  <2>1. target' # 0
    BY <1>0, <1>5 DEF Route, Spawn
  <2>. QED BY <1>5, <2>1 DEF Route, LoopInv, Settled
<1>6. CASE Send
  BY <1>6 DEF Send, Delivered, LoopInv, Settled
<1>7. CASE SendFails
  BY <1>7 DEF SendFails, LoopInv, Settled
<1>8. CASE Break
  BY <1>8 DEF Break, LoopInv, Settled
<1>9. CASE AwaitWorkers
  <2>1. \A t \in Tasks : ~alive[t]
    <3>. SUFFICES ASSUME NEW t \in Tasks, alive[t] PROVE FALSE
      OBVIOUS
    <3>1. key[t] \in AllKeys
      BY <1>0 DEF TaskType
    <3>2. worker[key[t]] = 0 /\ target = 0
      BY <1>9, <3>1 DEF AwaitWorkers, LoopInv
    <3>3. t \in reaping
      BY <1>0, <3>2 DEF TaskInv
    <3>. QED BY <1>9, <3>3 DEF AwaitWorkers, Ended
  <2>. QED BY <1>9, <2>1 DEF AwaitWorkers, LoopInv, Settled, tasks
<1>10. CASE Done /\ UNCHANGED <<polling, route, hand, target, retried, worker, reaping, runs, tasks, history>>
  BY <1>10 DEF Done, LoopInv, Settled, tasks
<1>11. CASE \E t \in Tasks : Work(t) \/ Abort(t)
  BY <1>0, <1>11, TaskKeeps DEF LoopInv, loop
<1>12. CASE User \/ Wire \/ \E c \in Callers : Caller(c)
  BY <1>12 DEF User, Wire, Caller, LoopInv, loop, tasks
<1>. QED BY <1>1, <1>2, <1>3, <1>4, <1>5, <1>6, <1>7, <1>8, <1>9, <1>10, <1>11, <1>12
         DEF Next, Loop

LEMMA TaskInvStep ==
  ASSUME TypeOK, LoopInv, TaskInv, Next
  PROVE  TaskInv'
<1>0. /\ LoopType /\ TaskType /\ 0 \notin Tasks /\ Tasks \subseteq Nat /\ spawned \in Nat
      /\ key \in [Tasks -> AllKeys] /\ worker \in [AllKeys -> Tasks \cup {0}]
  BY SMTT(30), TypeSplits, Numbers DEF TaskType, LoopType
<1>1. CASE UNCHANGED <<worker, target, reaping, spawned, key, queue, running, alive, route>>
           /\ (target # 0 => hand' = hand)
  BY <1>1 DEF TaskInv
<1>2. CASE \/ Start \/ Park \/ SeeChange \/ Unpark \/ User \/ Wire
           \/ (\E c \in Callers : Caller(c))
           \/ (Done /\ UNCHANGED <<polling, route, hand, target, retried, worker, reaping, runs, tasks, history>>)
  BY <1>1, <1>2 DEF Start, Park, SeeChange, Unpark, User, Wire, Caller, tasks, loop
<1>3. CASE PollListener
  <2>1. UNCHANGED <<worker, target, reaping, spawned, key, queue, running, alive, route>>
        /\ target = 0
    BY <1>3 DEF PollListener, tasks, LoopInv
  <2>. QED BY <1>1, <2>1
<1>4. CASE Sweep
  <2>1. target = 0 /\ target' = 0 /\ reaping = {}
        /\ UNCHANGED <<spawned, key, queue, running, alive>>
    BY <1>4 DEF Sweep, LoopInv
  <2>2. CASE Cardinality(Held) <= max_active
    <3>1. UNCHANGED <<worker, reaping>>
      BY <1>4, <2>2 DEF Sweep
    <3>. QED BY <2>1, <3>1 DEF TaskInv
  <2>3. CASE ~(Cardinality(Held) <= max_active)
    <3>. DEFINE idle == {k \in Held : Inactive(worker[k])}
    <3>1. /\ worker' = [k \in AllKeys |-> IF k \in idle THEN 0 ELSE worker[k]]
          /\ reaping' = {worker[k] : k \in idle}
      BY <1>4, <2>3 DEF Sweep
    <3>. HIDE DEF idle
    <3>2. \A t \in Tasks : alive[t] => worker'[key[t]] = t \/ t \in reaping'
      BY <1>0, <2>1, <3>1 DEF TaskInv
    <3>3. \A k \in AllKeys : worker'[k] = 0 \/ worker'[k] = worker[k]
      BY <3>1
    <3>4. \A k \in AllKeys : worker'[k] # 0 => key[worker'[k]] = k
      BY <3>3 DEF TaskInv
    <3>5. \A t \in Tasks : t > spawned => \A k \in AllKeys : worker'[k] # t
      BY <1>0, <3>3 DEF TaskInv
    <3>. QED BY <2>1, <3>2, <3>4, <3>5 DEF TaskInv
  <2>. QED BY <2>2, <2>3
<1>5. CASE Reap \/ AwaitWorkers
  <2>1. \A t \in reaping : ~alive[t]
    BY <1>5 DEF Reap, AwaitWorkers, Ended
  <2>2. UNCHANGED <<worker, target, spawned, key, queue, running, alive, route, hand>>
    BY <1>5 DEF Reap, AwaitWorkers, tasks
  <2>. QED BY <2>1, <2>2 DEF TaskInv
<1>6. CASE Break
  <2>1. target = 0 /\ target' = 0 /\ reaping = {} /\ reaping' = Kept
        /\ worker' = [k \in AllKeys |-> 0]
        /\ UNCHANGED <<spawned, key, queue, running, alive>>
    BY <1>6 DEF Break, LoopInv
  <2>2. \A t \in Tasks : alive[t] => t \in Kept
    BY <1>0, <2>1 DEF TaskInv, Kept
  <2>. QED BY <1>0, <2>1, <2>2 DEF TaskInv
<1>7. CASE Route
  <2>. DEFINE k == route[hand]
  <2>1. k \in AllKeys /\ target = 0 /\ reaping = {} /\ reaping' = {}
        /\ worker' = [worker EXCEPT ![k] = 0] /\ UNCHANGED <<route, hand>>
    BY <1>0, <1>7, HandKey DEF Route, LoopInv
  <2>2. CASE worker[k] # 0
    <3>1. target' = worker[k] /\ UNCHANGED <<spawned, key, queue, running, alive>>
      BY <1>7, <2>2 DEF Route, tasks
    <3>. HIDE DEF k
    <3>2. \A t \in Tasks : alive[t] => worker'[key[t]] = t \/ target' = t
      BY <1>0, <2>1, <3>1 DEF TaskInv
    <3>3. key[target'] = k
      BY <2>1, <2>2, <3>1 DEF TaskInv
    <3>4. \A j \in AllKeys : worker'[j] \in {0, worker[j]}
      BY <1>0, <2>1
    <3>5. key'[target'] = route'[hand']
      BY <2>1, <3>1, <3>3 DEF k
    <3>. QED BY <1>0, <2>1, <3>1, <3>2, <3>4, <3>5 DEF TaskInv
  <2>3. CASE worker[k] = 0
    <3>1. PICK t \in Tasks : Spawn(t)
      BY <1>7, <2>3 DEF Route
    <3>2. /\ t > spawned /\ spawned' = t /\ key' = [key EXCEPT ![t] = k] /\ target' = t
          /\ alive' = [alive EXCEPT ![t] = TRUE] /\ UNCHANGED <<queue, running>>
      BY <1>0, <3>1 DEF Spawn
    <3>. HIDE DEF k
    <3>3. \A s \in Tasks : s # t => key'[s] = key[s] /\ alive'[s] = alive[s]
      BY <1>0, <3>2 DEF TaskType
    <3>4. key'[t] = k
      BY <1>0, <3>2
    <3>5. \A s \in Tasks : alive[s] => key[s] # k /\ worker[key[s]] = s
      BY <1>0, <2>1, <2>3 DEF TaskInv
    <3>6. \A j \in AllKeys : worker'[j] \in {0, worker[j]} /\ (j # k => worker'[j] = worker[j])
      BY <1>0, <2>1
    <3>7. ~alive[t] /\ \A j \in AllKeys : worker[j] # t
      BY <3>2 DEF TaskInv
    <3>8. \A s \in Tasks : alive'[s] => worker'[key'[s]] = s \/ target' = s \/ s \in reaping'
      BY <1>0, <3>2, <3>3, <3>5, <3>6
    <3>9. \A r, s \in Tasks : alive'[r] /\ alive'[s] /\ key'[r] = key'[s] => r = s
      BY <3>3, <3>4, <3>5 DEF TaskInv
    <3>10. \A j \in AllKeys : worker'[j] # 0 => key'[worker'[j]] = j
      <4>. SUFFICES ASSUME NEW j \in AllKeys, worker'[j] # 0 PROVE key'[worker'[j]] = j
        OBVIOUS
      <4>1. worker'[j] = worker[j] /\ worker[j] # 0
        BY <3>6
      <4>2. worker[j] \in Tasks /\ worker[j] # t
        BY <1>0, <3>7, <4>1
      <4>. QED BY <3>3, <4>1, <4>2 DEF TaskInv
    <3>11. key'[target'] = route'[hand']
      BY <2>1, <3>2, <3>4 DEF k
    <3>12. \A s \in Tasks : s > spawned' =>
             ~alive'[s] /\ queue'[s] = <<>> /\ running'[s] = {} /\ \A j \in AllKeys : worker'[j] # s
      <4>. SUFFICES ASSUME NEW s \in Tasks, s > spawned'
           PROVE ~alive'[s] /\ queue'[s] = <<>> /\ running'[s] = {} /\ \A j \in AllKeys : worker'[j] # s
        OBVIOUS
      <4>1. s > spawned /\ s # t /\ s # 0
        BY <1>0, <3>2
      <4>2. ~alive[s] /\ queue[s] = <<>> /\ running[s] = {} /\ \A j \in AllKeys : worker[j] # s
        BY <4>1 DEF TaskInv
      <4>. QED BY <3>2, <3>3, <3>6, <4>1, <4>2
    <3>. QED BY <3>8, <3>9, <3>10, <3>11, <3>12 DEF TaskInv
  <2>. QED BY <2>2, <2>3
<1>8. CASE Send
  <2>1. /\ target' = 0 /\ UNCHANGED <<reaping, spawned, key, running, alive>>
        /\ worker' = [worker EXCEPT ![route[hand]] = target]
        /\ queue' = [queue EXCEPT ![target] = Append(queue[target], hand)]
        /\ alive[target] /\ target # 0 /\ target \in Tasks
    BY <1>0, <1>8 DEF Send, Delivered, LoopInv, LoopType
  <2>2. route[hand] \in AllKeys /\ key[target] = route[hand]
    BY <1>0, <1>8, <2>1, HandKey DEF Send, TaskInv
  <2>3. /\ worker'[key[target]] = target
        /\ \A k \in AllKeys : k # key[target] => worker'[k] = worker[k]
    BY <1>0, <2>1, <2>2
  <2>4. \A t \in Tasks : t > spawned => t # target
    BY <2>1 DEF TaskInv
  <2>5. \A t \in Tasks : t # target => queue'[t] = queue[t]
    BY <1>0, <2>1 DEF TaskType
  <2>6. \A t \in Tasks : alive[t] => worker'[key[t]] = t \/ t \in reaping
    BY <1>0, <2>1, <2>3 DEF TaskInv
  <2>7. \A k \in AllKeys : worker'[k] # 0 => key[worker'[k]] = k
    BY <2>3 DEF TaskInv
  <2>8. \A t \in Tasks : t > spawned =>
          ~alive[t] /\ queue'[t] = <<>> /\ running[t] = {} /\ \A k \in AllKeys : worker'[k] # t
    BY <1>0, <2>3, <2>4, <2>5 DEF TaskInv
  <2>. QED BY <2>1, <2>6, <2>7, <2>8 DEF TaskInv
<1>9. CASE SendFails
  <2>1. target' = 0 /\ UNCHANGED <<worker, reaping, spawned, key, queue, running, alive>>
        /\ ~alive[target]
    BY <1>9 DEF SendFails
  <2>. QED BY <2>1 DEF TaskInv
<1>10. ASSUME NEW t \in Tasks, Work(t) \/ Abort(t) PROVE TaskInv'
  <2>1. UNCHANGED <<worker, target, reaping, spawned, key, route, hand>>
    BY <1>0, <1>10, TaskKeeps DEF loop
  <2>2. /\ \A s \in Tasks : alive'[s] => alive[s]
        /\ \A s \in Tasks : ~alive[s] /\ queue[s] = <<>> /\ running[s] = {} =>
              queue'[s] = <<>> /\ running'[s] = {}
    BY <1>0, <1>10, TaskKeeps
  <2>. QED BY <2>1, <2>2 DEF TaskInv
<1>. QED BY <1>2, <1>3, <1>4, <1>5, <1>6, <1>7, <1>8, <1>9, <1>10 DEF Next, Loop

-----------------------------------------------------------------------------
(* What was given and what was acknowledged.                               *)

\* A request that reaches the server confirms only what was yielded before,
\* or throws away what it finds.
LEMMA ReachCovers ==
  ASSUME PollingTypeOK, StreamInv, in_flight = "sent", Reach(request)
  PROVE  /\ confirmed' \in Nat /\ discarded' \in Nat
         /\ confirmed <= confirmed' /\ discarded <= discarded'
         /\ \A u \in 1..confirmed' : u <= confirmed \/ u < Upcoming \/ u <= discarded'
<1>1. /\ request.offset \in {-1, offset} /\ buffer = <<>> /\ Upcoming = offset
      /\ confirmed' = Confirmed(request) /\ discarded' = Discarded(request)
  BY InFlightRequest, PollingNumbers DEF StreamInv, Reach
<1>2. /\ Confirmed(request) \in confirmed..sent /\ Discarded(request) \in discarded..sent
      /\ request.offset = -1 => Discarded(request) = sent
      /\ request.offset <= Confirmed(request) + 1
  BY FoundUpdates, InFlightRequest DEF PollingTypeOK
<1>3. request.offset # -1 => Confirmed(request) \in {confirmed, offset - 1}
  BY <1>1 DEF Confirmed, AtLeast
<1>. QED BY <1>1, <1>2, <1>3, PollingNumbers

\* What one poll yields, and how far it moves.
LEMMA PollYields ==
  ASSUME PollingTypeOK, StreamInv, NEW item, PollStream(item)
  PROVE  /\ Upcoming \in Int /\ Upcoming' \in Int
         /\ \/ /\ item \in Updates /\ item = Upcoming /\ Upcoming' = Upcoming + 1
               /\ buffer # <<>>
            \/ /\ item \in {Pending, None, Error} /\ item \notin Updates
               /\ Upcoming <= Upcoming'
               /\ \A u \in Upcoming..(Upcoming' - 1) : u <= confirmed \/ u <= discarded
         /\ confirmed' \in Nat /\ confirmed <= confirmed'
         /\ discarded' \in Nat /\ discarded <= discarded'
         /\ \A u \in 1..confirmed' : u <= confirmed \/ u < Upcoming \/ u <= discarded'
         /\ force_stop' => force_stop \/ (stopping /\ item = Error)
         /\ item = None => force_stop \/ Upcoming' <= confirmed' + 1
<1>0. Pending \notin Updates /\ None \notin Updates /\ Error \notin Updates
      /\ None # Pending /\ None # Error
  BY Numbers DEF Pending, None, Error, Updates
<1>1. CASE Forced(item) \/ SendRequest(item) \/ AwaitAnswer(item) \/ Asleep(item)
           \/ StartRequest(item) \/ TakeError(item)
  <2>1. /\ UNCHANGED <<confirmed, discarded, offset, buffer, force_stop>>
        /\ item \in {Pending, None, Error} /\ (item = None => force_stop)
    BY <1>0, <1>1 DEF Forced, SendRequest, AwaitAnswer, Asleep, StartRequest, TakeError, stream,
                forgotten
  <2>2. Upcoming' = Upcoming
    BY <2>1 DEF Upcoming
  <2>. QED BY <1>0, <2>1, <2>2, PollingNumbers
<1>2. CASE YieldBuffered(item)
  <2>1. /\ UNCHANGED <<confirmed, discarded, offset, force_stop>>
        /\ item = Head(buffer) /\ buffer # <<>> /\ buffer' = Tail(buffer)
    BY <1>2 DEF YieldBuffered, Buffered, forgotten
  <2>2. item = Upcoming /\ Upcoming \in Updates /\ Upcoming' = Upcoming + 1
    BY <2>1, TailBuffer
  <2>. QED BY <1>0, <2>1, <2>2, PollingNumbers
<1>3. CASE BeginStop(item)
  <2>1. /\ UNCHANGED <<offset, buffer, force_stop>> /\ item = Pending
        /\ UNCHANGED forgotten \/ (in_flight = "sent" /\ Reach(request))
    BY <1>3 DEF BeginStop
  <2>2. Upcoming' = Upcoming
    BY <2>1 DEF Upcoming
  <2>3. /\ confirmed' \in Nat /\ confirmed <= confirmed'
        /\ discarded' \in Nat /\ discarded <= discarded'
        /\ \A u \in 1..confirmed' : u <= confirmed \/ u < Upcoming \/ u <= discarded'
    BY <2>1, ReachCovers, PollingNumbers DEF forgotten
  <2>. QED BY <1>0, <2>1, <2>2, <2>3, PollingNumbers
<1>4. CASE FinishStop(item)
  <2>1. /\ UNCHANGED <<confirmed, discarded, offset, buffer>> /\ buffer = <<>> /\ stopping
        /\ in_flight \in {"answered", "failed"}
        /\ force_stop' <=> in_flight = "failed"
        /\ item = IF in_flight = "failed" THEN Error ELSE None
    BY <1>4 DEF FinishStop, Working, Buffered, forgotten
  <2>2. Upcoming' = Upcoming /\ Upcoming = offset
    BY <2>1, PollingNumbers DEF Upcoming
  <2>3. item = None => offset <= confirmed + 1
    BY <1>0, <2>1, InFlightRequest DEF StreamInv
  <2>. QED BY <1>0, <2>1, <2>2, <2>3, PollingNumbers
<1>5. CASE TakeAnswer(item)
  <2>1. /\ UNCHANGED <<confirmed, discarded, force_stop>> /\ item = Pending
    BY <1>5 DEF TakeAnswer, forgotten
  <2>. QED BY <1>0, <1>5, <2>1, AnswerTaken, PollingNumbers
<1>. QED BY <1>1, <1>2, <1>3, <1>4, <1>5 DEF PollStream

LEMMA ServerMoves ==
  ASSUME PollingTypeOK, StreamInv, Receive \/ Network
  PROVE  /\ confirmed' \in Nat /\ confirmed <= confirmed'
         /\ discarded' \in Nat /\ discarded <= discarded'
         /\ \A u \in 1..confirmed' : u <= confirmed \/ u < Upcoming \/ u <= discarded'
         /\ Upcoming' = Upcoming /\ force_stop' = force_stop
<1>1. \/ UNCHANGED forgotten
      \/ in_flight = "sent" /\ Reach(request)
  BY DEF Receive, Network, Answer, Fail, SleepEnds, forgotten
<1>2. force_stop' = force_stop
  BY DEF Receive, Network, Answer, Fail, SleepEnds, stream
<1>. QED BY <1>1, <1>2, ReachCovers, ServerKeepsStream, PollingNumbers DEF forgotten

LEMMA GivenStep ==
  ASSUME TypeOK, StreamInv, GivenInv, Next
  PROVE  GivenInv'
<1>0. PollingTypeOK /\ given \subseteq Updates /\ Updates \subseteq Nat
      /\ (\A u \in Updates : u >= 1) /\ given \subseteq Nat
  BY TypeSplits DEF HistoryType, Updates
<1>1. CASE Start
  <2>1. UNCHANGED <<confirmed, discarded, given, unacked>> /\ pc = "idle"
    BY <1>1 DEF Start, history
  <2>2. Upcoming' = 0 /\ ~force_stop'
    BY <1>0, <1>1, FreshKeeps DEF Start
  <2>. QED BY <1>0, <2>1, <2>2 DEF GivenInv, ConfirmedWasGiven, Over, Settled
<1>2. CASE PollListener
  <2>1. PICK item \in {Pending, None, Error} \cup Updates :
          /\ PollStream(item)
          /\ pc' = CASE item = Pending -> "wait"
                     [] item = None -> "break"
                     [] item = Error -> "sweep"
                     [] OTHER -> IF route[item] = Unroutable THEN "sweep" ELSE "route"
          /\ given' = given \cup ({item} \cap Updates)
          /\ unacked' = (unacked \/ (stopping /\ item = Error))
    BY <1>2 DEF PollListener
  <2>2. item # None => pc' \notin Over
    BY <2>1 DEF Over, Settled
  <2>3. /\ Upcoming \in Int /\ Upcoming' \in Int /\ confirmed' \in Nat
        /\ confirmed <= confirmed' /\ discarded \in Nat /\ discarded' \in Nat
        /\ confirmed \in Nat /\ discarded <= discarded'
        /\ \A u \in 1..confirmed' : u <= confirmed \/ u < Upcoming \/ u <= discarded'
        /\ Upcoming <= Upcoming'
        /\ item \in Updates => item = Upcoming /\ Upcoming' = Upcoming + 1
        /\ item \notin Updates =>
             \A u \in Upcoming..(Upcoming' - 1) : u <= confirmed \/ u <= discarded
    BY <1>0, <2>1, PollYields, PollingNumbers
  <2>4. \A u \in 1..(Upcoming - 1) : u \in given \/ u <= discarded
    BY DEF GivenInv
  <2>5. \A u \in 1..confirmed : u \in given \/ u <= discarded
    BY DEF GivenInv, ConfirmedWasGiven
  <2>6. given \subseteq given' /\ (item \in Updates => item \in given')
    BY <2>1
  <2>7. \A u \in 1..(Upcoming' - 1) : u \in given' \/ u <= discarded'
    <3>. SUFFICES ASSUME NEW u \in 1..(Upcoming' - 1) PROVE u \in given' \/ u <= discarded'
      OBVIOUS
    <3>1. CASE u < Upcoming
      BY <1>0, <2>3, <2>4, <2>6, <3>1, PollingNumbers
    <3>2. CASE u >= Upcoming /\ item \in Updates
      BY <2>3, <2>6, <3>2
    <3>3. CASE u >= Upcoming /\ item \notin Updates
      <4>0. Upcoming \in Int /\ Upcoming' \in Int
        BY <2>3
      <4>1. u \in Upcoming..(Upcoming' - 1) /\ u \in Nat /\ u >= 1
        <5>1. \A a, b \in Int : \A v \in 1..(b - 1) : v >= a => v \in a..(b - 1) /\ v \in Nat /\ v >= 1
          OBVIOUS
        <5>. QED BY <3>3, <4>0, <5>1, Zenon
      <4>2. CASE u <= confirmed
        <5>1. u \in 1..confirmed
          BY <2>3, <4>1, <4>2
        <5>. QED BY <2>3, <2>5, <2>6, <4>1, <5>1
      <4>3. CASE u <= discarded
        BY <2>3, <4>1, <4>3
      <4>4. u <= confirmed \/ u <= discarded
        BY <2>3, <3>3, <4>1
      <4>. QED BY <4>2, <4>3, <4>4
    <3>. QED BY <2>3, <3>1, <3>2, <3>3
  <2>8. \A u \in 1..confirmed' : u \in given' \/ u <= discarded'
    <3>. SUFFICES ASSUME NEW u \in 1..confirmed' PROVE u \in given' \/ u <= discarded'
      OBVIOUS
    <3>1. u <= confirmed \/ u < Upcoming \/ u <= discarded'
      BY <2>3
    <3>. QED BY <1>0, <2>3, <2>4, <2>5, <2>6, <3>1, PollingNumbers
  <2>9. force_stop' => unacked'
    BY <1>0, <2>1, PollYields DEF GivenInv
  <2>10. ASSUME ~unacked', NEW u \in given'
         PROVE  u <= confirmed' \/ (u < Upcoming' /\ pc' \notin Over)
    <3>1. ~unacked /\ ~force_stop
      BY <2>1, <2>10 DEF GivenInv
    <3>2. CASE u \in given
      <4>1. u <= confirmed \/ u < Upcoming
        BY <3>1, <3>2 DEF GivenInv
      <4>2. item = None => Upcoming' <= confirmed' + 1
        BY <1>0, <2>1, <3>1, PollYields
      <4>3. u \in Nat
        BY <1>0, <3>2
      <4>4. CASE u <= confirmed
        BY <2>3, <4>3, <4>4
      <4>5. CASE u < Upcoming /\ item # None
        BY <2>2, <2>3, <4>3, <4>5
      <4>6. CASE u < Upcoming /\ item = None
        <5>1. Upcoming' <= confirmed' + 1 /\ Upcoming <= Upcoming' /\ confirmed' \in Nat
              /\ Upcoming \in Int /\ Upcoming' \in Int
          BY <2>3, <4>2, <4>6
        <5>2. \A n, m \in Nat, a, b \in Int : n < a /\ a <= b /\ b <= m + 1 => n <= m
          OBVIOUS
        <5>. QED BY <4>3, <4>6, <5>1, <5>2, Zenon
      <4>. QED BY <4>1, <4>4, <4>5, <4>6
    <3>3. CASE u \notin given
      <4>1. u = item /\ item \in Updates
        BY <2>1, <2>10, <3>3
      <4>2. None \notin Updates
        BY Numbers DEF None, Updates
      <4>. QED BY <2>2, <2>3, <4>1, <4>2
    <3>. QED BY <3>2, <3>3
  <2>. QED BY <2>7, <2>8, <2>9, <2>10 DEF GivenInv, ConfirmedWasGiven
<1>3. CASE User \/ Wire
  <2>1. UNCHANGED <<given, unacked, pc>>
    BY <1>3 DEF User, Wire, loop, history
  <2>2. /\ confirmed' \in Nat /\ confirmed <= confirmed'
        /\ discarded' \in Nat /\ discarded <= discarded'
        /\ \A u \in 1..confirmed' : u <= confirmed \/ u < Upcoming \/ u <= discarded'
        /\ Upcoming' = Upcoming /\ force_stop' = force_stop
    BY <1>0, <1>3, ServerMoves DEF User, Wire
  <2>3. PollingTypeOK'
    BY <1>0, <1>3, ServerTypes DEF User, Wire
  <2>4. discarded' \in Nat /\ Upcoming \in Int
    BY <1>0, <2>3, PollingNumbers DEF PollingTypeOK
  <2>5. \A u \in 1..confirmed' : u \in given \/ u <= discarded'
    BY <2>2, <2>4, PollingNumbers, <1>0 DEF GivenInv, ConfirmedWasGiven
  <2>6. \A u \in 1..(Upcoming - 1) : u \in given \/ u <= discarded'
    BY <2>2, <2>4, PollingNumbers, <1>0 DEF GivenInv
  <2>7. ~unacked => \A u \in given : u <= confirmed' \/ (u < Upcoming /\ pc \notin Over)
    BY <2>2, PollingNumbers, <1>0 DEF GivenInv
  <2>. QED BY <2>1, <2>2, <2>5, <2>6, <2>7 DEF GivenInv, ConfirmedWasGiven
<1>4. CASE ~Start /\ ~PollListener /\ ~User /\ ~Wire
  <2>1. UNCHANGED <<confirmed, discarded, force_stop>> /\ Upcoming' = Upcoming
    BY <1>4, QuietStream DEF stream, Upcoming
  <2>2. UNCHANGED <<given, unacked>>
    BY <1>4, TaskKeeps, TypeSplits
       DEF Next, Loop, Sweep, Reap, Park, SeeChange, Unpark, Route, Send, SendFails, Break,
           AwaitWorkers, Caller, history
  <2>3. pc' \in Over => pc \in Over
    <3>1. CASE Loop
      BY <1>4, <3>1
         DEF Loop, Sweep, Reap, Park, SeeChange, Unpark, Route, Send, Delivered, SendFails,
             Break, AwaitWorkers, Done, Over, Settled
    <3>2. CASE ~Loop
      BY <1>4, <3>2, TaskKeeps, TypeSplits DEF Next, Caller, loop
    <3>. QED BY <3>1, <3>2
  <2>. QED BY <2>1, <2>2, <2>3 DEF GivenInv, ConfirmedWasGiven
<1>. QED BY <1>1, <1>2, <1>3, <1>4

-----------------------------------------------------------------------------
(* What the workers hold.                                                  *)

\* An update is on its way in the hand of the loop, or with a task that runs.
LEMMA InFlightIs ==
  /\ \A u : u \in InFlight <=> (hand # 0 /\ u = hand) \/ \E t \in Tasks : Has(t, u)
  /\ \A u : u \in InFlight' <=> (hand' # 0 /\ u = hand') \/ \E t \in Tasks : Has(t, u)'
<1>1. \A u : u \in InFlight <=> (hand # 0 /\ u = hand) \/ \E t \in Tasks : Has(t, u)
  BY DEF InFlight, Has
<1>2. \A u : u \in InFlight' <=> (hand' # 0 /\ u = hand') \/ \E t \in Tasks : Has(t, u)'
  BY DEF InFlight, Has
<1>. QED BY <1>1, <1>2

\* A task takes its updates in the order of its channel, and holds each until
\* it is handled, or lost with the task.
LEMMA TaskMoves ==
  ASSUME TaskType, NEW t \in Tasks, Work(t) \/ Abort(t)
  PROVE  /\ alive'[t] => queue'[t] = queue[t] \/ (queue[t] # <<>> /\ queue'[t] = Tail(queue[t]))
         /\ \A u : Has(t, u)' => Has(t, u)
         /\ \A u : Has(t, u) => Has(t, u)' \/ u \in handled' \cup lost'
         /\ handled \subseteq handled' /\ lost \subseteq lost'
         /\ running'[t] \subseteq running[t] \/
              /\ Takes(t) /\ running'[t] = running[t] \cup {Head(queue[t])}
              /\ queue'[t] = Tail(queue[t])
<1>1. CASE Take(t) /\ UNCHANGED history
  <2>1. /\ Takes(t) /\ alive[t] /\ queue[t] # <<>> /\ alive' = alive
        /\ running'[t] = running[t] \cup {Head(queue[t])} /\ queue'[t] = Tail(queue[t])
        /\ handled' = handled /\ lost' = lost
    BY <1>1 DEF Take, Takes, TaskType, history
  <2>2. Queued(t) = {Head(queue[t])} \cup Queued(t)'
    <3>. DEFINE n == Len(queue[t])
    <3>1. /\ n \in Nat /\ n > 0 /\ DOMAIN queue[t] = 1..n /\ Head(queue[t]) = queue[t][1]
          /\ DOMAIN queue'[t] = 1..(n - 1) /\ \A i \in 1..(n - 1) : queue'[t][i] = queue[t][i + 1]
      BY <2>1, HeadQueue
    <3>. HIDE DEF n
    <3>2. ASSUME NEW u \in Queued(t) PROVE u = Head(queue[t]) \/ u \in Queued(t)'
      <4>1. PICK i \in 1..n : u = queue[t][i]
        BY <3>1, <3>2 DEF Queued
      <4>2. CASE i = 1
        BY <3>1, <4>1, <4>2
      <4>3. CASE i # 1
        <5>1. i - 1 \in 1..(n - 1) /\ (i - 1) + 1 = i
          BY <3>1, <4>3
        <5>2. u = queue'[t][i - 1]
          BY <3>1, <4>1, <5>1
        <5>. QED BY <3>1, <5>1, <5>2 DEF Queued
      <4>. QED BY <4>2, <4>3
    <3>3. ASSUME NEW u \in Queued(t)' PROVE u \in Queued(t)
      <4>1. PICK i \in 1..(n - 1) : u = queue'[t][i]
        BY <3>1, <3>3 DEF Queued
      <4>2. i + 1 \in 1..n /\ u = queue[t][i + 1]
        BY <3>1, <4>1
      <4>. QED BY <3>1, <4>2 DEF Queued
    <3>4. Head(queue[t]) \in Queued(t)
      BY <2>1, HeadQueue
    <3>. QED BY <3>2, <3>3, <3>4
  <2>. QED BY <2>1, <2>2 DEF Has
<1>2. CASE Begin(t) /\ UNCHANGED history
  <2>1. UNCHANGED <<alive, running, queue, handled, lost>>
    BY <1>2 DEF Begin, history
  <2>. QED BY <2>1 DEF Has, Queued
<1>3. CASE End(t) /\ UNCHANGED history
  <2>1. /\ UNCHANGED <<running, queue, handled, lost>> /\ ~alive'[t]
        /\ queue[t] = <<>> /\ running[t] = {}
    BY <1>3 DEF End, Drained, TaskType, history
  <2>2. Queued(t) = {}
    BY <2>1 DEF Queued
  <2>. QED BY <2>1, <2>2 DEF Has
<1>4. CASE Finish(t)
  <2>1. PICK u \in running[t] : running' = [running EXCEPT ![t] = running[t] \ {u}]
                                /\ handled' = handled \cup {u}
    BY <1>4 DEF Finish
  <2>2. UNCHANGED <<alive, queue, lost>> /\ running'[t] = running[t] \ {u}
    BY <1>4, <2>1 DEF Finish, TaskType
  <2>. QED BY <2>1, <2>2 DEF Has, Queued
<1>5. CASE Die(t)
  <2>1. ~alive'[t] /\ lost' = lost \cup running[t] \cup Queued(t) /\ handled' = handled
        /\ running'[t] = {}
    BY <1>5 DEF Die, Queued, TaskType
  <2>. QED BY <2>1 DEF Has
<1>. QED BY <1>1, <1>2, <1>3, <1>4, <1>5 DEF Work, Abort

LEMMA OrderStep ==
  ASSUME TypeOK, StreamInv, LoopInv, TaskInv, OrderInv, Next
  PROVE  OrderInv'
<1>0. /\ PollingTypeOK /\ LoopType /\ TaskType /\ 0 \notin Tasks /\ 0 \notin Updates
      /\ Updates \subseteq Nat /\ Upcoming \in Int
  BY TypeSplits, Numbers, PollingNumbers
<1>1. CASE /\ UNCHANGED <<queue, running, alive, key, route>> /\ hand' \in {0, hand}
           /\ Upcoming' = Upcoming
  <2>1. \A t \in Tasks, u \in Updates : Has(t, u)' <=> Has(t, u)
    BY <1>1 DEF Has, Queued
  <2>. QED BY <1>1, <2>1 DEF OrderInv
<1>2. CASE Start
  <2>1. /\ \A t \in Tasks : ~alive'[t]
        /\ hand' = 0
    BY <1>2 DEF Start, LoopInv, Settled, tasks
  <2>. QED BY <2>1 DEF OrderInv, Has
<1>3. CASE User \/ Wire
  <2>1. Upcoming' = Upcoming
    BY <1>0, <1>3, ServerMoves DEF User, Wire
  <2>. QED BY <1>1, <1>3, <2>1 DEF User, Wire, tasks, loop
<1>4. CASE PollListener
  <2>1. PICK item \in {Pending, None, Error} \cup Updates :
          /\ PollStream(item)
          /\ hand' = IF item \in Updates /\ route[item] # Unroutable THEN item ELSE 0
    BY <1>4 DEF PollListener
  <2>2. UNCHANGED <<queue, running, alive, key, route>> /\ hand = 0
    BY <1>4 DEF PollListener, tasks, LoopInv
  <2>3. /\ Upcoming' \in Int /\ Upcoming <= Upcoming'
        /\ hand' # 0 => hand' = Upcoming /\ Upcoming < Upcoming'
    <3>1. item \in Updates => item = Upcoming /\ Upcoming' = Upcoming + 1
      BY <1>0, <2>1, PollYields
    <3>2. item \notin Updates => Upcoming <= Upcoming'
      BY <1>0, <2>1, PollYields
    <3>3. Upcoming' \in Int
      BY <1>0, <2>1, PollYields
    <3>4. \A a \in Int : a < a + 1 /\ a <= a + 1
      OBVIOUS
    <3>. QED BY <1>0, <2>1, <3>1, <3>2, <3>3, <3>4
  <2>4. \A t \in Tasks, u \in Updates : Has(t, u)' <=> Has(t, u)
    BY <2>2 DEF Has, Queued
  <2>5. ASSUME NEW t \in Tasks, NEW u \in Updates, Has(t, u)'
        PROVE  route'[u] = key'[t] /\ u < Upcoming' /\ (hand' # 0 => u < hand')
    <3>1. route[u] = key[t] /\ u < Upcoming
      BY <2>4, <2>5 DEF OrderInv
    <3>2. \A n \in Nat, a, b \in Int : n < a /\ a <= b => n < b
      OBVIOUS
    <3>3. u < Upcoming'
      BY <1>0, <2>3, <3>1, <3>2, Zenon
    <3>. QED BY <2>2, <2>3, <3>1, <3>3
  <2>. QED BY <2>2, <2>3, <2>5 DEF OrderInv
<1>5. CASE ~Start /\ ~PollListener /\ ~User /\ ~Wire
  <2>0. Upcoming' = Upcoming
    BY <1>5, QuietStream DEF Upcoming, stream
  <2>1. CASE \/ Sweep \/ Reap \/ Park \/ SeeChange \/ Unpark \/ SendFails \/ Break \/ AwaitWorkers
             \/ (Done /\ UNCHANGED <<polling, route, hand, target, retried, worker, reaping, runs, tasks, history>>)
             \/ \E c \in Callers : Caller(c)
    BY <1>1, <2>0, <2>1 DEF Sweep, Reap, Park, SeeChange, Unpark, SendFails, Break, AwaitWorkers,
                            Caller, loop, tasks
  <2>2. CASE Route
    <3>1. UNCHANGED <<queue, running, route, hand>>
          /\ (UNCHANGED tasks \/ \E t \in Tasks : Spawn(t))
      BY <2>2 DEF Route, Spawn, tasks
    <3>2. CASE UNCHANGED tasks
      BY <1>1, <2>0, <3>1, <3>2 DEF tasks
    <3>3. ASSUME NEW t \in Tasks, Spawn(t) PROVE OrderInv'
      <4>1. t > spawned
        BY <1>0, <3>3 DEF Spawn, TaskType
      <4>2. queue[t] = <<>> /\ running[t] = {}
        BY <4>1 DEF TaskInv
      <4>3. \A s \in Tasks : s # t => key'[s] = key[s] /\ alive'[s] = alive[s]
        BY <1>0, <3>3 DEF Spawn, TaskType
      <4>4. \A u : ~Has(t, u)'
        BY <3>1, <4>2 DEF Has, Queued
      <4>5. \A s \in Tasks, u \in Updates : Has(s, u)' => s # t /\ Has(s, u)
        BY <3>1, <4>3, <4>4 DEF Has, Queued
      <4>6. \A s \in Tasks : alive'[s] =>
              \A i, j \in DOMAIN queue[s] : i < j => queue[s][i] < queue[s][j]
        BY <4>2, <4>3 DEF OrderInv
      <4>. QED BY <2>0, <3>1, <4>3, <4>5, <4>6 DEF OrderInv
    <3>. QED BY <3>1, <3>2, <3>3
  <2>3. CASE Send
    <3>0. PICK p \in Tasks : p = target
      BY <1>0, <2>3 DEF Send, LoopInv, LoopType
    <3>1. /\ target = p /\ p # 0 /\ alive[p] /\ hand \in Updates /\ hand # 0
          /\ queue' = [queue EXCEPT ![p] = Append(queue[p], hand)] /\ hand' = 0
          /\ UNCHANGED <<route, key, running, alive>>
      BY <1>0, <2>3, <3>0, HandKey DEF Send, Delivered, LoopInv, LoopType
    <3>. DEFINE n == Len(queue[p])
    <3>2. /\ n \in Nat /\ DOMAIN queue[p] = 1..n /\ DOMAIN queue'[p] = 1..(n + 1)
          /\ queue'[p][n + 1] = hand /\ \A i \in 1..n : queue'[p][i] = queue[p][i]
      <4>1. queue[p] \in Seq(Updates) /\ queue'[p] = Append(queue[p], hand)
        BY <1>0, <3>1 DEF TaskType
      <4>. QED BY <3>1, <4>1, AppendProperties, LenProperties
    <3>3. \A t \in Tasks : t # p => queue'[t] = queue[t]
      BY <1>0, <3>1 DEF TaskType
    <3>. HIDE DEF n
    <3>4. \A u : Has(p, u)' => Has(p, u) \/ u = hand
      <4>. SUFFICES ASSUME NEW u, u \in Queued(p)' PROVE u \in Queued(p) \/ u = hand
        BY <3>1 DEF Has
      <4>1. PICK i \in 1..(n + 1) : u = queue'[p][i]
        BY <3>2 DEF Queued
      <4>2. i \in 1..n \/ i = n + 1
        BY <3>2
      <4>. QED BY <3>2, <4>1, <4>2 DEF Queued
    <3>5. \A t \in Tasks, u \in Updates : Has(t, u)' => route[u] = key[t] /\ u < Upcoming
      <4>. SUFFICES ASSUME NEW t \in Tasks, NEW u \in Updates, Has(t, u)'
           PROVE route[u] = key[t] /\ u < Upcoming
        OBVIOUS
      <4>1. CASE Has(t, u)
        BY <4>1 DEF OrderInv
      <4>2. CASE ~Has(t, u)
        <5>1. t = p
          BY <3>1, <3>3, <4>2 DEF Has, Queued
        <5>2. u = hand
          BY <3>4, <4>2, <5>1
        <5>. QED BY <3>1, <5>1, <5>2 DEF OrderInv, TaskInv
      <4>. QED BY <4>1, <4>2
    <3>6. \A i \in 1..n : queue[p][i] < hand
      <4>. SUFFICES ASSUME NEW i \in 1..n PROVE queue[p][i] < hand
        OBVIOUS
      <4>1. queue[p][i] \in Queued(p)
        BY <3>2 DEF Queued
      <4>2. queue[p][i] \in Updates
        BY <1>0, <3>1, <4>1, QueuedUpdates
      <4>. QED BY <3>1, <4>1, <4>2 DEF OrderInv, Has
    <3>7. \A t \in Tasks : alive[t] =>
            \A i, j \in DOMAIN queue'[t] : i < j => queue'[t][i] < queue'[t][j]
      <4>. SUFFICES ASSUME NEW t \in Tasks, alive[t], NEW i \in DOMAIN queue'[t],
                           NEW j \in DOMAIN queue'[t], i < j
           PROVE  queue'[t][i] < queue'[t][j]
        OBVIOUS
      <4>1. CASE t # p
        BY <3>3, <4>1 DEF OrderInv
      <4>2. CASE t = p /\ j = n + 1
        <5>1. i \in 1..n
          BY <3>2, <4>2
        <5>. QED BY <3>2, <3>6, <4>2, <5>1
      <4>3. CASE t = p /\ j # n + 1
        <5>1. i \in 1..n /\ j \in 1..n
          BY <3>2, <4>3
        <5>. QED BY <3>1, <3>2, <4>3, <5>1 DEF OrderInv
      <4>. QED BY <4>1, <4>2, <4>3
    <3>. QED BY <2>0, <3>1, <3>5, <3>7 DEF OrderInv
  <2>4. ASSUME NEW t \in Tasks, Work(t) \/ Abort(t) PROVE OrderInv'
    <3>1. /\ UNCHANGED <<key, route, hand>>
          /\ \A s \in Tasks : alive'[s] => alive[s]
          /\ \A s \in Tasks : s # t =>
               alive'[s] = alive[s] /\ queue'[s] = queue[s] /\ running'[s] = running[s]
      BY <1>0, <2>4, TaskKeeps DEF loop
    <3>2. /\ alive'[t] => queue'[t] = queue[t] \/ (queue[t] # <<>> /\ queue'[t] = Tail(queue[t]))
          /\ \A u : Has(t, u)' => Has(t, u)
      BY <1>0, <2>4, TaskMoves
    <3>3. \A s \in Tasks, u \in Updates : Has(s, u)' => Has(s, u)
      BY <3>1, <3>2 DEF Has, Queued
    <3>4. \A s \in Tasks : alive'[s] =>
            \A i, j \in DOMAIN queue'[s] : i < j => queue'[s][i] < queue'[s][j]
      <4>. SUFFICES ASSUME NEW s \in Tasks, alive'[s], NEW i \in DOMAIN queue'[s],
                           NEW j \in DOMAIN queue'[s], i < j
           PROVE  queue'[s][i] < queue'[s][j]
        OBVIOUS
      <4>1. CASE queue'[s] = queue[s]
        BY <3>1, <4>1 DEF OrderInv
      <4>2. CASE queue'[s] # queue[s]
        <5>1. s = t /\ queue[t] # <<>> /\ queue'[t] = Tail(queue[t]) /\ alive[t]
          BY <3>1, <3>2, <4>2
        <5>. DEFINE n == Len(queue[t])
        <5>2. /\ n \in Nat /\ DOMAIN queue[t] = 1..n /\ DOMAIN queue'[t] = 1..(n - 1)
              /\ \A k \in 1..(n - 1) : queue'[t][k] = queue[t][k + 1]
          BY <1>0, <5>1, HeadQueue
        <5>. HIDE DEF n
        <5>3. i \in 1..(n - 1) /\ j \in 1..(n - 1) /\ i + 1 \in 1..n /\ j + 1 \in 1..n /\ i + 1 < j + 1
          BY <5>1, <5>2
        <5>4. queue[t][i + 1] < queue[t][j + 1]
          BY <5>1, <5>2, <5>3 DEF OrderInv
        <5>. QED BY <5>1, <5>2, <5>3, <5>4
      <4>. QED BY <4>1, <4>2
    <3>. QED BY <2>0, <3>1, <3>3, <3>4 DEF OrderInv
  <2>. QED BY <1>5, <2>1, <2>2, <2>3, <2>4 DEF Next, Loop
<1>. QED BY <1>2, <1>3, <1>4, <1>5

LEMMA VanishStep ==
  ASSUME TypeOK, LoopInv, TaskInv, NothingVanishes, Next
  PROVE  NothingVanishes'
<1>0. LoopType /\ TaskType /\ 0 \notin Tasks /\ 0 \notin Updates
  BY TypeSplits, Numbers
<1>. SUFFICES ASSUME NEW u \in given' PROVE u \in InFlight' \cup handled' \cup lost'
  BY DEF NothingVanishes
<1>1. u \in given => u \in handled \/ u \in lost \/ (hand # 0 /\ u = hand) \/ \E t \in Tasks : Has(t, u)
  BY InFlightIs DEF NothingVanishes
<1>2. CASE UNCHANGED <<queue, running, alive, hand, given, handled, lost>>
  <2>1. \A t \in Tasks : Has(t, u)' <=> Has(t, u)
    BY <1>2 DEF Has, Queued
  <2>. QED BY <1>1, <1>2, <2>1, InFlightIs
<1>3. CASE \/ Start \/ Sweep \/ Reap \/ Park \/ SeeChange \/ Unpark \/ Break \/ AwaitWorkers
           \/ (Done /\ UNCHANGED <<polling, route, hand, target, retried, worker, reaping, runs, tasks, history>>)
           \/ User \/ Wire \/ \E c \in Callers : Caller(c)
  BY <1>2, <1>3 DEF Start, Sweep, Reap, Park, SeeChange, Unpark, Break, AwaitWorkers, User, Wire,
                    Caller, loop, tasks, history
<1>4. CASE PollListener
  <2>1. PICK item \in {Pending, None, Error} \cup Updates :
          /\ hand' = IF item \in Updates /\ route[item] # Unroutable THEN item ELSE 0
          /\ given' = given \cup ({item} \cap Updates)
          /\ lost' = lost \cup {v \in {item} \cap Updates : route[v] = Unroutable}
    BY <1>4 DEF PollListener
  <2>2. UNCHANGED <<queue, running, alive, handled>> /\ hand = 0
    BY <1>4 DEF PollListener, tasks, LoopInv
  <2>3. \A t \in Tasks : Has(t, u)' <=> Has(t, u)
    BY <2>2 DEF Has, Queued
  <2>4. CASE u \in given
    BY <1>1, <2>1, <2>2, <2>3, <2>4, InFlightIs
  <2>5. CASE u \notin given
    <3>1. u = item /\ item \in Updates
      BY <2>1, <2>5
    <3>2. u \in lost' \/ (hand' # 0 /\ u = hand')
      BY <1>0, <2>1, <3>1
    <3>. QED BY <3>2, InFlightIs
  <2>. QED BY <2>4, <2>5
<1>5. CASE Route
  <2>1. UNCHANGED <<hand, queue, running, given, handled, lost>>
    BY <1>5 DEF Route, Spawn, tasks, history
  <2>2. \A t \in Tasks : alive[t] => alive'[t]
    BY <1>0, <1>5 DEF Route, Spawn, tasks, TaskType
  <2>3. \A t \in Tasks : Has(t, u) => Has(t, u)'
    BY <2>1, <2>2 DEF Has, Queued
  <2>. QED BY <1>1, <2>1, <2>3, InFlightIs
<1>6. CASE Send
  <2>1. PICK p \in Tasks : p = target
    BY <1>0, <1>6 DEF Send, LoopInv, LoopType
  <2>2. /\ alive[p] /\ queue' = [queue EXCEPT ![p] = Append(queue[p], hand)]
        /\ UNCHANGED <<running, alive, given, handled, lost>> /\ hand \in Updates
    BY <1>0, <1>6, <2>1, HandKey DEF Send, history
  <2>3. \A t \in Tasks : t # p => queue'[t] = queue[t]
    BY <1>0, <2>2 DEF TaskType
  <2>. DEFINE n == Len(queue[p])
  <2>4. /\ n \in Nat /\ DOMAIN queue[p] = 1..n /\ DOMAIN queue'[p] = 1..(n + 1)
        /\ queue'[p][n + 1] = hand /\ \A i \in 1..n : queue'[p][i] = queue[p][i]
    <3>1. queue[p] \in Seq(Updates) /\ queue'[p] = Append(queue[p], hand)
      BY <1>0, <2>2 DEF TaskType
    <3>. QED BY <2>2, <3>1, AppendProperties, LenProperties
  <2>. HIDE DEF n
  <2>5. hand \in Queued(p)'
    <3>1. n + 1 \in 1..(n + 1)
      BY <2>4
    <3>. QED BY <2>4, <3>1 DEF Queued
  <2>6. Queued(p) \subseteq Queued(p)'
    <3>. SUFFICES ASSUME NEW v \in Queued(p) PROVE v \in Queued(p)'
      OBVIOUS
    <3>1. PICK i \in 1..n : v = queue[p][i]
      BY <2>4 DEF Queued
    <3>2. i \in 1..(n + 1)
      BY <2>4
    <3>. QED BY <2>4, <3>1, <3>2 DEF Queued
  <2>7. hand = u => Has(p, u)'
    BY <2>2, <2>5 DEF Has
  <2>8. \A t \in Tasks : Has(t, u) => Has(t, u)'
    <3>1. Has(p, u) => Has(p, u)'
      BY <2>2, <2>6 DEF Has
    <3>2. \A t \in Tasks : t # p => (Has(t, u) => Has(t, u)')
      BY <2>2, <2>3 DEF Has, Queued
    <3>. QED BY <3>1, <3>2
  <2>. QED BY <1>1, <2>2, <2>7, <2>8, InFlightIs
<1>7. CASE SendFails
  <2>1. UNCHANGED <<queue, running, alive, given, handled>> /\ lost \subseteq lost'
        /\ (hand' = hand \/ hand \in lost')
    BY <1>7 DEF SendFails
  <2>2. \A t \in Tasks : Has(t, u)' <=> Has(t, u)
    BY <2>1 DEF Has, Queued
  <2>. QED BY <1>1, <2>1, <2>2, InFlightIs
<1>8. ASSUME NEW t \in Tasks, Work(t) \/ Abort(t) PROVE u \in InFlight' \cup handled' \cup lost'
  <2>1. UNCHANGED <<given, hand>>
        /\ \A s \in Tasks : s # t =>
             alive'[s] = alive[s] /\ queue'[s] = queue[s] /\ running'[s] = running[s]
    BY <1>0, <1>8, TaskKeeps DEF loop
  <2>2. /\ \A v : Has(t, v) => Has(t, v)' \/ v \in handled' \cup lost'
        /\ handled \subseteq handled' /\ lost \subseteq lost'
    BY <1>0, <1>8, TaskMoves
  <2>3. \A s \in Tasks : Has(s, u) => Has(s, u)' \/ u \in handled' \cup lost'
    BY <2>1, <2>2 DEF Has, Queued
  <2>. QED BY <1>1, <2>1, <2>2, <2>3, InFlightIs
<1>. QED BY <1>3, <1>4, <1>5, <1>6, <1>7, <1>8 DEF Next, Loop

-----------------------------------------------------------------------------
(* The invariant.                                                          *)

LEMMA InitIInv == Init => IInv
<1>. SUFFICES ASSUME Init PROVE IInv
  OBVIOUS
<1>0. TypeOK
  BY InitType
<1>1. /\ Len(buffer) = 0 /\ buffer = <<>> /\ DOMAIN buffer = {} /\ in_flight = "none"
      /\ offset = 0 /\ sent = 0 /\ confirmed = 0 /\ given = {} /\ ~force_stop /\ ~dropPending
  BY EmptySeq DEF Init, PollingInit
<1>2. StreamInv
  BY <1>1 DEF StreamInv
<1>3. Upcoming = 0
  BY <1>1 DEF Upcoming
<1>4. GivenInv
  BY <1>1, <1>3 DEF GivenInv, ConfirmedWasGiven
<1>5. LoopInv
  BY DEF Init, LoopInv, Settled
<1>6. TaskInv
  BY Numbers DEF Init, TaskInv
<1>7. OrderInv
  BY DEF Init, OrderInv, Has
<1>8. NothingVanishes
  BY <1>1 DEF NothingVanishes
<1>. QED BY <1>0, <1>2, <1>4, <1>5, <1>6, <1>7, <1>8 DEF IInv

LEMMA StepIInv == IInv /\ [Next]_vars => IInv'
<1>. SUFFICES ASSUME IInv, [Next]_vars PROVE IInv'
  OBVIOUS
<1>0. /\ TypeOK /\ StreamInv /\ GivenInv /\ LoopInv /\ TaskInv /\ OrderInv /\ NothingVanishes
      /\ PollingTypeOK /\ TokenTypeOK
  BY TypeSplits DEF IInv
<1>1. CASE Next
  <2>1. TypeOK'
    BY <1>0, <1>1, TypeSplits, TokenTypes, ListenerTypes, LoopTypes, TaskTypes, HistoryTypes
  <2>2. StreamInv'
    BY <1>0, <1>1, StreamStep
  <2>3. GivenInv'
    BY <1>0, <1>1, GivenStep
  <2>4. LoopInv' /\ TaskInv' /\ OrderInv' /\ NothingVanishes'
    BY <1>0, <1>1, LoopStep, TaskInvStep, OrderStep, VanishStep
  <2>. QED BY <2>1, <2>2, <2>3, <2>4 DEF IInv
<1>2. CASE UNCHANGED vars
  <2>1. /\ UNCHANGED <<state, watch, caller>> /\ UNCHANGED <<sent, confirmed, faults, discarded, flag, woken>>
        /\ UNCHANGED stream /\ UNCHANGED loop /\ UNCHANGED tasks /\ UNCHANGED history
    BY <1>2 DEF vars, token, polling, stream
  <2>2. TypeOK'
    BY <1>0, <2>1 DEF TypeOK, TokenTypeOK, PollingTypeOK, stream, loop, tasks, history
  <2>3. StreamInv' /\ GivenInv'
    BY <1>0, <2>1 DEF StreamInv, GivenInv, ConfirmedWasGiven, Upcoming, stream, loop, history
  <2>4. LoopInv' /\ TaskInv'
    BY <1>0, <2>1 DEF LoopInv, TaskInv, loop, tasks
  <2>5. OrderInv'
    BY <1>0, <2>1 DEF OrderInv, Has, Queued, Upcoming, stream, loop, tasks
  <2>6. NothingVanishes'
    BY <1>0, <2>1 DEF NothingVanishes, InFlight, Queued, loop, tasks, history
  <2>. QED BY <2>2, <2>3, <2>4, <2>5, <2>6 DEF IInv
<1>. QED BY <1>1, <1>2

LEMMA Invariance == Spec => []IInv
  BY InitIInv, StepIInv, PTL DEF Spec

-----------------------------------------------------------------------------
(* What the dispatcher promises.                                           *)

\* The dispatcher, its listener, its workers and its token stay within their
\* types: no channel beyond its size, no more active workers than keys
\* (dispatcher.rs, polling.rs).
THEOREM TypeCorrect == Spec => []TypeOK
<1>1. IInv => TypeOK
  BY DEF IInv
<1>. QED BY <1>1, Invariance, PTL

\* The server is never told to forget an update that the stream has not
\* yielded, through errors, stops and dropped requests (polling.rs:389-507).
THEOREM AcknowledgedWasGiven == Spec => []ConfirmedWasGiven
<1>1. IInv => ConfirmedWasGiven
  BY DEF IInv, GivenInv
<1>. QED BY <1>1, Invariance, PTL

\* No update is lost between the loop and the workers, while idle workers are
\* removed and dead ones replaced (dispatcher.rs:try_dispatch_update).
THEOREM NoUpdateVanishes == Spec => []NothingVanishes
<1>1. IInv => NothingVanishes
  BY DEF IInv
<1>. QED BY <1>1, Invariance, PTL

\* A keyed worker takes an update when every other of its key that is on its
\* way is newer, also after the worker of the key was replaced.
THEOREM KeysRunInOrder == Spec => KeyOrder
<1>. DEFINE P == \A t \in Tasks : \A u \in running'[t] \ running[t] :
                   key[t] # NoKey =>
                     \A v \in InFlight' \ {u} : route[v] = key[t] => v > u
<1>1. IInv /\ [Next]_vars => P
  <2>. SUFFICES ASSUME IInv, [Next]_vars, NEW t \in Tasks, NEW u \in running'[t] \ running[t],
                       key[t] # NoKey, NEW v \in InFlight' \ {u}, route[v] = key[t]
       PROVE  v > u
    OBVIOUS
  <2>0. /\ PollingTypeOK /\ LoopType /\ TaskType /\ LoopInv /\ TaskInv /\ OrderInv
        /\ Updates \subseteq Nat /\ 0 \notin Tasks
    BY TypeSplits, Numbers DEF IInv
  <2>1. Work(t) \/ Abort(t)
    <3>1. running'[t] # running[t]
      OBVIOUS
    <3>2. Next
      BY <3>1 DEF vars, tasks
    <3>3. PICK s \in Tasks : Work(s) \/ Abort(s)
      BY <3>1, <3>2 DEF Next, Start, Loop, Sweep, Reap, PollListener, Park, SeeChange, Unpark,
           Route, Spawn, Send, SendFails, Break, AwaitWorkers, User, Wire, Caller, tasks
    <3>4. s = t
      BY <2>0, <3>1, <3>3, TaskKeeps
    <3>. QED BY <3>3, <3>4
  <2>2. /\ UNCHANGED <<key, route, hand>>
        /\ \A s \in Tasks : s # t =>
             alive'[s] = alive[s] /\ queue'[s] = queue[s] /\ running'[s] = running[s]
    BY <2>0, <2>1, TaskKeeps DEF loop
  <2>3. /\ Takes(t) /\ running'[t] = running[t] \cup {Head(queue[t])}
        /\ queue'[t] = Tail(queue[t]) /\ \A w : Has(t, w)' => Has(t, w)
    BY <2>0, <2>1, TaskMoves
  <2>4. /\ alive[t] /\ queue[t] # <<>> /\ running[t] = {} /\ u = Head(queue[t])
        /\ running'[t] = {u}
    BY <2>3 DEF Takes
  <2>5. u \in Updates /\ u \in Queued(t) /\ Has(t, u)
    BY <2>0, <2>4, HeadQueue DEF Has
  <2>6. CASE hand # 0 /\ v = hand
    <3>1. u < hand /\ hand \in Updates
      BY <2>0, <2>5, <2>6 DEF OrderInv, LoopType
    <3>. QED BY <2>0, <2>5, <2>6, <3>1
  <2>7. ASSUME NEW s \in Tasks, Has(s, v)' PROVE v > u
    <3>1. Has(s, v)
      <4>1. CASE s = t
        BY <2>3, <2>7, <4>1
      <4>2. CASE s # t
        BY <2>2, <2>7, <4>2 DEF Has, Queued
      <4>. QED BY <4>1, <4>2
    <3>2. v \in Updates
      BY <2>0, <3>1, QueuedUpdates DEF Has
    <3>3. key[s] = key[t] /\ alive[s]
      BY <2>0, <3>1, <3>2 DEF OrderInv, Has
    <3>4. s = t
      BY <2>0, <2>4, <3>3 DEF TaskInv
    <3>5. v \in Queued(t)'
      BY <2>4, <2>7, <3>4 DEF Has
    <3>. DEFINE n == Len(queue[t])
    <3>6. /\ n \in Nat /\ DOMAIN queue[t] = 1..n /\ DOMAIN queue'[t] = 1..(n - 1)
          /\ u = queue[t][1] /\ \A i \in 1..(n - 1) : queue'[t][i] = queue[t][i + 1]
      BY <2>0, <2>3, <2>4, HeadQueue
    <3>. HIDE DEF n
    <3>7. PICK i \in 1..(n - 1) : v = queue'[t][i]
      BY <3>5, <3>6 DEF Queued
    <3>8. v = queue[t][i + 1] /\ i + 1 \in 1..n /\ 1 \in 1..n /\ 1 < i + 1
      BY <3>6, <3>7
    <3>9. u < v
      BY SMTT(30), <2>0, <2>4, <3>6, <3>8 DEF OrderInv
    <3>. QED BY <2>0, <2>5, <3>2, <3>9
  <2>. QED BY <2>2, <2>6, <2>7, InFlightIs
<1>2. [][P]_vars <=> KeyOrder
  BY PTL DEF KeyOrder
<1>. QED BY <1>1, <1>2, Invariance, PTL DEF Spec

\* When the dispatcher becomes idle, and when a shutdown future resolves, no
\* worker runs and every update that was given is settled
\* (dispatcher.rs:await_workers_shutdown, shutdown_token.rs:done).
THEOREM ShutdownsAreGraceful == Spec => ShutdownIsGraceful
<1>. DEFINE P == (pc # "idle" /\ pc' = "idle")
                   \/ (\E c \in Callers : caller[c] # "resolved" /\ caller'[c] = "resolved")
                 => /\ \A t \in Tasks : ~alive[t]
                    /\ given \subseteq handled \cup lost
<1>1. IInv /\ [Next]_vars => P
  <2>. SUFFICES ASSUME IInv, [Next]_vars,
                       (pc # "idle" /\ pc' = "idle")
                         \/ (\E c \in Callers : caller[c] # "resolved" /\ caller'[c] = "resolved")
       PROVE  /\ \A t \in Tasks : ~alive[t]
              /\ given \subseteq handled \cup lost
    OBVIOUS
  <2>0. LoopType /\ TaskType /\ TokenTypeOK /\ LoopInv /\ NothingVanishes
    BY TypeSplits DEF IInv
  <2>1. pc \in {"store", "notify"}
    <3>1. CASE pc # "idle" /\ pc' = "idle"
      <4>1. Next
        BY <3>1 DEF vars, loop
      <4>2. Loop
        BY <2>0, <3>1, <4>1, TaskKeeps DEF Next, Start, User, Wire, Caller, loop
      <4>. QED BY <3>1, <4>2 DEF Loop, Sweep, Reap, PollListener, Park, SeeChange, Unpark,
             Route, Send, Delivered, SendFails, Break, AwaitWorkers, Done
    <3>2. ASSUME NEW c \in Callers, caller[c] # "resolved", caller'[c] = "resolved"
          PROVE  pc \in {"store", "notify"}
      <4>1. caller' # caller
        BY <3>2
      <4>2. Next
        BY <4>1 DEF vars, token
      <4>3. ~(\E d \in Callers : Caller(d))
        BY <2>0, <3>2 DEF Caller, Shutdown, AwaitShutdown, TokenTypeOK
      <4>4. Loop
        BY <2>0, <4>1, <4>2, <4>3, TaskKeeps DEF Next, Start, StartDispatching, User, Wire, token
      <4>. QED BY <4>1, <4>4 DEF Loop, Sweep, Reap, PollListener, Park, SeeChange, Unpark,
             Route, Send, SendFails, Break, AwaitWorkers, Done, StopWatching, Listen, token
    <3>. QED BY <3>1, <3>2
  <2>2. (\A t \in Tasks : ~alive[t]) /\ hand = 0
    BY <2>0, <2>1 DEF LoopInv, Settled
  <2>3. \A u : u \notin InFlight
    BY <2>2, InFlightIs DEF Has
  <2>. QED BY <2>0, <2>2, <2>3 DEF NothingVanishes
<1>2. [][P]_vars <=> ShutdownIsGraceful
  BY PTL DEF ShutdownIsGraceful
<1>. QED BY <1>1, <1>2, Invariance, PTL DEF Spec

\* The loop takes an update a second time only after a run that could not
\* acknowledge it: its final request failed (polling.rs:425-430).
THEOREM RepeatsNeedAFailedStop == Spec => NoRepeats
<1>. DEFINE P == \A u \in given : hand # u /\ hand' = u => unacked
<1>1. IInv /\ [Next]_vars => P
  <2>. SUFFICES ASSUME IInv, [Next]_vars, NEW u \in given, hand # u, hand' = u, ~unacked
       PROVE  FALSE
    BY Zenon
  <2>0. /\ PollingTypeOK /\ LoopType /\ TaskType /\ HistoryType /\ StreamInv /\ GivenInv
        /\ u \in Updates /\ u # 0 /\ Updates \subseteq Nat
    BY TypeSplits, Numbers DEF IInv, HistoryType
  <2>1. Next
    BY DEF vars, loop
  <2>2. PollListener
    <3>1. Loop
      BY <2>0, <2>1, TaskKeeps DEF Next, Start, User, Wire, Caller, loop
    <3>. QED BY <2>0, <3>1 DEF Loop, Sweep, Reap, Park, SeeChange, Unpark, Route, Send, Delivered,
                               SendFails, Break, AwaitWorkers
  <2>3. PICK item : PollStream(item) /\ (hand' = 0 \/ (item \in Updates /\ hand' = item))
    BY <2>2 DEF PollListener
  <2>4. item = u /\ u \in Updates
    BY <2>0, <2>3
  <2>5. u = Upcoming /\ buffer # <<>> /\ confirmed < Upcoming
    BY <2>0, <2>3, <2>4, PollYields DEF StreamInv
  <2>6. u <= confirmed \/ u < Upcoming
    BY DEF GivenInv, IInv
  <2>. QED BY <2>0, <2>5, <2>6, PollingNumbers
<1>2. [][P]_vars <=> NoRepeats
  BY PTL DEF NoRepeats
<1>. QED BY <1>1, <1>2, Invariance, PTL DEF Spec

=============================================================================
