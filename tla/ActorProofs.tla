---------------------------- MODULE ActorProofs ----------------------------
(* Theorems about OutboundActor, for every value of its constants. *)
EXTENDS OutboundActor, FiniteSetTheorems, SequenceTheorems, TLAPS

(***************************************************************************)
(* The inductive invariant.  An acquire passes from its future to the      *)
(* ingress, the hand of the actor, the backlog, the grants of a pass and a *)
(* buffered permit; each conjunct says what the other side may have done   *)
(* to it by then, and which command is on its way to tell.                 *)
(***************************************************************************)

\* Where an acquire is before the scheduler has it.
InIngress(c) == \E i \in DOMAIN ingress : ingress[i] = c
InHand(c) == actor = "enqueue" /\ hand = c
Queued(c) == InIngress(c) \/ InHand(c)

\* No permit was minted for c: none is buffered, held or on its way back.
Ungranted(c) ==
  /\ granted[c] # "permit" /\ pc[c] \notin PermitStages \cup {"awaiting", "done"}
  /\ ~Sent(Complete(c)) /\ ~Sent(Start(c))

\* The outcome of c is open as long as somebody may still look at it.
Unresolved(c) ==
  granted[c] = "open" \/ (granted[c] = "taken" /\ pc[c] \in {"emptying", "dropped"})

\* Dropping c now, or having dropped it, reaches the actor as a Cancel.
CancelReaches(c) ==
  \/ pc[c] \in FutureStages /\ token[c] = "accepted"
  \/ pc[c] = "cancelling"
  \/ Sent(Cancel(c))

IdleSound(c) ==
  pc[c] = "idle" =>
    /\ ~Queued(c) /\ c \notin known \cup flying \cup waiters
    /\ token[c] = "pending" /\ response[c] = "open" /\ granted[c] = "open"
    /\ Ungranted(c)

QueuedSound(c) ==
  Queued(c) =>
    /\ c \notin known \cup flying \cup waiters
    /\ Ungranted(c) /\ Unresolved(c) /\ pc[c] \notin {"waiting", "failed"}
    /\ pc[c] = "enqueuing" => response[c] = "open"
    /\ InIngress(c) /\ token[c] = "pending" => pc[c] = "enqueuing"
    /\ InHand(c) => CancelReaches(c)

PendingSound(c) ==
  c \in pending => c \notin flying /\ CancelReaches(c)

AcceptedSound(c) ==
  c \in pending \cup grants =>
    /\ Ungranted(c) /\ Unresolved(c)
    /\ pc[c] = "enqueuing" => response[c] = "accepted"

PermitSound(c) ==
  /\ granted[c] = "permit" => HasReceiver(c) /\ (pc[c] = "enqueuing" => response[c] = "accepted")
  /\ Sent(Complete(c)) => granted[c] # "permit" /\ pc[c] \notin PermitStages
  /\ Sent(Start(c)) => pc[c] \in {"started", "awaiting", "done"}
  /\ c \in flying => \/ c \in grants \/ granted[c] = "permit"
                     \/ pc[c] \in PermitStages \/ Sent(Complete(c))

FutureSound(c) ==
  /\ pc[c] = "waiting" => response[c] = "taken"
  /\ pc[c] = "enqueuing" => response[c] # "taken"

Sound(c) ==
  /\ IdleSound(c) /\ QueuedSound(c) /\ PendingSound(c) /\ AcceptedSound(c)
  /\ PermitSound(c) /\ FutureSound(c)

SoundInv == \A c \in Acquires : Sound(c)

LoopInv ==
  /\ actor # "deliver" => grants = {}
  /\ IF actor = "enqueue" THEN hand \in Acquires ELSE hand = Nobody
  /\ ~Alive => /\ ingress = <<>> /\ lifecycle = <<>>
               /\ pending = {} /\ flying = {} /\ waiters = {} /\ known = {}
  /\ grants \subseteq known
  /\ \A i, j \in DOMAIN ingress : ingress[i] = ingress[j] => i = j
  /\ \A c \in Acquires : InHand(c) => ~InIngress(c)

LaneInv ==
  /\ LanesExclude
  /\ Alive => \A c \in Acquires : InUse(c) /\ meta[c].lane # NoLane => c \in holders
  /\ \A c \in holders : meta[c].lane # NoLane
  /\ \A c, d \in holders : c # d => meta[c].lane # meta[d].lane

IInv == TypeOK /\ LoopInv /\ BooksAgree /\ SoundInv /\ LaneInv

-----------------------------------------------------------------------------
(* The channels.                                                           *)

LEMMA CommandTypes ==
  /\ \A c \in Acquires : Cancel(c) \in Commands /\ Start(c) \in Commands
                       /\ Complete(c) \in Commands
  /\ Call \in Commands /\ Shutdown \in Commands
  BY DEF Commands, Cancel, Start, Complete, Call, Shutdown, Command

LEMMA CommandsDiffer ==
  \A c, d : /\ Cancel(c) # Start(d) /\ Cancel(c) # Complete(d) /\ Start(c) # Complete(d)
           /\ Call \notin {Cancel(c), Start(c), Complete(c)}
           /\ Shutdown \notin {Cancel(c), Start(c), Complete(c)}
           /\ (Cancel(c) = Cancel(d) => c = d) /\ (Start(c) = Start(d) => c = d)
           /\ (Complete(c) = Complete(d) => c = d)
  BY DEF Cancel, Start, Complete, Call, Shutdown, Command

LEMMA SendType ==
  ASSUME lifecycle \in Seq(Commands), NEW command \in Commands, Send(command)
  PROVE  lifecycle' \in Seq(Commands)
  BY AppendProperties DEF Send

\* A send adds its command, as long as the actor listens.
LEMMA SendSent ==
  ASSUME lifecycle \in Seq(Commands), NEW command \in Commands, Send(command)
  PROVE  \A x : Sent(x)' <=> Sent(x) \/ (Alive /\ x = command)
<1>1. CASE Alive
  <2>1. lifecycle' = Append(lifecycle, command)
    BY <1>1 DEF Send
  <2>2. /\ DOMAIN lifecycle' = 1..(Len(lifecycle) + 1)
        /\ DOMAIN lifecycle = 1..Len(lifecycle) /\ Len(lifecycle) \in Nat
        /\ \A i \in 1..Len(lifecycle) : lifecycle'[i] = lifecycle[i]
        /\ lifecycle'[Len(lifecycle) + 1] = command
    BY <2>1, AppendProperties
  <2>. QED BY <1>1, <2>2 DEF Sent
<1>2. CASE ~Alive
  BY <1>2 DEF Send, Sent
<1>. QED BY <1>1, <1>2

\* Taking the head removes at most that command.
LEMMA TailSent ==
  ASSUME lifecycle \in Seq(Commands), lifecycle # <<>>, lifecycle' = Tail(lifecycle)
  PROVE  /\ Head(lifecycle) \in Commands /\ Sent(Head(lifecycle))
         /\ lifecycle' \in Seq(Commands)
         /\ \A x : Sent(x)' => Sent(x)
         /\ \A x : Sent(x) /\ x # Head(lifecycle) => Sent(x)'
<1>1. /\ Len(lifecycle) \in Nat /\ Len(lifecycle) > 0
      /\ DOMAIN lifecycle = 1..Len(lifecycle)
      /\ Head(lifecycle) = lifecycle[1] /\ lifecycle[1] \in Commands
      /\ lifecycle' \in Seq(Commands) /\ DOMAIN lifecycle' = 1..(Len(lifecycle) - 1)
      /\ \A i \in 1..(Len(lifecycle) - 1) : lifecycle'[i] = lifecycle[i + 1]
  BY HeadTailProperties, LenProperties, ElementOfSeq, EmptySeq
<1>2. \A x : Sent(x)' => Sent(x)
  BY <1>1 DEF Sent
<1>3. ASSUME NEW x, Sent(x), x # Head(lifecycle) PROVE Sent(x)'
  <2>1. PICK i \in 1..Len(lifecycle) : lifecycle[i] = x
    BY <1>1, <1>3 DEF Sent
  <2>2. i - 1 \in 1..(Len(lifecycle) - 1) /\ lifecycle'[i - 1] = x
    BY <1>1, <1>3, <2>1
  <2>. QED BY <1>1, <2>2 DEF Sent
<1>. QED BY <1>1, <1>2, <1>3 DEF Sent

LEMMA SameSent ==
  ASSUME UNCHANGED lifecycle
  PROVE  \A x : Sent(x)' <=> Sent(x)
  BY DEF Sent

LEMMA SameIngress ==
  ASSUME UNCHANGED ingress
  PROVE  \A c : InIngress(c)' <=> InIngress(c)
  BY DEF InIngress

\* An enqueue goes to the end of the ingress.
LEMMA AppendIngress ==
  ASSUME ingress \in Seq(Acquires), NEW c \in Acquires, ingress' = Append(ingress, c)
  PROVE  /\ ingress' \in Seq(Acquires) /\ Len(ingress') = Len(ingress) + 1
         /\ \A d : InIngress(d)' <=> InIngress(d) \/ d = c
         /\ (\A i, j \in DOMAIN ingress : ingress[i] = ingress[j] => i = j) /\ ~InIngress(c)
            => \A i, j \in DOMAIN ingress' : ingress'[i] = ingress'[j] => i = j
<1>1. /\ DOMAIN ingress' = 1..(Len(ingress) + 1)
      /\ DOMAIN ingress = 1..Len(ingress) /\ Len(ingress) \in Nat
      /\ \A i \in 1..Len(ingress) : ingress'[i] = ingress[i]
      /\ ingress'[Len(ingress) + 1] = c
      /\ ingress' \in Seq(Acquires) /\ Len(ingress') = Len(ingress) + 1
  BY AppendProperties
<1>. QED BY <1>1 DEF InIngress

\* The actor takes the enqueue at the head, and no other.
LEMMA TailIngress ==
  ASSUME ingress \in Seq(Acquires), ingress # <<>>, ingress' = Tail(ingress),
         \A i, j \in DOMAIN ingress : ingress[i] = ingress[j] => i = j
  PROVE  /\ ingress' \in Seq(Acquires) /\ Len(ingress') <= Len(ingress)
         /\ Head(ingress) \in Acquires /\ InIngress(Head(ingress))
         /\ \A d : InIngress(d)' <=> InIngress(d) /\ d # Head(ingress)
         /\ \A i, j \in DOMAIN ingress' : ingress'[i] = ingress'[j] => i = j
<1>1. /\ Len(ingress) \in Nat /\ Len(ingress) > 0
      /\ DOMAIN ingress = 1..Len(ingress)
      /\ Head(ingress) = ingress[1] /\ ingress[1] \in Acquires
      /\ ingress' \in Seq(Acquires) /\ DOMAIN ingress' = 1..(Len(ingress) - 1)
      /\ Len(ingress') = Len(ingress) - 1
      /\ \A i \in 1..(Len(ingress) - 1) : ingress'[i] = ingress[i + 1]
  BY HeadTailProperties, LenProperties, ElementOfSeq, EmptySeq
<1>2. ASSUME NEW d, InIngress(d), d # Head(ingress) PROVE InIngress(d)'
  <2>1. PICK i \in 1..Len(ingress) : ingress[i] = d
    BY <1>1, <1>2 DEF InIngress
  <2>2. i - 1 \in 1..(Len(ingress) - 1) /\ ingress'[i - 1] = d
    BY <1>1, <1>2, <2>1
  <2>. QED BY <1>1, <2>2 DEF InIngress
<1>3. ASSUME NEW d, InIngress(d)' PROVE InIngress(d) /\ d # Head(ingress)
  <2>1. PICK i \in 1..(Len(ingress) - 1) : ingress'[i] = d
    BY <1>1, <1>3 DEF InIngress
  <2>2. i + 1 \in DOMAIN ingress /\ 1 \in DOMAIN ingress /\ ingress[i + 1] = d /\ i + 1 # 1
    BY <1>1, <2>1
  <2>. QED BY <1>1, <2>2 DEF InIngress
<1>4. ASSUME NEW i \in DOMAIN ingress', NEW j \in DOMAIN ingress', ingress'[i] = ingress'[j]
      PROVE  i = j
  <2>1. i + 1 \in DOMAIN ingress /\ j + 1 \in DOMAIN ingress /\ ingress[i + 1] = ingress[j + 1]
    BY <1>1, <1>4
  <2>2. i + 1 = j + 1 /\ i \in Int /\ j \in Int
    BY <1>1, <2>1
  <2>. QED BY <2>2
<1>5. InIngress(Head(ingress)) /\ Len(ingress') <= Len(ingress)
  BY <1>1 DEF InIngress
<1>. QED BY <1>1, <1>2, <1>3, <1>4, <1>5

-----------------------------------------------------------------------------
(* Types.                                                                  *)

\* The callers' half of a state: what no step of the actor's loop but the
\* handling of a command touches.
CallerType ==
  /\ meta \in [Acquires -> [lane : Lanes \cup {NoLane}, slot : Slots \cup {NoSlot}]]
  /\ pc \in [Acquires -> Stages]
  /\ token \in [Acquires -> {"pending", "cancelled", "accepted", "terminal"}]
  /\ response \in [Acquires -> Responses] /\ granted \in [Acquires -> Outcomes]
  /\ handle \in BOOLEAN /\ calls \in 0..MaxCalls
  /\ ingress \in Seq(Acquires)
  /\ lifecycle \in Seq(Commands)
  /\ behind \in [Acquires -> SUBSET Acquires]

ActorType ==
  /\ actor \in {"drain", "deliver", "select", "enqueue", "gone"}
  /\ drained \in 0..DrainBatch /\ hand \in Acquires \cup {Nobody}
  /\ pending \subseteq Acquires
  /\ holders \subseteq flying /\ flying \subseteq Acquires
  /\ grants \subseteq flying /\ waiters \subseteq Acquires /\ known \subseteq Acquires

LEMMA TypeSplits ==
  (TypeOK <=> CallerType /\ ActorType) /\ (CallerType' /\ ActorType' => TypeOK')
  BY DEF TypeOK, CallerType, ActorType

LEMMA InitType == Init => TypeOK
<1> SUFFICES ASSUME Init PROVE TypeOK
  OBVIOUS
<1>1. ingress \in Seq(Acquires) /\ lifecycle \in Seq(Commands)
  BY EmptySeq DEF Init
<1>2. MaxCalls \in Nat /\ DrainBatch \in Nat
  BY ActorAssumption
<1>3. CallerType
  BY <1>1, <1>2 DEF Init, CallerType, Stages, Responses, Outcomes
<1>4. ActorType
  BY <1>2 DEF Init, ActorType
<1>. QED BY <1>3, <1>4, TypeSplits

LEMMA CallerTypes ==
  ASSUME TypeOK, NEW c \in Acquires, Caller(c)
  PROVE  TypeOK'
<1>0. CallerType /\ ActorType
  BY TypeSplits
<1>1. UNCHANGED <<loop, scheduler, books>>
  BY DEF Caller, Continue, Enqueue, PollEnqueue, PollGrant, DropFuture, SendCancel,
         DropReceiver, DropResponse, StartPermit, GiveBack, AwaitEnds
<1>2. ActorType'
  BY <1>0, <1>1 DEF ActorType, loop, scheduler, books
<1>3. CASE Enqueue(c)
  <2>1. meta' \in [Acquires -> [lane : Lanes \cup {NoLane}, slot : Slots \cup {NoSlot}]]
    BY <1>0, <1>3, ActorAssumption DEF Enqueue, CallerType
  <2>2. pc' \in [Acquires -> Stages]
    BY <1>0, <1>3 DEF Enqueue, CallerType, Stages, FutureStages
  <2>3. response' \in [Acquires -> Responses] /\ granted' \in [Acquires -> Outcomes]
    BY <1>0, <1>3, ZenonT(60) DEF Enqueue, CallerType, Responses, Outcomes
  <2>6. behind' \in [Acquires -> SUBSET Acquires]
    <3>. DEFINE sent == {b \in Acquires : Sent(Complete(b))}
    <3>1. behind' = behind \/ behind' = [behind EXCEPT ![c] = sent]
      BY <1>3 DEF Enqueue
    <3>2. sent \in SUBSET Acquires
      OBVIOUS
    <3>. HIDE DEF sent
    <3>. QED BY <1>0, <3>1, <3>2 DEF CallerType
  <2>4. ingress' \in Seq(Acquires)
    BY <1>0, <1>3, AppendIngress DEF Enqueue, CallerType
  <2>5. handle' \in BOOLEAN
    BY <1>3 DEF Enqueue
  <2>7. UNCHANGED <<token, calls, lifecycle>>
    BY <1>3 DEF Enqueue
  <2>8. CallerType'
    BY <1>0, <2>1, <2>2, <2>3, <2>4, <2>5, <2>6, <2>7 DEF CallerType
  <2>. QED BY <1>2, <2>8, TypeSplits
<1>4. CASE ~Enqueue(c)
  <2>1. UNCHANGED <<meta, calls, ingress, behind>> /\ handle' = handle
    BY <1>4 DEF Caller, Continue, PollEnqueue, PollGrant, DropFuture, SendCancel,
                DropReceiver, DropResponse, StartPermit, GiveBack, AwaitEnds, channels
  <2>2. pc' \in [Acquires -> Stages]
    BY <1>0, <1>4 DEF Caller, Continue, PollEnqueue, PollGrant, DropFuture, SendCancel,
                      DropReceiver, DropResponse, StartPermit, GiveBack, AwaitEnds,
                      CallerType, Stages, FutureStages, DropStages, PermitStages
  <2>3. token' \in [Acquires -> {"pending", "cancelled", "accepted", "terminal"}]
    BY <1>0, <1>4 DEF Caller, Continue, PollEnqueue, PollGrant, DropFuture, SendCancel,
                      DropReceiver, DropResponse, StartPermit, GiveBack, AwaitEnds, CallerType
  <2>4. response' \in [Acquires -> Responses] /\ granted' \in [Acquires -> Outcomes]
    BY <1>0, <1>4 DEF Caller, Continue, PollEnqueue, PollGrant, DropFuture, SendCancel,
                      DropReceiver, DropResponse, StartPermit, GiveBack, AwaitEnds,
                      CallerType, Responses, Outcomes
  <2>5. UNCHANGED lifecycle \/ \E command \in Commands : Send(command)
    BY <1>4, CommandTypes
       DEF Caller, Continue, PollEnqueue, PollGrant, DropFuture, SendCancel, DropReceiver,
           DropResponse, StartPermit, GiveBack, AwaitEnds, DropPermit, channels
  <2>6. lifecycle' \in Seq(Commands)
    BY <1>0, <2>5, SendType DEF CallerType
  <2>7. handle' \in BOOLEAN
    BY <1>0, <2>1 DEF CallerType
  <2>8. CallerType'
    BY <1>0, <2>1, <2>2, <2>3, <2>4, <2>6, <2>7 DEF CallerType
  <2>. QED BY <1>2, <2>8, TypeSplits
<1>. QED BY <1>3, <1>4

\* What a lifecycle command does, by its kind.
Handled(command) ==
  \/ \E c \in Acquires : command = Cancel(c) /\ HandleCancel(c)
  \/ \E c \in Acquires : command = Start(c) /\ HandleStart(c)
  \/ \E c \in Acquires : command = Complete(c) /\ HandleComplete(c)
  \/ command = Call /\ UNCHANGED <<pc, token, granted, scheduler, books>>

LEMMA HandleCases ==
  ASSUME NEW command \in Commands, HandleLifecycle(command)
  PROVE  Handled(command)
<1>1. CASE command \in {Call, Shutdown}
  BY <1>1 DEF HandleLifecycle, Handled, Call, Shutdown, Command
<1>2. CASE command \in [kind : {"Cancel", "Start", "Complete"}, job : Acquires]
  <2>1. command.job \in Acquires
    BY <1>2
  <2>2. command = [kind |-> command.kind, job |-> command.job]
    BY <1>2
  <2>3. command.kind \in {"Cancel", "Start", "Complete"}
    BY <1>2
  <2>. QED BY <2>1, <2>2, <2>3 DEF HandleLifecycle, Handled, Cancel, Start, Complete, Command
<1>. QED BY <1>1, <1>2 DEF Commands

\* The drain and the select take a command in the same way.
Takes ==
  /\ actor \in {"drain", "select"} /\ actor' = "drain"
  /\ lifecycle # <<>> /\ lifecycle' = Tail(lifecycle)
  /\ Handled(Head(lifecycle))
  /\ UNCHANGED <<meta, response, handle, calls, ingress, hand, grants, behind>>

LEMMA TakesEither ==
  ASSUME TypeOK, Drain \/ SelectLifecycle
  PROVE  Takes /\ drained' \in 0..DrainBatch
<1>1. lifecycle # <<>> /\ lifecycle' = Tail(lifecycle) /\ HandleLifecycle(Head(lifecycle))
  BY DEF Drain, SelectLifecycle
<1>2. Head(lifecycle) \in Commands
  BY <1>1, TailSent DEF TypeOK
<1>3. drained' \in 0..DrainBatch
  BY ActorAssumption DEF Drain, SelectLifecycle, TypeOK
<1>. QED BY <1>1, <1>2, <1>3, HandleCases DEF Drain, SelectLifecycle, Takes, Quiet

LEMMA ResolveType ==
  ASSUME granted \in [Acquires -> Outcomes], NEW s, NEW value \in Outcomes, Resolve(s, value)
  PROVE  granted' \in [Acquires -> Outcomes]
  BY DEF Resolve

LEMMA AnswerType ==
  ASSUME response \in [Acquires -> Responses], NEW c, NEW value \in Responses,
         Answer(c, value)
  PROVE  response' \in [Acquires -> Responses]
  BY DEF Answer

LEMMA TakesTypes ==
  ASSUME TypeOK, LoopInv, Takes, drained' \in 0..DrainBatch
  PROVE  TypeOK'
<1>0. CallerType /\ ActorType
  BY TypeSplits
<1>1. grants' = {}
  BY DEF Takes, LoopInv
<1>2. lifecycle' \in Seq(Commands)
  BY <1>0, TailSent DEF Takes, CallerType
<1>3. /\ pc' \in [Acquires -> Stages]
      /\ token' \in [Acquires -> {"pending", "cancelled", "accepted", "terminal"}]
      /\ granted' \in [Acquires -> Outcomes]
      /\ pending' \subseteq Acquires
      /\ holders' \subseteq flying' /\ flying' \subseteq Acquires
      /\ waiters' \subseteq Acquires /\ known' \subseteq Acquires
  <2>1. ASSUME NEW c \in Acquires, HandleCancel(c) PROVE <1>3!:
    <3>1. granted' \in [Acquires -> Outcomes]
      BY <1>0, <2>1, ResolveType DEF HandleCancel, CallerType, Outcomes
    <3>. QED BY <1>0, <2>1, <3>1 DEF HandleCancel, Forget, CallerType, ActorType
  <2>2. ASSUME NEW c \in Acquires, HandleStart(c) PROVE <1>3!:
    BY <1>0, <2>2 DEF HandleStart, CallerType, ActorType, books
  <2>3. ASSUME NEW c \in Acquires, HandleComplete(c) PROVE <1>3!:
    BY <1>0, <2>3 DEF HandleComplete, CallerType, ActorType, Stages
  <2>4. CASE UNCHANGED <<pc, token, granted, scheduler, books>>
    BY <1>0, <2>4 DEF CallerType, ActorType, scheduler, books
  <2>. QED BY <2>1, <2>2, <2>3, <2>4 DEF Takes, Handled
<1>4. UNCHANGED <<meta, response, calls, ingress, hand, behind>> /\ actor' = "drain"
  BY DEF Takes
<1>5. handle' \in BOOLEAN
  BY <1>0 DEF Takes, CallerType
<1>6. CallerType'
  BY <1>0, <1>2, <1>3, <1>4, <1>5 DEF CallerType
<1>7. ActorType'
  BY <1>0, <1>1, <1>3, <1>4 DEF ActorType
<1>. QED BY <1>6, <1>7, TypeSplits

LEMMA EndTypes ==
  ASSUME TypeOK, End
  PROVE  TypeOK'
<1>0. CallerType /\ ActorType
  BY TypeSplits
<1>1. granted' \in [Acquires -> Outcomes]
  BY <1>0, ResolveType DEF End, CallerType, Outcomes
<1>2. response' \in [Acquires -> Responses]
  BY <1>0 DEF End, CallerType, Responses
<1>3. handle' \in BOOLEAN /\ ingress' \in Seq(Acquires) /\ lifecycle' \in Seq(Commands)
  BY <1>0, EmptySeq DEF End, Quiet, CallerType
<1>4. CallerType'
  BY <1>0, <1>1, <1>2, <1>3 DEF End, Quiet, CallerType
<1>5. ActorType'
  BY <1>0, ActorAssumption DEF End, ActorType
<1>. QED BY <1>4, <1>5, TypeSplits

LEMMA LoopTypes ==
  ASSUME TypeOK, LoopInv,
         \/ \E g \in SUBSET pending : Pass(g)
         \/ \E c \in Acquires : Deliver(c)
         \/ Sleep \/ Wake \/ SelectEnqueue \/ FinishEnqueue
  PROVE  TypeOK'
<1>0. CallerType /\ ActorType
  BY TypeSplits
<1>1. ASSUME NEW g \in SUBSET pending, Pass(g) PROVE TypeOK'
  <2>1. handle' \in BOOLEAN
    BY <1>0, <1>1 DEF Pass, Quiet, CallerType
  <2>2. CallerType'
    BY <1>0, <1>1, <2>1 DEF Pass, Quiet, CallerType, channels
  <2>3. ActorType'
    BY <1>0, <1>1, ActorAssumption DEF Pass, ActorType, books
  <2>. QED BY <2>2, <2>3, TypeSplits
<1>2. ASSUME NEW c \in Acquires, Deliver(c) PROVE TypeOK'
  <2>1. handle' \in BOOLEAN
    BY <1>0, <1>2 DEF Deliver, Quiet, CallerType
  <2>2. granted' \in [Acquires -> Outcomes]
    BY <1>0, <1>2, ResolveType DEF Deliver, CallerType, Outcomes
  <2>3. lifecycle' \in Seq(Commands)
    BY <1>0, <1>2, SendType, CommandTypes DEF Deliver, DropPermit, CallerType
  <2>4. CallerType'
    BY <1>0, <1>2, <2>1, <2>2, <2>3 DEF Deliver, Quiet, CallerType
  <2>5. ActorType'
    BY <1>0, <1>2 DEF Deliver, ActorType, scheduler
  <2>. QED BY <2>4, <2>5, TypeSplits
<1>3. CASE Sleep \/ Wake
  <2>1. handle' \in BOOLEAN
    BY <1>0, <1>3 DEF Sleep, Wake, Quiet, CallerType
  <2>2. CallerType'
    BY <1>0, <1>3, <2>1 DEF Sleep, Wake, Quiet, CallerType, channels
  <2>3. ActorType'
    BY <1>0, <1>3 DEF Sleep, Wake, ActorType, scheduler, books
  <2>. QED BY <2>2, <2>3, TypeSplits
<1>4. CASE SelectEnqueue
  <2>1. handle' \in BOOLEAN
    BY <1>0, <1>4 DEF SelectEnqueue, Quiet, CallerType
  <2>2. ingress' \in Seq(Acquires) /\ Head(ingress) \in Acquires
    BY <1>0, <1>4, TailIngress DEF SelectEnqueue, CallerType, LoopInv
  <2>3. granted' \in [Acquires -> Outcomes] /\ response' \in [Acquires -> Responses]
    BY <1>0, <1>4, ResolveType, AnswerType
       DEF SelectEnqueue, TakeEnqueue, CallerType, Outcomes, Responses, Refusals
  <2>4. token' \in [Acquires -> {"pending", "cancelled", "accepted", "terminal"}]
    BY <1>0, <1>4, <2>2 DEF SelectEnqueue, TakeEnqueue, CallerType
  <2>5. CallerType'
    BY <1>0, <1>4, <2>1, <2>2, <2>3, <2>4 DEF SelectEnqueue, Quiet, CallerType
  <2>6. ActorType'
    BY <1>0, <1>4, <2>2 DEF SelectEnqueue, TakeEnqueue, ActorType, scheduler, books
  <2>. QED BY <2>5, <2>6, TypeSplits
<1>5. CASE FinishEnqueue
  <2>0. hand \in Acquires
    BY <1>5 DEF FinishEnqueue, LoopInv
  <2>1. handle' \in BOOLEAN
    BY <1>0, <1>5 DEF FinishEnqueue, Quiet, CallerType
  <2>2. granted' \in [Acquires -> Outcomes]
    <3>1. CASE RefuseEnqueue(hand)
      BY <1>0, <3>1, ResolveType DEF RefuseEnqueue, CallerType, Outcomes
    <3>2. CASE AcceptEnqueue(hand)
      BY <1>0, <3>2 DEF AcceptEnqueue, CallerType, Outcomes
    <3>. QED BY <1>5, <3>1, <3>2 DEF FinishEnqueue
  <2>3. response' \in [Acquires -> Responses]
    <3>1. \E value \in Responses : Answer(hand, value)
      BY <1>5 DEF FinishEnqueue, RefuseEnqueue, AcceptEnqueue, Responses, Refusals
    <3>. QED BY <1>0, <3>1, AnswerType DEF CallerType
  <2>4. token' \in [Acquires -> {"pending", "cancelled", "accepted", "terminal"}]
    BY <1>0, <1>5 DEF FinishEnqueue, RefuseEnqueue, AcceptEnqueue, CallerType
  <2>5. CallerType'
    BY <1>0, <1>5, <2>1, <2>2, <2>3, <2>4 DEF FinishEnqueue, Quiet, CallerType, channels
  <2>6. /\ pending' \subseteq Acquires /\ waiters' \subseteq Acquires /\ known' \subseteq Acquires
    BY <1>0, <1>5, <2>0 DEF FinishEnqueue, RefuseEnqueue, AcceptEnqueue, ActorType, books
  <2>7. ActorType'
    BY <1>0, <1>5, <2>6 DEF FinishEnqueue, ActorType
  <2>. QED BY <2>5, <2>7, TypeSplits
<1>. QED BY <1>1, <1>2, <1>3, <1>4, <1>5

LEMMA NextType == TypeOK /\ LoopInv /\ [Next]_vars => TypeOK'
<1> SUFFICES ASSUME TypeOK, LoopInv, [Next]_vars PROVE TypeOK'
  OBVIOUS
<1>0. CallerType /\ ActorType
  BY TypeSplits
<1>1. CASE MakeCall \/ RequestShutdown
  <2>1. lifecycle' \in Seq(Commands)
    BY <1>0, <1>1, SendType, CommandTypes DEF MakeCall, RequestShutdown, CallerType
  <2>2. calls' \in 0..MaxCalls /\ handle' \in BOOLEAN
    BY <1>0, <1>1, ActorAssumption DEF MakeCall, RequestShutdown, CallerType
  <2>3. CallerType'
    BY <1>0, <1>1, <2>1, <2>2 DEF MakeCall, RequestShutdown, CallerType
  <2>4. ActorType'
    BY <1>0, <1>1 DEF MakeCall, RequestShutdown, ActorType, loop, scheduler, books
  <2>. QED BY <2>3, <2>4, TypeSplits
<1>2. CASE DropHandle
  <2>1. handle' \in BOOLEAN
    BY <1>2 DEF DropHandle
  <2>2. CallerType'
    BY <1>0, <1>2, <2>1 DEF DropHandle, CallerType, channels
  <2>3. ActorType'
    BY <1>0, <1>2 DEF DropHandle, ActorType, loop, scheduler, books
  <2>. QED BY <2>2, <2>3, TypeSplits
<1>3. CASE UNCHANGED vars
  <2>1. handle' \in BOOLEAN
    BY <1>0, <1>3 DEF vars, CallerType
  <2>2. CallerType' /\ ActorType'
    BY <1>0, <1>3, <2>1 DEF vars, CallerType, ActorType
  <2>. QED BY <2>2, TypeSplits
<1>4. CASE \E c \in Acquires : Caller(c)
  BY <1>4, CallerTypes
<1>5. CASE SeeShutdown \/ SeeClosed \/ Panic
  BY <1>5, EndTypes DEF SeeShutdown, SeeClosed, Panic
<1>6. CASE Drain \/ SelectLifecycle
  BY <1>6, TakesEither, TakesTypes
<1>. QED BY <1>1, <1>2, <1>3, <1>4, <1>5, <1>6, LoopTypes DEF Next, Loop

-----------------------------------------------------------------------------
(* The callers' steps, acquire by acquire.                                 *)

\* Nothing that Sound looks at changes for d.
FutureKept(d) ==
  /\ pc'[d] = pc[d] /\ token'[d] = token[d]
  /\ response'[d] = response[d] /\ granted'[d] = granted[d]

PlaceKept(d) ==
  /\ InIngress(d)' <=> InIngress(d)
  /\ InHand(d)' <=> InHand(d)
  /\ d \in pending' <=> d \in pending
  /\ d \in flying' <=> d \in flying
  /\ d \in grants' <=> d \in grants
  /\ d \in waiters' <=> d \in waiters
  /\ d \in known' <=> d \in known

SentKept(d) ==
  /\ Sent(Cancel(d))' <=> Sent(Cancel(d))
  /\ Sent(Start(d))' <=> Sent(Start(d))
  /\ Sent(Complete(d))' <=> Sent(Complete(d))

LEMMA KeptSound ==
  ASSUME NEW d \in Acquires, Sound(d), FutureKept(d), PlaceKept(d), SentKept(d)
  PROVE  Sound(d)'
  BY DEF Sound, IdleSound, QueuedSound, PendingSound, AcceptedSound, PermitSound, FutureSound,
         Queued, Ungranted, Unresolved, CancelReaches, HasReceiver,
         FutureKept, PlaceKept, SentKept

LEMMA CallerPlaces ==
  ASSUME TypeOK, NEW c \in Acquires, Caller(c)
  PROVE  /\ UNCHANGED <<actor, drained, hand, grants, pending, flying, holders, waiters, known>>
         /\ \A d \in Acquires : d # c => FutureKept(d)
         /\ \A d \in Acquires : PlaceKept(d) \/ (Enqueue(c) /\ d = c)
<1>1. UNCHANGED <<actor, drained, hand, grants, pending, flying, holders, waiters, known>>
  BY DEF Caller, Continue, Enqueue, PollEnqueue, PollGrant, DropFuture, SendCancel,
         DropReceiver, DropResponse, StartPermit, GiveBack, AwaitEnds, loop, scheduler, books
<1>2. \A d \in Acquires : d # c => FutureKept(d)
  BY DEF Caller, Continue, Enqueue, PollEnqueue, PollGrant, DropFuture, SendCancel,
         DropReceiver, DropResponse, StartPermit, GiveBack, AwaitEnds, FutureKept, TypeOK
<1>3. ASSUME NEW d \in Acquires PROVE PlaceKept(d) \/ (Enqueue(c) /\ d = c)
  <2>1. CASE UNCHANGED ingress
    BY <1>1, <2>1 DEF PlaceKept, InIngress, InHand
  <2>2. CASE Enqueue(c) /\ d # c /\ ingress' # ingress
    <3>1. ingress' = Append(ingress, c)
      BY <2>2 DEF Enqueue
    <3>2. InIngress(d)' <=> InIngress(d)
      BY <2>2, <3>1, AppendIngress DEF TypeOK
    <3>. QED BY <1>1, <3>2 DEF PlaceKept, InHand
  <2>3. CASE ~Enqueue(c)
    BY <2>1, <2>3 DEF Caller, Continue, PollEnqueue, PollGrant, DropFuture, SendCancel,
         DropReceiver, DropResponse, StartPermit, GiveBack, AwaitEnds, channels
  <2>. QED BY <2>1, <2>2, <2>3
<1>. QED BY <1>1, <1>2, <1>3

\* A caller sends only commands about its own acquire.
LEMMA CallerSends ==
  ASSUME TypeOK, NEW c \in Acquires, Caller(c)
  PROVE  \/ UNCHANGED lifecycle
         \/ Send(Cancel(c)) \/ Send(Start(c)) \/ Send(Complete(c))
  BY DEF Caller, Continue, Enqueue, PollEnqueue, PollGrant, DropFuture, SendCancel,
         DropReceiver, DropResponse, StartPermit, GiveBack, AwaitEnds, DropPermit, channels

LEMMA SendKeeps ==
  ASSUME TypeOK, NEW command \in Commands, Send(command),
         NEW d, command \notin {Cancel(d), Start(d), Complete(d)}
  PROVE  SentKept(d)
<1>1. \A x : Sent(x)' <=> Sent(x) \/ (Alive /\ x = command)
  BY SendSent DEF TypeOK
<1>. QED BY <1>1 DEF SentKept

LEMMA CallerSoundOther ==
  ASSUME TypeOK, SoundInv, NEW c \in Acquires, Caller(c), NEW d \in Acquires, d # c
  PROVE  Sound(d)'
<1>1. FutureKept(d) /\ PlaceKept(d)
  BY CallerPlaces
<1>2. SentKept(d)
  <2>1. CASE UNCHANGED lifecycle
    BY <2>1, SameSent DEF SentKept
  <2>2. CASE Send(Cancel(c)) \/ Send(Start(c)) \/ Send(Complete(c))
    BY <2>2, SendKeeps, CommandTypes, CommandsDiffer
  <2>. QED BY <2>1, <2>2, CallerSends
<1>. QED BY <1>1, <1>2, KeptSound DEF SoundInv

LEMMA CallerSoundSelf ==
  ASSUME TypeOK, LoopInv, BooksAgree, SoundInv, NEW c \in Acquires, Caller(c)
  PROVE  Sound(c)'
<1>0. Sound(c)
  BY DEF SoundInv
<1>1. CASE Enqueue(c)
  <2>1. pc[c] = "idle" /\ pc'[c] = "enqueuing" /\ UNCHANGED <<token, lifecycle>>
    BY <1>1 DEF Enqueue, TypeOK
  <2>2. SentKept(c)
    BY <2>1, SameSent DEF SentKept
  <2>3. InHand(c)' <=> InHand(c)
    BY <1>1, CallerPlaces DEF Caller, InHand
  <2>4. /\ UNCHANGED <<grants, pending, flying, waiters, known>>
        /\ c \notin pending \cup grants \cup flying
    BY <1>0, <2>1, CallerPlaces DEF Sound, IdleSound, BooksAgree, TypeOK
  <2>5. CASE ingress' = Append(ingress, c) /\ UNCHANGED <<response, granted>>
    <3>1. InIngress(c)'
      BY <2>5, AppendIngress DEF TypeOK
    <3>. QED BY <1>0, <2>1, <2>2, <2>3, <2>4, <2>5, <3>1
             DEF Sound, IdleSound, QueuedSound, PendingSound, AcceptedSound, PermitSound,
                 FutureSound, Queued, Ungranted, Unresolved, HasReceiver, SentKept, FutureStages,
                 PermitStages
  <2>6. CASE UNCHANGED ingress /\ response'[c] \in {"refused", "gone"} /\ granted'[c] = "gone"
    <3>1. InIngress(c)' <=> InIngress(c)
      BY <2>6, SameIngress
    <3>. QED BY <1>0, <2>1, <2>2, <2>3, <2>4, <2>6, <3>1
             DEF Sound, IdleSound, QueuedSound, PendingSound, AcceptedSound, PermitSound,
                 FutureSound, Queued, Ungranted, Unresolved, HasReceiver, SentKept, FutureStages,
                 PermitStages
  <2>. QED BY <1>1, <2>5, <2>6 DEF Enqueue, TypeOK
<1>2. CASE PollEnqueue(c)
  <2>1. /\ pc[c] = "enqueuing" /\ response[c] # "open" /\ response'[c] = "taken"
        /\ pc'[c] = IF response[c] = "accepted" THEN "waiting" ELSE "failed"
        /\ UNCHANGED <<token, granted, lifecycle>>
    BY <1>2 DEF PollEnqueue, TypeOK, channels
  <2>2. SentKept(c) /\ PlaceKept(c)
    BY <1>2, <2>1, SameSent, CallerPlaces DEF SentKept, Enqueue
  <2>. QED BY <1>0, <2>1, <2>2
           DEF Sound, IdleSound, QueuedSound, PendingSound, AcceptedSound, PermitSound,
               FutureSound, Queued, Ungranted, Unresolved, CancelReaches, HasReceiver,
               SentKept, PlaceKept, FutureStages, PermitStages
<1>3. CASE PollGrant(c)
  <2>1. /\ pc[c] = "waiting" /\ granted[c] # "open" /\ granted'[c] = "taken"
        /\ pc'[c] = IF granted[c] = "permit" THEN "held" ELSE "failed"
        /\ UNCHANGED <<token, response, lifecycle>>
    BY <1>3 DEF PollGrant, TypeOK, channels
  <2>2. SentKept(c) /\ PlaceKept(c)
    BY <1>3, <2>1, SameSent, CallerPlaces DEF SentKept, Enqueue
  <2>. QED BY <1>0, <2>1, <2>2
           DEF Sound, IdleSound, QueuedSound, PendingSound, AcceptedSound, PermitSound,
               FutureSound, Queued, Ungranted, Unresolved, CancelReaches, HasReceiver,
               SentKept, PlaceKept, FutureStages, PermitStages
<1>4. CASE DropFuture(c)
  <2>1. /\ pc[c] \in FutureStages
        /\ \/ /\ response[c] # "refused" /\ token[c] \in {"pending", "accepted"}
              /\ token'[c] = "cancelled" /\ pc'[c] = "cancelling"
           \/ /\ response[c] = "refused" \/ token[c] \notin {"pending", "accepted"}
              /\ pc'[c] = "dropping" /\ token'[c] = token[c]
        /\ UNCHANGED <<granted, response, lifecycle>>
    BY <1>4 DEF DropFuture, CancelToken, TypeOK, channels
  <2>2. SentKept(c) /\ PlaceKept(c)
    BY <1>4, <2>1, SameSent, CallerPlaces DEF SentKept, Enqueue, FutureStages
  <2>. QED BY <1>0, <2>1, <2>2
           DEF Sound, IdleSound, QueuedSound, PendingSound, AcceptedSound, PermitSound,
               FutureSound, Queued, Ungranted, Unresolved, CancelReaches, HasReceiver,
               SentKept, PlaceKept, FutureStages, PermitStages
<1>5. CASE SendCancel(c)
  <2>1. /\ pc[c] = "cancelling" /\ pc'[c] = "dropping" /\ Send(Cancel(c))
        /\ UNCHANGED <<token, response, granted>>
    BY <1>5 DEF SendCancel, TypeOK
  <2>2. /\ Sent(Cancel(c))' <=> Sent(Cancel(c)) \/ Alive
        /\ Sent(Start(c))' <=> Sent(Start(c))
        /\ Sent(Complete(c))' <=> Sent(Complete(c))
    BY <2>1, SendSent, CommandTypes, CommandsDiffer DEF TypeOK
  <2>3. PlaceKept(c)
    BY <1>5, <2>1, CallerPlaces DEF Enqueue
  <2>4. Alive \/ (c \notin pending /\ ~InHand(c))
    BY DEF LoopInv, Alive, InHand
  <2>. QED BY <1>0, <2>1, <2>2, <2>3, <2>4
           DEF Sound, IdleSound, QueuedSound, PendingSound, AcceptedSound, PermitSound,
               FutureSound, Queued, Ungranted, Unresolved, CancelReaches, HasReceiver,
               PlaceKept, FutureStages, PermitStages
<1>6. CASE DropReceiver(c)
  <2>1. /\ pc[c] = "dropping" /\ pc'[c] \in {"dropped", "emptying"} /\ granted'[c] = "taken"
        /\ UNCHANGED <<token, response>>
        /\ IF granted[c] = "permit" THEN Send(Complete(c)) ELSE UNCHANGED lifecycle
    BY <1>6 DEF DropReceiver, DropPermit, TypeOK
  <2>2. /\ Sent(Complete(c))' <=> Sent(Complete(c)) \/ (granted[c] = "permit" /\ Alive)
        /\ Sent(Start(c))' <=> Sent(Start(c))
        /\ Sent(Cancel(c))' <=> Sent(Cancel(c))
    BY <2>1, SendSent, SameSent, CommandTypes, CommandsDiffer DEF TypeOK
  <2>3. PlaceKept(c)
    BY <1>6, <2>1, CallerPlaces DEF Enqueue
  <2>4. Alive \/ c \notin flying
    BY DEF LoopInv
  <2>. QED BY <1>0, <2>1, <2>2, <2>3, <2>4
           DEF Sound, IdleSound, QueuedSound, PendingSound, AcceptedSound, PermitSound,
               FutureSound, Queued, Ungranted, Unresolved, CancelReaches, HasReceiver,
               PlaceKept, FutureStages, PermitStages
<1>7. CASE DropResponse(c)
  <2>1. /\ pc[c] = "emptying" /\ pc'[c] = "dropped" /\ response'[c] = "taken"
        /\ UNCHANGED <<token, granted, lifecycle>>
    BY <1>7 DEF DropResponse, TypeOK, channels
  <2>2. SentKept(c) /\ PlaceKept(c)
    BY <1>7, <2>1, SameSent, CallerPlaces DEF SentKept, Enqueue
  <2>. QED BY <1>0, <2>1, <2>2
           DEF Sound, IdleSound, QueuedSound, PendingSound, AcceptedSound, PermitSound,
               FutureSound, Queued, Ungranted, Unresolved, CancelReaches, HasReceiver,
               SentKept, PlaceKept, FutureStages, PermitStages
<1>8. CASE StartPermit(c)
  <2>1. /\ pc[c] = "held" /\ pc'[c] = "started" /\ Send(Start(c))
        /\ UNCHANGED <<token, response, granted>>
    BY <1>8 DEF StartPermit, TypeOK
  <2>2. /\ Sent(Start(c))' <=> Sent(Start(c)) \/ Alive
        /\ Sent(Cancel(c))' <=> Sent(Cancel(c))
        /\ Sent(Complete(c))' <=> Sent(Complete(c))
    BY <2>1, SendSent, CommandTypes, CommandsDiffer DEF TypeOK
  <2>3. PlaceKept(c)
    BY <1>8, <2>1, CallerPlaces DEF Enqueue
  <2>. QED BY <1>0, <2>1, <2>2, <2>3
           DEF Sound, IdleSound, QueuedSound, PendingSound, AcceptedSound, PermitSound,
               FutureSound, Queued, Ungranted, Unresolved, CancelReaches, HasReceiver,
               PlaceKept, FutureStages, PermitStages
<1>9. CASE GiveBack(c)
  <2>1. /\ pc[c] \in PermitStages /\ pc'[c] \in {"awaiting", "done"} /\ Send(Complete(c))
        /\ UNCHANGED <<response, granted>>
    BY <1>9 DEF GiveBack, TypeOK
  <2>2. /\ Sent(Complete(c))' <=> Sent(Complete(c)) \/ Alive
        /\ Sent(Cancel(c))' <=> Sent(Cancel(c))
        /\ Sent(Start(c))' <=> Sent(Start(c))
    BY <2>1, SendSent, CommandTypes, CommandsDiffer DEF TypeOK
  <2>3. PlaceKept(c)
    BY <1>9, <2>1, CallerPlaces DEF Enqueue, PermitStages
  <2>4. Alive \/ c \notin flying
    BY DEF LoopInv
  <2>. QED BY <1>0, <2>1, <2>2, <2>3, <2>4
           DEF Sound, IdleSound, QueuedSound, PendingSound, AcceptedSound, PermitSound,
               FutureSound, Queued, Ungranted, Unresolved, CancelReaches, HasReceiver,
               PlaceKept, FutureStages, PermitStages
<1>10. CASE AwaitEnds(c)
  <2>1. /\ pc[c] = "awaiting" /\ pc'[c] = "done"
        /\ UNCHANGED <<token, response, granted, lifecycle>>
    BY <1>10 DEF AwaitEnds, TypeOK, channels
  <2>2. SentKept(c) /\ PlaceKept(c)
    BY <1>10, <2>1, SameSent, CallerPlaces DEF SentKept, Enqueue
  <2>. QED BY <1>0, <2>1, <2>2
           DEF Sound, IdleSound, QueuedSound, PendingSound, AcceptedSound, PermitSound,
               FutureSound, Queued, Ungranted, Unresolved, CancelReaches, HasReceiver,
               SentKept, PlaceKept, FutureStages, PermitStages
<1>. QED BY <1>1, <1>2, <1>3, <1>4, <1>5, <1>6, <1>7, <1>8, <1>9, <1>10 DEF Caller, Continue

-----------------------------------------------------------------------------
(* The actor's steps, acquire by acquire.                                  *)

\* A command that was taken may leave the channel; the others stay in it.
LEMMA TakesSent ==
  ASSUME TypeOK, Takes, NEW d
  PROVE  /\ Sent(Cancel(d))' => Sent(Cancel(d))
         /\ Sent(Start(d))' => Sent(Start(d))
         /\ Sent(Complete(d))' => Sent(Complete(d))
         /\ Sent(Cancel(d)) => Sent(Cancel(d))' \/ Head(lifecycle) = Cancel(d)
         /\ Sent(Complete(d)) => Sent(Complete(d))' \/ Head(lifecycle) = Complete(d)
         /\ Sent(Head(lifecycle))
  BY TailSent DEF Takes, TypeOK

LEMMA TakesSound ==
  ASSUME TypeOK, LoopInv, BooksAgree, SoundInv, Takes, NEW d \in Acquires
  PROVE  Sound(d)'
<1>0. /\ Sound(d) /\ grants = {} /\ grants' = {}
      /\ InIngress(d)' <=> InIngress(d)
      /\ ~InHand(d) /\ ~InHand(d)'
      /\ UNCHANGED response
  BY SameIngress DEF SoundInv, Takes, LoopInv, InHand
<1>1. ASSUME NEW c \in Acquires, Head(lifecycle) = Cancel(c), HandleCancel(c)
      PROVE  Sound(d)'
  <2>1. /\ Sent(Start(d))' => Sent(Start(d))
        /\ Sent(Complete(d))' => Sent(Complete(d))
        /\ Sent(Complete(d)) => Sent(Complete(d))'
        /\ Sent(Cancel(d)) => Sent(Cancel(d))' \/ d = c
    BY <1>1, TakesSent, CommandsDiffer
  <2>2. pc' = pc /\ flying' = flying
    BY <1>1 DEF HandleCancel
  <2>3. CASE d = c /\ c \in known
    <3>1. d \notin pending' /\ d \notin known' /\ d \notin waiters'
      BY <1>1, <2>3 DEF HandleCancel, Forget
    <3>2. granted'[d] = granted[d] \/ (granted'[d] = "gone" /\ d \in pending)
      BY <1>0, <1>1, <2>3 DEF HandleCancel, Resolve, TypeOK, BooksAgree
    <3>. QED BY <1>0, <2>1, <2>2, <2>3, <3>1, <3>2
             DEF Sound, IdleSound, QueuedSound, PendingSound, AcceptedSound, PermitSound,
                 FutureSound, Queued, Ungranted, HasReceiver
  <2>4. CASE d # c \/ c \notin known
    <3>1. /\ token'[d] = token[d] /\ granted'[d] = granted[d]
          /\ d \in pending' <=> d \in pending
          /\ d \in known' <=> d \in known
          /\ d \in waiters' <=> d \in waiters
      BY <1>1, <2>4 DEF HandleCancel, Forget, Resolve, TypeOK
    <3>2. d \in pending => d # c
      BY <2>4 DEF BooksAgree
    <3>. QED BY <1>0, <2>1, <2>2, <3>1, <3>2
             DEF Sound, IdleSound, QueuedSound, PendingSound, AcceptedSound, PermitSound,
                 FutureSound, Queued, Ungranted, Unresolved, CancelReaches, HasReceiver
  <2>. QED BY <2>3, <2>4
<1>2. ASSUME NEW c \in Acquires, Head(lifecycle) = Start(c), HandleStart(c)
      PROVE  Sound(d)'
  <2>1. /\ Sent(Start(d))' => Sent(Start(d))
        /\ Sent(Complete(d))' => Sent(Complete(d))
        /\ Sent(Complete(d)) => Sent(Complete(d))'
        /\ Sent(Cancel(d)) => Sent(Cancel(d))'
    BY <1>2, TakesSent, CommandsDiffer
  <2>2. UNCHANGED <<pc, token, granted, pending, flying, waiters, known>>
    BY <1>2 DEF HandleStart, books
  <2>. QED BY <1>0, <2>1, <2>2
           DEF Sound, IdleSound, QueuedSound, PendingSound, AcceptedSound, PermitSound,
               FutureSound, Queued, Ungranted, Unresolved, CancelReaches, HasReceiver
<1>3. ASSUME NEW c \in Acquires, Head(lifecycle) = Complete(c), HandleComplete(c)
      PROVE  Sound(d)'
  <2>1. /\ Sent(Start(d))' => Sent(Start(d))
        /\ Sent(Complete(d))' => Sent(Complete(d))
        /\ Sent(Complete(d)) => Sent(Complete(d))' \/ d = c
        /\ Sent(Cancel(d)) => Sent(Cancel(d))'
        /\ Sent(Complete(c))
    BY <1>3, TakesSent, CommandsDiffer
  <2>2. UNCHANGED <<granted, pending, waiters>>
    BY <1>3 DEF HandleComplete
  <2>3. CASE d = c
    <3>1. d \notin flying' /\ d \notin known'
      BY <1>3, <2>3 DEF HandleComplete
    <3>2. pc'[d] = IF pc[d] = "awaiting" THEN "done" ELSE pc[d]
      BY <1>3, <2>3 DEF HandleComplete, TypeOK
    <3>3. ~Queued(d) /\ d \notin pending /\ pc[d] # "idle"
      BY <1>0, <2>1, <2>3
         DEF Sound, IdleSound, QueuedSound, AcceptedSound, Ungranted
    <3>. QED BY <1>0, <2>1, <2>2, <3>1, <3>2, <3>3
             DEF Sound, IdleSound, QueuedSound, PendingSound, AcceptedSound, PermitSound,
                 FutureSound, Queued, HasReceiver, FutureStages, PermitStages
  <2>4. CASE d # c
    <3>1. /\ d \in flying' <=> d \in flying
          /\ d \in known' <=> d \in known
          /\ token'[d] = token[d] /\ pc'[d] = pc[d]
      BY <1>3, <2>4 DEF HandleComplete, TypeOK
    <3>. QED BY <1>0, <2>1, <2>2, <2>4, <3>1
             DEF Sound, IdleSound, QueuedSound, PendingSound, AcceptedSound, PermitSound,
                 FutureSound, Queued, Ungranted, Unresolved, CancelReaches, HasReceiver
  <2>. QED BY <2>3, <2>4
<1>4. CASE Head(lifecycle) = Call /\ UNCHANGED <<pc, token, granted, scheduler, books>>
  <2>1. /\ Sent(Start(d))' => Sent(Start(d))
        /\ Sent(Complete(d))' => Sent(Complete(d))
        /\ Sent(Complete(d)) => Sent(Complete(d))'
        /\ Sent(Cancel(d)) => Sent(Cancel(d))'
    BY <1>4, TakesSent, CommandsDiffer
  <2>. QED BY <1>0, <1>4, <2>1
           DEF Sound, IdleSound, QueuedSound, PendingSound, AcceptedSound, PermitSound,
               FutureSound, Queued, Ungranted, Unresolved, CancelReaches, HasReceiver,
               scheduler, books
<1>. QED BY <1>1, <1>2, <1>3, <1>4 DEF Takes, Handled

LEMMA PassSound ==
  ASSUME TypeOK, LoopInv, BooksAgree, SoundInv,
         NEW g \in SUBSET pending, Pass(g), NEW d \in Acquires
  PROVE  Sound(d)'
<1>1. /\ Sound(d) /\ grants = {}
      /\ pending' = pending \ g /\ flying' = flying \cup g /\ grants' = g
      /\ UNCHANGED <<pc, token, response, granted, waiters, known>>
      /\ ~InHand(d) /\ ~InHand(d)'
  BY DEF SoundInv, Pass, LoopInv, books, InHand
<1>2. (InIngress(d)' <=> InIngress(d)) /\ SentKept(d)
  BY SameIngress, SameSent DEF Pass, channels, SentKept
<1>3. d \in g => ~Queued(d)' /\ pc[d] # "idle"
  BY <1>1, <1>2 DEF Sound, QueuedSound, IdleSound, Queued, BooksAgree
<1>. QED BY <1>1, <1>2, <1>3
         DEF Sound, IdleSound, QueuedSound, PendingSound, AcceptedSound, PermitSound,
             FutureSound, Queued, Ungranted, Unresolved, CancelReaches, HasReceiver, SentKept

LEMMA DeliverSound ==
  ASSUME TypeOK, LoopInv, SoundInv, NEW c \in Acquires, Deliver(c), NEW d \in Acquires
  PROVE  Sound(d)'
<1>0. Sound(c) /\ Sound(d) /\ c \in grants /\ c \in known /\ c \in flying /\ Alive
  BY DEF SoundInv, Deliver, LoopInv, TypeOK, Alive
<1>1. /\ grants' = grants \ {c} /\ waiters' = waiters \ {c}
      /\ UNCHANGED <<pc, token, response, pending, flying, known>>
      /\ InIngress(d)' <=> InIngress(d)
      /\ ~InHand(d) /\ ~InHand(d)'
  BY <1>0, SameIngress DEF Deliver, scheduler, InHand
<1>2. CASE c \in waiters /\ HasReceiver(c)
  <2>1. SentKept(d)
    BY <1>2, SameSent DEF Deliver, SentKept
  <2>2. granted'[d] = IF d = c THEN "permit" ELSE granted[d]
    BY <1>0, <1>2 DEF Deliver, Resolve
  <2>. QED BY <1>0, <1>1, <1>2, <2>1, <2>2
           DEF Sound, IdleSound, QueuedSound, PendingSound, AcceptedSound, PermitSound,
               FutureSound, Queued, Ungranted, Unresolved, CancelReaches, HasReceiver,
               SentKept, FutureStages, PermitStages
<1>3. CASE ~(c \in waiters /\ HasReceiver(c))
  <2>1. Send(Complete(c))
    BY <1>0, <1>3 DEF Deliver, DropPermit
  <2>2. /\ Sent(Complete(d))' <=> Sent(Complete(d)) \/ d = c
        /\ Sent(Cancel(d))' <=> Sent(Cancel(d))
        /\ Sent(Start(d))' <=> Sent(Start(d))
    BY <1>0, <2>1, SendSent, CommandTypes, CommandsDiffer DEF TypeOK
  <2>3. granted'[d] = granted[d]
    BY <1>3 DEF Deliver, Resolve, TypeOK
  <2>. QED BY <1>0, <1>1, <2>2, <2>3
           DEF Sound, IdleSound, QueuedSound, PendingSound, AcceptedSound, PermitSound,
               FutureSound, Queued, Ungranted, Unresolved, CancelReaches, HasReceiver,
               FutureStages, PermitStages
<1>. QED BY <1>2, <1>3

LEMMA TakeEnqueueSound ==
  ASSUME TypeOK, LoopInv, BooksAgree, SoundInv, SelectEnqueue, NEW d \in Acquires
  PROVE  Sound(d)'
<1>. DEFINE c == Head(ingress)
<1>0. Sound(d) /\ actor = "select" /\ ~InHand(d)
  BY DEF SoundInv, SelectEnqueue, InHand
<1>1. /\ c \in Acquires /\ InIngress(c)
      /\ InIngress(d)' <=> InIngress(d) /\ d # c
  BY TailIngress DEF SelectEnqueue, LoopInv, TypeOK
<1>2. /\ UNCHANGED <<pc, grants, pending, flying, waiters, known>> /\ SentKept(d)
      /\ TakeEnqueue(c)
  BY SameSent DEF SelectEnqueue, scheduler, books, SentKept
<1>. HIDE DEF c
<1>3. CASE token[c] = "pending"
  <2>1. /\ UNCHANGED <<response, granted>>
        /\ token'[d] = IF d = c THEN "accepted" ELSE token[d]
        /\ InHand(d)' <=> d = c
    BY <1>1, <1>2, <1>3 DEF TakeEnqueue, TypeOK, InHand
  <2>. QED BY <1>0, <1>1, <1>2, <1>3, <2>1
           DEF Sound, IdleSound, QueuedSound, PendingSound, AcceptedSound, PermitSound,
               FutureSound, Queued, Ungranted, Unresolved, CancelReaches, HasReceiver,
               SentKept, FutureStages
<1>4. CASE token[c] # "pending"
  <2>1. ~InHand(d)'
    BY <1>2, <1>4 DEF TakeEnqueue, InHand
  <2>2. CASE d # c
    <3>1. response'[d] = response[d] /\ granted'[d] = granted[d] /\ token'[d] = token[d]
      BY <1>1, <1>2, <1>4, <2>2 DEF TakeEnqueue, Answer, Resolve, TypeOK
    <3>. QED BY <1>0, <1>1, <1>2, <2>1, <2>2, <3>1
             DEF Sound, IdleSound, QueuedSound, PendingSound, AcceptedSound, PermitSound,
                 FutureSound, Queued, Ungranted, Unresolved, CancelReaches, HasReceiver, SentKept
  <2>3. CASE d = c
    <3>1. /\ response'[d] \in {response[d], "Closed"} /\ granted'[d] \in {granted[d], "gone"}
          /\ pc[d] \in {"enqueuing", "cancelling", "dropping", "emptying"} /\ response[d] # "taken"
             => response'[d] = "Closed"
      BY <1>1, <1>2, <1>4, <2>3 DEF TakeEnqueue, Answer, Resolve, TypeOK, HasResponse
    <3>2. d \notin pending \cup grants /\ ~Queued(d)' /\ pc[d] # "idle"
      BY <1>0, <1>1, <1>2, <2>1, <2>3
         DEF Sound, IdleSound, QueuedSound, PendingSound, Queued, LoopInv, BooksAgree
    <3>. QED BY <1>0, <1>1, <1>2, <2>1, <2>3, <3>1, <3>2
             DEF Sound, IdleSound, QueuedSound, PendingSound, AcceptedSound, PermitSound,
                 FutureSound, Queued, Ungranted, Unresolved, CancelReaches, HasReceiver, SentKept
  <2>. QED BY <2>2, <2>3
<1>. QED BY <1>3, <1>4

LEMMA FinishPlaces ==
  ASSUME TypeOK, LoopInv, FinishEnqueue, NEW d \in Acquires
  PROVE  /\ hand \in Acquires /\ InHand(hand) /\ ~InIngress(hand)
         /\ RefuseEnqueue(hand) \/ AcceptEnqueue(hand)
         /\ UNCHANGED <<pc, lifecycle, ingress, flying, grants>> /\ grants = {}
         /\ ~InHand(d)' /\ (InHand(d) <=> d = hand)
         /\ InIngress(d)' <=> InIngress(d)
         /\ SentKept(d)
  BY SameIngress, SameSent DEF FinishEnqueue, LoopInv, InHand, channels, SentKept

LEMMA RefuseSound ==
  ASSUME TypeOK, LoopInv, BooksAgree, SoundInv, FinishEnqueue, RefuseEnqueue(hand),
         NEW d \in Acquires
  PROVE  Sound(d)'
<1>0. Sound(d) /\ UNCHANGED <<pending, waiters, known>>
  BY DEF SoundInv, RefuseEnqueue, books
<1>1. CASE d # hand
  <2>1. response'[d] = response[d] /\ granted'[d] = granted[d] /\ token'[d] = token[d]
    BY <1>1, FinishPlaces DEF RefuseEnqueue, Answer, Resolve, TypeOK
  <2>. QED BY <1>0, <1>1, <2>1, FinishPlaces
           DEF Sound, IdleSound, QueuedSound, PendingSound, AcceptedSound, PermitSound,
               FutureSound, Queued, Ungranted, Unresolved, CancelReaches, HasReceiver, SentKept
<1>2. CASE d = hand
  <2>1. /\ response'[d] \in {response[d], "QueueFull", "Rejected"}
        /\ granted'[d] \in {granted[d], "gone"}
    BY <1>2, FinishPlaces DEF RefuseEnqueue, Answer, Resolve, TypeOK
  <2>2. d \notin pending \cup grants \cup flying \cup known /\ ~Queued(d)' /\ pc[d] # "idle"
    BY <1>0, <1>2, FinishPlaces DEF Sound, IdleSound, QueuedSound, Queued, BooksAgree
  <2>3. pc[d] # "waiting" /\ granted[d] # "permit" /\ ~Sent(Complete(d)) /\ ~Sent(Start(d))
    BY <1>0, <1>2, FinishPlaces DEF Sound, QueuedSound, Queued, Ungranted
  <2>. QED BY <1>0, <1>2, <2>1, <2>2, <2>3, FinishPlaces
           DEF Sound, IdleSound, QueuedSound, PendingSound, AcceptedSound, PermitSound,
               FutureSound, Queued, Ungranted, Unresolved, CancelReaches, HasReceiver, SentKept
<1>. QED BY <1>1, <1>2

\* Where an accepted enqueue leaves the hand, the replaced jobs and the rest.
LEMMA AcceptPlaces ==
  ASSUME TypeOK, LoopInv, BooksAgree, SoundInv, FinishEnqueue, AcceptEnqueue(hand),
         NEW d \in Acquires
  PROVE  /\ d = hand =>
              /\ d \notin Superseded(hand) /\ d \notin pending \cup known \cup waiters \cup flying
              /\ IF HasResponse(d)
                 THEN /\ d \in pending' /\ response'[d] = "accepted"
                      /\ token'[d] = token[d] /\ granted'[d] = granted[d]
                 ELSE /\ d \notin pending' /\ d \notin known' /\ d \notin waiters'
                      /\ response'[d] = response[d] /\ granted'[d] \in {granted[d], "gone"}
         /\ d \in Superseded(hand) =>
              /\ d # hand /\ d \in pending
              /\ d \notin pending' /\ d \notin known' /\ d \notin waiters'
              /\ response'[d] = response[d]
              /\ granted'[d] \in {granted[d], "superseded"}
         /\ d # hand /\ d \notin Superseded(hand) =>
              /\ FutureKept(d) /\ (d \in pending' <=> d \in pending)
              /\ (d \in known' <=> d \in known) /\ (d \in waiters' <=> d \in waiters)
<1>. DEFINE c == hand
            s == Superseded(c)
            lost == IF HasResponse(c) THEN {} ELSE {c}
<1>0. c \in Acquires /\ pc' = pc
  BY FinishPlaces
<1>1. c \notin pending \cup known \cup waiters \cup flying
  BY FinishPlaces DEF SoundInv, Sound, QueuedSound, Queued, BooksAgree
<1>2. s \subseteq pending /\ c \notin s
  BY <1>1 DEF Superseded
<1>3. /\ pending' = ((pending \ s) \cup {c}) \ lost
      /\ known' = ((known \ s) \cup {c}) \ lost
      /\ waiters' = ((waiters \ s) \cup {c}) \ lost
      /\ Answer(c, "accepted")
  BY DEF AcceptEnqueue
<1>4. token'[d] = IF d \in (s \cap known) \cup lost THEN "terminal" ELSE token[d]
  BY DEF AcceptEnqueue
<1>5. granted'[d] = CASE d \in s \cap waiters /\ HasReceiver(d) -> "superseded"
                      [] d \in lost /\ HasReceiver(d) -> "gone"
                      [] OTHER -> granted[d]
  BY DEF AcceptEnqueue
<1>6. response'[d] = IF d = c /\ HasResponse(d) THEN "accepted" ELSE response[d]
  BY <1>3 DEF Answer, TypeOK
<1>. HIDE DEF s
<1>7. CASE d = c
  BY <1>1, <1>2, <1>3, <1>4, <1>5, <1>6, <1>7 DEF s
<1>8. CASE d \in s
  BY <1>1, <1>2, <1>3, <1>4, <1>5, <1>6, <1>8 DEF s
<1>9. CASE d # c /\ d \notin s
  BY <1>0, <1>1, <1>2, <1>3, <1>4, <1>5, <1>6, <1>9 DEF s, FutureKept
<1>. QED BY <1>7, <1>8, <1>9 DEF s

LEMMA AcceptSound ==
  ASSUME TypeOK, LoopInv, BooksAgree, SoundInv, FinishEnqueue, AcceptEnqueue(hand),
         NEW d \in Acquires
  PROVE  Sound(d)'
<1>0. Sound(d)
  BY DEF SoundInv
<1>1. CASE d # hand /\ d \notin Superseded(hand)
  BY <1>0, <1>1, FinishPlaces, AcceptPlaces, KeptSound DEF PlaceKept
<1>2. CASE d = hand
  <2>1. pc[d] # "idle" /\ pc[d] # "waiting" /\ Ungranted(d) /\ Unresolved(d) /\ CancelReaches(d)
    BY <1>0, <1>2, FinishPlaces DEF Sound, IdleSound, QueuedSound, Queued
  <2>2. pc[d] = "enqueuing" => HasResponse(d)
    BY <1>0, <1>2, FinishPlaces DEF Sound, QueuedSound, Queued, HasResponse
  <2>3. CASE HasResponse(d)
    BY <1>0, <1>2, <2>1, <2>2, <2>3, FinishPlaces, AcceptPlaces
       DEF Sound, IdleSound, QueuedSound, PendingSound, AcceptedSound, PermitSound,
           FutureSound, Queued, Ungranted, Unresolved, CancelReaches, HasReceiver, SentKept
  <2>4. CASE ~HasResponse(d)
    BY <1>0, <1>2, <2>1, <2>2, <2>4, FinishPlaces, AcceptPlaces
       DEF Sound, IdleSound, QueuedSound, PendingSound, AcceptedSound, PermitSound,
           FutureSound, Queued, Ungranted, Unresolved, CancelReaches, HasReceiver, SentKept
  <2>. QED BY <2>3, <2>4
<1>3. CASE d \in Superseded(hand)
  <2>1. /\ pc[d] # "idle" /\ ~Queued(d) /\ d \notin flying /\ Ungranted(d)
    BY <1>0, <1>3, AcceptPlaces DEF Sound, IdleSound, QueuedSound, PendingSound, AcceptedSound,
                                    BooksAgree
  <2>. QED BY <1>0, <1>3, <2>1, FinishPlaces, AcceptPlaces
           DEF Sound, IdleSound, QueuedSound, PendingSound, AcceptedSound, PermitSound,
               FutureSound, Queued, Ungranted, Unresolved, CancelReaches, HasReceiver, SentKept
<1>. QED BY <1>1, <1>2, <1>3

\* When the actor ends, everything it held is gone; only what the callers
\* hold by themselves is left to be sound.
LEMMA EndSound ==
  ASSUME TypeOK, LoopInv, SoundInv, End, NEW d \in Acquires
  PROVE  Sound(d)'
<1>1. /\ ~Queued(d)' /\ d \notin pending' \cup grants' \cup flying' \cup known' \cup waiters'
      /\ ~Sent(Cancel(d))' /\ ~Sent(Start(d))' /\ ~Sent(Complete(d))'
      /\ pc' = pc /\ token' = token
  BY DEF End, Queued, InIngress, InHand, Sent
<1>2. /\ granted'[d] \in {granted[d], "closed"} /\ response'[d] \in {response[d], "gone"}
      /\ response'[d] # response[d] => d \in Dropped /\ response[d] = "open"
      /\ granted'[d] # granted[d] => d \in Dropped
  BY DEF End, Resolve
<1>3. Sound(d)
  BY DEF SoundInv
<1>4. pc[d] = "idle" => d \notin Dropped
  <2>1. ASSUME pc[d] = "idle", d \in Dropped PROVE FALSE
    <3>1. ~InIngress(d) /\ ~InHand(d) /\ d \notin waiters
      BY <1>3, <2>1 DEF Sound, IdleSound, Queued
    <3>2. d = hand /\ hand # Nobody
      BY <2>1, <3>1 DEF Dropped, InIngress
    <3>. QED BY <3>1, <3>2 DEF LoopInv, InHand
  <2>. QED BY <2>1
<1>. QED BY <1>1, <1>2, <1>3, <1>4
         DEF Sound, IdleSound, QueuedSound, PendingSound, AcceptedSound, PermitSound,
             FutureSound, Queued, Ungranted, Unresolved, HasReceiver

\* The steps that move no acquire at all.
Neutral ==
  Sleep \/ Wake \/ MakeCall \/ RequestShutdown \/ DropHandle \/ UNCHANGED vars

LEMMA NeutralKeeps ==
  ASSUME Neutral
  PROVE  /\ UNCHANGED <<meta, pc, token, response, granted, ingress, hand, grants, pending,
                         flying, holders, waiters, known>>
         /\ actor' = actor \/ Sleep \/ Wake
         /\ UNCHANGED lifecycle \/ Send(Call) \/ Send(Shutdown)
  BY DEF Neutral, Sleep, Wake, MakeCall, RequestShutdown, DropHandle, vars, channels, loop,
         scheduler, books, Quiet

LEMMA NeutralSound ==
  ASSUME TypeOK, SoundInv, Neutral, NEW d \in Acquires
  PROVE  Sound(d)'
<1>1. SentKept(d)
  <2>1. CASE UNCHANGED lifecycle
    BY <2>1, SameSent DEF SentKept
  <2>2. CASE Send(Call) \/ Send(Shutdown)
    BY <2>2, SendKeeps, CommandTypes, CommandsDiffer
  <2>. QED BY <2>1, <2>2, NeutralKeeps
<1>2. InHand(d)' <=> InHand(d)
  BY NeutralKeeps DEF Sleep, Wake, InHand
<1>3. InIngress(d)' <=> InIngress(d)
  BY NeutralKeeps, SameIngress
<1>. QED BY <1>1, <1>2, <1>3, NeutralKeeps, KeptSound DEF SoundInv, FutureKept, PlaceKept

LEMMA NextSplits ==
  ASSUME [Next]_vars
  PROVE  \/ \E c \in Acquires : Caller(c)
         \/ Neutral
         \/ Drain \/ SelectLifecycle
         \/ \E g \in SUBSET pending : Pass(g)
         \/ \E c \in Acquires : Deliver(c)
         \/ SelectEnqueue \/ FinishEnqueue \/ End
  BY DEF Next, Loop, Neutral, SeeShutdown, SeeClosed, Panic

LEMMA SoundStep ==
  ASSUME TypeOK, LoopInv, BooksAgree, SoundInv, [Next]_vars
  PROVE  SoundInv'
<1> SUFFICES ASSUME NEW d \in Acquires PROVE Sound(d)'
  BY DEF SoundInv
<1>1. CASE \E c \in Acquires : Caller(c)
  BY <1>1, CallerSoundOther, CallerSoundSelf
<1>2. CASE Drain \/ SelectLifecycle
  BY <1>2, TakesEither, TakesSound
<1>3. CASE FinishEnqueue
  BY <1>3, FinishPlaces, RefuseSound, AcceptSound
<1>. QED BY <1>1, <1>2, <1>3, NextSplits, NeutralSound, PassSound, DeliverSound,
            TakeEnqueueSound, EndSound

-----------------------------------------------------------------------------
(* The loop and its books.                                                 *)

LEMMA LoopStep ==
  ASSUME TypeOK, LoopInv, BooksAgree, SoundInv, [Next]_vars
  PROVE  LoopInv'
<1>1. ASSUME NEW c \in Acquires, Caller(c) PROVE LoopInv'
  <2>1. UNCHANGED <<actor, hand, grants, pending, flying, waiters, known>>
    BY <1>1, CallerPlaces
  <2>2. UNCHANGED ingress \/ (Enqueue(c) /\ Alive /\ ingress' = Append(ingress, c))
    BY <1>1 DEF Caller, Continue, Enqueue, PollEnqueue, PollGrant, DropFuture, SendCancel,
                DropReceiver, DropResponse, StartPermit, GiveBack, AwaitEnds, channels
  <2>3. ~Alive => lifecycle' = lifecycle
    BY <1>1, CallerSends DEF Send
  <2>4. CASE UNCHANGED ingress
    BY <2>1, <2>3, <2>4 DEF LoopInv, Alive, InHand, InIngress
  <2>5. CASE Enqueue(c) /\ Alive /\ ingress' = Append(ingress, c)
    <3>1. ~InIngress(c) /\ ~InHand(c)
      BY <2>5 DEF Enqueue, SoundInv, Sound, IdleSound, Queued
    <3>2. \A i, j \in DOMAIN ingress' : ingress'[i] = ingress'[j] => i = j
      BY <2>5, <3>1, AppendIngress DEF LoopInv, TypeOK
    <3>3. \A d \in Acquires : InHand(d)' => ~InIngress(d)'
      <4>. TAKE d \in Acquires
      <4>1. InIngress(d)' <=> InIngress(d) \/ d = c
        BY <2>5, AppendIngress DEF TypeOK
      <4>2. InHand(d)' <=> InHand(d)
        BY <2>1 DEF InHand
      <4>. QED BY <3>1, <4>1, <4>2 DEF LoopInv
    <3>. QED BY <2>1, <2>5, <3>2, <3>3 DEF LoopInv, Alive
  <2>. QED BY <2>2, <2>4, <2>5
<1>2. CASE Neutral
  <2>1. ~Alive => lifecycle' = lifecycle
    BY <1>2, NeutralKeeps DEF Send
  <2>. QED BY <1>2, <2>1, NeutralKeeps DEF LoopInv, Alive, InHand, InIngress, Sleep, Wake
<1>3. CASE Drain \/ SelectLifecycle
  BY <1>3, TakesEither DEF Takes, LoopInv, Alive, InHand
<1>4. ASSUME NEW g \in SUBSET pending, Pass(g) PROVE LoopInv'
  BY <1>4 DEF Pass, LoopInv, BooksAgree, channels, books, Alive, InHand
<1>5. ASSUME NEW c \in Acquires, Deliver(c) PROVE LoopInv'
  BY <1>5 DEF Deliver, LoopInv, scheduler, Alive, InHand
<1>6. CASE SelectEnqueue
  <2>1. /\ Head(ingress) \in Acquires
        /\ \A i, j \in DOMAIN ingress' : ingress'[i] = ingress'[j] => i = j
    BY <1>6, TailIngress DEF SelectEnqueue, LoopInv, TypeOK
  <2>2. \A d \in Acquires : InHand(d)' => ~InIngress(d)'
    <3>. TAKE d \in Acquires
    <3>1. InIngress(d)' <=> InIngress(d) /\ d # Head(ingress)
      BY <1>6, TailIngress DEF SelectEnqueue, LoopInv, TypeOK
    <3>2. InHand(d)' => d = Head(ingress)
      BY <1>6 DEF SelectEnqueue, TakeEnqueue, InHand
    <3>. QED BY <3>1, <3>2
  <2>. QED BY <1>6, <2>1, <2>2
           DEF SelectEnqueue, TakeEnqueue, LoopInv, scheduler, books, Alive
<1>7. CASE FinishEnqueue
  BY <1>7 DEF FinishEnqueue, LoopInv, channels, Alive, InHand
<1>8. CASE End
  BY <1>8 DEF End, LoopInv, Alive, InHand
<1>. QED BY <1>1, <1>2, <1>3, <1>4, <1>5, <1>6, <1>7, <1>8, NextSplits

\* The backlog of a scheduler that has taken one more job.
LEMMA BacklogBound ==
  ASSUME TypeOK, NEW c \in Acquires, Cardinality(pending) <= QueueCapacity,
         ~BacklogFull \/ Superseded(c) # {},
         NEW P, P \subseteq (pending \ Superseded(c)) \cup {c}
  PROVE  Cardinality(P) <= QueueCapacity
<1>1. IsFiniteSet(pending) /\ Cardinality(pending) \in Nat /\ QueueCapacity \in Nat
  BY ActorAssumption, FS_Subset, FS_CardinalityType DEF TypeOK
<1>2. CASE ~BacklogFull
  <2>1. P \subseteq pending \cup {c} /\ IsFiniteSet(pending \cup {c})
    BY <1>1, FS_AddElement
  <2>2. Cardinality(pending \cup {c})
          = IF c \in pending THEN Cardinality(pending) ELSE Cardinality(pending) + 1
    BY <1>1, FS_AddElement, Zenon
  <2>3. Cardinality(P) <= Cardinality(pending \cup {c}) /\ Cardinality(P) \in Nat
        /\ Cardinality(pending \cup {c}) \in Nat
    BY <2>1, FS_Subset, FS_CardinalityType
  <2>. QED BY <1>1, <1>2, <2>2, <2>3 DEF BacklogFull
<1>3. CASE Superseded(c) # {}
  <2>1. PICK j \in pending : j \in Superseded(c)
    BY <1>3 DEF Superseded
  <2>. DEFINE Q == pending \ {j}
  <2>2. IsFiniteSet(Q) /\ Cardinality(Q) = Cardinality(pending) - 1 /\ Cardinality(Q) \in Nat
    BY <1>1, <2>1, FS_RemoveElement, FS_CardinalityType
  <2>3. IsFiniteSet(Q \cup {c}) /\ Cardinality(Q \cup {c}) <= Cardinality(Q) + 1
    BY <2>2, FS_AddElement
  <2>4. P \subseteq Q \cup {c}
    BY <2>1
  <2>. HIDE DEF Q
  <2>5. Cardinality(P) <= Cardinality(Q \cup {c}) /\ Cardinality(P) \in Nat
        /\ Cardinality(Q \cup {c}) \in Nat
    BY <2>3, <2>4, FS_Subset, FS_CardinalityType
  <2>. QED BY <1>1, <2>2, <2>3, <2>5
<1>. QED BY <1>2, <1>3

\* The backlog only grows when an enqueue is accepted.
LEMMA BacklogShrinks ==
  ASSUME TypeOK, Cardinality(pending) <= QueueCapacity, pending' \subseteq pending
  PROVE  Cardinality(pending') <= QueueCapacity
<1>1. IsFiniteSet(pending)
  BY ActorAssumption, FS_Subset DEF TypeOK
<1>2. /\ Cardinality(pending') <= Cardinality(pending)
      /\ Cardinality(pending') \in Nat /\ Cardinality(pending) \in Nat
  BY <1>1, FS_Subset, FS_CardinalityType
<1>. QED BY <1>2, ActorAssumption

LEMMA BooksStep ==
  ASSUME TypeOK, LoopInv, BooksAgree, SoundInv, [Next]_vars
  PROVE  BooksAgree'
<1>0. QueueCapacity \in Nat \ {0} /\ Len(ingress) \in Nat
  BY ActorAssumption, LenProperties DEF TypeOK
<1>1. ASSUME NEW c \in Acquires, Caller(c) PROVE BooksAgree'
  <2>1. UNCHANGED <<grants, pending, flying, waiters, known>>
    BY <1>1, CallerPlaces
  <2>2. CASE UNCHANGED ingress
    BY <2>1, <2>2 DEF BooksAgree
  <2>3. CASE Enqueue(c) /\ Len(ingress) < QueueCapacity /\ ingress' = Append(ingress, c)
    <3>1. Len(ingress') = Len(ingress) + 1
      BY <2>3, AppendIngress DEF TypeOK
    <3>. QED BY <1>0, <2>1, <2>3, <3>1 DEF BooksAgree
  <2>. QED BY <1>1, <2>2, <2>3
           DEF Caller, Continue, Enqueue, PollEnqueue, PollGrant, DropFuture, SendCancel,
               DropReceiver, DropResponse, StartPermit, GiveBack, AwaitEnds, channels
<1>2. CASE Neutral
  BY <1>2, NeutralKeeps DEF BooksAgree
<1>3. CASE Drain \/ SelectLifecycle
  <2>1. Takes
    BY <1>3, TakesEither
  <2>2. UNCHANGED ingress /\ grants = {} /\ grants' = {}
    BY <2>1 DEF Takes, LoopInv
  <2>3. ASSUME NEW c \in Acquires, HandleCancel(c) PROVE BooksAgree'
    <3>1. pending' \subseteq pending
      BY <2>3 DEF HandleCancel
    <3>. QED BY <2>2, <2>3, <3>1, BacklogShrinks DEF BooksAgree, HandleCancel, Forget
  <2>4. ASSUME NEW c \in Acquires, HandleStart(c) PROVE BooksAgree'
    BY <2>2, <2>4 DEF HandleStart, BooksAgree, books
  <2>5. ASSUME NEW c \in Acquires, Head(lifecycle) = Complete(c), HandleComplete(c)
        PROVE  BooksAgree'
    <3>1. c \notin pending
      BY <2>1, <2>5, TakesSent
         DEF SoundInv, Sound, AcceptedSound, Ungranted
    <3>. QED BY <2>2, <2>5, <3>1 DEF HandleComplete, BooksAgree
  <2>6. CASE UNCHANGED <<pc, token, granted, scheduler, books>>
    BY <2>2, <2>6 DEF BooksAgree, scheduler, books
  <2>. QED BY <2>1, <2>3, <2>4, <2>5, <2>6 DEF Takes, Handled
<1>4. ASSUME NEW g \in SUBSET pending, Pass(g) PROVE BooksAgree'
  <2>1. grants = {} /\ UNCHANGED <<ingress, waiters, known>>
    BY <1>4 DEF Pass, LoopInv, channels, books
  <2>. QED BY <1>4, <2>1, BacklogShrinks DEF Pass, BooksAgree
<1>5. ASSUME NEW c \in Acquires, Deliver(c) PROVE BooksAgree'
  <2>1. c \in flying /\ c \notin pending /\ c \in known
    BY <1>5 DEF Deliver, TypeOK, LoopInv, SoundInv, Sound, PendingSound
  <2>. QED BY <1>5, <2>1 DEF Deliver, BooksAgree, scheduler
<1>6. CASE SelectEnqueue
  <2>1. Len(ingress') <= Len(ingress) /\ Len(ingress') \in Nat
    BY <1>6, TailIngress, LenProperties DEF SelectEnqueue, LoopInv, TypeOK
  <2>. QED BY <1>0, <1>6, <2>1 DEF SelectEnqueue, BooksAgree, scheduler, books
<1>7. CASE FinishEnqueue
  <2>1. UNCHANGED <<ingress, flying, grants>> /\ grants = {} /\ hand \in Acquires
    BY <1>7 DEF FinishEnqueue, LoopInv, channels
  <2>2. CASE RefuseEnqueue(hand)
    BY <2>1, <2>2 DEF RefuseEnqueue, BooksAgree, books
  <2>3. CASE AcceptEnqueue(hand)
    <3>1. /\ pending' \subseteq (pending \ Superseded(hand)) \cup {hand}
          /\ ~BacklogFull \/ Superseded(hand) # {}
      BY <2>3 DEF AcceptEnqueue
    <3>2. Cardinality(pending') <= QueueCapacity
      BY <2>1, <3>1, BacklogBound DEF BooksAgree
    <3>. QED BY <2>1, <2>3, <3>2 DEF AcceptEnqueue, BooksAgree
  <2>. QED BY <1>7, <2>2, <2>3 DEF FinishEnqueue
<1>8. CASE End
  <2>1. Len(<<>>) = 0 /\ Cardinality({}) = 0
    BY FS_EmptySet
  <2>. QED BY <1>0, <1>8, <2>1 DEF End, BooksAgree
<1>. QED BY <1>1, <1>2, <1>3, <1>4, <1>5, <1>6, <1>7, <1>8, NextSplits

-----------------------------------------------------------------------------
(* Lanes.                                                                  *)

\* Where nobody comes to use a lane and no user loses its hold, lanes exclude.
LEMMA LanesShrink ==
  ASSUME LaneInv,
         \A c \in Acquires : InUse(c)' => InUse(c) /\ meta'[c] = meta[c],
         \A c \in holders' : c \in holders /\ meta'[c] = meta[c],
         (Alive)' => Alive /\ \A c \in Acquires : InUse(c)' /\ c \in holders => c \in holders'
  PROVE  LaneInv'
  BY DEF LaneInv, LanesExclude

LEMMA LanesStep ==
  ASSUME TypeOK, LoopInv, BooksAgree, SoundInv, LaneInv, [Next]_vars
  PROVE  LaneInv'
<1>1. ASSUME NEW c \in Acquires, Caller(c) PROVE LaneInv'
  <2>1. UNCHANGED <<actor, grants, holders, flying>>
    BY <1>1, CallerPlaces
  <2>2. CASE ~Enqueue(c)
    <3>1. UNCHANGED meta
      BY <1>1, <2>2 DEF Caller, Continue, PollEnqueue, PollGrant, DropFuture, SendCancel,
                        DropReceiver, DropResponse, StartPermit, GiveBack, AwaitEnds
    <3>2. InUse(c)' => InUse(c)
      BY <1>1, <2>1, <2>2, <3>1
         DEF Caller, Continue, PollEnqueue, PollGrant, DropFuture, SendCancel, DropReceiver,
             DropResponse, StartPermit, GiveBack, AwaitEnds, TypeOK, InUse, Buffered,
             HasReceiver, FutureStages, PermitStages
    <3>3. \A d \in Acquires : InUse(d)' => InUse(d)
      BY <1>1, <2>1, <3>1, <3>2, CallerPlaces DEF FutureKept, InUse, Buffered, HasReceiver
    <3>. QED BY <2>1, <3>1, <3>3, LanesShrink DEF Alive
  <2>3. CASE Enqueue(c)
    <3>1. /\ pc[c] = "idle" /\ pc'[c] = "enqueuing" /\ granted'[c] \in {granted[c], "gone"}
          /\ \A d \in Acquires : d # c => meta'[d] = meta[d]
      BY <2>3 DEF Enqueue, TypeOK
    <3>2. c \notin flying /\ granted[c] = "open"
      BY <3>1 DEF SoundInv, Sound, IdleSound
    <3>3. ~InUse(c)'
      BY <2>1, <3>1, <3>2 DEF TypeOK, InUse, Buffered
    <3>4. \A d \in Acquires : InUse(d)' => InUse(d) /\ meta'[d] = meta[d]
      BY <1>1, <2>1, <3>1, <3>3, CallerPlaces DEF FutureKept, InUse, Buffered, HasReceiver
    <3>5. \A d \in holders' : d \in holders /\ meta'[d] = meta[d]
      BY <2>1, <3>1, <3>2 DEF TypeOK
    <3>. QED BY <2>1, <3>4, <3>5, LanesShrink DEF Alive
  <2>. QED BY <2>2, <2>3
<1>2. CASE Neutral
  <2>1. (Alive)' => Alive
    BY <1>2, NeutralKeeps DEF Alive, Sleep, Wake
  <2>2. UNCHANGED <<meta, pc, granted, grants, holders>>
    BY <1>2, NeutralKeeps
  <2>. QED BY <2>1, <2>2, LanesShrink DEF InUse, Buffered, HasReceiver
<1>3. CASE Drain \/ SelectLifecycle
  <2>1. Takes
    BY <1>3, TakesEither
  <2>2. grants = {} /\ grants' = {} /\ UNCHANGED meta /\ Alive
    BY <2>1 DEF Takes, LoopInv, Alive
  <2>3. ASSUME NEW c \in Acquires, HandleCancel(c) PROVE LaneInv'
    <3>1. UNCHANGED <<pc, holders>>
          /\ \A d \in Acquires : granted'[d] \in {granted[d], "gone"}
      BY <2>3 DEF HandleCancel, Resolve, TypeOK
    <3>2. \A d \in Acquires : InUse(d)' => InUse(d)
      BY <2>2, <3>1 DEF InUse, Buffered, HasReceiver
    <3>. QED BY <2>2, <3>1, <3>2, LanesShrink
  <2>4. ASSUME NEW c \in Acquires, Head(lifecycle) = Start(c), HandleStart(c) PROVE LaneInv'
    <3>1. /\ UNCHANGED <<pc, granted>>
          /\ holders' = IF meta[c].lane \in OrderedStart THEN holders \ {c} ELSE holders
      BY <2>4 DEF HandleStart
    <3>2. pc[c] \in {"started", "awaiting", "done"}
      BY <2>1, <2>4, TakesSent DEF SoundInv, Sound, PermitSound
    <3>3. meta[c].lane \in OrderedStart => ~InUse(c)
      BY <2>2, <3>2 DEF InUse, Buffered, HasReceiver, FutureStages
    <3>4. \A d \in Acquires : InUse(d)' => InUse(d)
      BY <2>2, <3>1 DEF InUse, Buffered, HasReceiver
    <3>. QED BY <2>2, <3>1, <3>3, <3>4, LanesShrink
  <2>5. ASSUME NEW c \in Acquires, Head(lifecycle) = Complete(c), HandleComplete(c)
        PROVE  LaneInv'
    <3>1. UNCHANGED granted /\ holders' = holders \ {c}
          /\ \A d \in Acquires : pc'[d] = pc[d] \/ (pc[d] = "awaiting" /\ pc'[d] = "done")
      BY <2>5 DEF HandleComplete, TypeOK
    <3>2. granted[c] # "permit" /\ pc[c] \notin PermitStages
      BY <2>1, <2>5, TakesSent DEF SoundInv, Sound, PermitSound
    <3>3. \A d \in Acquires : InUse(d)' => InUse(d)
      BY <2>2, <3>1 DEF InUse, Buffered, HasReceiver, FutureStages
    <3>4. ~InUse(c)
      BY <2>2, <3>2 DEF InUse, Buffered, PermitStages
    <3>. QED BY <2>2, <3>1, <3>3, <3>4, LanesShrink
  <2>6. CASE UNCHANGED <<pc, token, granted, scheduler, books>>
    BY <2>2, <2>6, LanesShrink DEF scheduler, InUse, Buffered, HasReceiver
  <2>. QED BY <2>1, <2>3, <2>4, <2>5, <2>6 DEF Takes, Handled
<1>4. ASSUME NEW g \in SUBSET pending, Pass(g) PROVE LaneInv'
  <2>1. /\ UNCHANGED <<meta, pc, granted>> /\ grants = {} /\ grants' = g /\ Alive
        /\ holders' = holders \cup {c \in g : meta[c].lane # NoLane}
        /\ g \subseteq Acquires
    BY <1>4 DEF Pass, Quiet, LoopInv, TypeOK, Alive
  <2>2. \A c \in g : meta[c].lane # NoLane =>
          \A j \in (g \ {c}) \cup holders : meta[j].lane # meta[c].lane
    BY <1>4 DEF Pass, Grantable
  <2>3. \A c \in Acquires : InUse(c)' => InUse(c) \/ c \in g
    BY <2>1 DEF InUse, Buffered, HasReceiver
  <2>4. \A c \in Acquires : InUse(c)' /\ meta'[c].lane # NoLane => c \in holders'
    BY <2>1, <2>3 DEF LaneInv
  <2>5. \A c \in holders' : meta'[c].lane # NoLane
    BY <2>1 DEF LaneInv
  <2>6. \A c, d \in holders' : c # d => meta'[c].lane # meta'[d].lane
    BY <2>1, <2>2 DEF LaneInv
  <2>7. LanesExclude'
    BY <2>4, <2>6 DEF LanesExclude
  <2>. QED BY <2>4, <2>5, <2>6, <2>7 DEF LaneInv
<1>5. ASSUME NEW c \in Acquires, Deliver(c) PROVE LaneInv'
  <2>1. /\ UNCHANGED <<meta, pc, holders>> /\ c \in grants /\ grants' = grants \ {c} /\ Alive
        /\ \A d \in Acquires : d # c => granted'[d] = granted[d]
    BY <1>5 DEF Deliver, Quiet, scheduler, Resolve, Alive, TypeOK
  <2>2. \A d \in Acquires : InUse(d)' => InUse(d)
    BY <2>1 DEF InUse, Buffered, HasReceiver
  <2>. QED BY <2>1, <2>2, LanesShrink
<1>6. CASE SelectEnqueue
  <2>1. /\ UNCHANGED <<meta, pc, grants, holders>> /\ Alive
        /\ \A d \in Acquires : granted'[d] \in {granted[d], "gone"}
    BY <1>6 DEF SelectEnqueue, TakeEnqueue, Resolve, Quiet, scheduler, Alive, TypeOK
  <2>2. \A d \in Acquires : InUse(d)' => InUse(d)
    BY <2>1 DEF InUse, Buffered, HasReceiver
  <2>. QED BY <2>1, <2>2, LanesShrink
<1>7. CASE FinishEnqueue
  <2>1. /\ UNCHANGED <<meta, pc, grants, holders>> /\ Alive
        /\ \A d \in Acquires : granted'[d] \in {granted[d], "gone", "superseded"}
    BY <1>7 DEF FinishEnqueue, RefuseEnqueue, AcceptEnqueue, Resolve, Quiet, Alive, TypeOK
  <2>2. \A d \in Acquires : InUse(d)' => InUse(d)
    BY <2>1 DEF InUse, Buffered, HasReceiver
  <2>. QED BY <2>1, <2>2, LanesShrink
<1>8. CASE End
  <2>1. /\ UNCHANGED <<meta, pc>> /\ grants' = {} /\ holders' = {} /\ ~(Alive)'
        /\ \A d \in Acquires : granted'[d] \in {granted[d], "closed"}
    BY <1>8 DEF End, Resolve, Quiet, Alive, TypeOK
  <2>2. \A d \in Acquires : InUse(d)' => InUse(d)
    BY <2>1 DEF InUse, Buffered, HasReceiver
  <2>. QED BY <2>1, <2>2, LanesShrink
<1>. QED BY <1>1, <1>2, <1>3, <1>4, <1>5, <1>6, <1>7, <1>8, NextSplits

-----------------------------------------------------------------------------
LEMMA InitIInv == Init => IInv
<1> SUFFICES ASSUME Init PROVE IInv
  OBVIOUS
<1>1. TypeOK
  BY InitType
<1>2. LoopInv
  BY DEF Init, LoopInv, Alive, InHand
<1>3. BooksAgree
  BY FS_EmptySet, ActorAssumption DEF Init, BooksAgree
<1>4. SoundInv
  BY DEF Init, SoundInv, Sound, IdleSound, QueuedSound, PendingSound, AcceptedSound,
         PermitSound, FutureSound, Queued, InIngress, InHand, Ungranted, Sent, PermitStages
<1>5. LaneInv
  BY DEF Init, LaneInv, LanesExclude, InUse, Buffered
<1>. QED BY <1>1, <1>2, <1>3, <1>4, <1>5 DEF IInv

LEMMA NextIInv == IInv /\ [Next]_vars => IInv'
  BY NextType, LoopStep, BooksStep, SoundStep, LanesStep DEF IInv

LEMMA Inductive == Spec => []IInv
  BY InitIInv, NextIInv, PTL DEF Spec

\* The actor and its callers keep every channel, token and book in its type.
THEOREM TypeCorrect == Spec => []TypeOK
<1>1. IInv => TypeOK
  BY DEF IInv
<1>. QED BY <1>1, Inductive, PTL

\* The actor's books agree with the scheduler, and neither the ingress nor the
\* backlog outgrows the capacity, for any number of callers.
THEOREM BooksAlwaysAgree == Spec => []BooksAgree
<1>1. IInv => BooksAgree
  BY DEF IInv
<1>. QED BY <1>1, Inductive, PTL

\* While the actor runs, no permit is lost between the grant, the oneshot, the
\* caller and the way back, wherever the future is dropped.
THEOREM NoPermitIsLost == Spec => []PermitsAreNeverLost
<1>1. IInv => PermitsAreNeverLost
  BY DEF IInv, TypeOK, SoundInv, Sound, PermitSound, PermitsAreNeverLost, Buffered
<1>. QED BY <1>1, Inductive, PTL

\* Of a lane at most one permit is outstanding (or not started, in an
\* OrderedStart lane), also after the actor has ended.
THEOREM LanesAlwaysExclude == Spec => []LanesExclude
<1>1. IInv => LanesExclude
  BY DEF IInv, LaneInv
<1>. QED BY <1>1, Inductive, PTL

\* Once the actor sleeps with no command left, an acquire that has ended holds
\* no place in the backlog, no slot and no lane.
THEOREM NothingIsLeftBehind == Spec => []EndedAcquiresLeaveNothing
<1>1. IInv => EndedAcquiresLeaveNothing
  <2> SUFFICES ASSUME IInv, actor = "select", lifecycle = <<>>, NEW c \in Acquires,
                      pc[c] \in {"failed", "dropped", "done"}
               PROVE  c \notin pending \cup flying
    BY DEF EndedAcquiresLeaveNothing
  <2>1. Sound(c) /\ grants = {}
    BY DEF IInv, SoundInv, LoopInv
  <2>2. ~Sent(Cancel(c)) /\ ~Sent(Complete(c))
    BY DEF Sent
  <2>3. c \notin pending
    BY <2>1, <2>2 DEF Sound, PendingSound, CancelReaches, FutureStages
  <2>4. c \notin flying
    BY <2>1, <2>2 DEF Sound, PermitSound, HasReceiver, FutureStages, PermitStages
  <2>. QED BY <2>3, <2>4
<1>. QED BY <1>1, Inductive, PTL

-----------------------------------------------------------------------------
(* Completions ahead of grants.  An acquire sends one Cancel or one Start,  *)
(* and one Complete; so the commands in the channel, those of the drain     *)
(* under way and those still to be sent never exceed two per acquire and    *)
(* one per call.                                                            *)

\* c may still send its Cancel or its Start.
MaySignal(c) == pc[c] \in {"idle"} \cup FutureStages \cup {"cancelling", "held"}

\* A Complete of c may still be sent, by its permit or by deliver_grants.
MayComplete(c) ==
  \/ MaySignal(c) \/ pc[c] = "started"
  \/ pc[c] = "dropping" /\ granted[c] = "permit"
  \/ Queued(c) \/ c \in pending \cup grants

Signallers == {c \in Acquires : MaySignal(c)}
Completers == {c \in Acquires : MayComplete(c)}

CommandsBounded ==
  drained + Len(lifecycle) + Cardinality(Signallers) + Cardinality(Completers)
    <= 2 * Cardinality(Acquires) + calls

CountInv == grants \subseteq waiters /\ CommandsBounded

\* The batch holds every command but those of one acquire that is not granted.
BatchIsAmple == DrainBatch >= 2 * (Cardinality(Acquires) - 1) + MaxCalls

\* A set that loses an element is smaller by one.
LEMMA SetsShrink ==
  ASSUME NEW S, IsFiniteSet(S), NEW T, T \subseteq S
  PROVE  /\ IsFiniteSet(T) /\ Cardinality(T) \in Nat /\ Cardinality(S) \in Nat
         /\ Cardinality(T) <= Cardinality(S)
         /\ T # S => Cardinality(T) + 1 <= Cardinality(S)
<1>1. /\ IsFiniteSet(T) /\ Cardinality(T) \in Nat /\ Cardinality(S) \in Nat
      /\ Cardinality(T) <= Cardinality(S)
  BY FS_Subset, FS_CardinalityType
<1>2. ASSUME T # S PROVE Cardinality(T) + 1 <= Cardinality(S)
  <2>1. Cardinality(T) # Cardinality(S)
    BY <1>2, FS_Subset
  <2>. QED BY <1>1, <2>1
<1>. QED BY <1>1, <1>2

\* Sending one command more uses up a call or a sender.
Paid ==
  \/ drained' + Len(lifecycle') <= drained + Len(lifecycle) /\ calls' = calls
  \/ /\ drained' = drained /\ Len(lifecycle') <= Len(lifecycle) + 1
     /\ \/ calls' = calls + 1
        \/ calls' = calls /\ (Signallers' # Signallers \/ Completers' # Completers)

\* Where every command more is paid for, the bound stays.
LEMMA SendersPay ==
  ASSUME TypeOK, TypeOK', CommandsBounded,
         Signallers' \subseteq Signallers, Completers' \subseteq Completers,
         Paid
  PROVE  CommandsBounded'
<1>1. IsFiniteSet(Signallers) /\ IsFiniteSet(Completers)
  BY ActorAssumption, FS_Subset DEF Signallers, Completers
<1>2. /\ Cardinality(Signallers) \in Nat /\ Cardinality(Signallers') \in Nat
      /\ Cardinality(Signallers') <= Cardinality(Signallers)
      /\ Signallers' # Signallers
         => Cardinality(Signallers') + 1 <= Cardinality(Signallers)
  BY <1>1, SetsShrink
<1>3. /\ Cardinality(Completers) \in Nat /\ Cardinality(Completers') \in Nat
      /\ Cardinality(Completers') <= Cardinality(Completers)
      /\ Completers' # Completers
         => Cardinality(Completers') + 1 <= Cardinality(Completers)
  BY <1>1, SetsShrink
<1>4. /\ drained \in Nat /\ drained' \in Nat /\ calls \in Nat /\ calls' \in Nat
      /\ Len(lifecycle) \in Nat /\ Len(lifecycle') \in Nat
  BY LenProperties, ActorAssumption DEF TypeOK
<1>5. Cardinality(Acquires) \in Nat
  BY ActorAssumption, FS_CardinalityType
<1>6. \/ drained' + Len(lifecycle') <= drained + Len(lifecycle) /\ calls' = calls
      \/ /\ drained' = drained /\ Len(lifecycle') <= Len(lifecycle) + 1
         /\ \/ calls' = calls + 1
            \/ /\ calls' = calls
               /\ \/ Cardinality(Signallers') + 1 <= Cardinality(Signallers)
                  \/ Cardinality(Completers') + 1 <= Cardinality(Completers)
  BY <1>2, <1>3, Zenon DEF Paid
<1>. DEFINE n == Cardinality(Acquires)
            l == Len(lifecycle)
            s == Cardinality(Signallers)
            m == Cardinality(Completers)
            d2 == drained'
            l2 == Len(lifecycle')
            s2 == Cardinality(Signallers')
            m2 == Cardinality(Completers')
            k2 == calls'
<1>7. drained + l + s + m <= 2 * n + calls
  BY DEF CommandsBounded
<1>8. /\ n \in Nat /\ l \in Nat /\ s \in Nat /\ m \in Nat /\ drained \in Nat /\ calls \in Nat
      /\ d2 \in Nat /\ l2 \in Nat /\ s2 \in Nat /\ m2 \in Nat /\ k2 \in Nat
      /\ s2 <= s /\ m2 <= m
  BY <1>2, <1>3, <1>4, <1>5
<1>9. \/ d2 + l2 <= drained + l /\ k2 = calls
      \/ /\ d2 = drained /\ l2 <= l + 1
         /\ k2 = calls + 1 \/ (k2 = calls /\ (s2 + 1 <= s \/ m2 + 1 <= m))
  BY <1>6
<1>10. d2 + l2 + s2 + m2 <= 2 * n + k2 => CommandsBounded'
  BY DEF CommandsBounded
<1>. HIDE DEF n, l, s, m, d2, l2, s2, m2, k2
<1>11. d2 + l2 + s2 + m2 <= 2 * n + k2
  BY <1>7, <1>8, <1>9
<1>. QED BY <1>10, <1>11

\* The senders only become fewer.
LEMMA SendersShrink ==
  ASSUME \A d \in Acquires : (MaySignal(d)' => MaySignal(d)) /\ (MayComplete(d)' => MayComplete(d))
  PROVE  Signallers' \subseteq Signallers /\ Completers' \subseteq Completers
  BY DEF Signallers, Completers

LEMMA SendLength ==
  ASSUME lifecycle \in Seq(Commands), NEW command \in Commands, Send(command)
  PROVE  Len(lifecycle') <= Len(lifecycle) + 1
  BY AppendProperties, LenProperties DEF Send

LEMMA KeptSenders ==
  ASSUME NEW d \in Acquires, FutureKept(d), PlaceKept(d)
  PROVE  (MaySignal(d)' <=> MaySignal(d)) /\ (MayComplete(d)' <=> MayComplete(d))
  BY DEF FutureKept, PlaceKept, MaySignal, MayComplete, Queued

\* What a step of c does to its own commands.
LEMMA CallerPays ==
  ASSUME TypeOK, LoopInv, BooksAgree, SoundInv, NEW c \in Acquires, Caller(c)
  PROVE  /\ MaySignal(c)' => MaySignal(c)
         /\ MayComplete(c)' => MayComplete(c)
         /\ \/ UNCHANGED lifecycle
            \/ MaySignal(c) /\ ~MaySignal(c)'
            \/ MayComplete(c) /\ ~MayComplete(c)'
<1>0. Sound(c) /\ UNCHANGED <<actor, hand, grants, pending, flying>>
  BY CallerPlaces DEF SoundInv
<1>1. CASE Enqueue(c)
  BY <1>0, <1>1 DEF Enqueue, MaySignal, MayComplete, TypeOK, FutureStages
<1>2. CASE PollEnqueue(c) \/ PollGrant(c) \/ DropFuture(c) \/ DropResponse(c) \/ AwaitEnds(c)
  <2>1. (MaySignal(c)' => MaySignal(c)) /\ UNCHANGED lifecycle
        /\ (pc'[c] = "started" => pc[c] = "started")
        /\ (pc'[c] = "dropping" => pc[c] \in FutureStages)
    BY <1>2 DEF PollEnqueue, PollGrant, DropFuture, DropResponse, AwaitEnds, MaySignal, TypeOK,
                FutureStages, channels
  <2>2. PlaceKept(c)
    BY <1>2, CallerPlaces DEF Enqueue, PollEnqueue, PollGrant, DropFuture, DropResponse,
                              AwaitEnds, FutureStages
  <2>. QED BY <2>1, <2>2 DEF MaySignal, MayComplete, Queued, PlaceKept
<1>3. CASE SendCancel(c)
  <2>1. pc[c] = "cancelling" /\ pc'[c] = "dropping" /\ PlaceKept(c)
    BY <1>3, CallerPlaces DEF SendCancel, Enqueue, TypeOK
  <2>. QED BY <2>1 DEF MaySignal, MayComplete, FutureStages
<1>4. CASE StartPermit(c)
  <2>1. pc[c] = "held" /\ pc'[c] = "started" /\ PlaceKept(c)
    BY <1>4, CallerPlaces DEF StartPermit, Enqueue, TypeOK
  <2>. QED BY <2>1 DEF MaySignal, MayComplete, FutureStages
<1>5. CASE GiveBack(c)
  <2>1. pc[c] \in PermitStages /\ pc'[c] \in {"awaiting", "done"} /\ PlaceKept(c)
    BY <1>5, CallerPlaces DEF GiveBack, Enqueue, TypeOK, PermitStages
  <2>2. ~Queued(c) /\ c \notin pending \cup grants
    BY <1>0, <2>1 DEF Sound, QueuedSound, AcceptedSound, Ungranted
  <2>. QED BY <2>1, <2>2 DEF MaySignal, MayComplete, Queued, PlaceKept, FutureStages, PermitStages
<1>6. CASE DropReceiver(c)
  <2>1. /\ pc[c] = "dropping" /\ pc'[c] \in {"dropped", "emptying"} /\ PlaceKept(c)
        /\ granted[c] = "permit" \/ UNCHANGED lifecycle
    BY <1>6, CallerPlaces DEF DropReceiver, Enqueue, TypeOK
  <2>2. granted[c] = "permit" => ~Queued(c) /\ c \notin pending \cup grants
    BY <1>0 DEF Sound, QueuedSound, AcceptedSound, Ungranted
  <2>. QED BY <2>1, <2>2 DEF MaySignal, MayComplete, Queued, PlaceKept, FutureStages
<1>. QED BY <1>1, <1>2, <1>3, <1>4, <1>5, <1>6 DEF Caller, Continue

\* The steps that send nothing leave no more senders than there were.
LEMMA QuietSenders ==
  ASSUME TypeOK, LoopInv, BooksAgree, SoundInv,
         Neutral \/ Takes \/ (\E g \in SUBSET pending : Pass(g)) \/ SelectEnqueue
           \/ FinishEnqueue \/ End
  PROVE  Signallers' \subseteq Signallers /\ Completers' \subseteq Completers
<1> SUFFICES ASSUME NEW d \in Acquires
             PROVE  (MaySignal(d)' => MaySignal(d)) /\ (MayComplete(d)' => MayComplete(d))
  BY SendersShrink
<1>1. CASE Neutral
  <2>1. (InHand(d)' <=> InHand(d)) /\ (InIngress(d)' <=> InIngress(d))
    BY <1>1, NeutralKeeps, SameIngress DEF Sleep, Wake, InHand
  <2>. QED BY <1>1, <2>1, NeutralKeeps DEF MaySignal, MayComplete, Queued
<1>2. CASE Takes
  <2>1. /\ grants = {} /\ grants' = {} /\ ~InHand(d)' /\ (InIngress(d)' <=> InIngress(d))
    BY <1>2, SameIngress DEF Takes, LoopInv, InHand
  <2>2. /\ pc'[d] = pc[d] \/ (pc[d] = "awaiting" /\ pc'[d] = "done")
        /\ granted'[d] \in {granted[d], "gone"} /\ pending' \subseteq pending
    BY <1>2 DEF Takes, Handled, HandleCancel, HandleStart, HandleComplete, Resolve, TypeOK,
                scheduler
  <2>. QED BY <2>1, <2>2 DEF MaySignal, MayComplete, Queued, FutureStages
<1>3. CASE \E g \in SUBSET pending : Pass(g)
  <2>1. PICK g \in SUBSET pending : Pass(g)
    BY <1>3
  <2>2. /\ UNCHANGED <<pc, granted>> /\ ~InHand(d)' /\ (InIngress(d)' <=> InIngress(d))
        /\ pending' \subseteq pending /\ grants' \subseteq pending
    BY <2>1, SameIngress DEF Pass, InHand, channels
  <2>. QED BY <2>2 DEF MaySignal, MayComplete, Queued
<1>4. CASE SelectEnqueue
  <2>1. /\ UNCHANGED <<pc, grants, pending>> /\ granted'[d] \in {granted[d], "gone"}
    BY <1>4 DEF SelectEnqueue, TakeEnqueue, Resolve, TypeOK, scheduler
  <2>2. (InIngress(d)' <=> InIngress(d) /\ d # Head(ingress)) /\ InIngress(Head(ingress))
    BY <1>4, TailIngress DEF SelectEnqueue, LoopInv, TypeOK
  <2>3. InHand(d)' => InIngress(d)
    BY <1>4, <2>2 DEF SelectEnqueue, TakeEnqueue, InHand
  <2>. QED BY <2>1, <2>2, <2>3 DEF MaySignal, MayComplete, Queued
<1>5. CASE FinishEnqueue
  <2>1. /\ UNCHANGED <<pc, grants>> /\ ~InHand(d)' /\ (InIngress(d)' <=> InIngress(d))
        /\ RefuseEnqueue(hand) \/ AcceptEnqueue(hand)
        /\ d = hand => InHand(d)
    BY <1>5, FinishPlaces
  <2>2. /\ granted'[d] = "permit" => granted[d] = "permit"
        /\ d \in pending' => d \in pending \/ d = hand
    BY <2>1 DEF RefuseEnqueue, AcceptEnqueue, Resolve, TypeOK
  <2>. QED BY <2>1, <2>2 DEF MaySignal, MayComplete, Queued
<1>6. CASE End
  <2>1. /\ UNCHANGED pc /\ granted'[d] \in {granted[d], "closed"}
        /\ ~InHand(d)' /\ ~InIngress(d)' /\ pending' = {} /\ grants' = {}
    BY <1>6 DEF End, Resolve, InHand, InIngress, TypeOK
  <2>. QED BY <2>1 DEF MaySignal, MayComplete, Queued
<1>. QED BY <1>1, <1>2, <1>3, <1>4, <1>5, <1>6

\* A permit that dies in deliver_grants is the last word of its acquire.
LEMMA DeliverPays ==
  ASSUME TypeOK, LoopInv, BooksAgree, SoundInv, grants \subseteq waiters,
         NEW c \in Acquires, Deliver(c)
  PROVE  /\ Signallers' \subseteq Signallers /\ Completers' \subseteq Completers
         /\ UNCHANGED lifecycle \/ (Send(Complete(c)) /\ Completers' # Completers)
<1>0. /\ Sound(c) /\ c \in grants /\ c \in known /\ c \in waiters /\ c \in flying
      /\ c \notin grants' /\ grants' \subseteq grants
      /\ UNCHANGED <<pc, ingress, hand, pending>> /\ actor' = actor
  BY DEF SoundInv, Deliver, LoopInv, TypeOK, scheduler
<1>1. \A d \in Acquires : (InIngress(d)' <=> InIngress(d)) /\ (InHand(d)' <=> InHand(d))
  BY <1>0, SameIngress DEF InHand
<1>2. \A d \in Acquires : granted'[d] = granted[d] \/ d = c
  BY DEF Deliver, Resolve, TypeOK
<1>3. Signallers' \subseteq Signallers /\ Completers' \subseteq Completers
  <2>1. ASSUME NEW d \in Acquires
        PROVE  (MaySignal(d)' => MaySignal(d)) /\ (MayComplete(d)' => MayComplete(d))
    BY <1>0, <1>1, <1>2 DEF MaySignal, MayComplete, Queued
  <2>. QED BY <2>1, SendersShrink
<1>4. CASE HasReceiver(c)
  BY <1>0, <1>3, <1>4 DEF Deliver
<1>5. CASE ~HasReceiver(c)
  <2>1. Send(Complete(c))
    BY <1>0, <1>5 DEF Deliver, DropPermit
  <2>2. MayComplete(c)
    BY <1>0 DEF MayComplete
  <2>3. c \notin pending' /\ c \notin grants'
    BY <1>0 DEF Sound, PendingSound
  <2>4. ~Queued(c)'
    BY <1>0, <1>1 DEF Sound, QueuedSound, Queued
  <2>5. pc'[c] \notin {"idle", "enqueuing", "waiting", "cancelling", "dropping", "held", "started"}
    BY <1>0, <1>5 DEF Sound, IdleSound, AcceptedSound, Ungranted, HasReceiver, FutureStages,
                      PermitStages
  <2>6. ~MayComplete(c)'
    BY <2>3, <2>4, <2>5 DEF MayComplete, MaySignal, FutureStages
  <2>7. Completers' # Completers
    BY <2>2, <2>6 DEF Completers
  <2>. QED BY <1>3, <2>1, <2>7
<1>. QED BY <1>4, <1>5

\* Jobs leave the waiters only after the grants.
LEMMA GrantsWait ==
  ASSUME TypeOK, LoopInv, BooksAgree, grants \subseteq waiters, [Next]_vars
  PROVE  (grants \subseteq waiters)'
<1>1. CASE \E c \in Acquires : Caller(c)
  BY <1>1, CallerPlaces
<1>2. CASE Neutral
  BY <1>2, NeutralKeeps
<1>3. CASE Drain \/ SelectLifecycle
  BY <1>3, TakesEither DEF Takes, LoopInv
<1>4. CASE \E g \in SUBSET pending : Pass(g)
  BY <1>4 DEF Pass, books, BooksAgree
<1>5. CASE \E c \in Acquires : Deliver(c)
  BY <1>5 DEF Deliver
<1>6. CASE SelectEnqueue
  BY <1>6 DEF SelectEnqueue, books
<1>7. CASE FinishEnqueue
  BY <1>7 DEF FinishEnqueue, LoopInv
<1>8. CASE End
  BY <1>8 DEF End
<1>. QED BY <1>1, <1>2, <1>3, <1>4, <1>5, <1>6, <1>7, <1>8, NextSplits

LEMMA CountStep ==
  ASSUME IInv, IInv', CountInv, [Next]_vars
  PROVE  CountInv'
<1>0. /\ TypeOK /\ TypeOK' /\ LoopInv /\ BooksAgree /\ SoundInv
      /\ grants \subseteq waiters /\ CommandsBounded
  BY DEF IInv, CountInv
<1>1. (grants \subseteq waiters)'
  BY <1>0, GrantsWait
<1> SUFFICES CommandsBounded'
  BY <1>1 DEF CountInv
<1>2. /\ lifecycle \in Seq(Commands) /\ Len(lifecycle) \in Nat /\ Len(lifecycle') \in Nat
      /\ drained \in Nat /\ calls \in Nat
  BY <1>0, LenProperties, ActorAssumption DEF TypeOK
<1>3. UNCHANGED <<lifecycle, drained, calls>> => Paid
  BY <1>2 DEF Paid
<1>4. ASSUME NEW c \in Acquires, Caller(c) PROVE CommandsBounded'
  <2>1. UNCHANGED drained /\ \A d \in Acquires : d # c => FutureKept(d) /\ PlaceKept(d)
    BY <1>0, <1>4, CallerPlaces
  <2>2. UNCHANGED calls
    BY <1>4 DEF Caller, Continue, Enqueue, PollEnqueue, PollGrant, DropFuture, SendCancel,
                DropReceiver, DropResponse, StartPermit, GiveBack, AwaitEnds
  <2>3. Signallers' \subseteq Signallers /\ Completers' \subseteq Completers
    BY <1>0, <1>4, <2>1, CallerPays, KeptSenders, SendersShrink
  <2>4. CASE UNCHANGED lifecycle
    BY <1>0, <1>3, <2>1, <2>2, <2>3, <2>4, SendersPay
  <2>5. CASE ~UNCHANGED lifecycle
    <3>1. Len(lifecycle') <= Len(lifecycle) + 1
      BY <1>0, <1>2, <1>4, <2>5, CallerSends, SendLength, CommandTypes
    <3>2. Signallers' # Signallers \/ Completers' # Completers
      BY <1>0, <1>4, <2>5, CallerPays DEF Signallers, Completers
    <3>3. Paid
      BY <2>1, <2>2, <3>1, <3>2 DEF Paid
    <3>. QED BY <1>0, <2>3, <3>3, SendersPay
  <2>. QED BY <2>4, <2>5
<1>5. CASE Neutral
  <2>1. Signallers' \subseteq Signallers /\ Completers' \subseteq Completers
    BY <1>0, <1>5, QuietSenders
  <2>2. \/ UNCHANGED <<lifecycle, drained, calls>>
        \/ UNCHANGED drained /\ calls' = calls + 1 /\ (Send(Call) \/ Send(Shutdown))
    BY <1>5 DEF Neutral, Sleep, Wake, MakeCall, RequestShutdown, DropHandle, vars, channels, loop,
                Quiet
  <2>3. CASE UNCHANGED <<lifecycle, drained, calls>>
    BY <1>0, <1>3, <2>1, <2>3, SendersPay
  <2>4. CASE UNCHANGED drained /\ calls' = calls + 1 /\ (Send(Call) \/ Send(Shutdown))
    <3>1. Len(lifecycle') <= Len(lifecycle) + 1
      BY <1>2, <2>4, SendLength, CommandTypes
    <3>2. Paid
      BY <2>4, <3>1 DEF Paid
    <3>. QED BY <1>0, <2>1, <3>2, SendersPay
  <2>. QED BY <2>2, <2>3, <2>4
<1>6. CASE Drain \/ SelectLifecycle
  <2>1. Takes
    BY <1>0, <1>6, TakesEither
  <2>2. Signallers' \subseteq Signallers /\ Completers' \subseteq Completers
    BY <1>0, <2>1, QuietSenders
  <2>3. UNCHANGED calls /\ Len(lifecycle') = Len(lifecycle) - 1
    BY <1>2, <2>1, HeadTailProperties DEF Takes
  <2>4. drained' \in {drained, drained + 1}
    BY <1>6 DEF Drain, SelectLifecycle
  <2>5. drained' + Len(lifecycle') <= drained + Len(lifecycle)
    BY <1>2, <2>3, <2>4
  <2>6. Paid
    BY <2>3, <2>5 DEF Paid
  <2>. QED BY <1>0, <2>2, <2>6, SendersPay
<1>7. CASE \E g \in SUBSET pending : Pass(g)
  <2>1. Signallers' \subseteq Signallers /\ Completers' \subseteq Completers
    BY <1>0, <1>7, QuietSenders
  <2>2. UNCHANGED <<calls, lifecycle>> /\ drained' = 0
    BY <1>7 DEF Pass, Quiet, channels
  <2>3. drained' + Len(lifecycle') <= drained + Len(lifecycle)
    BY <1>2, <2>2
  <2>4. Paid
    BY <2>2, <2>3 DEF Paid
  <2>. QED BY <1>0, <2>1, <2>4, SendersPay
<1>8. ASSUME NEW c \in Acquires, Deliver(c) PROVE CommandsBounded'
  <2>1. UNCHANGED <<calls, drained>>
    BY <1>8 DEF Deliver, Quiet
  <2>2. Signallers' \subseteq Signallers /\ Completers' \subseteq Completers
    BY <1>0, <1>8, DeliverPays
  <2>3. CASE UNCHANGED lifecycle
    BY <1>0, <1>3, <2>1, <2>2, <2>3, SendersPay
  <2>4. CASE Send(Complete(c)) /\ Completers' # Completers
    <3>1. Len(lifecycle') <= Len(lifecycle) + 1
      BY <1>2, <2>4, SendLength, CommandTypes
    <3>2. Paid
      BY <2>1, <2>4, <3>1 DEF Paid
    <3>. QED BY <1>0, <2>2, <3>2, SendersPay
  <2>. QED BY <1>0, <1>8, <2>3, <2>4, DeliverPays
<1>9. CASE SelectEnqueue \/ FinishEnqueue
  <2>1. Signallers' \subseteq Signallers /\ Completers' \subseteq Completers
    BY <1>0, <1>9, QuietSenders
  <2>2. UNCHANGED <<calls, lifecycle, drained>>
    BY <1>9 DEF SelectEnqueue, FinishEnqueue, Quiet, channels
  <2>. QED BY <1>0, <1>3, <2>1, <2>2, SendersPay
<1>10. CASE End
  <2>1. Signallers' \subseteq Signallers /\ Completers' \subseteq Completers
    BY <1>0, <1>10, QuietSenders
  <2>2. UNCHANGED calls /\ lifecycle' = <<>> /\ drained' = 0
    BY <1>10 DEF End, Quiet
  <2>3. Len(lifecycle') = 0
    BY <2>2, EmptySeq
  <2>4. drained' + Len(lifecycle') <= drained + Len(lifecycle)
    BY <1>2, <2>2, <2>3
  <2>5. Paid
    BY <2>2, <2>4 DEF Paid
  <2>. QED BY <1>0, <2>1, <2>5, SendersPay
<1>. QED BY <1>4, <1>5, <1>6, <1>7, <1>8, <1>9, <1>10, NextSplits

LEMMA CountInit == Init => CountInv
<1> SUFFICES ASSUME Init PROVE CountInv
  OBVIOUS
<1>. DEFINE n == Cardinality(Acquires)
<1>1. n \in Nat
  BY ActorAssumption, FS_CardinalityType
<1>2. Signallers = Acquires /\ Completers = Acquires
  BY DEF Init, Signallers, Completers, MayComplete, MaySignal
<1>3. drained = 0 /\ calls = 0 /\ Len(lifecycle) = 0
  BY EmptySeq DEF Init
<1>4. 0 + 0 + n + n <= 2 * n + 0 => CommandsBounded
  BY <1>2, <1>3 DEF CommandsBounded
<1>. HIDE DEF n
<1>5. 0 + 0 + n + n <= 2 * n + 0
  BY <1>1
<1>. QED BY <1>4, <1>5 DEF CountInv, Init

\* Two different commands in a channel take two places.
LEMMA TwoSent ==
  ASSUME lifecycle \in Seq(Commands), NEW x, NEW y, Sent(x), Sent(y), x # y
  PROVE  Len(lifecycle) \in Nat /\ Len(lifecycle) >= 2
<1>1. DOMAIN lifecycle = 1..Len(lifecycle) /\ Len(lifecycle) \in Nat
  BY LenProperties
<1>2. PICK i \in 1..Len(lifecycle) : lifecycle[i] = x
  BY <1>1 DEF Sent
<1>3. PICK j \in 1..Len(lifecycle) : lifecycle[j] = y
  BY <1>1 DEF Sent
<1>4. i # j
  BY <1>2, <1>3
<1>. QED BY <1>1, <1>2, <1>3, <1>4

\* Only a pass puts jobs in flight.
LEMMA OnlyPassGrants ==
  ASSUME TypeOK, [Next]_vars, NEW c \in flying' \ flying
  PROVE  \E g \in SUBSET pending : Pass(g) /\ c \in g
<1>1. CASE \E d \in Acquires : Caller(d)
  BY <1>1, CallerPlaces
<1>2. CASE Neutral
  BY <1>2, NeutralKeeps
<1>3. CASE Drain \/ SelectLifecycle
  <2>1. Handled(Head(lifecycle))
    BY <1>3, TakesEither DEF Takes
  <2>. QED BY <2>1 DEF Handled, HandleCancel, HandleStart, HandleComplete, scheduler
<1>4. CASE \E g \in SUBSET pending : Pass(g)
  BY <1>4 DEF Pass
<1>5. CASE \E d \in Acquires : Deliver(d)
  BY <1>5 DEF Deliver, scheduler
<1>6. CASE SelectEnqueue \/ FinishEnqueue
  BY <1>6 DEF SelectEnqueue, FinishEnqueue, scheduler
<1>7. CASE End
  BY <1>7 DEF End
<1>. QED BY <1>1, <1>2, <1>3, <1>4, <1>5, <1>6, <1>7, NextSplits

\* When an ample batch is over, no completion is left ahead of a grant: the
\* acquire still has its Complete to send, and its Cancel too unless that is
\* in the channel, so the batch cannot have been used up.
LEMMA PassIsClear ==
  ASSUME BatchIsAmple, IInv, CountInv, NEW g \in SUBSET pending, Pass(g), NEW c \in g,
         NEW b \in Acquires
  PROVE  ~Sent(Complete(b))
<1> SUFFICES ASSUME Sent(Complete(b)) PROVE FALSE
  OBVIOUS
<1>0. TypeOK /\ Sound(c) /\ c \in Acquires /\ c \in pending
  BY DEF IInv, SoundInv, TypeOK
<1>1. Len(lifecycle) \in Nat /\ Len(lifecycle) >= 1
  <2>1. DOMAIN lifecycle = 1..Len(lifecycle) /\ Len(lifecycle) \in Nat
    BY <1>0, LenProperties DEF TypeOK
  <2>. QED BY <2>1 DEF Sent
<1>2. drained = DrainBatch
  BY <1>1, EmptySeq DEF Pass, DrainIsOver
<1>3. IsFiniteSet(Signallers) /\ IsFiniteSet(Completers)
  BY ActorAssumption, FS_Subset DEF Signallers, Completers
<1>4. /\ Cardinality(Signallers) \in Nat /\ Cardinality(Completers) \in Nat
      /\ Cardinality(Acquires) \in Nat
  BY <1>3, ActorAssumption, FS_CardinalityType
<1>5. Cardinality(Completers) >= 1
  <2>1. c \in Completers
    BY <1>0 DEF Completers, MayComplete
  <2>2. Completers # {}
    BY <2>1
  <2>. QED BY <1>3, <1>4, <2>2, FS_EmptySet
<1>6. Len(lifecycle) + Cardinality(Signallers) >= 2
  <2>1. CASE MaySignal(c)
    <3>1. Signallers # {}
      BY <1>0, <2>1 DEF Signallers
    <3>2. Cardinality(Signallers) >= 1
      BY <1>3, <1>4, <3>1, FS_EmptySet
    <3>. QED BY <1>1, <1>4, <3>2
  <2>2. CASE ~MaySignal(c)
    <3>1. Sent(Cancel(c))
      BY <1>0, <2>2 DEF Sound, PendingSound, CancelReaches, MaySignal
    <3>2. Len(lifecycle) >= 2
      BY <1>0, <3>1, TwoSent, CommandsDiffer DEF TypeOK
    <3>. QED BY <1>1, <1>4, <3>2
  <2>. QED BY <2>1, <2>2
<1>. DEFINE n == Cardinality(Acquires)
            l == Len(lifecycle)
            s == Cardinality(Signallers)
            m == Cardinality(Completers)
<1>7. DrainBatch + l + s + m <= 2 * n + calls
  BY <1>2 DEF CountInv, CommandsBounded
<1>8. DrainBatch >= 2 * (n - 1) + MaxCalls
  BY DEF BatchIsAmple
<1>9. /\ n \in Nat /\ l \in Nat /\ s \in Nat /\ m \in Nat /\ calls \in Nat /\ calls <= MaxCalls
      /\ MaxCalls \in Nat /\ DrainBatch \in Nat /\ m >= 1 /\ l + s >= 2
  BY <1>0, <1>1, <1>4, <1>5, <1>6, ActorAssumption DEF TypeOK
<1>. HIDE DEF n, l, s, m
<1>. QED BY <1>7, <1>8, <1>9

\* A completion sent before an acquire is applied before that acquire is
\* granted (run, 1286-1295), for any number of callers and any order of
\* drops, cancels and calls, as long as the drain's batch has room for two
\* commands of every other acquire and one of every call.
THEOREM CompletionsAlwaysApplyFirst ==
  ASSUME BatchIsAmple
  PROVE  Spec => CompletionsApplyFirst
<1>1. IInv /\ IInv' /\ CountInv /\ [Next]_vars => CountInv'
  BY CountStep
<1>2. IInv /\ CountInv /\ [Next]_vars
      => [\A c \in Acquires : c \in flying' \ flying => \A b \in behind[c] : ~Sent(Complete(b))]_vars
  <2> SUFFICES ASSUME IInv, CountInv, [Next]_vars,
                      NEW c \in Acquires, c \in flying' \ flying, NEW b \in behind[c]
               PROVE  ~Sent(Complete(b))
    OBVIOUS
  <2>1. TypeOK /\ b \in Acquires
    BY DEF IInv, TypeOK
  <2>2. PICK g \in SUBSET pending : Pass(g) /\ c \in g
    BY <2>1, OnlyPassGrants
  <2>. QED BY <2>1, <2>2, PassIsClear
<1>. QED BY <1>1, <1>2, CountInit, Inductive, PTL DEF Spec, CompletionsApplyFirst

=============================================================================
