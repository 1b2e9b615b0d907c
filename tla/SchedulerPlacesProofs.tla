----------------------- MODULE SchedulerPlacesProofs -----------------------
(***************************************************************************)
(* Theorems about OutboundScheduler: where the pending jobs wait.  A       *)
(* pending job is asked for through its reference (the job itself, or its  *)
(* lane), and a reference waits in the heap, in `blocked` or parked behind *)
(* a reservation.  The invariant says that a job without a lane is in one  *)
(* of these places at most, that no blocked reference is dead, and that    *)
(* every reference that somebody asks for is in one of them, unless it is  *)
(* a delayed job or a lane without a permit to give.  Then come the owners *)
(* of reservations, which sleep no longer than they hold, and what brings  *)
(* the pending jobs back while the actor sleeps.                           *)
(***************************************************************************)
EXTENDS SchedulerWindowProofs

Delayed(s, j) == s.job[j].delay # NotDelayed
Loose(s, j) == Waiting(s, j) /\ s.job[j].meta.lane = NoLane
Asks(s, ref) == \E j \in JobIds : Waiting(s, j) /\ RefOf(s, j) = ref

InHeap(s, ref) == \E k \in s.cands : k.ref = ref
Parked(s, ref) ==
    \E w \in Windows : \E i \in DOMAIN s.hold[w].queue : s.hold[w].queue[i] = ref

Once(s, ref) ==
    \A w, v \in Windows :
        \A i \in DOMAIN s.hold[w].queue, m \in DOMAIN s.hold[v].queue :
            s.hold[w].queue[i] = ref /\ s.hold[v].queue[m] = ref => w = v /\ i = m

\* A job without a lane that waits nowhere but perhaps in the heap, and one
\* that waits in one place at most.
Free(s, j) == ~Delayed(s, j) /\ ~IsBlocked(s, j) /\ ~Parked(s, j)

Single(s, j) ==
    /\ Delayed(s, j) => ~InHeap(s, j) /\ ~IsBlocked(s, j) /\ ~Parked(s, j)
    /\ InHeap(s, j) => ~IsBlocked(s, j) /\ ~Parked(s, j)
    /\ IsBlocked(s, j) => ~Parked(s, j)
    /\ Once(s, j)

Kept(s, ref) ==
    \/ InHeap(s, ref) \/ IsBlocked(s, ref) \/ Parked(s, ref)
    \/ ref \in Lanes /\ ~HasCapacity(s, ref)
    \/ ref \in JobIds /\ Delayed(s, ref)

\* X: the references in hand, that were taken from their place and are about
\* to be put into another one.
Tidy(s, X) ==
    \A j \in JobIds : Loose(s, j) => IF j \in X THEN Free(s, j) ELSE Single(s, j)
NodesAsk(s) == \A n \in s.blocked : Asks(s, n.ref)
Watchful(s) == \A k \in s.cands : k.ref \in Lanes => ~IsBlocked(s, k.ref)
QueuedOk(s) == \A l \in Lanes : s.lane[l].queued => InHeap(s, l)
AllKept(s, X) ==
    \A ref \in Refs \ X :
        Asks(s, ref) /\ (ref \in Lanes => NotBefores = {}) => Kept(s, ref)
Undelayed(s) == NotBefores = {} => \A j \in JobIds : Waiting(s, j) => ~Delayed(s, j)

\* The invariant.  Outside an admission pass (b) no blocked lane has a key.
Orderly(s, X, b) ==
    /\ Tidy(s, X) /\ NodesAsk(s) /\ (b => Watchful(s))
    /\ QueuedOk(s) /\ AllKept(s, X) /\ Undelayed(s)

LEMMA NoJobIsALane ==
    ASSUME NEW j \in JobIds
    PROVE  j \notin Lanes
BY References DEF JobIds

LEMMA AskingJobs ==
    ASSUME NEW s, Safe(s), NEW j \in JobIds
    PROVE  Asks(s, j) <=> Loose(s, j)
<1>1. Loose(s, j) => Asks(s, j)
    BY DEF Loose, Asks, RefOf
<1>2. ASSUME NEW i \in JobIds, Waiting(s, i), RefOf(s, i) = j
      PROVE  Loose(s, j)
    <2>1. s.job[i].meta.lane \in Lanes \cup {NoLane}
        BY <1>2, WaitingJobs
    <2>2. s.job[i].meta.lane = NoLane
        BY <1>2, <2>1, NoJobIsALane DEF RefOf
    <2> QED BY <1>2, <2>2 DEF Loose, RefOf
<1> QED BY <1>1, <1>2 DEF Asks

LEMMA AskingLanes ==
    ASSUME NEW s, Safe(s), NEW l \in Lanes
    PROVE  Asks(s, l) <=> Live(s, l) # {}
<1>1. ASSUME NEW j \in JobIds, Waiting(s, j), RefOf(s, j) = l
      PROVE  j \in Live(s, l)
    <2>1. s.job[j].meta.lane = l /\ l # NoLane
        BY <1>1, NoJobIsALane, References DEF RefOf
    <2> QED BY <1>1, <2>1 DEF Safe, PendingOk, Live
<1>2. ASSUME NEW j \in Live(s, l)
      PROVE  j \in JobIds /\ Waiting(s, j) /\ RefOf(s, j) = l
    <2>1. j \in JobIds /\ Waiting(s, j) /\ j \in s.lane[l].pending
        BY SafeStatesKnowTheirPending, LiveJobsAreKnown DEF Live
    <2>2. s.job[j].meta.lane = l /\ l # NoLane
        BY <2>1, References DEF Safe, PendingOk
    <2> QED BY <2>1, <2>2 DEF RefOf
<1> QED BY <1>1, <1>2 DEF Asks

LEMMA AskingIsAlive ==
    ASSUME NEW s, Safe(s), NEW ref, RefOk(s, ref)
    PROVE  Asks(s, ref) <=> Alive(s, ref)
<1>1. CASE ref \in Lanes
    BY <1>1, AskingLanes DEF Alive
<1>2. CASE ref \notin Lanes
    BY <1>2, AskingJobs DEF Alive, RefOk, Loose
<1> QED BY <1>1, <1>2

-----------------------------------------------------------------------------
(* Taking references from their places.                                    *)

\* A queue drawn from another: its entries are at different places of it.
Drawn(q, p) ==
    \E f \in [DOMAIN q -> DOMAIN p] :
        /\ \A i \in DOMAIN q : q[i] = p[f[i]]
        /\ \A i, m \in DOMAIN q : f[i] = f[m] => i = m

JobsFit(s, t, Y) ==
    \A j \in JobIds : Waiting(t, j) =>
        /\ Waiting(s, j) /\ t.job[j].meta = s.job[j].meta
        /\ Delayed(t, j) => Delayed(s, j)
        /\ Loose(t, j) /\ j \notin Y /\ Delayed(s, j) => Delayed(t, j)
        /\ Loose(t, j) /\ j \in Y => Free(t, j)

HeapFits(s, t, Y) ==
    /\ t.cands \subseteq s.cands
    /\ \A k \in s.cands : k \in t.cands \/ k.ref \in Y \/ ~Asks(t, k.ref)
    /\ \A l \in Lanes : t.lane[l].queued =>
            s.lane[l].queued /\ (InHeap(s, l) => InHeap(t, l))

NodesFit(s, t, Y) ==
    /\ \A n \in t.blocked : IsBlocked(s, n.ref) /\ Asks(t, n.ref)
    /\ \A n \in s.blocked : n.ref \in Y \/ ~Asks(t, n.ref) \/ IsBlocked(t, n.ref)

QueuesFit(s, t, Y) ==
    /\ \A w \in Windows : Drawn(t.hold[w].queue, s.hold[w].queue)
    /\ \A ref : Parked(s, ref) => Parked(t, ref) \/ ref \in Y \/ ~Asks(t, ref)

LanesFit(s, t, Y) ==
    \A l \in Lanes : HasCapacity(t, l) => HasCapacity(s, l) \/ l \in Y \/ ~Asks(t, l)

Loosened(s, t, Y) ==
    /\ JobsFit(s, t, Y) /\ HeapFits(s, t, Y) /\ NodesFit(s, t, Y)
    /\ QueuesFit(s, t, Y) /\ LanesFit(s, t, Y)

LEMMA DrawnQueues ==
    ASSUME NEW s, NEW t,
           \A w \in Windows : Drawn(t.hold[w].queue, s.hold[w].queue), NEW ref
    PROVE  /\ Parked(t, ref) => Parked(s, ref)
           /\ Once(s, ref) => Once(t, ref)
<1>1. ASSUME NEW w \in Windows, NEW i \in DOMAIN t.hold[w].queue, t.hold[w].queue[i] = ref
      PROVE  Parked(s, ref)
    BY <1>1 DEF Drawn, Parked
<1>2. ASSUME Once(s, ref), NEW w \in Windows, NEW v \in Windows,
             NEW i \in DOMAIN t.hold[w].queue, NEW m \in DOMAIN t.hold[v].queue,
             t.hold[w].queue[i] = ref, t.hold[v].queue[m] = ref
      PROVE  w = v /\ i = m
    <2>1. PICK f \in [DOMAIN t.hold[w].queue -> DOMAIN s.hold[w].queue] :
              /\ \A k \in DOMAIN t.hold[w].queue : t.hold[w].queue[k] = s.hold[w].queue[f[k]]
              /\ \A k, n \in DOMAIN t.hold[w].queue : f[k] = f[n] => k = n
        BY DEF Drawn
    <2>2. PICK g \in [DOMAIN t.hold[v].queue -> DOMAIN s.hold[v].queue] :
              /\ \A k \in DOMAIN t.hold[v].queue : t.hold[v].queue[k] = s.hold[v].queue[g[k]]
              /\ \A k, n \in DOMAIN t.hold[v].queue : g[k] = g[n] => k = n
        BY DEF Drawn
    <2>3. /\ f[i] \in DOMAIN s.hold[w].queue /\ s.hold[w].queue[f[i]] = ref
          /\ g[m] \in DOMAIN s.hold[v].queue /\ s.hold[v].queue[g[m]] = ref
        BY <1>2, <2>1, <2>2
    <2>4. w = v /\ f[i] = g[m]
        BY <1>2, <2>3 DEF Once
    <2>5. s.hold[w].queue[f[m]] = ref /\ f[m] \in DOMAIN s.hold[w].queue
        BY <1>2, <2>1, <2>4
    <2>6. f[i] = f[m]
        BY <1>2, <2>3, <2>5 DEF Once
    <2> QED BY <1>2, <2>1, <2>4, <2>6
<1> QED BY <1>1, <1>2 DEF Parked, Once

LEMMA LooseningKeepsOrder ==
    ASSUME NEW s, NEW t, NEW X, NEW Y, NEW b, Safe(s), Safe(t),
           Orderly(s, X, b), Loosened(s, t, Y)
    PROVE  Orderly(t, X \cup Y, b)
<1>1. \A ref : Asks(t, ref) => Asks(s, ref)
    BY DEF Loosened, JobsFit, Asks, RefOf
<1>2. \A ref : /\ InHeap(t, ref) => InHeap(s, ref)
               /\ IsBlocked(t, ref) => IsBlocked(s, ref)
    BY DEF Loosened, HeapFits, NodesFit, InHeap, IsBlocked
<1>3. \A ref : /\ Parked(t, ref) => Parked(s, ref)
               /\ Once(s, ref) => Once(t, ref)
    BY DrawnQueues DEF Loosened, QueuesFit
<1>4. Tidy(t, X \cup Y)
    <2> SUFFICES ASSUME NEW j \in JobIds, Loose(t, j)
                 PROVE  IF j \in X \cup Y THEN Free(t, j) ELSE Single(t, j)
        BY DEF Tidy
    <2>1. /\ Loose(s, j) /\ (Delayed(t, j) => Delayed(s, j))
          /\ j \in Y => Free(t, j)
        BY DEF Loosened, JobsFit, Loose
    <2>2. IF j \in X THEN Free(s, j) ELSE Single(s, j)
        BY <2>1 DEF Orderly, Tidy
    <2> QED BY <1>2, <1>3, <2>1, <2>2 DEF Free, Single
<1>5. NodesAsk(t)
    BY DEF Loosened, NodesFit, NodesAsk
<1>6. b => Watchful(t)
    BY <1>2 DEF Orderly, Watchful, Loosened, HeapFits
<1>7. QueuedOk(t)
    BY DEF Orderly, QueuedOk, Loosened, HeapFits
<1>8. AllKept(t, X \cup Y)
    <2> SUFFICES ASSUME NEW ref \in Refs \ (X \cup Y), Asks(t, ref), ref \in Lanes => NotBefores = {}
                 PROVE  Kept(t, ref)
        BY DEF AllKept
    <2>1. Kept(s, ref)
        BY <1>1 DEF Orderly, AllKept
    <2>2. CASE InHeap(s, ref)
        BY <2>2 DEF Loosened, HeapFits, InHeap, Kept
    <2>3. CASE IsBlocked(s, ref)
        BY <2>3 DEF Loosened, NodesFit, IsBlocked, Kept
    <2>4. CASE Parked(s, ref)
        BY <2>4 DEF Loosened, QueuesFit, Kept
    <2>5. CASE ref \in Lanes /\ ~HasCapacity(s, ref)
        BY <2>5 DEF Loosened, LanesFit, Kept
    <2>6. CASE ref \in JobIds /\ Delayed(s, ref)
        <3>1. Loose(t, ref) /\ Waiting(t, ref)
            BY <2>6, AskingJobs DEF Loose
        <3> QED BY <2>6, <3>1 DEF Loosened, JobsFit, Kept
    <2> QED BY <2>1, <2>2, <2>3, <2>4, <2>5, <2>6 DEF Kept
<1>9. Undelayed(t)
    BY DEF Orderly, Undelayed, Loosened, JobsFit
<1> QED BY <1>4, <1>5, <1>6, <1>7, <1>8, <1>9 DEF Orderly

-----------------------------------------------------------------------------
(* Putting references into the heap, and leaving them where they are.      *)

LEMMA PushingKeepsOrder ==
    ASSUME NEW s, NEW t, NEW X, NEW R \in SUBSET Refs, NEW b, Safe(s), Safe(t),
           Orderly(s, X \cup R, b), Pushed(s, t, R),
           \A j \in JobIds \cap X \cap R : ~Loose(s, j)
    PROVE  Orderly(t, X, b)
<1>1. /\ t.job = s.job /\ t.blocked = s.blocked /\ t.hold = s.hold
      /\ s.cands \subseteq t.cands
      /\ \A k \in t.cands \ s.cands : k.ref \in R /\ PushedKey(s, k)
    BY DEF Pushed
<1>2. \A ref : /\ Asks(t, ref) <=> Asks(s, ref)
               /\ IsBlocked(t, ref) <=> IsBlocked(s, ref)
               /\ Parked(t, ref) <=> Parked(s, ref)
               /\ Once(t, ref) <=> Once(s, ref)
               /\ Delayed(t, ref) <=> Delayed(s, ref)
               /\ InHeap(s, ref) => InHeap(t, ref)
               /\ InHeap(t, ref) => InHeap(s, ref) \/ ref \in R
    BY <1>1 DEF Asks, Waiting, RefOf, IsBlocked, Parked, Once, Delayed, InHeap
<1>3. \A j : Loose(t, j) <=> Loose(s, j)
    BY <1>1 DEF Loose, Waiting
<1>4. Tidy(t, X)
    <2> SUFFICES ASSUME NEW j \in JobIds, Loose(t, j)
                 PROVE  IF j \in X THEN Free(t, j) ELSE Single(t, j)
        BY DEF Tidy
    <2>1. IF j \in X \cup R THEN Free(s, j) ELSE Single(s, j)
        BY <1>3 DEF Orderly, Tidy
    <2>2. j \in X => j \notin R
        BY <1>3
    <2>3. Free(s, j) => Once(s, j)
        BY DEF Free, Parked, Once
    <2> QED BY <1>2, <2>1, <2>2, <2>3 DEF Free, Single
<1>5. NodesAsk(t)
    BY <1>1, <1>2 DEF Orderly, NodesAsk
<1>6. b => Watchful(t)
    <2> SUFFICES ASSUME b, NEW k \in t.cands, k.ref \in Lanes PROVE ~IsBlocked(t, k.ref)
        BY DEF Watchful
    <2>1. CASE k \in s.cands
        BY <2>1, <1>2 DEF Orderly, Watchful
    <2>2. CASE k \notin s.cands
        BY <2>2, <1>1, <1>2 DEF PushedKey, Ready
    <2> QED BY <2>1, <2>2
<1>7. QueuedOk(t)
    <2> SUFFICES ASSUME NEW l \in Lanes, t.lane[l].queued PROVE InHeap(t, l)
        BY DEF QueuedOk
    <2>1. CASE s.lane[l].queued
        BY <2>1, <1>2 DEF Orderly, QueuedOk
    <2>2. CASE ~s.lane[l].queued
        BY <2>2 DEF Pushed, InHeap
    <2> QED BY <2>1, <2>2
<1>8. Undelayed(t)
    BY <1>1, <1>2 DEF Orderly, Undelayed, Waiting
<1>9. \A l \in Lanes : HasCapacity(t, l) => HasCapacity(s, l)
    <2> SUFFICES ASSUME NEW l \in Lanes, ~HasCapacity(s, l) PROVE ~HasCapacity(t, l)
        OBVIOUS
    <2>1. t.lane[l] = s.lane[l]
        BY DEF Pushed, PushedLane
    <2> QED BY <2>1 DEF HasCapacity
<1>10. AllKept(t, X)
    <2> SUFFICES ASSUME NEW ref \in Refs \ X, Asks(t, ref), ref \in Lanes => NotBefores = {}
                 PROVE  Kept(t, ref)
        BY DEF AllKept
    <2>1. CASE ref \notin R
        <3>1. Kept(s, ref)
            BY <2>1, <1>2 DEF Orderly, AllKept
        <3> QED BY <3>1, <1>2, <1>9 DEF Kept
    <2>2. CASE ref \in R /\ ref \in Lanes
        <3>1. Live(s, ref) # {}
            BY <2>2, <1>2, AskingLanes
        <3>2. HeadOf(s, ref) \in JobIds /\ Waiting(s, HeadOf(s, ref))
            BY <2>2, <3>1, SafeStatesKnowTheirPending, LiveJobsAreKnown DEF Live
        <3>3. s.job[HeadOf(s, ref)].delay = NotDelayed
            BY <2>2, <3>2 DEF Orderly, Undelayed, Delayed
        <3>4. CASE HasCapacity(s, ref) /\ ~IsBlocked(s, ref)
            <4>1. Ready(s, ref)
                BY <3>1, <3>3, <3>4 DEF Ready, NotDelayed
            <4>2. t.lane[ref].queued
                BY <4>1, <2>2 DEF Pushed
            <4> QED BY <4>2, <2>2, <1>7 DEF QueuedOk, Kept
        <3>5. CASE ~HasCapacity(s, ref) \/ IsBlocked(s, ref)
            BY <3>5, <2>2, <1>2, <1>9 DEF Kept
        <3> QED BY <3>4, <3>5
    <2>3. CASE ref \in R /\ ref \notin Lanes
        <3>1. ref \in JobIds /\ Waiting(s, ref)
            BY <2>3, <1>2, AskingJobs DEF Refs, Loose
        <3>2. Key(s, ref, ref) \in t.cands /\ Key(s, ref, ref).ref = ref
            BY <2>3, <3>1 DEF Pushed, Key
        <3> QED BY <3>2 DEF InHeap, Kept
    <2> QED BY <2>1, <2>2, <2>3
<1> QED BY <1>4, <1>5, <1>6, <1>7, <1>8, <1>10 DEF Orderly

\* References in hand that are in a place all the same need no other.
LEMMA LeavingKeepsOrder ==
    ASSUME NEW s, NEW X, NEW Y, NEW b, Orderly(s, X \cup Y, b),
           \A ref \in Refs \cap Y :
               Asks(s, ref) /\ (ref \in Lanes => NotBefores = {}) => Kept(s, ref)
    PROVE  Orderly(s, X, b)
<1>1. Tidy(s, X)
    <2> SUFFICES ASSUME NEW j \in JobIds, Loose(s, j)
                 PROVE  IF j \in X THEN Free(s, j) ELSE Single(s, j)
        BY DEF Tidy
    <2>1. IF j \in X \cup Y THEN Free(s, j) ELSE Single(s, j)
        BY DEF Orderly, Tidy
    <2>2. Free(s, j) => Once(s, j)
        BY DEF Free, Parked, Once
    <2> QED BY <2>1, <2>2 DEF Free, Single
<1>2. AllKept(s, X)
    BY DEF Orderly, AllKept
<1> QED BY <1>1, <1>2 DEF Orderly

\* States that differ in what the places do not depend on.
Alike(s, t) ==
    /\ \A j \in JobIds : /\ Waiting(t, j) <=> Waiting(s, j)
                         /\ Waiting(s, j) => t.job[j].meta = s.job[j].meta
                                             /\ (Delayed(t, j) <=> Delayed(s, j))
    /\ t.cands = s.cands
    /\ \A ref : IsBlocked(t, ref) <=> IsBlocked(s, ref)
    /\ \A w \in Windows : t.hold[w].queue = s.hold[w].queue
    /\ \A l \in Lanes : /\ t.lane[l].queued => s.lane[l].queued
                        /\ HasCapacity(t, l) => HasCapacity(s, l) \/ ~Asks(t, l)

LEMMA DrawnFromItself ==
    ASSUME NEW q
    PROVE  Drawn(q, q)
<1> DEFINE f == [i \in DOMAIN q |-> i]
<1>1. f \in [DOMAIN q -> DOMAIN q] /\ \A i \in DOMAIN q : f[i] = i
    OBVIOUS
<1> HIDE DEF f
<1> QED BY <1>1 DEF Drawn

LEMMA DrawnFromNothing ==
    ASSUME NEW q, NEW p, DOMAIN q = {}
    PROVE  Drawn(q, p)
<1>1. \A f : f \in [{} -> DOMAIN p] => f \in [DOMAIN q -> DOMAIN p]
    OBVIOUS
<1>2. [i \in {} |-> i] \in [{} -> DOMAIN p]
    OBVIOUS
<1> QED BY <1>1, <1>2 DEF Drawn

LEMMA QueuesThatStayFit ==
    ASSUME NEW s, NEW t, NEW Y, \A w \in Windows : t.hold[w].queue = s.hold[w].queue
    PROVE  QueuesFit(s, t, Y)
<1>1. \A w \in Windows : Drawn(t.hold[w].queue, s.hold[w].queue)
    BY DrawnFromItself
<1>2. \A ref : Parked(s, ref) => Parked(t, ref)
    BY DEF Parked
<1> QED BY <1>1, <1>2 DEF QueuesFit

LEMMA AlikeKeepsOrder ==
    ASSUME NEW s, NEW t, NEW X, NEW b, Safe(s), Safe(t), Orderly(s, X, b), Alike(s, t)
    PROVE  Orderly(t, X, b)
<1>1. \A ref : Asks(t, ref) <=> Asks(s, ref)
    BY DEF Alike, Asks, RefOf
<1>2. JobsFit(s, t, {})
    BY DEF Alike, JobsFit, Loose
<1>3. HeapFits(s, t, {})
    BY DEF Alike, HeapFits, InHeap
<1>4. NodesFit(s, t, {})
    <2>1. \A n \in t.blocked : IsBlocked(s, n.ref)
        BY DEF Alike, IsBlocked
    <2>2. \A n \in t.blocked : Asks(t, n.ref)
        BY <2>1, <1>1 DEF Orderly, NodesAsk, IsBlocked
    <2>3. \A n \in s.blocked : IsBlocked(t, n.ref)
        BY DEF Alike, IsBlocked
    <2> QED BY <2>1, <2>2, <2>3 DEF NodesFit
<1>5. QueuesFit(s, t, {})
    BY QueuesThatStayFit DEF Alike
<1>6. LanesFit(s, t, {})
    BY DEF Alike, LanesFit
<1>7. Orderly(t, X \cup {}, b)
    BY <1>2, <1>3, <1>4, <1>5, <1>6, LooseningKeepsOrder DEF Loosened
<1>8. X \cup {} = X
    OBVIOUS
<1> QED BY <1>7, <1>8

-----------------------------------------------------------------------------
(* The commands.                                                           *)

\* Blocked references compete again (RearmReservationOwners, PromoteBlocked).
LEMMA WakingKeepsOrder ==
    ASSUME NEW s, Safe(s), NEW A \in SUBSET Refs, NEW b, Orderly(s, {}, b),
           \A ref \in A : RefOk(s, ref) /\ IsBlocked(s, ref)
    PROVE  Orderly(PushAll(Unblock(s, A), A), {}, b)
<1> DEFINE u == Unblock(s, A)
<1>1. /\ Safe(u) /\ u = [s EXCEPT !.blocked = {n \in s.blocked : n.ref \notin A}]
    BY UnblockIsCalm, CalmChangesAreSafe
<1>2. /\ u.job = s.job /\ u.lane = s.lane /\ u.cands = s.cands /\ u.hold = s.hold
      /\ u.blocked = {n \in s.blocked : n.ref \notin A}
    BY <1>1 DEF Safe, States
<1> HIDE DEF u
<1>3. \A ref : /\ Asks(u, ref) <=> Asks(s, ref)
               /\ Delayed(u, ref) <=> Delayed(s, ref)
               /\ Parked(u, ref) <=> Parked(s, ref)
               /\ Loose(u, ref) <=> Loose(s, ref)
               /\ InHeap(u, ref) <=> InHeap(s, ref)
    BY <1>2 DEF Asks, Waiting, RefOf, Delayed, Parked, Loose, InHeap
<1>4. \A j \in JobIds \cap A : Loose(u, j) => Free(u, j)
    <2> SUFFICES ASSUME NEW j \in JobIds \cap A, Loose(s, j) PROVE Free(u, j)
        BY <1>3
    <2>1. Single(s, j) /\ IsBlocked(s, j)
        BY DEF Orderly, Tidy
    <2>2. ~IsBlocked(u, j)
        BY <1>2 DEF IsBlocked
    <2> QED BY <2>1, <2>2, <1>3 DEF Single, Free
<1>5. JobsFit(s, u, A)
    BY <1>2, <1>4 DEF JobsFit, Waiting, Delayed
<1>6. HeapFits(s, u, A)
    BY <1>2, <1>3 DEF HeapFits
<1>7. NodesFit(s, u, A)
    BY <1>2, <1>3 DEF NodesFit, IsBlocked, Orderly, NodesAsk
<1>8. QueuesFit(s, u, A) /\ LanesFit(s, u, A)
    BY <1>2, QueuesThatStayFit DEF LanesFit, HasCapacity
<1>9. Orderly(u, {} \cup A, b)
    BY <1>1, <1>5, <1>6, <1>7, <1>8, LooseningKeepsOrder DEF Loosened
<1>10. \A ref \in A : RefOk(u, ref)
    BY <1>2 DEF RefOk, Known
<1>11. Pushed(u, PushAll(u, A), A) /\ Safe(PushAll(u, A))
    BY <1>1, <1>10, PushingIsMild DEF Mild
<1>12. Orderly(PushAll(u, A), {}, b)
    BY <1>1, <1>9, <1>11, PushingKeepsOrder
<1> QED BY <1>12 DEF u

LEMMA ReleasingKeepsOrder ==
    ASSUME NEW s, Safe(s), NEW X, NEW b, Orderly(s, X, b),
           NEW w \in Windows \cup {NoWindow}, NEW owner
    PROVE  Orderly(ReleaseReservation(s, w, owner), X, b)
<1> DEFINE t == ReleaseReservation(s, w, owner)
           c == [s EXCEPT !.hold[w] = NoHold]
           R == Range(s.hold[w].queue)
<1> SUFFICES ASSUME w \in Windows, Safe(c), Pushed(c, t, R)
             PROVE  Orderly(t, X, b)
    BY ReleasesPush
<1>1. R \in SUBSET Refs /\ \A ref \in R : RefOk(s, ref)
    BY ParkedReferences
<1>2. /\ c.job = s.job /\ c.lane = s.lane /\ c.cands = s.cands /\ c.blocked = s.blocked
      /\ c.hold[w] = NoHold /\ \A v \in Windows \ {w} : c.hold[v] = s.hold[v]
    BY NoHoldIsAHold, StateWithHold DEF Safe
<1>3. \A ref : ref \in R <=> \E i \in DOMAIN s.hold[w].queue : s.hold[w].queue[i] = ref
    BY DEF Range
<1> HIDE DEF c, R, t
<1>4. NoHold.queue = <<>> /\ DOMAIN NoHold.queue = {}
    BY DEF NoHold
<1>5. \A ref : /\ Asks(c, ref) <=> Asks(s, ref)
               /\ Delayed(c, ref) <=> Delayed(s, ref)
               /\ Loose(c, ref) <=> Loose(s, ref)
               /\ IsBlocked(c, ref) <=> IsBlocked(s, ref)
               /\ InHeap(c, ref) <=> InHeap(s, ref)
    BY <1>2 DEF Asks, Waiting, RefOf, Delayed, Loose, IsBlocked, InHeap
<1>6. \A j \in JobIds : j \in X /\ Loose(s, j) => j \notin R
    BY <1>3 DEF Orderly, Tidy, Free, Parked
<1>7. \A j \in JobIds \cap R : Loose(c, j) => Free(c, j)
    <2> SUFFICES ASSUME NEW j \in JobIds \cap R, Loose(s, j) PROVE Free(c, j)
        BY <1>5
    <2>1. Single(s, j) /\ Parked(s, j)
        BY <1>3, <1>6 DEF Orderly, Tidy, Parked
    <2>2. ASSUME NEW v \in Windows, NEW i \in DOMAIN c.hold[v].queue, c.hold[v].queue[i] = j
          PROVE  FALSE
        <3>1. v # w
            BY <2>2, <1>2, <1>4
        <3>2. i \in DOMAIN s.hold[v].queue /\ s.hold[v].queue[i] = j
            BY <2>2, <3>1, <1>2
        <3> QED BY <2>1, <3>1, <3>2, <1>3 DEF Single, Once
    <2> QED BY <2>1, <2>2, <1>5 DEF Single, Free, Parked
<1>8. JobsFit(s, c, R)
    BY <1>2, <1>7 DEF JobsFit, Waiting, Delayed
<1>9. HeapFits(s, c, R)
    BY <1>2, <1>5 DEF HeapFits
<1>10. NodesFit(s, c, R)
    BY <1>2, <1>5 DEF NodesFit, IsBlocked, Orderly, NodesAsk
<1>11. QueuesFit(s, c, R)
    <2>1. \A v \in Windows : Drawn(c.hold[v].queue, s.hold[v].queue)
        BY <1>2, <1>4, DrawnFromItself, DrawnFromNothing
    <2>2. \A ref : Parked(s, ref) => Parked(c, ref) \/ ref \in R
        BY <1>2, <1>3 DEF Parked
    <2> QED BY <2>1, <2>2 DEF QueuesFit
<1>12. LanesFit(s, c, R)
    BY <1>2 DEF LanesFit, HasCapacity
<1>13. Orderly(c, X \cup R, b)
    BY <1>8, <1>9, <1>10, <1>11, <1>12, LooseningKeepsOrder DEF Loosened
<1>14. Safe(t)
    <2>1. \A ref \in R : RefOk(c, ref)
        BY <1>1, <1>2 DEF RefOk, Known
    <2> QED BY <2>1, <1>1, PushesAreSafe
<1> QED BY <1>1, <1>5, <1>6, <1>13, <1>14, PushingKeepsOrder

\* Taking a waiting job out: no node is left behind for a lane that died with
\* it, and a lane that did not is still awaited.
LEMMA RemovingKeepsOrder ==
    ASSUME NEW s, Safe(s), NEW b, Orderly(s, {}, b), NEW j \in JobIds, Waiting(s, j)
    PROVE  Orderly(RemoveWaiting(s, j), {}, b)
<1> DEFINE l == s.job[j].meta.lane
           c == Counted(s, j)
           r == Released(s, j)
           d == Dead(r, j)
           t == RemoveWaiting(s, j)
<1>1. /\ Safe(c) /\ c.job = s.job /\ c.lane = s.lane /\ c.cands = s.cands
      /\ c.blocked = s.blocked /\ \A w \in Windows : c.hold[w].queue = s.hold[w].queue
    BY CountedIsCalm, CalmChangesAreSafe
<1>2. Orderly(c, {}, b)
    <2> HIDE DEF c
    <2>1. Alike(s, c)
        BY <1>1 DEF Alike, Waiting, Delayed, IsBlocked, HasCapacity
    <2> QED BY <2>1, <1>1, AlikeKeepsOrder
<1>3. s.job[j].owns \in Windows \cup {NoWindow} /\ l \in Lanes \cup {NoLane}
    BY WaitingJobs
<1>4. Orderly(r, {}, b)
    BY <1>1, <1>2, <1>3, ReleasingKeepsOrder DEF Released
<1>5. /\ r.job = s.job /\ Safe(r) /\ Waiting(r, j)
      /\ t = IF l = NoLane THEN d ELSE RewakeLane(d, l)
    BY RemoveWaitingIs DEF Waiting
<1>6. /\ Safe(d) /\ d.job[j].st = "cancelled" /\ \A i \in JobIds \ {j} : d.job[i] = r.job[i]
      /\ d.lane = r.lane /\ d.hold = r.hold
      /\ d.blocked = {n \in r.blocked : n.ref # j}
      /\ d.cands = {k \in r.cands : k.ref # j}
    <2>1. Safe(r) /\ Waiting(r, j)
        BY <1>5
    <2> HIDE DEF l, c, r, t
    <2>2. /\ Safe(d)
          /\ d.job = [r.job EXCEPT ![j] = Corpse(r.job[j])]
          /\ d.job[j].st = "cancelled" /\ d.job[j].meta = r.job[j].meta
          /\ d.job[j].seq = r.job[j].seq
          /\ \A i \in JobIds \ {j} : d.job[i] = r.job[i]
          /\ d.lane = r.lane /\ d.hold = r.hold /\ d.ledger = r.ledger
          /\ d.blocked = {n \in r.blocked : n.ref # j}
          /\ d.cands = {k \in r.cands : k.ref # j}
        BY <2>1, DeadIsSafe
    <2> HIDE DEF d
    <2> QED BY <2>2
<1>7. /\ Safe(t) /\ t.job = d.job /\ t.lane = d.lane /\ t.hold = d.hold /\ t.cands = d.cands
      /\ l = NoLane => t.blocked = d.blocked
      /\ l \in Lanes =>
           /\ \A n \in t.blocked : n \in d.blocked \/ (n.ref = l /\ IsBlocked(d, l))
           /\ \A n \in d.blocked : n.ref # l => n \in t.blocked
           /\ IsBlocked(d, l) /\ Live(d, l) # {} => IsBlocked(t, l)
           /\ IsBlocked(d, l) /\ Live(d, l) = {} => ~IsBlocked(t, l)
    <2>1. CASE l = NoLane
        BY <2>1, <1>5, <1>6, References
    <2>2. CASE l # NoLane
        <3>1. l \in Lanes /\ t = RewakeLane(d, l)
            BY <2>2, <1>3, <1>5
        <3> HIDE DEF l, d, t
        <3>2. Calm(d, RewakeLane(d, l)) /\ Safe(RewakeLane(d, l))
            BY <3>1, <1>6, RewakeIsCalm, CalmChangesAreSafe
        <3> QED BY <2>2, <3>1, <3>2, <1>6, RewakeIsCalm
    <2> QED BY <2>1, <2>2
<1>8. RefOf(r, j) = IF l = NoLane THEN j ELSE l
    BY <1>5 DEF RefOf

<1> HIDE DEF l, c, r, d, t
<1>9. \A i \in JobIds : /\ Waiting(t, i) => i # j /\ Waiting(r, i) /\ t.job[i] = r.job[i]
                        /\ Waiting(r, i) /\ i # j => Waiting(t, i) /\ t.job[i] = r.job[i]
    BY <1>6, <1>7 DEF Waiting
<1>10. \A ref : Asks(r, ref) /\ ref # RefOf(r, j) => Asks(t, ref)
    BY <1>9 DEF Asks, RefOf
<1>11. ~Asks(t, j)
    BY <1>7, <1>9, AskingJobs DEF Loose
<1>12. JobsFit(r, t, {})
    BY <1>9 DEF JobsFit, Loose, Delayed
<1>13. HeapFits(r, t, {})
    <2>1. \A m \in Lanes : InHeap(r, m) => InHeap(t, m)
        BY <1>6, <1>7, NoJobIsALane DEF InHeap
    <2> QED BY <2>1, <1>6, <1>7, <1>11 DEF HeapFits
<1>14. NodesFit(r, t, {})
    <2>1. \A n \in d.blocked : IsBlocked(r, n.ref)
        BY <1>6 DEF IsBlocked
    <2>2. \A n \in d.blocked : n.ref # RefOf(r, j) => Asks(t, n.ref)
        BY <2>1, <1>4, <1>10 DEF Orderly, NodesAsk, IsBlocked
    <2>3. CASE l = NoLane
        BY <2>1, <2>2, <2>3, <1>6, <1>7, <1>8, <1>11 DEF NodesFit, IsBlocked
    <2>4. CASE l \in Lanes
        <3>1. Asks(t, l) <=> Live(d, l) # {}
            <4>1. Asks(t, l) <=> Asks(d, l)
                BY <1>7 DEF Asks, Waiting, RefOf
            <4> QED BY <4>1, <2>4, <1>6, AskingLanes
        <3>2. l # NoLane /\ l # j
            BY <2>4, References, NoJobIsALane
        <3>3. IsBlocked(d, l) <=> IsBlocked(r, l)
            BY <3>2, <1>6 DEF IsBlocked
        <3>4. \A n \in t.blocked : IsBlocked(r, n.ref) /\ Asks(t, n.ref)
            <4> SUFFICES ASSUME NEW n \in t.blocked
                         PROVE  IsBlocked(r, n.ref) /\ Asks(t, n.ref)
                OBVIOUS
            <4>1. CASE n.ref = l
                <5>1. IsBlocked(t, l)
                    BY <4>1 DEF IsBlocked
                <5>2. IsBlocked(d, l)
                    BY <4>1, <2>4, <1>7 DEF IsBlocked
                <5> QED BY <5>1, <5>2, <4>1, <3>1, <3>3, <2>4, <1>7
            <4>2. CASE n.ref # l
                <5>1. n \in d.blocked
                    BY <4>2, <2>4, <1>7
                <5> QED BY <5>1, <4>2, <2>1, <2>2, <1>8, <3>2
            <4> QED BY <4>1, <4>2
        <3>5. ASSUME NEW n \in r.blocked
              PROVE  ~Asks(t, n.ref) \/ IsBlocked(t, n.ref)
            <4>1. CASE n.ref = j
                BY <4>1, <1>11
            <4>2. CASE n.ref = l
                <5>1. IsBlocked(r, l)
                    BY <4>2 DEF IsBlocked
                <5> QED BY <5>1, <4>2, <3>1, <3>3, <2>4, <1>7
            <4>3. CASE n.ref # j /\ n.ref # l
                BY <4>3, <2>4, <1>6, <1>7 DEF IsBlocked
            <4> QED BY <4>1, <4>2, <4>3
        <3> QED BY <3>4, <3>5 DEF NodesFit
    <2> QED BY <2>3, <2>4, <1>3
<1>15. QueuesFit(r, t, {})
    BY <1>6, <1>7, QueuesThatStayFit
<1>16. LanesFit(r, t, {})
    BY <1>6, <1>7 DEF LanesFit, HasCapacity
<1>17. Orderly(t, {} \cup {}, b)
    BY <1>4, <1>5, <1>7, <1>12, <1>13, <1>14, <1>15, <1>16, LooseningKeepsOrder DEF Loosened
<1> QED BY <1>17 DEF t

\* A new job, before it is pushed: it is in hand, unless it has to wait for
\* its not_before.
LEMMA PlacingKeepsOrder ==
    ASSUME NEW s, NEW p, Safe(s), Safe(p), NEW b, Orderly(s, {}, b),
           NEW j \in JobIds, ~Known(s, j), NEW Y,
           Waiting(p, j), NotBefores = {} => ~Delayed(p, j),
           RefOf(p, j) \in Y \/ (RefOf(p, j) = j /\ Delayed(p, j)),
           Loose(p, j) /\ j \in Y => ~Delayed(p, j),
           \A i \in JobIds : i \in Y => i = j,
           \A i \in JobIds \ {j} : p.job[i] = s.job[i],
           p.cands = s.cands, p.blocked = s.blocked, p.hold = s.hold,
           \A l \in Lanes : /\ p.lane[l].queued => s.lane[l].queued
                            /\ p.lane[l].count = s.lane[l].count
    PROVE  Orderly(p, Y, b)
<1>1. ~Waiting(s, j) /\ ~RefOk(s, j) /\ j \notin Lanes
    BY NoJobIsALane DEF Waiting, Known, RefOk
<1>2. ~InHeap(s, j) /\ ~IsBlocked(s, j) /\ ~Parked(s, j)
    <2>1. ~InHeap(s, j)
        BY <1>1 DEF Safe, KeysOk, KeyOk, InHeap
    <2>2. ~IsBlocked(s, j) /\ ~Parked(s, j)
        BY <1>1 DEF Safe, RefsOk, IsBlocked, Parked
    <2> QED BY <2>1, <2>2
<1>3. \A ref : /\ InHeap(p, ref) <=> InHeap(s, ref)
               /\ IsBlocked(p, ref) <=> IsBlocked(s, ref)
               /\ Parked(p, ref) <=> Parked(s, ref)
               /\ Once(p, ref) <=> Once(s, ref)
    BY DEF InHeap, IsBlocked, Parked, Once
<1>4. \A i \in JobIds \ {j} : /\ Waiting(p, i) <=> Waiting(s, i)
                              /\ Loose(p, i) <=> Loose(s, i)
                              /\ Delayed(p, i) <=> Delayed(s, i)
                              /\ RefOf(p, i) = RefOf(s, i)
    BY DEF Waiting, Loose, Delayed, RefOf
<1>5. \A ref : Asks(p, ref) <=> Asks(s, ref) \/ ref = RefOf(p, j)
    BY <1>1, <1>4 DEF Asks
<1>6. Tidy(p, Y)
    <2> SUFFICES ASSUME NEW i \in JobIds, Loose(p, i)
                 PROVE  IF i \in Y THEN Free(p, i) ELSE Single(p, i)
        BY DEF Tidy
    <2>1. CASE i = j
        <3>1. Once(p, j)
            BY <1>2, <1>3 DEF Parked, Once
        <3> QED BY <2>1, <3>1, <1>2, <1>3 DEF Free, Single
    <2>2. CASE i # j
        <3>1. Single(s, i)
            BY <2>2, <1>4 DEF Orderly, Tidy
        <3> QED BY <2>2, <3>1, <1>3, <1>4 DEF Single
    <2> QED BY <2>1, <2>2
<1>7. NodesAsk(p)
    BY <1>5 DEF Orderly, NodesAsk
<1>8. b => Watchful(p)
    BY <1>3 DEF Orderly, Watchful
<1>9. QueuedOk(p)
    BY <1>3 DEF Orderly, QueuedOk
<1>10. AllKept(p, Y)
    <2> SUFFICES ASSUME NEW ref \in Refs \ Y, Asks(p, ref), ref \in Lanes => NotBefores = {}
                 PROVE  Kept(p, ref)
        BY DEF AllKept
    <2>1. CASE ref = RefOf(p, j)
        BY <2>1 DEF Kept
    <2>2. CASE ref # RefOf(p, j)
        <3>1. Kept(s, ref)
            BY <2>2, <1>5 DEF Orderly, AllKept
        <3>2. ref = j => RefOf(p, j) = j
            BY <2>2, <1>1, <1>5, AskingJobs DEF Loose
        <3> QED BY <2>2, <3>1, <3>2, <1>3, <1>4 DEF Kept, HasCapacity
    <2> QED BY <2>1, <2>2
<1>11. Undelayed(p)
    BY <1>4 DEF Orderly, Undelayed
<1> QED BY <1>6, <1>7, <1>8, <1>9, <1>10, <1>11 DEF Orderly

LEMMA InsertingKeepsOrder ==
    ASSUME NEW s, Safe(s), NEW b, Orderly(s, {}, b),
           NEW j \in JobIds, ~Known(s, j), NEW r \in UsedRecords, r.st = "waiting",
           NotBefores = {} => r.delay = NotDelayed, NEW old,
           \A i \in JobIds : Known(s, i) /\ s.job[i].seq = r.seq
               => s.job[i].meta.lane = r.meta.lane /\ ~Waiting(s, i)
    PROVE  Orderly(Inserted(s, j, r, old), {}, b)
<1> DEFINE p == Placed(s, j, r, old)
           l == r.meta.lane
           t == Inserted(s, j, r, old)
           Y == IF l # NoLane THEN {l} ELSE IF r.delay = NotDelayed THEN {j} ELSE {}
<1>1. /\ Safe(p) /\ p.job[j] = r /\ \A i \in JobIds \ {j} : p.job[i] = s.job[i]
      /\ p.cands = s.cands /\ p.blocked = s.blocked /\ p.hold = s.hold
      /\ \A m \in Lanes \ {l} : p.lane[m] = s.lane[m]
      /\ l # NoLane => p.lane[l] = Entered(s, j, r, old)
    <2>1. /\ Safe(p) /\ p.job[j] = r /\ \A i \in JobIds \ {j} : p.job[i] = s.job[i]
          /\ p.cands = s.cands /\ p.blocked = s.blocked /\ p.hold = s.hold
          /\ p.ledger = s.ledger
          /\ \A m \in Lanes \ {l} : p.lane[m] = s.lane[m]
          /\ l # NoLane => p.lane[l] = Entered(s, j, r, old)
        BY PlacedIsSafe
    <2> HIDE DEF p
    <2> QED BY <2>1
<1>2. /\ Safe(t) /\ l \in Lanes \cup {NoLane}
      /\ \/ l # NoLane /\ Pushed(p, t, {l})
         \/ l = NoLane /\ r.delay = NotDelayed /\ Pushed(p, t, {j})
         \/ l = NoLane /\ r.delay # NotDelayed /\ t = p
    BY InsertionsPush
<1>3. l \in Lanes => /\ p.lane[l].queued => s.lane[l].queued
                     /\ p.lane[l].count = s.lane[l].count
    <2> SUFFICES ASSUME l \in Lanes
                 PROVE  /\ p.lane[l].queued => s.lane[l].queued
                        /\ p.lane[l].count = s.lane[l].count
        OBVIOUS
    <2>1. p.lane[l] = Entered(s, j, r, old)
        BY <1>1, References
    <2> DEFINE f == First(Stored(s, j, r), s.lane[l].pending \cup {j})
               e == [s.lane[l] EXCEPT !.pending = s.lane[l].pending \cup {j},
                                      !.queued = s.lane[l].queued /\ f \notin old]
    <2>2. Entered(s, j, r, old) = e
        BY DEF Entered
    <2>3. s.lane[l] \in LaneRecords
        BY FieldsOfStates DEF Safe
    <2> HIDE DEF f, l, p
    <2>4. (e.queued => s.lane[l].queued) /\ e.count = s.lane[l].count
        BY <2>3 DEF LaneRecords
    <2> HIDE DEF e
    <2> QED BY <2>1, <2>2, <2>4
<1> HIDE DEF p, t
<1>4. \A m \in Lanes : /\ p.lane[m].queued => s.lane[m].queued
                       /\ p.lane[m].count = s.lane[m].count
    <2> HIDE DEF l
    <2> QED BY <1>1, <1>3
<1>5. Waiting(p, j) /\ (Delayed(p, j) <=> r.delay # NotDelayed)
      /\ RefOf(p, j) = (IF l = NoLane THEN j ELSE l) /\ (Loose(p, j) <=> l = NoLane)
    BY <1>1 DEF Waiting, Delayed, RefOf, Loose
<1> HIDE DEF l
<1>6. /\ RefOf(p, j) \in Y \/ (RefOf(p, j) = j /\ Delayed(p, j))
      /\ Loose(p, j) /\ j \in Y => ~Delayed(p, j)
      /\ \A i \in JobIds : i \in Y => i = j
    BY <1>2, <1>5, NoJobIsALane
<1> HIDE DEF Y
<1>7. Orderly(p, Y, b)
    BY <1>1, <1>4, <1>5, <1>6, PlacingKeepsOrder
<1> USE DEF Y
<1>8. CASE l # NoLane
    <2>1. {l} \in SUBSET Refs /\ Y = {} \cup {l} /\ Pushed(p, t, {l})
        BY <1>2, <1>8 DEF Refs
    <2> QED BY <2>1, <1>1, <1>2, <1>7, PushingKeepsOrder DEF t
<1>9. CASE l = NoLane /\ r.delay = NotDelayed
    <2>1. {j} \in SUBSET Refs /\ Y = {} \cup {j} /\ Pushed(p, t, {j})
        BY <1>2, <1>9 DEF Refs
    <2> QED BY <2>1, <1>1, <1>2, <1>7, PushingKeepsOrder DEF t
<1>10. CASE l = NoLane /\ r.delay # NotDelayed
    BY <1>2, <1>7, <1>10 DEF t
<1> QED BY <1>8, <1>9, <1>10


LEMMA RemovingIdleKeepsOrder ==
    ASSUME NEW s, Safe(s), NEW X, NEW b, Orderly(s, X, b), NEW l \in Lanes
    PROVE  Safe(RemoveIdle(s, l)) /\ Orderly(RemoveIdle(s, l), X, b)
<1> DEFINE t == RemoveIdle(s, l)
<1>1. /\ Calm(s, t) /\ t.job = s.job
      /\ t.hold = s.hold /\ t.blocked = s.blocked
      /\ t.cands = s.cands /\ t.ledger = s.ledger
      /\ \A m \in Lanes \ {l} : t.lane[m] = s.lane[m]
      /\ t.lane[l] \in {s.lane[l], NewLane}
      /\ t.lane[l] # s.lane[l] => IsIdle(s, l)
    BY RemovingIdleIsCalm
<1> HIDE DEF t
<1>2. Safe(t)
    BY <1>1, CalmChangesAreSafe
<1>3. NewLane.queued = FALSE
    BY DEF NewLane
<1>4. t.lane[l] # s.lane[l] => ~Asks(t, l)
    <2> SUFFICES ASSUME t.lane[l] # s.lane[l] PROVE ~Asks(t, l)
        OBVIOUS
    <2>1. t.lane[l] = NewLane /\ NewLane.pending = {}
        BY <1>1 DEF NewLane
    <2>2. Live(t, l) = {}
        BY <2>1 DEF Live
    <2> QED BY <2>2, <1>2, AskingLanes
<1>5. \A m \in Lanes : /\ t.lane[m].queued => s.lane[m].queued
                       /\ HasCapacity(t, m) => HasCapacity(s, m) \/ ~Asks(t, m)
    <2> SUFFICES ASSUME NEW m \in Lanes
                 PROVE  /\ t.lane[m].queued => s.lane[m].queued
                        /\ HasCapacity(t, m) => HasCapacity(s, m) \/ ~Asks(t, m)
        OBVIOUS
    <2>1. CASE t.lane[m] = s.lane[m]
        BY <2>1 DEF HasCapacity
    <2>2. CASE t.lane[m] # s.lane[m]
        BY <2>2, <1>1, <1>3, <1>4
    <2> QED BY <2>1, <2>2
<1>6. Alike(s, t)
    BY <1>1, <1>5 DEF Alike, Waiting, Delayed, IsBlocked
<1> QED BY <1>2, <1>6, AlikeKeepsOrder DEF t

\* A lane in hand that has been vacated is pushed, or nobody asks for it.
LEMMA VacatingKeepsOrder ==
    ASSUME NEW s, Safe(s), NEW X, NEW b, NEW l \in Lanes, Orderly(s, X \cup {l}, b)
    PROVE  Safe(Vacated(s, l)) /\ Orderly(Vacated(s, l), X, b)
<1>1. Safe(Vacated(s, l))
    BY VacatingIsMild DEF Mild
<1>2. CASE s.lane[l].pending # {}
    <2>1. Vacated(s, l) = PushLane(s, l)
        BY <1>2 DEF Vacated
    <2>2. Pushed(s, PushLane(s, l), {l})
        BY PushingALaneIsMild
    <2>3. {l} \in SUBSET Refs /\ \A j \in JobIds : j # l
        BY NoJobIsALane DEF Refs
    <2> QED BY <1>1, <2>1, <2>2, <2>3, PushingKeepsOrder
<1>3. CASE s.lane[l].pending = {}
    <2> DEFINE t == RemoveIdle(s, l)
    <2>1. Vacated(s, l) = t
        BY <1>3 DEF Vacated
    <2>2. Safe(t) /\ Orderly(t, X \cup {l}, b)
        BY RemovingIdleKeepsOrder
    <2>3. t.job = s.job /\ t.lane[l] \in {s.lane[l], NewLane}
        BY RemovingIdleIsCalm
    <2> HIDE DEF t
    <2>4. ~Asks(t, l)
        <3>1. t.lane[l].pending = {}
            BY <2>3, <1>3 DEF NewLane
        <3>2. Live(t, l) = {}
            BY <3>1 DEF Live
        <3> QED BY <3>2, <2>2, AskingLanes
    <2>5. Orderly(t, X, b)
        <3>1. \A ref \in Refs \cap {l} :
                  Asks(t, ref) /\ (ref \in Lanes => NotBefores = {}) => Kept(t, ref)
            BY <2>4
        <3>2. Orderly(t, X \cup {l}, b)
            BY <2>2
        <3> HIDE <2>2, <2>4
        <3> QED BY <3>1, <3>2, LeavingKeepsOrder
    <2> QED BY <2>1, <2>2, <2>5
<1> QED BY <1>2, <1>3

LEMMA UnlockingKeepsOrder ==
    ASSUME NEW s, Safe(s), NEW b, Orderly(s, {}, b), NEW j \in JobIds, Flying(s, j),
           NEW st \in {"started", "done"}, NEW l \in Lanes, NEW p \in LaneRecords,
           Safe(Unlocked(s, j, st, l, p)), p.queued = s.lane[l].queued,
           NEW Y \in SUBSET Lanes, p.count # s.lane[l].count => l \in Y
    PROVE  Orderly(Unlocked(s, j, st, l, p), Y, b)
<1> DEFINE u == Unlocked(s, j, st, l, p)
           r == [s.job[j] EXCEPT !.st = st]
<1>1. s \in States /\ s.job \in [JobIds -> JobRecords] /\ s.lane \in [Lanes -> LaneRecords]
    BY FieldsOfStates DEF Safe
<1>2. /\ u.job = [s.job EXCEPT ![j] = r] /\ u.lane = [s.lane EXCEPT ![l] = p]
      /\ u.cands = s.cands /\ u.blocked = s.blocked /\ u.hold = s.hold
    BY <1>1 DEF Unlocked, States
<1>3. r.st = st
    <2>1. Known(s, j)
        BY DEF Flying, Known
    <2>2. s.job[j] \in [st : {"waiting", "granted", "started", "done", "cancelled"},
                        meta : Metas, seq : JobIds, age : 0 .. Highest * Quantum,
                        delay : {NotDelayed} \cup Nat, owns : Windows \cup {NoWindow},
                        ago : 0 .. MaxLen, spent : BOOLEAN]
        BY <1>1, <2>1, FieldsOfJobs
    <2> QED BY <2>2
<1> HIDE DEF r
<1>4. /\ u.job[j].st = st /\ \A i \in JobIds \ {j} : u.job[i] = s.job[i]
      /\ u.lane[l] = p /\ \A m \in Lanes \ {l} : u.lane[m] = s.lane[m]
    BY <1>1, <1>2, <1>3
<1>5. Safe(u)
    OBVIOUS
<1> HIDE DEF u
<1>6. \A i \in JobIds : /\ Waiting(u, i) => i # j
                        /\ Waiting(u, i) <=> Waiting(s, i)
    BY <1>4 DEF Waiting, Flying
<1>7. \A i \in JobIds : Waiting(s, i) => u.job[i] = s.job[i]
    BY <1>4, <1>6
<1>8. \A ref : Asks(u, ref) <=> Asks(s, ref)
    BY <1>6, <1>7 DEF Asks, RefOf
<1>9. JobsFit(s, u, Y)
    <2>1. \A i \in JobIds : i \notin Y
        BY NoJobIsALane
    <2> QED BY <2>1, <1>6, <1>7 DEF JobsFit, Loose, Delayed
<1>10. \A m \in Lanes : u.lane[m].queued => s.lane[m].queued
    BY <1>4
<1>11. \A m \in Lanes : HasCapacity(u, m) => HasCapacity(s, m) \/ m \in Y
    <2> SUFFICES ASSUME NEW m \in Lanes, HasCapacity(u, m), m \notin Y
                 PROVE  HasCapacity(s, m)
        OBVIOUS
    <2>1. u.lane[m].count = s.lane[m].count
        BY <1>4
    <2> QED BY <2>1 DEF HasCapacity
<1>12. HeapFits(s, u, Y)
    BY <1>2, <1>10 DEF HeapFits, InHeap
<1>13. NodesFit(s, u, Y)
    BY <1>2, <1>8 DEF NodesFit, IsBlocked, Orderly, NodesAsk
<1>14. QueuesFit(s, u, Y) /\ LanesFit(s, u, Y)
    BY <1>2, <1>11, QueuesThatStayFit DEF LanesFit
<1>15. Orderly(u, {} \cup Y, b)
    BY <1>5, <1>9, <1>12, <1>13, <1>14, LooseningKeepsOrder DEF Loosened
<1> QED BY <1>15 DEF u

LEMMA StartingKeepsOrder ==
    ASSUME NEW s, Safe(s), NEW b, Orderly(s, {}, b), NEW j \in JobIds,
           s.job[j].st = "granted",
           s.job[j].meta.lane \in Lanes, s.lane[s.job[j].meta.lane].holder = j
    PROVE  LET l == s.job[j].meta.lane IN
           Orderly(Vacated([s EXCEPT !.job[j].st = "started",
                                     !.lane[l].holder = NoJob, !.lane[l].count = 0], l), {}, b)
<1> DEFINE l == s.job[j].meta.lane
           u == [s EXCEPT !.job[j].st = "started",
                          !.lane[l].holder = NoJob, !.lane[l].count = 0]
           p == [s.lane[l] EXCEPT !.holder = NoJob, !.count = 0]
<1>1. s \in States /\ s.lane \in [Lanes -> LaneRecords] /\ l \in Lanes /\ Flying(s, j)
    BY FieldsOfStates DEF Safe, Flying
<1>2. /\ p \in LaneRecords /\ p.pending = s.lane[l].pending /\ p.holder = NoJob
      /\ p.count = 0 /\ p.queued = s.lane[l].queued
    <2>1. s.lane[l] \in LaneRecords
        BY <1>1
    <2> QED BY <2>1 DEF LaneRecords
<1>3. u = Unlocked(s, j, "started", l, p)
    <2> HIDE DEF l
    <2> QED BY <1>1 DEF Unlocked, States
<1>4. "started" \in {"started", "done"}
    OBVIOUS
<1> HIDE DEF u, p
<1>5. Safe(u)
    <2>1. Mild(s, Unlocked(s, j, "started", s.job[j].meta.lane, p))
        BY <1>1, <1>2, <1>4, UnlockingIsMild
    <2> QED BY <2>1, <1>3 DEF Mild
<1> HIDE DEF l
<1>6. Orderly(u, {l}, b)
    <2>1. {l} \in SUBSET Lanes /\ Safe(Unlocked(s, j, "started", l, p)) /\ l \in {l}
        BY <1>1, <1>3, <1>5
    <2> QED BY <2>1, <1>1, <1>2, <1>3, <1>4, UnlockingKeepsOrder
<1>7. {} \cup {l} = {l}
    OBVIOUS
<1>8. Orderly(Vacated(u, l), {}, b)
    BY <1>1, <1>5, <1>6, <1>7, VacatingKeepsOrder
<1> QED BY <1>8 DEF u, l

LEMMA LandingKeepsOrder ==
    ASSUME NEW s, Safe(s), NEW b, Orderly(s, {}, b), NEW j \in JobIds, Flying(s, j)
    PROVE  Orderly(ReleaseLane(Landed(s, j), j), {}, b)
<1> DEFINE l == s.job[j].meta.lane
           t == ReleaseLane(Landed(s, j), j)
<1>1. \/ l = NoLane /\ t = Landed(s, j) /\ Mild(s, t)
      \/ /\ l \in Lanes
         /\ \E p \in LaneRecords :
               /\ Mild(s, Unlocked(s, j, "done", l, p))
               /\ p.pending = s.lane[l].pending /\ p.queued = s.lane[l].queued
               /\ \/ t = Vacated(Unlocked(s, j, "done", l, p), l)
                  \/ /\ t = RemoveIdle(Unlocked(s, j, "done", l, p), l)
                     /\ p.count = s.lane[l].count
    BY LandingUnlocks
<1> HIDE DEF l
<1>2. CASE l = NoLane /\ t = Landed(s, j) /\ Mild(s, t)
    <2> DEFINE x == Landed(s, j)
    <2>1. /\ x = [s EXCEPT !.job = [s.job EXCEPT ![j] = [s.job[j] EXCEPT !.st = "done"]]]
          /\ x.job = [s.job EXCEPT ![j] = [s.job[j] EXCEPT !.st = "done"]]
          /\ x.lane = s.lane /\ x.cands = s.cands /\ x.blocked = s.blocked
          /\ x.hold = s.hold /\ x.ledger = s.ledger
          /\ x.job[j].meta = s.job[j].meta
        BY LandedIs
    <2>2. Safe(x)
        BY <1>2 DEF Mild
    <2> DEFINE r == [s.job[j] EXCEPT !.st = "done"]
    <2>3. r.st = "done"
        <3>1. Known(s, j) /\ s \in States
            BY DEF Flying, Known, Safe
        <3>2. s.job[j] \in [st : {"waiting", "granted", "started", "done", "cancelled"},
                            meta : Metas, seq : JobIds, age : 0 .. Highest * Quantum,
                            delay : {NotDelayed} \cup Nat, owns : Windows \cup {NoWindow},
                            ago : 0 .. MaxLen, spent : BOOLEAN]
            BY <3>1, FieldsOfJobs
        <3> QED BY <3>2
    <2> HIDE DEF x
    <2>4. s.job \in [JobIds -> JobRecords]
        BY FieldsOfStates DEF Safe
    <2>5. x.job[j].st = "done" /\ \A i \in JobIds \ {j} : x.job[i] = s.job[i]
        <3>1. x.job = [s.job EXCEPT ![j] = r]
            BY <2>1
        <3> HIDE DEF r
        <3> QED BY <3>1, <2>3, <2>4
    <2>6. \A i \in JobIds : /\ Waiting(x, i) <=> Waiting(s, i)
                            /\ Waiting(s, i) => x.job[i] = s.job[i]
        BY <2>5 DEF Waiting, Flying
    <2>7. Alike(s, x)
        BY <2>1, <2>6 DEF Alike, Delayed, IsBlocked, HasCapacity
    <2>8. Orderly(x, {}, b)
        BY <2>2, <2>7, AlikeKeepsOrder
    <2> QED BY <2>8, <1>2 DEF x
<1>3. CASE l \in Lanes /\ \E p \in LaneRecords :
               /\ Mild(s, Unlocked(s, j, "done", l, p))
               /\ p.pending = s.lane[l].pending /\ p.queued = s.lane[l].queued
               /\ \/ t = Vacated(Unlocked(s, j, "done", l, p), l)
                  \/ /\ t = RemoveIdle(Unlocked(s, j, "done", l, p), l)
                     /\ p.count = s.lane[l].count
    <2> HIDE DEF t
    <2>1. PICK p \in LaneRecords :
               /\ Mild(s, Unlocked(s, j, "done", l, p))
               /\ p.pending = s.lane[l].pending /\ p.queued = s.lane[l].queued
               /\ \/ t = Vacated(Unlocked(s, j, "done", l, p), l)
                  \/ /\ t = RemoveIdle(Unlocked(s, j, "done", l, p), l)
                     /\ p.count = s.lane[l].count
        BY <1>3
    <2> DEFINE u == Unlocked(s, j, "done", l, p)
    <2>2. Safe(u) /\ l \in Lanes /\ "done" \in {"started", "done"}
        BY <2>1, <1>3 DEF Mild
    <2>3. ASSUME NEW Y \in SUBSET Lanes, p.count # s.lane[l].count => l \in Y
          PROVE  Orderly(u, Y, b)
        BY <2>1, <2>2, <2>3, UnlockingKeepsOrder
    <2> HIDE DEF u
    <2>4. CASE t = Vacated(u, l)
        <3>1. {l} \in SUBSET Lanes /\ l \in {l} /\ {} \cup {l} = {l}
            BY <2>2
        <3>2. Orderly(u, {l}, b)
            BY <3>1, <2>3
        <3> QED BY <3>1, <3>2, <2>2, <2>4, VacatingKeepsOrder DEF t
    <2>5. CASE t = RemoveIdle(u, l) /\ p.count = s.lane[l].count
        <3>1. Orderly(u, {}, b)
            BY <2>3, <2>5
        <3> QED BY <3>1, <2>2, <2>5, RemovingIdleKeepsOrder DEF t
    <2> QED BY <2>1, <2>4, <2>5 DEF u
<1> QED BY <1>1, <1>2, <1>3

LEMMA RearmingOwnersKeepsOrder ==
    ASSUME NEW s, Safe(s), NEW b, Orderly(s, {}, b), NEW ws \in SUBSET Windows
    PROVE  Orderly(RearmReservationOwners(s, ws), {}, b)
<1> DEFINE owners == {s.hold[w].owner : w \in {w \in ws : s.hold[w].on}}
           asleep == {ref \in owners : IsBlocked(s, ref)}
<1>1. \A ref \in asleep : RefOk(s, ref) /\ ref \in Refs /\ IsBlocked(s, ref)
    BY DEF Safe, RefsOk, RefOk, Refs
<1>2. RearmReservationOwners(s, ws) = PushAll(Unblock(s, asleep), asleep)
    BY DEF RearmReservationOwners
<1> HIDE DEF asleep
<1>3. asleep \in SUBSET Refs
    BY <1>1
<1> QED BY <1>1, <1>2, <1>3, WakingKeepsOrder

LEMMA RefundingKeepsOrder ==
    ASSUME NEW s, Safe(s), NEW b, Orderly(s, {}, b), NEW j \in JobIds, Known(s, j),
           ~Waiting(s, j)
    PROVE  Orderly(Refund(s, j), {}, b)
<1> DEFINE refunded == {w \in Range(WindowsOf(s.job[j].meta)) : j \in s.ledger[w]}
           c == Credited(s, j)
           r == [s.job[j] EXCEPT !.spent = FALSE]
<1>1. s \in States /\ Known(s, j)
    BY DEF Safe
<1>2. refunded \in SUBSET Windows
    <2>1. s.job[j].meta \in Metas
        BY <1>1, FieldsOfJobs
    <2> QED BY <2>1, WindowsAreWindows
<1>3. Refund(s, j) = RearmReservationOwners(c, refunded)
    BY <1>1 DEF Refund, Credited, States
<1>4. Safe(c)
    BY <1>1, RefundingIsGentle
<1>5. /\ c.job = [s.job EXCEPT ![j] = r] /\ c.lane = s.lane /\ c.cands = s.cands
      /\ c.blocked = s.blocked /\ c.hold = s.hold
    BY <1>1 DEF Credited, States
<1>6. r.st = s.job[j].st
    <2>1. s.job[j] \in [st : {"waiting", "granted", "started", "done", "cancelled"},
                        meta : Metas, seq : JobIds, age : 0 .. Highest * Quantum,
                        delay : {NotDelayed} \cup Nat, owns : Windows \cup {NoWindow},
                        ago : 0 .. MaxLen, spent : BOOLEAN]
        BY <1>1, FieldsOfJobs
    <2> QED BY <2>1
<1> HIDE DEF r
<1>7. c.job[j].st = s.job[j].st /\ \A i \in JobIds \ {j} : c.job[i] = s.job[i]
    <2>1. s.job \in [JobIds -> JobRecords]
        BY <1>1, FieldsOfStates
    <2> HIDE DEF c
    <2> QED BY <2>1, <1>5, <1>6
<1> HIDE DEF refunded, c
<1>8. \A i \in JobIds : /\ Waiting(c, i) <=> Waiting(s, i)
                        /\ Waiting(s, i) => c.job[i] = s.job[i]
    BY <1>7 DEF Waiting
<1>9. Alike(s, c)
    BY <1>5, <1>8 DEF Alike, Delayed, IsBlocked, HasCapacity
<1>10. Orderly(c, {}, b)
    BY <1>4, <1>9, AlikeKeepsOrder
<1> QED BY <1>2, <1>3, <1>4, <1>10, RearmingOwnersKeepsOrder

LEMMA CarryingKeepsOrder ==
    ASSUME NEW s, Safe(s), NEW b, Orderly(s, {}, b), NEW debits \in [Windows -> SUBSET JobIds]
    PROVE  Orderly([s EXCEPT !.ledger = debits], {}, b)
<1> DEFINE c == [s EXCEPT !.ledger = debits]
<1>1. /\ c.job = s.job /\ c.lane = s.lane
      /\ c.cands = s.cands /\ c.blocked = s.blocked /\ c.hold = s.hold
    BY DEF Safe, States
<1>2. Safe(c)
    BY CarryingIsGentle
<1> HIDE DEF c
<1>3. Alike(s, c)
    BY <1>1 DEF Alike, Waiting, Delayed, IsBlocked, HasCapacity
<1>4. Orderly(c, {}, b)
    BY <1>2, <1>3, AlikeKeepsOrder
<1> QED BY <1>4 DEF c

\* New limits take every waiting reference from its deadline or reservation
\* and push it.
LEMMA RearmingKeepsOrder ==
    ASSUME NEW s, Safe(s), NEW b, Orderly(s, {}, b)
    PROVE  Orderly(Rearmed(s), {}, b)
<1> DEFINE c == Cleared(s)
           refs == Awaiting(s)
<1>1. /\ Rearmed(s) = PushAll(c, refs) /\ Mild(s, c)
      /\ refs \in SUBSET Refs /\ \A ref \in refs : RefOk(c, ref)
      /\ c.lane = s.lane /\ c.cands = s.cands
      /\ c.blocked = {} /\ c.hold = [w \in Windows |-> NoHold]
      /\ \A j \in JobIds :
           Known(s, j) => /\ c.job[j].st = s.job[j].st
                          /\ c.job[j].meta = s.job[j].meta
                          /\ c.job[j].delay = s.job[j].delay
    BY ClearingIsMild
<1>2. \A ref : ref \in refs <=> IsBlocked(s, ref) \/ Parked(s, ref)
    BY DEF Awaiting, IsBlocked, Parked, Range
<1> HIDE DEF c, refs
<1>3. Safe(c)
    BY <1>1 DEF Mild
<1>4. \A j \in JobIds : /\ Waiting(c, j) <=> Waiting(s, j)
                        /\ Waiting(s, j) => /\ c.job[j].meta = s.job[j].meta
                                            /\ Delayed(c, j) <=> Delayed(s, j)
    <2>1. \A j \in JobIds : Known(c, j) <=> Known(s, j)
        BY <1>1 DEF Mild, Gentle
    <2> QED BY <2>1, <1>1 DEF Waiting, Known, Delayed
<1>5. \A j \in JobIds : Loose(c, j) <=> Loose(s, j)
    BY <1>4 DEF Loose
<1>6. \A w \in Windows : c.hold[w].queue = <<>>
    BY <1>1 DEF NoHold
<1>7. \A ref : ~IsBlocked(c, ref) /\ ~Parked(c, ref)
    BY <1>1, <1>6 DEF IsBlocked, Parked
<1>8. \A j \in JobIds \cap refs : Loose(c, j) => Free(c, j)
    <2> SUFFICES ASSUME NEW j \in JobIds \cap refs, Loose(s, j) PROVE Free(c, j)
        BY <1>5
    <2>1. Single(s, j) /\ Waiting(s, j)
        BY DEF Orderly, Tidy, Loose
    <2>2. ~Delayed(s, j)
        BY <2>1, <1>2 DEF Single
    <2> QED BY <2>1, <2>2, <1>4, <1>7 DEF Free
<1>9. JobsFit(s, c, refs)
    BY <1>4, <1>8 DEF JobsFit
<1>10. HeapFits(s, c, refs)
    BY <1>1 DEF HeapFits, InHeap
<1>11. NodesFit(s, c, refs)
    BY <1>1, <1>2 DEF NodesFit, IsBlocked
<1>12. QueuesFit(s, c, refs)
    <2>1. \A w \in Windows : Drawn(c.hold[w].queue, s.hold[w].queue)
        BY <1>6, DrawnFromNothing
    <2> QED BY <2>1, <1>2 DEF QueuesFit
<1>13. LanesFit(s, c, refs)
    BY <1>1 DEF LanesFit, HasCapacity
<1>14. Orderly(c, {} \cup refs, b)
    BY <1>3, <1>9, <1>10, <1>11, <1>12, <1>13, LooseningKeepsOrder DEF Loosened
<1>15. Pushed(c, PushAll(c, refs), refs) /\ Safe(PushAll(c, refs))
    BY <1>1, <1>3, PushingIsMild DEF Mild
<1> QED BY <1>1, <1>3, <1>14, <1>15, PushingKeepsOrder

-----------------------------------------------------------------------------
(* The admission pass begins and ends, and time passes.                    *)

LEMMA PromotingDelayedKeepsOrder ==
    ASSUME NEW s, Safe(s), NEW b, Orderly(s, {}, b)
    PROVE  Safe(PromoteDelayed(s)) /\ Orderly(PromoteDelayed(s), {}, b)
<1> DEFINE c == Undelaying(s)
           refs == {RefOf(s, j) : j \in Due(s)}
<1>1. /\ PromoteDelayed(s) = PushAll(c, refs) /\ Mild(s, c)
      /\ refs \in SUBSET Refs /\ \A ref \in refs : RefOk(c, ref)
      /\ c.lane = s.lane /\ c.cands = s.cands /\ c.blocked = s.blocked
      /\ c.hold = s.hold
      /\ \A j \in JobIds :
           IF j \in Due(s)
           THEN c.job[j].st = "waiting" /\ c.job[j].meta = s.job[j].meta
                /\ c.job[j].delay = NotDelayed
           ELSE c.job[j] = s.job[j]
    BY UndelayingIsMild
<1>2. \A j \in JobIds : j \in Due(s) => Waiting(s, j) /\ s.job[j].delay = 0
    BY DEF Due
<1>3. \A j \in JobIds : Loose(s, j) => (j \in refs <=> j \in Due(s))
    <2> SUFFICES ASSUME NEW j \in JobIds, Loose(s, j) PROVE j \in refs <=> j \in Due(s)
        OBVIOUS
    <2>1. RefOf(s, j) = j
        BY DEF Loose, RefOf
    <2>2. ASSUME NEW i \in Due(s), RefOf(s, i) = j PROVE i = j
        <3>1. i \in JobIds /\ Waiting(s, i)
            BY DEF Due
        <3>2. s.job[i].meta.lane \in Lanes \cup {NoLane}
            BY <3>1, WaitingJobs
        <3> QED BY <2>2, <3>2, NoJobIsALane DEF RefOf
    <2> QED BY <2>1, <2>2
<1> HIDE DEF c, refs
<1>4. Safe(c)
    BY <1>1 DEF Mild
<1>5. \A j \in JobIds : /\ Waiting(c, j) <=> Waiting(s, j)
                        /\ c.job[j].meta = s.job[j].meta
                        /\ j \in Due(s) => Delayed(s, j) /\ ~Delayed(c, j)
                        /\ j \notin Due(s) => (Delayed(c, j) <=> Delayed(s, j))
    BY <1>1, <1>2 DEF Waiting, Delayed, NotDelayed
<1>6. \A ref : /\ Asks(c, ref) <=> Asks(s, ref)
               /\ Loose(c, ref) /\ ref \in JobIds => Loose(s, ref)
               /\ IsBlocked(c, ref) <=> IsBlocked(s, ref)
               /\ Parked(c, ref) <=> Parked(s, ref)
    BY <1>1, <1>5 DEF Asks, RefOf, Loose, IsBlocked, Parked
<1>7. \A j \in JobIds \cap refs : Loose(c, j) => Free(c, j)
    <2> SUFFICES ASSUME NEW j \in JobIds \cap refs, Loose(c, j) PROVE Free(c, j)
        OBVIOUS
    <2>1. Loose(s, j) /\ j \in Due(s)
        BY <1>3, <1>6
    <2>2. Single(s, j) /\ Delayed(s, j)
        BY <2>1, <1>5 DEF Orderly, Tidy
    <2> QED BY <2>1, <2>2, <1>5, <1>6 DEF Single, Free
<1>8. JobsFit(s, c, refs)
    <2> SUFFICES ASSUME NEW j \in JobIds, Waiting(c, j)
                 PROVE  /\ Waiting(s, j) /\ c.job[j].meta = s.job[j].meta
                        /\ Delayed(c, j) => Delayed(s, j)
                        /\ Loose(c, j) /\ j \notin refs /\ Delayed(s, j) => Delayed(c, j)
                        /\ Loose(c, j) /\ j \in refs => Free(c, j)
        BY DEF JobsFit
    <2> QED BY <1>3, <1>5, <1>6, <1>7
<1>9. HeapFits(s, c, refs)
    BY <1>1 DEF HeapFits, InHeap
<1>10. NodesFit(s, c, refs)
    BY <1>1, <1>6 DEF NodesFit, IsBlocked, Orderly, NodesAsk
<1>11. QueuesFit(s, c, refs) /\ LanesFit(s, c, refs)
    BY <1>1, QueuesThatStayFit DEF LanesFit, HasCapacity
<1>12. Orderly(c, {} \cup refs, b)
    BY <1>4, <1>8, <1>9, <1>10, <1>11, LooseningKeepsOrder DEF Loosened
<1>13. Pushed(c, PushAll(c, refs), refs) /\ Safe(PushAll(c, refs))
    BY <1>1, <1>4, PushingIsMild DEF Mild
<1> QED BY <1>1, <1>4, <1>12, <1>13, PushingKeepsOrder

LEMMA PromotingBlockedKeepsOrder ==
    ASSUME NEW s, Safe(s), NEW b, Orderly(s, {}, b)
    PROVE  Safe(PromoteBlocked(s)) /\ Orderly(PromoteBlocked(s), {}, b)
<1> DEFINE refs == {n.ref : n \in {n \in s.blocked : ~n.permanent /\ n.in = 0}}
<1>1. \A ref \in refs : RefOk(s, ref) /\ ref \in Refs /\ IsBlocked(s, ref)
    BY DEF Safe, RefsOk, RefOk, Refs, IsBlocked
<1>2. PromoteBlocked(s) = PushAll(Unblock(s, refs), refs)
    BY DEF PromoteBlocked
<1>3. Safe(PromoteBlocked(s))
    BY PromotingBlockedIsMild DEF Mild
<1> HIDE DEF refs
<1>4. refs \in SUBSET Refs
    BY <1>1
<1> QED BY <1>1, <1>2, <1>3, <1>4, WakingKeepsOrder

LEMMA QueuesBehindAreDrawn ==
    ASSUME NEW s, Safe(s), NEW w \in Windows, NEW i \in DOMAIN s.hold[w].queue
    PROVE  LET q == s.hold[w].queue
               p == Behind(s.hold[w], i).queue
           IN  /\ Drawn(p, q)
               /\ \A k \in DOMAIN p : i + k \in DOMAIN q /\ p[k] = q[i + k] /\ i + k # i
               /\ \A m \in DOMAIN q : m > i => \E k \in DOMAIN p : p[k] = q[m]
<1> DEFINE q == s.hold[w].queue
           h == Behind(s.hold[w], i)
<1>1. i \in 1 .. Len(q)
    BY QueueBehind
<1>11. DOMAIN h.queue = 1 .. Len(q) - i
    BY QueueBehind
<1>12. \A k \in DOMAIN h.queue : h.queue[k] = q[i + k]
    BY QueueBehind
<1>2. q \in Seq(Refs)
    BY ParkedReferences
<1> HIDE DEF q, h
<1> DEFINE p == h.queue
           f == [k \in DOMAIN p |-> i + k]
<1>3. Len(q) \in Nat /\ DOMAIN q = 1 .. Len(q)
    BY <1>2, LenProperties
<1>4. /\ i \in 1 .. Len(q) /\ DOMAIN p = 1 .. Len(q) - i
      /\ \A k \in DOMAIN p : p[k] = q[i + k]
    BY <1>1, <1>11, <1>12
<1> HIDE DEF p
<1>5. \A k \in DOMAIN p : i + k \in DOMAIN q /\ i + k # i
    BY <1>3, <1>4
<1>6. \A k, m \in DOMAIN p : i + k = i + m => k = m
    BY <1>3, <1>4
<1>7. \A m \in DOMAIN q : m > i => m - i \in DOMAIN p /\ i + (m - i) = m
    BY <1>3, <1>4
<1>8. f \in [DOMAIN p -> DOMAIN q] /\ \A k \in DOMAIN p : f[k] = i + k
    BY <1>5
<1> HIDE DEF f
<1>9. Drawn(p, q)
    BY <1>4, <1>6, <1>8 DEF Drawn
<1>10. \A m \in DOMAIN q : m > i => \E k \in DOMAIN p : p[k] = q[m]
    BY <1>4, <1>7
<1> QED BY <1>4, <1>5, <1>9, <1>10 DEF p, q, h

LEMMA PromotingReservationsKeepsOrder ==
    ASSUME NEW s, Safe(s), NEW b, Orderly(s, {}, b)
    PROVE  Safe(PromoteReservations(s)) /\ Orderly(PromoteReservations(s), {}, b)
<1> DEFINE t == Reopened(s)
           refs == Woken(s)
<1>1. /\ PromoteReservations(s) = PushAll(t, refs) /\ Mild(s, t)
      /\ refs \in SUBSET Refs /\ \A ref \in refs : RefOk(t, ref)
      /\ t.job = s.job /\ t.lane = s.lane /\ t.cands = s.cands
      /\ t.blocked = s.blocked /\ t.hold = HoldsBehind(s)
      /\ \A w \in Waking(s) : /\ FirstEntry(s, w) \in LiveEntries(s, w)
                              /\ \A i \in LiveEntries(s, w) : FirstEntry(s, w) <= i
    BY ReopeningIsMild
<1>2. \A ref : ref \in refs <=>
          \E w \in Waking(s) : s.hold[w].queue[FirstEntry(s, w)] = ref
    BY DEF Woken
<1>3. \A w \in Windows :
          IF w \in Waking(s) THEN t.hold[w] = Behind(s.hold[w], FirstEntry(s, w))
          ELSE IF w \in Expired(s) THEN t.hold[w] = NoHold /\ LiveEntries(s, w) = {}
          ELSE t.hold[w] = s.hold[w]
    BY <1>1 DEF HoldsBehind, Waking
<1> HIDE DEF t, refs
<1>4. Safe(t)
    BY <1>1 DEF Mild
<1>5. \A w \in Waking(s) : w \in Windows /\ FirstEntry(s, w) \in DOMAIN s.hold[w].queue
    BY <1>1 DEF Waking, Expired, LiveEntries
<1>6. \A ref : /\ Asks(t, ref) <=> Asks(s, ref)
               /\ Loose(t, ref) <=> Loose(s, ref)
               /\ Delayed(t, ref) <=> Delayed(s, ref)
               /\ IsBlocked(t, ref) <=> IsBlocked(s, ref)
               /\ InHeap(t, ref) <=> InHeap(s, ref)
    BY <1>1 DEF Asks, RefOf, Waiting, Loose, Delayed, IsBlocked, InHeap
<1> DEFINE I(w) == FirstEntry(s, w)
           Q(w) == s.hold[w].queue
           P(w) == t.hold[w].queue
<1>7. ASSUME NEW w \in Waking(s)
      PROVE  /\ Drawn(P(w), Q(w))
             /\ \A k \in DOMAIN P(w) : /\ I(w) + k \in DOMAIN Q(w)
                                       /\ P(w)[k] = Q(w)[I(w) + k] /\ I(w) + k # I(w)
             /\ \A m \in DOMAIN Q(w) : m > I(w) => \E k \in DOMAIN P(w) : P(w)[k] = Q(w)[m]
    <2> DEFINE i == FirstEntry(s, w)
    <2>1. w \in Windows /\ i \in DOMAIN s.hold[w].queue /\ t.hold[w] = Behind(s.hold[w], i)
        BY <1>3, <1>5
    <2> HIDE DEF i
    <2> DEFINE q == s.hold[w].queue
               p == Behind(s.hold[w], i).queue
    <2>2. /\ Drawn(p, q)
          /\ \A k \in DOMAIN p : i + k \in DOMAIN q /\ p[k] = q[i + k] /\ i + k # i
          /\ \A m \in DOMAIN q : m > i => \E k \in DOMAIN p : p[k] = q[m]
        BY <2>1, QueuesBehindAreDrawn
    <2>3. p = t.hold[w].queue
        BY <2>1
    <2> HIDE DEF p, q
    <2> QED BY <2>2, <2>3 DEF i, q
<1>8. NoHold.queue = <<>> /\ DOMAIN NoHold.queue = {}
    BY DEF NoHold
<1>9. \A j \in JobIds \cap refs : Loose(t, j) => Free(t, j)
    <2> SUFFICES ASSUME NEW j \in JobIds \cap refs, Loose(s, j) PROVE Free(t, j)
        BY <1>6
    <2>1. PICK w \in Waking(s) : s.hold[w].queue[FirstEntry(s, w)] = j
        BY <1>2
    <2>2. w \in Windows /\ FirstEntry(s, w) \in DOMAIN s.hold[w].queue
        BY <1>5
    <2>3. Single(s, j) /\ Parked(s, j)
        BY <2>1, <2>2 DEF Orderly, Tidy, Parked
    <2>4. ASSUME NEW v \in Windows, NEW m \in DOMAIN t.hold[v].queue, t.hold[v].queue[m] = j
          PROVE  FALSE
        <3>1. CASE v \in Waking(s)
            <4> DEFINE i == FirstEntry(s, v)
            <4>1. i + m \in DOMAIN s.hold[v].queue /\ s.hold[v].queue[i + m] = j /\ i + m # i
                BY <1>7, <2>4, <3>1
            <4> HIDE DEF i
            <4>2. v = w /\ i + m = FirstEntry(s, w)
                BY <2>1, <2>2, <2>3, <4>1 DEF Single, Once
            <4> QED BY <4>1, <4>2 DEF i
        <3>2. CASE v \notin Waking(s) /\ v \in Expired(s)
            BY <3>2, <2>4, <1>3, <1>8
        <3>3. CASE v \notin Waking(s) /\ v \notin Expired(s)
            <4>1. t.hold[v] = s.hold[v]
                BY <3>3, <1>3
            <4>2. v = w
                BY <2>1, <2>2, <2>3, <2>4, <4>1 DEF Single, Once
            <4> QED BY <4>2, <3>3
        <3> QED BY <3>1, <3>2, <3>3
    <2> QED BY <2>3, <2>4, <1>6 DEF Single, Free, Parked
<1>10. JobsFit(s, t, refs)
    BY <1>1, <1>9 DEF JobsFit, Waiting, Delayed
<1>11. HeapFits(s, t, refs)
    BY <1>1, <1>6 DEF HeapFits
<1>12. NodesFit(s, t, refs)
    BY <1>1, <1>6 DEF NodesFit, IsBlocked, Orderly, NodesAsk
<1>13. QueuesFit(s, t, refs)
    <2>1. ASSUME NEW w \in Windows PROVE Drawn(t.hold[w].queue, s.hold[w].queue)
        <3>1. CASE w \in Waking(s)
            BY <3>1, <1>7
        <3>2. CASE w \notin Waking(s) /\ w \in Expired(s)
            BY <3>2, <1>3, <1>8, DrawnFromNothing
        <3>3. CASE w \notin Waking(s) /\ w \notin Expired(s)
            BY <3>3, <1>3, DrawnFromItself
        <3> QED BY <3>1, <3>2, <3>3
    <2>2. ASSUME NEW ref, Parked(s, ref), Asks(t, ref), ref \notin refs
          PROVE  Parked(t, ref)
        <3>0. PICK w \in Windows : \E i \in DOMAIN s.hold[w].queue : s.hold[w].queue[i] = ref
            BY <2>2 DEF Parked
        <3>1. PICK i \in DOMAIN s.hold[w].queue : s.hold[w].queue[i] = ref
            BY <3>0
        <3>2. Alive(s, ref)
            <4>1. RefOk(s, ref)
                BY <3>1 DEF Safe, RefsOk
            <4> QED BY <4>1, <2>2, <1>6, AskingIsAlive
        <3>3. i \in LiveEntries(s, w)
            BY <3>1, <3>2 DEF LiveEntries
        <3>4. CASE w \in Waking(s)
            <4>1. FirstEntry(s, w) <= i /\ FirstEntry(s, w) # i
                BY <3>1, <3>3, <3>4, <2>2, <1>1, <1>2
            <4>2. i \in Nat /\ FirstEntry(s, w) \in Nat
                <5>1. s.hold[w].queue \in Seq(Refs)
                    BY ParkedReferences
                <5>2. DOMAIN s.hold[w].queue = 1 .. Len(s.hold[w].queue)
                    BY <5>1, LenProperties
                <5> QED BY <5>2, <3>1, <3>4, <1>5
            <4>3. i > FirstEntry(s, w)
                BY <4>1, <4>2
            <4>4. \E k \in DOMAIN t.hold[w].queue : t.hold[w].queue[k] = s.hold[w].queue[i]
                BY <4>3, <3>4, <1>7
            <4> QED BY <4>4, <3>1 DEF Parked
        <3>5. CASE w \notin Waking(s)
            <4>1. w \notin Expired(s)
                BY <3>3, <3>5 DEF Waking
            <4>2. t.hold[w] = s.hold[w]
                BY <4>1, <3>5, <1>3
            <4> QED BY <4>2, <3>1 DEF Parked
        <3> QED BY <3>4, <3>5
    <2> QED BY <2>1, <2>2 DEF QueuesFit
<1>14. LanesFit(s, t, refs)
    BY <1>1 DEF LanesFit, HasCapacity
<1>15. Orderly(t, {} \cup refs, b)
    BY <1>4, <1>10, <1>11, <1>12, <1>13, <1>14, LooseningKeepsOrder DEF Loosened
<1>16. Pushed(t, PushAll(t, refs), refs) /\ Safe(PushAll(t, refs))
    BY <1>1, <1>4, PushingIsMild DEF Mild
<1> QED BY <1>1, <1>4, <1>15, <1>16, PushingKeepsOrder

LEMMA CompactingLanesKeepsOrder ==
    ASSUME NEW s, Safe(s), NEW b, Orderly(s, {}, b)
    PROVE  Orderly(CompactLanes(s), {}, b)
<1> DEFINE t == CompactLanes(s)
<1>1. /\ Calm(s, t) /\ t.job = s.job /\ t.hold = s.hold /\ t.ledger = s.ledger
      /\ t.cands = s.cands /\ t.blocked = s.blocked
      /\ \A l \in Lanes : /\ t.lane[l].holder = s.lane[l].holder
                          /\ t.lane[l].count = s.lane[l].count
                          /\ t.lane[l].queued = s.lane[l].queued
                          /\ Live(s, l) \subseteq t.lane[l].pending
                          /\ t.lane[l].pending \subseteq s.lane[l].pending
    BY CompactingLanesIsCalm
<1> HIDE DEF t
<1>2. Safe(t)
    BY <1>1, CalmChangesAreSafe
<1>3. Alike(s, t)
    BY <1>1 DEF Alike, Waiting, Delayed, IsBlocked, HasCapacity
<1>4. Orderly(t, {}, b)
    BY <1>2, <1>3, AlikeKeepsOrder
<1> QED BY <1>4 DEF t

LEMMA BeginningKeepsOrder ==
    ASSUME NEW s, Safe(s), NEW b, Orderly(s, {}, b)
    PROVE  Orderly(CompactLanes(PromoteReservations(PromoteBlocked(PromoteDelayed(s)))), {}, b)
<1> DEFINE a == PromoteDelayed(s)
           d == PromoteBlocked(a)
           c == PromoteReservations(d)
<1>1. Safe(a) /\ Orderly(a, {}, b)
    BY PromotingDelayedKeepsOrder
<1> HIDE DEF a
<1>2. Safe(d) /\ Orderly(d, {}, b)
    BY <1>1, PromotingBlockedKeepsOrder
<1> HIDE DEF d
<1>3. Safe(c) /\ Orderly(c, {}, b)
    BY <1>2, PromotingReservationsKeepsOrder
<1> HIDE DEF c
<1>4. Orderly(CompactLanes(c), {}, b)
    BY <1>3, CompactingLanesKeepsOrder
<1> QED BY <1>4 DEF c, d, a

\* Every live entry of a queue survives its compaction.
LEMMA TheLiveSurvive ==
    ASSUME NEW s, NEW q \in Seq(Refs)
    PROVE  /\ Drawn(Survivors(s, q), q)
           /\ \A i \in DOMAIN q : Alive(s, q[i]) =>
                \E k \in DOMAIN Survivors(s, q) : Survivors(s, q)[k] = q[i]
<1> DEFINE alive == {i \in DOMAIN q : Alive(s, q[i])}
           n == Cardinality(alive)
           Rank(i) == Cardinality({h \in alive : h <= i})
           At(k) == CHOOSE i \in alive : Rank(i) = k
           f == [k \in 1 .. n |-> At(k)]
           c == [k \in 1 .. n |-> q[At(k)]]
<1>1. Len(q) \in Nat /\ DOMAIN q = 1 .. Len(q) /\ \A i \in 1 .. Len(q) : q[i] \in Refs
    BY LenProperties
<1>2. alive \in SUBSET (1 .. Len(q)) /\ alive \subseteq DOMAIN q
    BY <1>1
<1>3. \A i \in DOMAIN q : Alive(s, q[i]) => i \in alive
    OBVIOUS
<1>4. Survivors(s, q) = c
    BY DEF Survivors
<1> HIDE DEF alive
<1>5. n \in Nat /\ IsFiniteSet(alive) /\ IsFiniteSet(1 .. n) /\ Cardinality(1 .. n) = n
    <2>1. IsFiniteSet(1 .. Len(q))
        BY <1>1, FS_Interval
    <2>2. IsFiniteSet(alive)
        BY <1>2, <2>1, FS_Subset
    <2>3. n \in Nat
        BY <2>2, FS_CardinalityType
    <2> HIDE DEF n
    <2>4. IsFiniteSet(1 .. n) /\ Cardinality(1 .. n) = IF 1 > n THEN 0 ELSE n - 1 + 1
        BY <2>3, FS_Interval
    <2>5. Cardinality(1 .. n) = n
        BY <2>3, <2>4
    <2> QED BY <2>2, <2>3, <2>4, <2>5
<1>6. ASSUME NEW k \in 1 .. n PROVE At(k) \in alive /\ Rank(At(k)) = k
    <2>1. \E i \in alive : Rank(i) = k
        BY <1>1, <1>2, RanksExist
    <2> HIDE DEF Rank
    <2> QED BY <2>1
<1> HIDE DEF At, Rank
<1>7. f \in [1 .. n -> alive] /\ \A k \in 1 .. n : f[k] = At(k)
    BY <1>6
<1>8. \A k, m \in 1 .. n : f[k] = f[m] => k = m
    BY <1>6, <1>7
<1>9. c \in [1 .. n -> {q[i] : i \in alive}] /\ \A k \in 1 .. n : c[k] = q[f[k]]
    BY <1>6, <1>7
<1>10. DOMAIN c = 1 .. n /\ DOMAIN f = 1 .. n
    OBVIOUS
<1> HIDE DEF f, c
<1>11. Drawn(c, q)
    <2>1. f \in [DOMAIN c -> DOMAIN q]
        BY <1>2, <1>7, <1>10
    <2> QED BY <2>1, <1>8, <1>9, <1>10 DEF Drawn
<1>12. f \in Surjection(1 .. n, alive)
    <2>1. f \in Injection(1 .. n, alive)
        BY <1>7, <1>8, <1>10 DEF Injection, IsInjective
    <2>2. Cardinality(1 .. n) = Cardinality(alive)
        BY <1>5
    <2> HIDE DEF n
    <2> QED BY <2>1, <2>2, <1>5, FS_Injection
<1>13. \A i \in alive : \E k \in 1 .. n : f[k] = i
    BY <1>12 DEF Surjection
<1>14. \A i \in DOMAIN q : Alive(s, q[i]) => \E k \in DOMAIN c : c[k] = q[i]
    BY <1>3, <1>9, <1>10, <1>13
<1> QED BY <1>4, <1>11, <1>14

LEMMA CompactingReservationsKeepsOrder ==
    ASSUME NEW s, Safe(s), NEW b, Orderly(s, {}, b)
    PROVE  /\ Orderly(CompactReservations(s), {}, b)
           /\ \A w \in Windows : Drawn(CompactReservations(s).hold[w].queue, s.hold[w].queue)
<1> DEFINE t == CompactReservations(s)
<1>1. /\ Calm(s, t) /\ t.job = s.job /\ t.lane = s.lane /\ t.cands = s.cands
      /\ t.blocked = s.blocked /\ t.ledger = s.ledger
    BY CompactingReservationsIsCalm
<1>2. ASSUME NEW w \in Windows
      PROVE  t.hold[w].queue \in {s.hold[w].queue, Survivors(s, s.hold[w].queue)}
    <2> DEFINE h == [v \in Windows |->
                  IF s.hold[v].stale = 0 \/ s.hold[v].stale * 2 < Len(s.hold[v].queue)
                  THEN s.hold[v]
                  ELSE [s.hold[v] EXCEPT !.queue = Survivors(s, s.hold[v].queue), !.stale = 0]]
               e == [s.hold[w] EXCEPT !.queue = Survivors(s, s.hold[w].queue), !.stale = 0]
    <2>1. t.hold = h
        <3>1. t = [s EXCEPT !.hold = h]
            BY DEF CompactReservations
        <3> HIDE DEF h, t
        <3> QED BY <3>1 DEF Safe, States
    <2>2. t.hold[w] \in {s.hold[w], e}
        BY <2>1
    <2>3. s.hold[w] \in HoldRecords
        BY ParkedReferences
    <2>4. e.queue = Survivors(s, s.hold[w].queue)
        <3> DEFINE q == Survivors(s, s.hold[w].queue)
        <3> HIDE DEF q
        <3>1. [s.hold[w] EXCEPT !.queue = q, !.stale = 0].queue = q
            BY <2>3 DEF HoldRecords
        <3> QED BY <3>1 DEF q
    <2> HIDE DEF e, h, t
    <2> QED BY <2>2, <2>4
<1> HIDE DEF t
<1>3. Safe(t)
    BY <1>1, CalmChangesAreSafe
<1>4. \A ref : Asks(t, ref) <=> Asks(s, ref)
    BY <1>1 DEF Asks, RefOf, Waiting
<1>5. JobsFit(s, t, {}) /\ HeapFits(s, t, {}) /\ LanesFit(s, t, {})
    BY <1>1 DEF JobsFit, Waiting, Delayed, HeapFits, InHeap, LanesFit, HasCapacity
<1>6. NodesFit(s, t, {})
    BY <1>1, <1>4 DEF NodesFit, IsBlocked, Orderly, NodesAsk
<1>7. QueuesFit(s, t, {})
    <2>1. ASSUME NEW w \in Windows
          PROVE  /\ Drawn(t.hold[w].queue, s.hold[w].queue)
                 /\ \A i \in DOMAIN s.hold[w].queue : Alive(s, s.hold[w].queue[i]) =>
                       \E k \in DOMAIN t.hold[w].queue : t.hold[w].queue[k] = s.hold[w].queue[i]
        <3> DEFINE q == s.hold[w].queue
        <3>1. q \in Seq(Refs)
            BY ParkedReferences
        <3>2. t.hold[w].queue \in {q, Survivors(s, q)}
            BY <1>2
        <3> HIDE DEF q
        <3>3. Drawn(q, q)
            BY DrawnFromItself
        <3>4. /\ Drawn(Survivors(s, q), q)
              /\ \A i \in DOMAIN q : Alive(s, q[i]) =>
                   \E k \in DOMAIN Survivors(s, q) : Survivors(s, q)[k] = q[i]
            BY <3>1, TheLiveSurvive
        <3>5. CASE t.hold[w].queue = q
            BY <3>3, <3>5 DEF q
        <3>6. CASE t.hold[w].queue = Survivors(s, q)
            BY <3>4, <3>6 DEF q
        <3> QED BY <3>2, <3>5, <3>6
    <2>2. ASSUME NEW ref, Parked(s, ref), Asks(t, ref)
          PROVE  Parked(t, ref)
        <3>0. PICK w \in Windows : \E i \in DOMAIN s.hold[w].queue : s.hold[w].queue[i] = ref
            BY <2>2 DEF Parked
        <3>1. PICK i \in DOMAIN s.hold[w].queue : s.hold[w].queue[i] = ref
            BY <3>0
        <3>2. Alive(s, ref)
            <4>1. RefOk(s, ref)
                BY <3>1 DEF Safe, RefsOk
            <4> QED BY <4>1, <2>2, <1>4, AskingIsAlive
        <3> QED BY <2>1, <3>1, <3>2 DEF Parked
    <2> QED BY <2>1, <2>2 DEF QueuesFit
<1>8. Orderly(t, {} \cup {}, b)
    BY <1>3, <1>5, <1>6, <1>7, LooseningKeepsOrder DEF Loosened
<1> QED BY <1>7, <1>8 DEF t, QueuesFit

\* The delay of a waiting job ends in a pass, not while time passes.
LEMMA AgedDelays ==
    ASSUME NEW r \in JobRecords, r.st = "waiting"
    PROVE  Aged(r).delay = NotDelayed <=> r.delay = NotDelayed
<1>1. r \in [st : {"waiting", "granted", "started", "done", "cancelled"}, meta : Metas,
             seq : JobIds, age : 0 .. Highest * Quantum, delay : {NotDelayed} \cup Nat,
             owns : Windows \cup {NoWindow}, ago : 0 .. MaxLen, spent : BOOLEAN]
    BY DEF JobRecords, NeverUsed
<1>2. CASE r.delay = NotDelayed
    <2> DEFINE x == Min({Highest * Quantum, r.age + 1})
    <2>1. Aged(r) = [r EXCEPT !.age = x]
        BY <1>2 DEF Aged
    <2> HIDE DEF x
    <2> QED BY <2>1, <1>1, <1>2
<1>3. CASE r.delay # NotDelayed
    <2> DEFINE x == Less(r.delay)
    <2>1. Aged(r) = [r EXCEPT !.delay = x]
        BY <1>3 DEF Aged
    <2>2. x \in Nat
        BY <1>1, <1>3, LessIsLess
    <2> HIDE DEF x
    <2> QED BY <2>1, <2>2, <1>1, <1>3 DEF NotDelayed
<1> QED BY <1>2, <1>3

LEMMA TickingKeepsOrder ==
    ASSUME Safe(Core), cands = {}, NEW b, Orderly(Core, {}, b)
    PROVE  Orderly(Ticked, {}, b)
<1> DEFINE t == Ticked
           jobs == [j \in JobIds |-> Aged(job[j])]
<1>1. Safe(t)
    BY TickingIsSafe
<1>2. /\ t.job = jobs /\ t.lane = lane /\ t.cands = cands
      /\ t.blocked = {[n EXCEPT !.in = Less(@)] : n \in blocked}
      /\ \A w \in Windows : t.hold[w] = [hold[w] EXCEPT !.in = Less(@)]
    BY DEF Ticked
<1>3. /\ Core.job = job /\ Core.lane = lane /\ Core.cands = cands /\ Core.blocked = blocked
      /\ Core.hold = hold
    BY DEF Core
<1>4. /\ job \in [JobIds -> JobRecords] /\ hold \in [Windows -> HoldRecords]
      /\ blocked \subseteq Nodes
    BY <1>3, FieldsOfStates DEF Safe
<1>5. ASSUME NEW j \in JobIds
      PROVE  /\ Waiting(t, j) <=> Waiting(Core, j)
             /\ Waiting(Core, j) => t.job[j].meta = Core.job[j].meta
                                    /\ (Delayed(t, j) <=> Delayed(Core, j))
    <2> DEFINE r == job[j]
    <2>1. r \in JobRecords /\ t.job[j] = Aged(r) /\ Core.job[j] = r
        BY <1>2, <1>3, <1>4
    <2> HIDE DEF r, t
    <2>2. Aged(r).st = r.st /\ (r.st # "none" => Aged(r).meta = r.meta)
        BY <2>1, AgedJobs
    <2>3. r.st = "waiting" => (Aged(r).delay = NotDelayed <=> r.delay = NotDelayed)
        BY <2>1, AgedDelays
    <2> QED BY <2>1, <2>2, <2>3 DEF Waiting, Delayed
<1>6. \A ref : IsBlocked(t, ref) <=> IsBlocked(Core, ref)
    <2> DEFINE F(n) == [n EXCEPT !.in = Less(n.in)]
    <2>1. \A n \in blocked : F(n).ref = n.ref
        BY <1>4 DEF Nodes
    <2>2. t.blocked = {F(n) : n \in blocked}
        BY <1>2
    <2> HIDE DEF F, t
    <2> QED BY <2>1, <2>2, <1>3 DEF IsBlocked
<1>7. \A w \in Windows : t.hold[w].queue = Core.hold[w].queue
    <2>1. \A w \in Windows : [hold[w] EXCEPT !.in = Less(hold[w].in)].queue = hold[w].queue
        BY <1>4 DEF HoldRecords
    <2> QED BY <2>1, <1>2, <1>3
<1> HIDE DEF t
<1>8. Alike(Core, t)
    BY <1>2, <1>3, <1>5, <1>6, <1>7 DEF Alike, HasCapacity
<1>9. Orderly(t, {}, b)
    BY <1>1, <1>8, AlikeKeepsOrder
<1> QED BY <1>9 DEF t

-----------------------------------------------------------------------------
(* The steps of a pass that pop a candidate.  Its reference is in hand     *)
(* until it is parked, blocked, granted or pushed again.                   *)

InHand(s, ref) ==
    Orderly(s, {ref}, FALSE) /\ (ref \notin Lanes => ~InHeap(s, ref))

LEMMA PoppedIsInHand ==
    ASSUME Safe(Core), cands # {}, Orderly(Core, {}, FALSE)
    PROVE  Safe(Popped) /\ InHand(Popped, Top.ref)
<1> DEFINE t == Popped
           r == Top.ref
           Y == {r}
<1>1. /\ Calm(Core, t) /\ t.job = job /\ t.hold = hold
      /\ t.ledger = ledger /\ t.cands = cands \ {Top} /\ t.blocked = blocked
      /\ \A l \in Lanes : /\ t.lane[l].pending = lane[l].pending
                          /\ t.lane[l].holder = lane[l].holder
                          /\ t.lane[l].count = lane[l].count
                          /\ l # r => t.lane[l].queued = lane[l].queued
      /\ r \in Lanes => ~t.lane[r].queued
    BY PoppingIsCalm
<1>2. /\ Core.job = job /\ Core.lane = lane /\ Core.cands = cands /\ Core.blocked = blocked
      /\ Core.hold = hold
    BY DEF Core
<1>3. Top \in cands /\ KeyOk(Core, Top) /\ Top.ref = r
    BY TopIsACandidate
<1> HIDE DEF t, r
<1>4. Safe(t)
    BY <1>1, CalmChangesAreSafe
<1>5. \A ref : /\ Asks(t, ref) <=> Asks(Core, ref)
               /\ Delayed(t, ref) <=> Delayed(Core, ref)
               /\ Loose(t, ref) <=> Loose(Core, ref)
               /\ IsBlocked(t, ref) <=> IsBlocked(Core, ref)
               /\ Parked(t, ref) <=> Parked(Core, ref)
    BY <1>1, <1>2 DEF Asks, Waiting, RefOf, Delayed, Loose, IsBlocked, Parked
<1>6. InHeap(Core, r)
    BY <1>2, <1>3 DEF InHeap
<1>7. JobsFit(Core, t, Y)
    <2>1. ASSUME NEW j \in JobIds, Loose(t, j), j \in Y PROVE Free(t, j)
        <3>1. Single(Core, j) /\ InHeap(Core, j)
            BY <2>1, <1>5, <1>6 DEF Orderly, Tidy
        <3> QED BY <3>1, <1>5 DEF Single, Free
    <2> QED BY <2>1, <1>1, <1>2 DEF JobsFit, Waiting, Delayed
<1>8. HeapFits(Core, t, Y)
    <2>1. \A l \in Lanes : l # r /\ InHeap(Core, l) => InHeap(t, l)
        BY <1>1, <1>2, <1>3 DEF InHeap
    <2> QED BY <2>1, <1>1, <1>2, <1>3 DEF HeapFits
<1>9. NodesFit(Core, t, Y)
    BY <1>1, <1>2, <1>5 DEF NodesFit, IsBlocked, Orderly, NodesAsk
<1>10. QueuesFit(Core, t, Y) /\ LanesFit(Core, t, Y)
    <2>1. \A w \in Windows : t.hold[w].queue = Core.hold[w].queue
        BY <1>1, <1>2
    <2>2. \A l \in Lanes : t.lane[l].count = Core.lane[l].count
        BY <1>1, <1>2
    <2> QED BY <2>1, <2>2, QueuesThatStayFit DEF LanesFit, HasCapacity
<1>11. Orderly(t, {} \cup Y, FALSE)
    BY <1>4, <1>7, <1>8, <1>9, <1>10, LooseningKeepsOrder DEF Loosened
<1>12. r \notin Lanes => ~InHeap(t, r)
    <2> SUFFICES ASSUME r \notin Lanes, NEW k \in cands, k # Top, k.ref = r PROVE FALSE
        BY <1>1 DEF InHeap
    <2>1. KeyOk(Core, k)
        BY <1>2 DEF Safe, KeysOk
    <2>2. k = Key(Core, r, r) /\ Top = Key(Core, r, r)
        BY <2>1, <1>3 DEF KeyOk
    <2> QED BY <2>2
<1>13. {} \cup Y = {r}
    OBVIOUS
<1> QED BY <1>4, <1>11, <1>12, <1>13 DEF InHand, t, r

LEMMA AlikeKeepsInHand ==
    ASSUME NEW s, NEW t, NEW ref, Safe(s), Safe(t), InHand(s, ref), Alike(s, t)
    PROVE  InHand(t, ref)
<1>1. Orderly(t, {ref}, FALSE)
    BY AlikeKeepsOrder DEF InHand
<1> QED BY <1>1 DEF InHand, Alike, InHeap

LEMMA SelectedIsInHand ==
    ASSUME Safe(Core), cands # {}, Grantable(Popped) # {}, Orderly(Core, {}, FALSE)
    PROVE  Safe(Selected) /\ InHand(Selected, Top.ref)
<1>1. Safe(Popped) /\ InHand(Popped, Top.ref)
    BY PoppedIsInHand
<1>2. /\ Popped.job = job /\ Popped.hold = hold /\ Popped.cands = cands \ {Top}
      /\ Popped.blocked = blocked
      /\ \A l \in Lanes : /\ Popped.lane[l].count = lane[l].count
                          /\ l # Top.ref => Popped.lane[l].queued = lane[l].queued
      /\ Top.ref \in Lanes => ~Popped.lane[Top.ref].queued
    BY PoppingIsCalm
<1>3. /\ Safe(Selected)
      /\ Selected.job = job /\ Selected.hold = hold /\ Selected.cands = cands \ {Top}
      /\ Selected.blocked = blocked
      /\ \A l \in Lanes : /\ Selected.lane[l].count = lane[l].count
                          /\ l # Top.ref => Selected.lane[l].queued = lane[l].queued
      /\ Top.ref \in Lanes => ~Selected.lane[Top.ref].queued
    BY SelectingIsCalm
<1>4. Alike(Popped, Selected)
    <2>1. \A l \in Lanes : Selected.lane[l].queued => Popped.lane[l].queued
        BY <1>2, <1>3
    <2>2. \A l \in Lanes : HasCapacity(Selected, l) => HasCapacity(Popped, l)
        BY <1>2, <1>3 DEF HasCapacity
    <2> QED BY <2>1, <2>2, <1>2, <1>3 DEF Alike, Waiting, Delayed, IsBlocked
<1> QED BY <1>1, <1>3, <1>4, AlikeKeepsInHand

\* A lane whose key was stale is keyed afresh, waits for a permit, or is gone.
LEMMA RekeyingKeepsOrder ==
    ASSUME Safe(Core), cands # {}, Grantable(Popped) = {}, Orderly(Core, {}, FALSE)
    PROVE  Orderly(Rekeyed(Popped, Top.ref), {}, FALSE)
<1> DEFINE s == Popped
           l == Top.ref
           e == [s EXCEPT !.lane[l].pending = {}]
<1>1. Safe(s) /\ Orderly(s, {l}, FALSE)
    BY PoppedIsInHand DEF InHand
<1>2. l \in Lanes
    BY DEF Grantable
<1> HIDE DEF l, s
<1>3. s \in States /\ {} \cup {l} = {l} /\ {l} \in SUBSET Refs
    BY <1>1, <1>2 DEF Safe, Refs
<1>4. CASE ~HasCapacity(s, l)
    <2>1. Rekeyed(s, l) = s
        BY <1>4 DEF Rekeyed
    <2>2. \A ref \in Refs \cap {l} :
              Asks(s, ref) /\ (ref \in Lanes => NotBefores = {}) => Kept(s, ref)
        BY <1>2, <1>4 DEF Kept
    <2>3. Orderly(s, {} \cup {l}, FALSE)
        BY <1>1, <1>3
    <2>4. Orderly(s, {}, FALSE)
        <3> HIDE <1>1
        <3> QED BY <2>2, <2>3, LeavingKeepsOrder
    <2> QED BY <2>1, <2>4 DEF s, l
<1>5. CASE HasCapacity(s, l) /\ Live(s, l) = {}
    <2>1. Rekeyed(s, l) = RemoveIdle(e, l)
        BY <1>5 DEF Rekeyed
    <2>2. s.lane[l] \in LaneRecords /\ s.lane \in [Lanes -> LaneRecords]
        BY <1>2, <1>3, FieldsOfStates
    <2> DEFINE r == [s.lane[l] EXCEPT !.pending = {}]
    <2>3. /\ r \in LaneRecords /\ r.pending = {} /\ r.holder = s.lane[l].holder
          /\ r.count = s.lane[l].count /\ r.queued = s.lane[l].queued
        BY <2>2 DEF LaneRecords
    <2>4. e = [s EXCEPT !.lane[l] = r]
        BY <1>2, <1>3, <2>2 DEF States
    <2> HIDE DEF r, e
    <2>5. e \in States /\ e.lane[l] = r /\ \A m \in Lanes \ {l} : e.lane[m] = s.lane[m]
        BY <1>2, <1>3, <2>3, <2>4, StateWithLane
    <2>6. /\ e.job = s.job /\ e.cands = s.cands /\ e.blocked = s.blocked /\ e.hold = s.hold
          /\ e.ledger = s.ledger
        BY <1>3, <2>4 DEF States
    <2>7. SameLanes(s, e)
        <3> SUFFICES ASSUME NEW m \in Lanes
                     PROVE  /\ m \notin Bounded => /\ e.lane[m].holder = s.lane[m].holder
                                                   /\ e.lane[m].count = s.lane[m].count
                            /\ e.lane[m].count \in {s.lane[m].count, 0}
                            /\ Live(s, m) \subseteq e.lane[m].pending
                            /\ e.lane[m].pending \subseteq s.lane[m].pending
            BY DEF SameLanes
        <3>1. CASE m = l
            BY <3>1, <2>3, <2>5, <1>5
        <3>2. CASE m # l
            BY <3>2, <2>5 DEF Live
        <3> QED BY <3>1, <3>2
    <2>8. Safe(e)
        BY <1>1, <2>5, <2>6, <2>7, LaneChangesAreCalm, CalmChangesAreSafe
    <2>9. Alike(s, e)
        <3>1. \A m \in Lanes : /\ e.lane[m].queued = s.lane[m].queued
                               /\ e.lane[m].count = s.lane[m].count
            BY <2>3, <2>5
        <3> QED BY <3>1, <2>6 DEF Alike, Waiting, Delayed, IsBlocked, HasCapacity
    <2>10. Orderly(e, {l}, FALSE)
        BY <1>1, <2>8, <2>9, AlikeKeepsOrder
    <2> DEFINE t == RemoveIdle(e, l)
    <2>11. Safe(t) /\ Orderly(t, {l}, FALSE)
        BY <1>2, <2>8, <2>10, RemovingIdleKeepsOrder
    <2>12. t.job = e.job /\ t.lane[l] \in {e.lane[l], NewLane}
        BY <1>2, <2>8, RemovingIdleIsCalm
    <2> HIDE DEF t
    <2>13. ~Asks(t, l)
        <3>1. t.lane[l].pending = {}
            BY <2>12, <2>3, <2>5 DEF NewLane
        <3>2. Live(t, l) = {}
            BY <3>1 DEF Live
        <3> QED BY <3>2, <2>11, <1>2, AskingLanes
    <2>14. \A ref \in Refs \cap {l} :
               Asks(t, ref) /\ (ref \in Lanes => NotBefores = {}) => Kept(t, ref)
        BY <2>13
    <2>15. Orderly(t, {} \cup {l}, FALSE)
        BY <2>11, <1>3
    <2>16. Orderly(t, {}, FALSE)
        <3> HIDE <2>11, <2>13, <2>12
        <3> QED BY <2>14, <2>15, LeavingKeepsOrder
    <2> QED BY <2>1, <2>16 DEF t, s, l
<1>6. CASE HasCapacity(s, l) /\ Live(s, l) # {}
    <2> DEFINE d == Drain(s, l)
    <2>1. Rekeyed(s, l) = PushLane(d, l)
        BY <1>6 DEF Rekeyed
    <2>2. /\ Calm(s, d) /\ d.job = s.job /\ d.hold = s.hold /\ d.ledger = s.ledger
          /\ d.cands = s.cands /\ d.blocked = s.blocked
          /\ \A m \in Lanes : /\ d.lane[m].holder = s.lane[m].holder
                              /\ d.lane[m].count = s.lane[m].count
                              /\ d.lane[m].queued = s.lane[m].queued
                              /\ Live(s, m) \subseteq d.lane[m].pending
                              /\ d.lane[m].pending \subseteq s.lane[m].pending
          /\ First(d, d.lane[l].pending) = HeadOf(s, l)
        BY <1>1, <1>2, <1>6, DrainingIsCalm
    <2> HIDE DEF d
    <2>3. Safe(d)
        BY <1>1, <2>2, CalmChangesAreSafe
    <2>4. Alike(s, d)
        BY <2>2 DEF Alike, Waiting, Delayed, IsBlocked, HasCapacity
    <2>5. Orderly(d, {} \cup {l}, FALSE)
        BY <1>1, <1>3, <2>3, <2>4, AlikeKeepsOrder
    <2>6. Mild(d, PushLane(d, l)) /\ Pushed(d, PushLane(d, l), {l})
        BY <1>2, <2>3, PushingALaneIsMild
    <2>7. \A j \in JobIds : j # l
        BY <1>2, NoJobIsALane
    <2>8. Orderly(PushLane(d, l), {}, FALSE)
        BY <1>3, <2>3, <2>5, <2>6, <2>7, PushingKeepsOrder DEF Mild
    <2> QED BY <2>1, <2>8 DEF s, l
<1> QED BY <1>4, <1>5, <1>6

-----------------------------------------------------------------------------
(* The reference in hand is parked, put to sleep or released.              *)

LEMMA AppendingKeepsOrder ==
    ASSUME NEW s, NEW t, NEW r \in Refs, NEW w \in Windows, Safe(s), InHand(s, r),
           t.job = s.job, t.lane = s.lane, t.cands = s.cands, t.blocked = s.blocked,
           t.hold[w].queue = Append(s.hold[w].queue, r),
           \A v \in Windows \ {w} : t.hold[v].queue = s.hold[v].queue
    PROVE  Orderly(t, {}, FALSE)
<1> DEFINE q == s.hold[w].queue
           n == Len(q) + 1
<1>1. q \in Seq(Refs)
    BY ParkedReferences
<1>2. Len(q) \in Nat /\ DOMAIN q = 1 .. Len(q)
    BY <1>1, LenProperties
<1>3. /\ Append(q, r) \in Seq(Refs) /\ Len(Append(q, r)) = n
      /\ \A i \in 1 .. Len(q) : Append(q, r)[i] = q[i]
      /\ Append(q, r)[n] = r
    BY <1>1, AppendProperties
<1>4. DOMAIN Append(q, r) = 1 .. n
    BY <1>3, LenProperties
<1>5. ASSUME NEW v \in Windows, NEW i \in DOMAIN s.hold[v].queue
      PROVE  i \in DOMAIN t.hold[v].queue /\ t.hold[v].queue[i] = s.hold[v].queue[i]
    <2>1. CASE v = w
        <3>1. i \in 1 .. Len(q)
            BY <2>1, <1>2
        <3>2. i \in 1 .. n
            BY <3>1, <1>2
        <3> QED BY <2>1, <3>1, <3>2, <1>3, <1>4
    <2>2. CASE v # w
        BY <2>2
    <2> QED BY <2>1, <2>2
<1>6. n \in DOMAIN t.hold[w].queue /\ t.hold[w].queue[n] = r
    BY <1>2, <1>3, <1>4
<1>7. ASSUME NEW v \in Windows, NEW i \in DOMAIN t.hold[v].queue
      PROVE  \/ v = w /\ i = n
             \/ i \in DOMAIN s.hold[v].queue /\ t.hold[v].queue[i] = s.hold[v].queue[i]
    <2>1. CASE v = w
        <3>1. i \in 1 .. n
            BY <2>1, <1>4
        <3>2. i = n \/ i \in 1 .. Len(q)
            BY <3>1, <1>2
        <3> QED BY <2>1, <3>2, <1>2, <1>5
    <2>2. CASE v # w
        BY <2>2
    <2> QED BY <2>1, <2>2
<1> HIDE DEF n, q
<1>8. \A ref : /\ Parked(s, ref) => Parked(t, ref)
               /\ Parked(t, ref) => ref = r \/ Parked(s, ref)
    BY <1>5, <1>6, <1>7 DEF Parked
<1>9. Parked(t, r)
    BY <1>6 DEF Parked
<1>10. ASSUME NEW ref, IF ref = r THEN ~Parked(s, ref) ELSE Once(s, ref)
       PROVE  Once(t, ref)
    <2> SUFFICES ASSUME NEW v \in Windows, NEW x \in Windows,
                        NEW i \in DOMAIN t.hold[v].queue, NEW m \in DOMAIN t.hold[x].queue,
                        t.hold[v].queue[i] = ref, t.hold[x].queue[m] = ref
                 PROVE  v = x /\ i = m
        BY DEF Once
    <2>1. CASE ref = r
        <3>1. v = w /\ i = n
            BY <2>1, <1>7, <1>10 DEF Parked
        <3>2. x = w /\ m = n
            BY <2>1, <1>7, <1>10 DEF Parked
        <3> QED BY <3>1, <3>2
    <2>2. CASE ref # r
        <3>1. i \in DOMAIN s.hold[v].queue /\ s.hold[v].queue[i] = ref
            BY <2>2, <1>6, <1>7
        <3>2. m \in DOMAIN s.hold[x].queue /\ s.hold[x].queue[m] = ref
            BY <2>2, <1>6, <1>7
        <3> QED BY <2>2, <3>1, <3>2, <1>10 DEF Once
    <2> QED BY <2>1, <2>2
<1>11. \A ref : /\ Asks(t, ref) <=> Asks(s, ref)
                /\ Loose(t, ref) <=> Loose(s, ref)
                /\ Delayed(t, ref) <=> Delayed(s, ref)
                /\ InHeap(t, ref) <=> InHeap(s, ref)
                /\ IsBlocked(t, ref) <=> IsBlocked(s, ref)
    BY DEF Asks, Waiting, RefOf, Loose, Delayed, InHeap, IsBlocked
<1>12. Tidy(t, {})
    <2> SUFFICES ASSUME NEW j \in JobIds, Loose(t, j) PROVE Single(t, j)
        BY DEF Tidy
    <2>1. CASE j = r
        <3>1. Free(s, j) /\ ~InHeap(s, j)
            BY <2>1, <1>11, NoJobIsALane DEF InHand, Orderly, Tidy
        <3>2. Once(t, j)
            BY <2>1, <3>1, <1>10 DEF Free
        <3> QED BY <3>1, <3>2, <1>11 DEF Free, Single
    <2>2. CASE j # r
        <3>1. Single(s, j)
            BY <2>2, <1>11 DEF InHand, Orderly, Tidy
        <3>2. Once(t, j)
            BY <2>2, <3>1, <1>10 DEF Single
        <3> QED BY <2>2, <3>1, <3>2, <1>8, <1>11 DEF Single
    <2> QED BY <2>1, <2>2
<1>13. NodesAsk(t) /\ QueuedOk(t) /\ Undelayed(t)
    BY <1>11 DEF InHand, Orderly, NodesAsk, QueuedOk, Undelayed, Waiting
<1>14. AllKept(t, {})
    <2> SUFFICES ASSUME NEW ref \in Refs, Asks(t, ref), ref \in Lanes => NotBefores = {}
                 PROVE  Kept(t, ref)
        BY DEF AllKept
    <2>1. CASE ref = r
        BY <2>1, <1>9 DEF Kept
    <2>2. CASE ref # r
        <3>1. Kept(s, ref)
            BY <2>2, <1>11 DEF InHand, Orderly, AllKept
        <3> QED BY <3>1, <1>8, <1>11 DEF Kept, HasCapacity
    <2> QED BY <2>1, <2>2
<1> QED BY <1>12, <1>13, <1>14 DEF Orderly

LEMMA ParkingKeepsOrder ==
    ASSUME Safe(Core), cands # {}, Grantable(Popped) # {}, Reserving(Selected) # {},
           Orderly(Core, {}, FALSE)
    PROVE  LET t == [Selected EXCEPT !.hold[FirstOf(Reserving(Selected))].queue =
                        Append(@, Top.ref)] IN
           /\ Orderly(t, {}, FALSE)
           /\ t.job = job /\ t.cands = cands \ {Top} /\ t.blocked = blocked
           /\ t.ledger = ledger
<1> DEFINE s == Selected
           w == FirstOf(Reserving(s))
           x == [s.hold[w] EXCEPT !.queue = Append(@, Top.ref)]
           t == [s EXCEPT !.hold[w].queue = Append(@, Top.ref)]
<1>1. Safe(s) /\ InHand(s, Top.ref) /\ Meta \in Metas
    BY SelectedIsInHand, CandidateIsFirst
<1>2. s.job = job /\ s.cands = cands \ {Top} /\ s.blocked = blocked /\ s.ledger = ledger
    BY SelectingIsCalm
<1>3. w \in Windows
    <2>1. Reserving(s) \in SUBSET Range(WindowsOf(Meta))
        BY DEF Reserving
    <2> QED BY <1>1, <2>1, FirstOfIsOne
<1>4. Top.ref \in Refs
    BY TopIsACandidate
<1> HIDE DEF s, w
<1>5. s \in States /\ s.hold \in [Windows -> HoldRecords] /\ s.hold[w] \in HoldRecords
    BY <1>1, <1>3, FieldsOfStates DEF Safe
<1>6. t = [s EXCEPT !.hold = [s.hold EXCEPT ![w] = x]]
    BY <1>3, <1>5 DEF States
<1>7. x.queue = Append(s.hold[w].queue, Top.ref)
    BY <1>5 DEF HoldRecords
<1> HIDE DEF x, t
<1>8. /\ t.job = s.job /\ t.lane = s.lane /\ t.cands = s.cands /\ t.blocked = s.blocked
      /\ t.ledger = s.ledger /\ t.hold = [s.hold EXCEPT ![w] = x]
    BY <1>5, <1>6 DEF States
<1>9. /\ t.hold[w].queue = Append(s.hold[w].queue, Top.ref)
      /\ \A v \in Windows \ {w} : t.hold[v].queue = s.hold[v].queue
    BY <1>3, <1>5, <1>7, <1>8
<1>10. Orderly(t, {}, FALSE)
    BY <1>1, <1>3, <1>4, <1>8, <1>9, AppendingKeepsOrder
<1> QED BY <1>2, <1>8, <1>10 DEF t, s, w

\* States between which references are pushed only: jobs wait as they did, and
\* the new keys are not those of blocked lanes.
Standing(s, t) ==
    \A j \in JobIds : /\ Waiting(t, j) <=> Waiting(s, j)
                      /\ Waiting(s, j) => /\ t.job[j].meta = s.job[j].meta
                                          /\ t.job[j].seq = s.job[j].seq
                                          /\ t.job[j].age = s.job[j].age

OffersTheUnblocked(s, t) ==
    \A k \in t.cands \ s.cands : k.ref \in Lanes => ~IsBlocked(s, k.ref)

LEMMA ReleasingPreviousKeepsHand ==
    ASSUME NEW s, Safe(s), Candidate \in JobIds, Waiting(s, Candidate),
           InHand(s, Top.ref), RefOk(s, Top.ref), NEW next
    PROVE  LET t == ReleasePreviousReservation(s, next) IN
           /\ Safe(t) /\ InHand(t, Top.ref) /\ Standing(s, t)
           /\ t.blocked = s.blocked /\ OffersTheUnblocked(s, t)
<1> DEFINE j == Candidate
           ref == Top.ref
           w == s.job[j].owns
           c == [s EXCEPT !.hold[w] = NoHold]
           r == ReleaseReservation(s, w, ref)
           t == [r EXCEPT !.job[j].owns = NoWindow]
<1>1. w \in Windows \cup {NoWindow} /\ Known(s, j)
    BY WaitingJobs
<1> HIDE DEF j, w, ref
<1>2. Mild(s, r) /\ r.job = s.job
    BY <1>1, ReleasesAreMild
<1>3. CASE w = next \/ w = NoWindow
    <2>1. ReleasePreviousReservation(s, next) = s
        BY <1>3 DEF ReleasePreviousReservation, j, w, ref
    <2> QED BY <2>1 DEF Standing, OffersTheUnblocked
<1>4. CASE ~(w = next \/ w = NoWindow)
    <2>1. ReleasePreviousReservation(s, next) = t
        BY <1>4 DEF ReleasePreviousReservation, j, w, ref
    <2>2. w \in Windows
        BY <1>1, <1>4
    <2>3. \/ r = s
          \/ /\ w \in Windows /\ s.hold[w].on /\ s.hold[w].owner = ref
             /\ Safe(c) /\ Pushed(c, r, Range(s.hold[w].queue))
        BY <1>1, ReleasesPush
    <2>4. /\ c.job = s.job /\ c.cands = s.cands /\ c.blocked = s.blocked
        BY <2>2 DEF Safe, States
    <2> HIDE DEF c, r
    <2>5. r.blocked = s.blocked
        BY <2>3, <2>4 DEF Pushed
    <2>6. \A k \in r.cands \ s.cands : k.ref \in Range(s.hold[w].queue) /\ PushedKey(c, k)
        BY <2>3, <2>4 DEF Pushed
    <2>7. OffersTheUnblocked(s, r)
        BY <2>4, <2>6 DEF OffersTheUnblocked, PushedKey, Ready, IsBlocked
    <2>8. ref \notin Lanes => ~InHeap(r, ref)
        <3> SUFFICES ASSUME ref \notin Lanes, NEW k \in r.cands, k.ref = ref PROVE FALSE
            BY DEF InHeap
        <3>1. k \notin s.cands
            BY DEF InHand, InHeap, ref
        <3>2. ref \in Range(s.hold[w].queue) /\ Waiting(s, ref)
            BY <3>1, <2>4, <2>6 DEF PushedKey, Waiting
        <3>3. Parked(s, ref)
            BY <3>2, <2>2 DEF Range, Parked
        <3>4. ref \in JobIds /\ Loose(s, ref)
            BY <3>2 DEF RefOk, Loose, ref
        <3> QED BY <3>3, <3>4 DEF InHand, Orderly, Tidy, Free, ref
    <2>9. Safe(r) /\ InHand(r, ref)
        <3>1. Orderly(s, {ref}, FALSE)
            BY DEF InHand, ref
        <3>2. Orderly(r, {ref}, FALSE)
            BY <1>1, <3>1, ReleasingKeepsOrder DEF r
        <3> QED BY <3>2, <2>8, <1>2 DEF InHand, Mild
    <2>10. j \in JobIds /\ Known(r, j) /\ NoWindow \in Windows \cup {NoWindow}
        BY <1>1, <1>2 DEF Known, j
    <2>11. /\ Calm(r, t) /\ t.job = [r.job EXCEPT ![j] = [r.job[j] EXCEPT !.owns = NoWindow]]
           /\ t.hold = r.hold /\ t.blocked = r.blocked /\ t.cands = r.cands
           /\ t.lane = r.lane
        BY <2>9, <2>10, OwningIsCalm
    <2> HIDE DEF t
    <2>12. Safe(t)
        BY <2>9, <2>11, CalmChangesAreSafe
    <2>13. r.job \in [JobIds -> JobRecords]
        BY <2>9, FieldsOfStates DEF Safe
    <2>14. \A i \in JobIds : /\ t.job[i].st = r.job[i].st
                             /\ Known(r, i) => /\ t.job[i].meta = r.job[i].meta
                                               /\ t.job[i].seq = r.job[i].seq
                                               /\ t.job[i].age = r.job[i].age
        BY <2>11 DEF Calm, Quiet, SameJobs
    <2>15. \A i \in JobIds : Known(r, i) => t.job[i].delay = r.job[i].delay
        <3> SUFFICES ASSUME NEW i \in JobIds, Known(r, i) PROVE t.job[i].delay = r.job[i].delay
            OBVIOUS
        <3>1. CASE i # j
            BY <3>1, <2>11, <2>13
        <3>2. CASE i = j
            <4>1. t.job[j] = [r.job[j] EXCEPT !.owns = NoWindow]
                BY <2>10, <2>11, <2>13
            <4>2. r.job[j] \in [st : {"waiting", "granted", "started", "done", "cancelled"},
                    meta : Metas, seq : JobIds, age : 0 .. Highest * Quantum,
                    delay : {NotDelayed} \cup Nat, owns : Windows \cup {NoWindow},
                    ago : 0 .. MaxLen, spent : BOOLEAN]
                BY <2>9, <2>10, FieldsOfJobs DEF Safe
            <4> QED BY <3>2, <4>1, <4>2
        <3> QED BY <3>1, <3>2
    <2>16. Alike(r, t)
        <3>1. \A i \in JobIds : Waiting(r, i) => Known(r, i)
            BY DEF Waiting, Known
        <3> QED BY <3>1, <2>11, <2>14, <2>15
                DEF Alike, Waiting, Delayed, IsBlocked, HasCapacity
    <2>17. InHand(t, ref)
        BY <2>9, <2>12, <2>16, AlikeKeepsInHand
    <2>18. Standing(s, t)
        BY <1>2, <2>14 DEF Standing, Waiting, Known
    <2>19. t.blocked = s.blocked /\ OffersTheUnblocked(s, t)
        BY <2>5, <2>7, <2>11 DEF OffersTheUnblocked
    <2> QED BY <2>1, <2>12, <2>17, <2>18, <2>19 DEF ref
<1> QED BY <1>3, <1>4

LEMMA ReservingKeepsHand ==
    ASSUME NEW s, Safe(s), Candidate \in JobIds, Waiting(s, Candidate),
           NEW w \in Windows \cup {NoWindow}, NEW until \in Nat,
           Top.ref \in Refs, RefOk(s, Top.ref), InHand(s, Top.ref)
    PROVE  LET t == Reserved(s, w, until) IN
           /\ Safe(t) /\ InHand(t, Top.ref) /\ Standing(s, t)
           /\ t.blocked = s.blocked /\ t.cands = s.cands
<1>1. CASE w = NoWindow \/ (s.hold[w].on /\ until <= s.hold[w].in)
    <2>1. Reserved(s, w, until) = s
        BY <1>1 DEF Reserved
    <2> QED BY <2>1 DEF Standing
<1>2. CASE ~(w = NoWindow \/ (s.hold[w].on /\ until <= s.hold[w].in))
    <2> DEFINE c == Candidate
               x == [s.hold[w] EXCEPT !.on = TRUE, !.in = until, !.owner = Top.ref]
               h == [s.hold EXCEPT ![w] = x]
               r == [s.job[c] EXCEPT !.owns = w]
               t == [s EXCEPT !.hold = h, !.job = [s.job EXCEPT ![c] = r]]
    <2>1. /\ s \in States /\ s.hold \in [Windows -> HoldRecords] /\ w \in Windows
          /\ s.hold[w] \in HoldRecords /\ Known(s, c) /\ s.job \in [JobIds -> JobRecords]
        BY <1>2, FieldsOfStates DEF Safe, Known, Waiting
    <2>2. c \in JobIds
        OBVIOUS
    <2>3. Reserved(s, w, until) = [s EXCEPT !.hold[w] = x, !.job[c].owns = w]
        BY <1>2 DEF Reserved
    <2>4. s.job[c] \in [st : {"waiting", "granted", "started", "done", "cancelled"},
                        meta : Metas, seq : JobIds, age : 0 .. Highest * Quantum,
                        delay : {NotDelayed} \cup Nat, owns : Windows \cup {NoWindow},
                        ago : 0 .. MaxLen, spent : BOOLEAN]
        BY <2>1, <2>2, FieldsOfJobs
    <2>5. Safe(Reserved(s, w, until))
        BY ReservingIsMild DEF Mild
    <2> HIDE DEF c, x
    <2>6. Reserved(s, w, until) = t
        BY <2>1, <2>3 DEF States
    <2>7. x.queue = s.hold[w].queue
        BY <2>1 DEF HoldRecords, x
    <2>8. /\ r.st = s.job[c].st /\ r.meta = s.job[c].meta /\ r.seq = s.job[c].seq
          /\ r.age = s.job[c].age /\ r.delay = s.job[c].delay
        BY <2>4
    <2> HIDE DEF r
    <2>9. /\ h[w] = x /\ \A v \in Windows \ {w} : h[v] = s.hold[v]
        BY <2>1
    <2> HIDE DEF h
    <2>10. /\ t.hold = h /\ t.job = [s.job EXCEPT ![c] = r] /\ t.cands = s.cands
           /\ t.blocked = s.blocked /\ t.lane = s.lane
        BY <2>1 DEF States
    <2> HIDE DEF t
    <2>11. \A i \in JobIds : /\ t.job[i].st = s.job[i].st /\ t.job[i].meta = s.job[i].meta
                             /\ t.job[i].seq = s.job[i].seq /\ t.job[i].age = s.job[i].age
                             /\ t.job[i].delay = s.job[i].delay
        <3> SUFFICES ASSUME NEW i \in JobIds
                     PROVE  /\ t.job[i].st = s.job[i].st /\ t.job[i].meta = s.job[i].meta
                            /\ t.job[i].seq = s.job[i].seq /\ t.job[i].age = s.job[i].age
                            /\ t.job[i].delay = s.job[i].delay
            OBVIOUS
        <3>1. t.job[i] = IF i = c THEN r ELSE s.job[i]
            BY <2>1, <2>2, <2>10
        <3> QED BY <3>1, <2>8
    <2>12. Standing(s, t)
        BY <2>11 DEF Standing, Waiting
    <2>13. Alike(s, t)
        <3>1. \A v \in Windows : t.hold[v].queue = s.hold[v].queue
            BY <2>7, <2>9, <2>10
        <3> QED BY <3>1, <2>10, <2>11 DEF Alike, Waiting, Delayed, IsBlocked, HasCapacity
    <2>14. Safe(t) /\ InHand(t, Top.ref)
        BY <2>5, <2>6, <2>13, AlikeKeepsInHand
    <2> QED BY <2>6, <2>10, <2>12, <2>14
<1> QED BY <1>1, <1>2

\* The reference in hand is blocked from state s to state t.
Asleep(s, t, r) ==
    /\ Safe(t) /\ Orderly(t, {}, FALSE) /\ t.job = s.job /\ t.cands = s.cands
    /\ \A ref : IsBlocked(t, ref) <=> ref = r \/ IsBlocked(s, ref)

LEMMA BlockingKeepsOrder ==
    ASSUME NEW s, NEW r \in Refs, NEW in \in Nat, NEW permanent \in BOOLEAN,
           Safe(s), InHand(s, r), RefOk(s, r), Asks(s, r)
    PROVE  Asleep(s, Block(s, r, in, permanent), r)
<1> DEFINE n == [ref |-> r, in |-> in, permanent |-> permanent]
           nodes == {o \in s.blocked : o.ref # r} \cup {n}
           t == Block(s, r, in, permanent)
<1>1. Calm(s, t) /\ t = [s EXCEPT !.blocked = nodes]
    BY BlockIsCalm
<1>2. n.ref = r
    OBVIOUS
<1> HIDE DEF n, t
<1>3. Safe(t)
    BY <1>1, CalmChangesAreSafe
<1>4. /\ t.job = s.job /\ t.lane = s.lane /\ t.cands = s.cands /\ t.hold = s.hold
      /\ t.blocked = nodes
    BY <1>1 DEF Safe, States
<1>5. \A ref : IsBlocked(t, ref) <=> ref = r \/ IsBlocked(s, ref)
    BY <1>2, <1>4 DEF IsBlocked
<1> HIDE DEF nodes
<1>6. \A ref : /\ Asks(t, ref) <=> Asks(s, ref)
               /\ Loose(t, ref) <=> Loose(s, ref)
               /\ Delayed(t, ref) <=> Delayed(s, ref)
               /\ InHeap(t, ref) <=> InHeap(s, ref)
               /\ Parked(t, ref) <=> Parked(s, ref)
               /\ Once(t, ref) <=> Once(s, ref)
    BY <1>4 DEF Asks, Waiting, RefOf, Loose, Delayed, InHeap, Parked, Once
<1>7. Tidy(t, {})
    <2> SUFFICES ASSUME NEW j \in JobIds, Loose(t, j) PROVE Single(t, j)
        BY DEF Tidy
    <2>1. CASE j = r
        <3>1. Free(s, j) /\ ~InHeap(s, j)
            BY <2>1, <1>6, NoJobIsALane DEF InHand, Orderly, Tidy
        <3>2. Once(s, j)
            BY <3>1 DEF Free, Parked, Once
        <3> QED BY <3>1, <3>2, <1>6 DEF Free, Single
    <2>2. CASE j # r
        <3>1. Single(s, j)
            BY <2>2, <1>6 DEF InHand, Orderly, Tidy
        <3> QED BY <2>2, <3>1, <1>5, <1>6 DEF Single
    <2> QED BY <2>1, <2>2
<1>8. NodesAsk(t)
    <2> SUFFICES ASSUME NEW o \in t.blocked PROVE Asks(t, o.ref)
        BY DEF NodesAsk
    <2>1. o = n \/ o \in s.blocked
        BY <1>4 DEF nodes
    <2> QED BY <2>1, <1>2, <1>6 DEF InHand, Orderly, NodesAsk
<1>9. QueuedOk(t) /\ Undelayed(t)
    BY <1>4, <1>6 DEF InHand, Orderly, QueuedOk, Undelayed, Waiting
<1>10. AllKept(t, {})
    <2> SUFFICES ASSUME NEW ref \in Refs, Asks(t, ref), ref \in Lanes => NotBefores = {}
                 PROVE  Kept(t, ref)
        BY DEF AllKept
    <2>1. CASE ref = r
        BY <2>1, <1>5 DEF Kept
    <2>2. CASE ref # r
        <3>1. Kept(s, ref)
            BY <2>2, <1>6 DEF InHand, Orderly, AllKept
        <3> QED BY <3>1, <1>4, <1>5, <1>6 DEF Kept, HasCapacity
    <2> QED BY <2>1, <2>2
<1>11. Orderly(t, {}, FALSE)
    BY <1>7, <1>8, <1>9, <1>10 DEF Orderly
<1> QED BY <1>3, <1>4, <1>5, <1>11 DEF Asleep, t

-----------------------------------------------------------------------------
(* A blocked lane may come to have a key during a pass: a release pushes    *)
(* the lane, and the lane is put to sleep before that key surfaces.  When   *)
(* it does, the pass puts the lane to sleep once more, as the head is still *)
(* withheld by what withheld it before.                                     *)

Withheld(s, ls, pen, j) ==
    LET m == s.job[j].meta IN
    \/ pen[NoChat] > 0 \/ pen[m.chat] > 0
    \/ \E w \in Range(WindowsOf(m)) : \E l \in ls[w] :
            m.weight > l.cap \/ Used(s, w, l.len, 0) + m.weight > l.cap

Drowsy(s, ls, pen) ==
    \A k \in s.cands :
        (/\ k.ref \in Lanes /\ IsBlocked(s, k.ref) /\ Live(s, k.ref) # {}
         /\ k = Key(s, k.ref, HeadOf(s, k.ref)))
        => Withheld(s, ls, pen, HeadOf(s, k.ref))

LEMMA WatchfulIsDrowsy ==
    ASSUME NEW s, NEW ls, NEW pen, Watchful(s)
    PROVE  Drowsy(s, ls, pen)
BY DEF Watchful, Drowsy

LEMMA LiveIs ==
    ASSUME NEW s, Safe(s), NEW l \in Lanes
    PROVE  Live(s, l) = {j \in JobIds : Waiting(s, j) /\ s.job[j].meta.lane = l}
<1>1. \A j \in Live(s, l) : j \in JobIds /\ Waiting(s, j) /\ s.job[j].meta.lane = l
    <2>1. Live(s, l) \in SUBSET JobIds
        BY LiveJobsAreKnown DEF Safe
    <2> QED BY <2>1 DEF Live, Safe, PendingOk
<1>2. \A j \in JobIds : Waiting(s, j) /\ s.job[j].meta.lane = l => j \in Live(s, l)
    BY References DEF Live, Safe, PendingOk
<1> QED BY <1>1, <1>2

\* The jobs that wait in t waited in s, and those of lane l all still do.
Fading(s, t) ==
    \A j \in JobIds : Waiting(t, j) =>
        /\ Waiting(s, j) /\ t.job[j].meta = s.job[j].meta
        /\ t.job[j].seq = s.job[j].seq /\ t.job[j].age = s.job[j].age
AllWaitOn(s, t, l) ==
    \A j \in JobIds : Waiting(s, j) /\ s.job[j].meta.lane = l => Waiting(t, j)

LEMMA HeadsStay ==
    ASSUME NEW s, NEW t, NEW l \in Lanes, Safe(s), Safe(t), Fading(s, t), AllWaitOn(s, t, l),
           Live(s, l) # {} \/ Live(t, l) # {}
    PROVE  /\ Live(t, l) = Live(s, l) /\ Live(s, l) # {}
           /\ HeadOf(t, l) = HeadOf(s, l)
           /\ HeadOf(s, l) \in JobIds /\ Waiting(s, HeadOf(s, l)) /\ Waiting(t, HeadOf(s, l))
           /\ s.job[HeadOf(s, l)].meta.lane = l
           /\ Key(t, l, HeadOf(s, l)) = Key(s, l, HeadOf(s, l))
<1> DEFINE L == Live(s, l)
           f == HeadOf(s, l)
<1>1. /\ Live(s, l) = {j \in JobIds : Waiting(s, j) /\ s.job[j].meta.lane = l}
      /\ Live(t, l) = {j \in JobIds : Waiting(t, j) /\ t.job[j].meta.lane = l}
    BY LiveIs
<1>2. Live(t, l) = L
    BY <1>1 DEF Fading, AllWaitOn
<1>3. L # {} /\ s \in States /\ t \in States
    BY <1>2 DEF Safe
<1>4. /\ L \in SUBSET JobIds /\ f \in L
      /\ \A j \in L : Known(s, j) /\ Known(t, j)
    BY <1>2, <1>3, LiveJobsAreKnown
<1>5. \A i \in L \ {f} : Before(s, f, i)
    BY <1>3, <1>4, FirstComesFirst DEF HeadOf
<1>6. \A j \in L : /\ j \in JobIds /\ Waiting(s, j) /\ Waiting(t, j)
                   /\ s.job[j].meta.lane = l
                   /\ t.job[j].seq = s.job[j].seq /\ t.job[j].age = s.job[j].age
                   /\ t.job[j].meta = s.job[j].meta
    BY <1>1, <1>2 DEF Fading
<1> HIDE DEF L, f
<1>7. \A i \in L \ {f} : Before(t, f, i)
    BY <1>4, <1>5, <1>6 DEF Before
<1>8. First(t, L) = f
    BY <1>3, <1>4, <1>7, FirstIsUnique
<1>9. HeadOf(t, l) = f
    BY <1>2, <1>8 DEF HeadOf
<1>10. Key(t, l, f) = Key(s, l, f)
    BY <1>4, <1>6 DEF Key, Effective
<1> QED BY <1>2, <1>3, <1>4, <1>6, <1>9, <1>10 DEF L, f

\* What the windows hold in t is at least what they hold in s.
Heavier(s, t) ==
    \A w \in Windows : \A len \in Nat :
        /\ Used(s, w, len, 0) \in Nat /\ Used(t, w, len, 0) \in Nat
        /\ Used(t, w, len, 0) >= Used(s, w, len, 0)

LEMMA WeighedTheSame ==
    ASSUME NEW S, IsFiniteSet(S), NEW jb, NEW jc, Weights(jc, S), SameWeights(jb, jc, S)
    PROVE  Weighed(jb, S) = Weighed(jc, S) /\ Weighed(jb, S) \in Nat
<1> DEFINE W == [j \in S |-> jb[j].meta.weight]
           V == [j \in S |-> jc[j].meta.weight]
<1>1. \A j \in S : jb[j].meta.weight \in Nat /\ jc[j].meta.weight \in Nat
    BY DEF Weights, SameWeights
<1>2. PICK g \in [SUBSET S -> Nat] : Sums(W, S, g) /\ Weighed(jb, S) = g[S]
    BY <1>1, WeighedIsASum
<1>3. PICK h \in [SUBSET S -> Nat] : Sums(V, S, h) /\ Weighed(jc, S) = h[S]
    BY <1>1, WeighedIsASum
<1>4. \A x \in S : W[x] = V[x]
    BY DEF SameWeights
<1> HIDE DEF W, V
<1>5. \A t \in SUBSET S : g[t] = h[t]
    BY <1>2, <1>3, <1>4, SumsAgree
<1> QED BY <1>2, <1>3, <1>5

LEMMA ChargesWeigh ==
    ASSUME NEW s, NEW t, s \in States, t \in States, Debited(s), NEW j \in JobIds, Known(s, j),
           \A i \in JobIds : Known(s, i) => /\ t.job[i].meta = s.job[i].meta
                                            /\ t.job[i].ago = s.job[i].ago,
           \A w \in Windows : /\ s.ledger[w] \subseteq t.ledger[w]
                              /\ t.ledger[w] \subseteq s.ledger[w] \cup {j}
    PROVE  Heavier(s, t)
<1> SUFFICES ASSUME NEW w \in Windows, NEW len \in Nat
             PROVE  /\ Used(s, w, len, 0) \in Nat /\ Used(t, w, len, 0) \in Nat
                    /\ Used(t, w, len, 0) >= Used(s, w, len, 0)
    BY DEF Heavier
<1> DEFINE S == {i \in s.ledger[w] : s.job[i].ago + 0 < len}
           T == {i \in t.ledger[w] : t.job[i].ago + 0 < len}
<1>1. s.ledger[w] \in SUBSET JobIds /\ t.ledger[w] \in SUBSET JobIds
    BY FieldsOfStates
<1>2. \A i \in t.ledger[w] : Known(s, i)
    BY DEF Debited
<1>3. \A i \in t.ledger[w] : t.job[i].ago = s.job[i].ago /\ t.job[i].meta = s.job[i].meta
    BY <1>1, <1>2
<1>4. S \subseteq T /\ T \subseteq S \cup {j} /\ T \in SUBSET JobIds
    BY <1>1, <1>3
<1>5. Used(s, w, len, 0) = Weighed(s.job, S) /\ Used(t, w, len, 0) = Weighed(t.job, T)
    BY DEF Used
<1>6. Weights(t.job, T) /\ SameWeights(s.job, t.job, T)
    <2>1. \A i \in T : i \in JobIds /\ Known(s, i) /\ i \in t.ledger[w]
        BY <1>1, <1>2
    <2> HIDE DEF T
    <2>2. \A i \in T : s.job[i].meta.weight \in Nat
        BY <2>1, AgesAreNumbers
    <2> QED BY <2>1, <2>2, <1>3 DEF Weights, SameWeights
<1> HIDE DEF S, T
<1>7. IsFiniteSet(S) /\ IsFiniteSet(T)
    <2>1. IsFiniteSet(JobIds)
        BY Sizes, FS_Interval DEF JobIds
    <2> QED BY <2>1, <1>4, FS_Subset
<1>8. Weights(t.job, S) /\ SameWeights(s.job, t.job, S)
    BY <1>4, <1>6 DEF Weights, SameWeights
<1>9. Weighed(s.job, S) = Weighed(t.job, S) /\ Weighed(s.job, S) \in Nat
    BY <1>7, <1>8, WeighedTheSame
<1>10. CASE j \in T /\ j \notin S
    <2>1. OneMore(S, T, j)
        BY <1>4, <1>7, <1>10 DEF OneMore
    <2> DEFINE jb == s.job
               jc == t.job
    <2>4. Weights(jc, T) /\ SameWeights(jb, jc, S)
        BY <1>6, <1>8
    <2> HIDE DEF jb, jc
    <2>5. Weighed(jc, T) = Weighed(jb, S) + jc[j].meta.weight
        BY Z3T(30), <2>1, <2>4, WeighedOneMore
    <2>2. Weighed(t.job, T) = Weighed(s.job, S) + t.job[j].meta.weight
        BY <2>5 DEF jb, jc
    <2>3. t.job[j].meta.weight \in Nat
        BY <1>6, <1>10 DEF Weights
    <2> QED BY <2>2, <2>3, <1>5, <1>9
<1>11. CASE ~(j \in T /\ j \notin S)
    <2>1. T = S
        BY <1>4, <1>11
    <2> QED BY <2>1, <1>5, <1>9
<1> QED BY <1>10, <1>11

LEMMA WithheldStays ==
    ASSUME NEW s, NEW t, NEW ls \in LimitSets, NEW pen, NEW j \in JobIds, s \in States,
           Known(s, j), t.job[j].meta = s.job[j].meta, Heavier(s, t), Withheld(s, ls, pen, j)
    PROVE  Withheld(t, ls, pen, j)
<1> DEFINE m == s.job[j].meta
<1>1. m \in Metas /\ m.weight \in Nat
    BY FieldsOfJobs, FieldsOfRequests
<1>2. CASE pen[NoChat] > 0 \/ pen[m.chat] > 0
    BY <1>2 DEF Withheld
<1>3. CASE \E w \in Range(WindowsOf(m)) : \E l \in ls[w] :
                m.weight > l.cap \/ Used(s, w, l.len, 0) + m.weight > l.cap
    <2>1. PICK w \in Range(WindowsOf(m)) : \E l \in ls[w] :
                m.weight > l.cap \/ Used(s, w, l.len, 0) + m.weight > l.cap
        BY <1>3
    <2>2. w \in Windows
        BY <1>1, <2>1, WindowsAreWindows
    <2>3. PICK l \in ls[w] : m.weight > l.cap \/ Used(s, w, l.len, 0) + m.weight > l.cap
        BY <2>1
    <2>4. l.cap \in Nat /\ l.len \in Nat
        BY <2>2, LimitsAreTyped
    <2>5. /\ Used(s, w, l.len, 0) \in Nat /\ Used(t, w, l.len, 0) \in Nat
          /\ Used(t, w, l.len, 0) >= Used(s, w, l.len, 0)
        BY <2>2, <2>4 DEF Heavier
    <2>6. m.weight > l.cap \/ Used(t, w, l.len, 0) + m.weight > l.cap
        <3> HIDE DEF m
        <3> QED BY <1>1, <2>3, <2>4, <2>5
    <2>7. w \in Range(WindowsOf(t.job[j].meta))
        BY <2>1
    <2> HIDE DEF m
    <2> QED BY <2>3, <2>6, <2>7 DEF Withheld, m
<1> QED BY <1>2, <1>3 DEF Withheld

LEMMA DrowsinessStays ==
    ASSUME NEW s, NEW t, NEW ls \in LimitSets, NEW pen, Safe(s), Safe(t), Drowsy(s, ls, pen),
           Fading(s, t), Heavier(s, t),
           \A k \in t.cands : k.ref \in Lanes /\ IsBlocked(t, k.ref) =>
                \/ Withheld(t, ls, pen, HeadOf(t, k.ref))
                \/ k \in s.cands /\ IsBlocked(s, k.ref) /\ AllWaitOn(s, t, k.ref)
    PROVE  Drowsy(t, ls, pen)
<1> SUFFICES ASSUME NEW k \in t.cands, k.ref \in Lanes, IsBlocked(t, k.ref), Live(t, k.ref) # {},
                    k = Key(t, k.ref, HeadOf(t, k.ref)),
                    k \in s.cands, IsBlocked(s, k.ref), AllWaitOn(s, t, k.ref)
             PROVE  Withheld(t, ls, pen, HeadOf(t, k.ref))
    BY DEF Drowsy
<1> DEFINE l == k.ref
           f == HeadOf(s, l)
<1>1. /\ Live(t, l) = Live(s, l) /\ Live(s, l) # {}
      /\ HeadOf(t, l) = HeadOf(s, l)
      /\ HeadOf(s, l) \in JobIds /\ Waiting(s, HeadOf(s, l)) /\ Waiting(t, HeadOf(s, l))
      /\ s.job[HeadOf(s, l)].meta.lane = l
      /\ Key(t, l, HeadOf(s, l)) = Key(s, l, HeadOf(s, l))
    BY HeadsStay
<1>2. Withheld(s, ls, pen, f)
    BY <1>1 DEF Drowsy
<1>3. f \in JobIds /\ Known(s, f) /\ t.job[f].meta = s.job[f].meta /\ s \in States
    BY <1>1 DEF Fading, Known, Waiting, Safe
<1> HIDE DEF f
<1>4. Withheld(t, ls, pen, f)
    BY <1>2, <1>3, WithheldStays
<1> QED BY <1>1, <1>4 DEF f

LEMMA SomeJobIsKnown ==
    ASSUME Safe(Core), cands # {}
    PROVE  \E j \in JobIds : Known(Core, j)
<1>1. KeyOk(Core, Top)
    BY TopIsACandidate
<1> QED BY <1>1 DEF KeyOk, Known, Waiting

LEMMA MildIsHeavier ==
    ASSUME NEW s, NEW t, Safe(s), Debited(s), \E j \in JobIds : Known(s, j), Mild(s, t)
    PROVE  Heavier(s, t)
<1>1. PICK j \in JobIds : Known(s, j)
    OBVIOUS
<1>2. s \in States /\ t \in States
    BY DEF Mild, Safe
<1>3. \A i \in JobIds : Known(s, i) => /\ t.job[i].meta = s.job[i].meta
                                       /\ t.job[i].ago = s.job[i].ago
    BY DEF Mild, SameBooks
<1>4. \A w \in Windows : /\ s.ledger[w] \subseteq t.ledger[w]
                         /\ t.ledger[w] \subseteq s.ledger[w] \cup {j}
    BY DEF Mild, SameBooks
<1> QED BY <1>1, <1>2, <1>3, <1>4, ChargesWeigh

LEMMA StandingIsFading ==
    ASSUME NEW s, NEW t, Standing(s, t)
    PROVE  Fading(s, t) /\ \A l : AllWaitOn(s, t, l)
BY DEF Standing, Fading, AllWaitOn

LEMMA SameJobsStand ==
    ASSUME NEW s, NEW t, t.job = s.job
    PROVE  Standing(s, t)
BY DEF Standing, Waiting

\* A pass that pushes and blocks nobody, or that blocks the lane in hand while
\* its head is withheld, leaves the blocked lanes withheld.
LEMMA PassesStayDrowsy ==
    ASSUME Safe(Core), Debited(Core), limits \in LimitSets, cands # {},
           Drowsy(Core, limits, penalty), NEW t, Mild(Core, t), Standing(Core, t),
           OffersTheUnblocked(Core, t),
           \A ref : IsBlocked(t, ref) /\ ref \in Lanes =>
                \/ IsBlocked(Core, ref)
                \/ Withheld(t, limits, penalty, HeadOf(t, ref)),
           \A k \in t.cands \ cands : k.ref \in Lanes /\ IsBlocked(t, k.ref) =>
                Withheld(t, limits, penalty, HeadOf(t, k.ref))
    PROVE  Drowsy(t, limits, penalty)
<1>1. Heavier(Core, t)
    BY SomeJobIsKnown, MildIsHeavier
<1>2. Fading(Core, t) /\ \A l : AllWaitOn(Core, t, l)
    BY StandingIsFading
<1>3. Safe(t) /\ Core.cands = cands
    BY DEF Mild, Core
<1>4. \A k \in t.cands : k.ref \in Lanes /\ IsBlocked(t, k.ref) =>
          \/ Withheld(t, limits, penalty, HeadOf(t, k.ref))
          \/ k \in Core.cands /\ IsBlocked(Core, k.ref) /\ AllWaitOn(Core, t, k.ref)
    BY <1>2, <1>3
<1> QED BY <1>1, <1>2, <1>3, <1>4, DrowsinessStays

LEMMA RekeyedOffers ==
    ASSUME Safe(Core), cands # {}, Grantable(Popped) = {}
    PROVE  LET t == Rekeyed(Popped, Top.ref) IN
           t.job = job /\ t.blocked = blocked /\ OffersTheUnblocked(Core, t)
<1> DEFINE s == Popped
           l == Top.ref
           e == [s EXCEPT !.lane[l].pending = {}]
           t == Rekeyed(s, l)
<1>1. /\ Calm(Core, s) /\ s.job = job /\ s.cands = cands \ {Top} /\ s.blocked = blocked
    BY PoppingIsCalm
<1>2. l \in Lanes
    BY DEF Grantable
<1>3. Core.cands = cands /\ Core.blocked = blocked
    BY DEF Core
<1> HIDE DEF l, s
<1>4. Safe(s) /\ s \in States
    BY <1>1, CalmChangesAreSafe DEF Safe
<1>5. ASSUME NEW u, u.job = job, u.blocked = blocked, u.cands \subseteq cands
      PROVE  u.job = job /\ u.blocked = blocked /\ OffersTheUnblocked(Core, u)
    BY <1>3, <1>5 DEF OffersTheUnblocked
<1>6. CASE ~HasCapacity(s, l)
    <2>1. t = s
        BY <1>6 DEF Rekeyed
    <2> QED BY <2>1, <1>1, <1>5 DEF s, l
<1>7. CASE HasCapacity(s, l) /\ Live(s, l) = {}
    <2>1. t = RemoveIdle(e, l)
        BY <1>7 DEF Rekeyed
    <2>2. RemoveIdle(e, l) = [e EXCEPT !.lane[l] = NewLane] \/ RemoveIdle(e, l) = e
        BY DEF RemoveIdle
    <2>3. e.job = s.job /\ e.cands = s.cands /\ e.blocked = s.blocked
        BY <1>4 DEF States
    <2>4. /\ [e EXCEPT !.lane[l] = NewLane].job = e.job
          /\ [e EXCEPT !.lane[l] = NewLane].cands = e.cands
          /\ [e EXCEPT !.lane[l] = NewLane].blocked = e.blocked
        BY <1>4 DEF States
    <2> HIDE DEF t, e
    <2>5. t.job = job /\ t.blocked = blocked /\ t.cands \subseteq cands
        BY <2>1, <2>2, <2>3, <2>4, <1>1
    <2> QED BY <2>5, <1>5 DEF t, s, l
<1>8. CASE HasCapacity(s, l) /\ Live(s, l) # {}
    <2> DEFINE d == Drain(s, l)
    <2>1. t = PushLane(d, l)
        BY <1>8 DEF Rekeyed
    <2>2. /\ Calm(s, d) /\ d.job = s.job /\ d.hold = s.hold /\ d.ledger = s.ledger
          /\ d.cands = s.cands /\ d.blocked = s.blocked
          /\ \A m \in Lanes : /\ d.lane[m].holder = s.lane[m].holder
                              /\ d.lane[m].count = s.lane[m].count
                              /\ d.lane[m].queued = s.lane[m].queued
                              /\ Live(s, m) \subseteq d.lane[m].pending
                              /\ d.lane[m].pending \subseteq s.lane[m].pending
          /\ First(d, d.lane[l].pending) = HeadOf(s, l)
        BY <1>2, <1>4, <1>8, DrainingIsCalm
    <2> HIDE DEF d, t
    <2>3. Safe(d)
        BY <1>4, <2>2, CalmChangesAreSafe
    <2>4. Pushed(d, t, {l})
        BY <1>2, <2>1, <2>3, PushingALaneIsMild
    <2>5. t.job = job /\ t.blocked = blocked
        BY <2>2, <2>4, <1>1 DEF Pushed
    <2>6. \A k \in t.cands \ d.cands : k.ref = l /\ ~IsBlocked(d, l)
        BY <2>4, <1>2 DEF Pushed, PushedKey, Ready
    <2>7. OffersTheUnblocked(Core, t)
        BY <2>2, <2>6, <1>1, <1>3 DEF OffersTheUnblocked, IsBlocked
    <2> QED BY <2>5, <2>7 DEF t, s, l
<1> QED BY <1>6, <1>7, <1>8

LEMMA RekeyStaysDrowsy ==
    ASSUME Safe(Core), Debited(Core), limits \in LimitSets, cands # {}, Grantable(Popped) = {},
           Drowsy(Core, limits, penalty)
    PROVE  Drowsy(Rekeyed(Popped, Top.ref), limits, penalty)
<1> DEFINE t == Rekeyed(Popped, Top.ref)
<1>1. Mild(Core, t)
    BY RekeyingIsMild
<1>2. t.job = job /\ t.blocked = blocked /\ OffersTheUnblocked(Core, t)
    BY RekeyedOffers
<1> HIDE DEF t
<1>3. /\ Core.job = job /\ Core.cands = cands
      /\ \A ref : IsBlocked(t, ref) <=> IsBlocked(Core, ref)
    BY <1>2 DEF Core, IsBlocked
<1>4. Standing(Core, t)
    BY <1>2, <1>3, SameJobsStand
<1>5. \A k \in t.cands \ cands : k.ref \in Lanes => ~IsBlocked(t, k.ref)
    BY <1>2, <1>3 DEF OffersTheUnblocked
<1>6. Drowsy(t, limits, penalty)
    BY <1>1, <1>2, <1>3, <1>4, <1>5, PassesStayDrowsy
<1> QED BY <1>6 DEF t

LEMMA ParkStaysDrowsy ==
    ASSUME Safe(Core), Debited(Core), limits \in LimitSets, cands # {}, Grantable(Popped) # {},
           Reserving(Selected) # {}, Orderly(Core, {}, FALSE), Drowsy(Core, limits, penalty)
    PROVE  Drowsy([Selected EXCEPT !.hold[FirstOf(Reserving(Selected))].queue =
                      Append(@, Top.ref)], limits, penalty)
<1> DEFINE t == [Selected EXCEPT !.hold[FirstOf(Reserving(Selected))].queue = Append(@, Top.ref)]
<1>1. Mild(Core, t)
    BY ParkingIsMild
<1>2. /\ Orderly(t, {}, FALSE)
      /\ t.job = job /\ t.cands = cands \ {Top} /\ t.blocked = blocked
      /\ t.ledger = ledger
    BY ParkingKeepsOrder
<1> HIDE DEF t
<1>3. /\ Core.job = job /\ Core.cands = cands
      /\ \A ref : IsBlocked(t, ref) <=> IsBlocked(Core, ref)
    BY <1>2 DEF Core, IsBlocked
<1>4. Standing(Core, t)
    BY <1>2, <1>3, SameJobsStand
<1>5. t.cands \ cands = {} /\ OffersTheUnblocked(Core, t)
    BY <1>2, <1>3 DEF OffersTheUnblocked
<1>6. Drowsy(t, limits, penalty)
    BY <1>1, <1>3, <1>4, <1>5, PassesStayDrowsy
<1> QED BY <1>6 DEF t

\* The candidate goes to sleep, as a window or a freeze withholds it.
LEMMA SleepersStayDrowsy ==
    ASSUME Safe(Core), Debited(Core), limits \in LimitSets, cands # {}, Grantable(Popped) # {},
           Orderly(Core, {}, FALSE), Drowsy(Core, limits, penalty),
           Withheld(Core, limits, penalty, Candidate), NEW r, NEW t, Mild(Core, t),
           Standing(Selected, r), OffersTheUnblocked(Selected, r), r.blocked = Selected.blocked,
           t.job = r.job, t.cands = r.cands,
           \A ref : IsBlocked(t, ref) <=> ref = Top.ref \/ IsBlocked(r, ref)
    PROVE  Drowsy(t, limits, penalty)
<1>1. /\ Selected.job = job /\ Selected.cands = cands \ {Top} /\ Selected.blocked = blocked
    BY SelectingIsCalm
<1>2. Core.job = job /\ Core.cands = cands /\ Core.blocked = blocked
    BY DEF Core
<1>3. Standing(Core, t)
    BY <1>1, <1>2 DEF Standing, Waiting
<1>4. \A k \in t.cands \ cands : k.ref \in Lanes => ~IsBlocked(Core, k.ref)
    BY <1>1, <1>2 DEF OffersTheUnblocked, IsBlocked
<1>5. \A ref : IsBlocked(t, ref) <=> ref = Top.ref \/ IsBlocked(Core, ref)
    BY <1>1, <1>2 DEF IsBlocked
<1>6. Safe(Popped) /\ Popped.job = job
    BY PoppedIsInHand, PoppingIsCalm
<1>7. Candidate \in JobIds /\ Waiting(Core, Candidate) /\ Known(Core, Candidate)
      /\ Core \in States
    BY CandidateIsFirst DEF Waiting, Known, Safe
<1>8. Withheld(t, limits, penalty, Candidate)
    <2>1. Heavier(Core, t)
        BY SomeJobIsKnown, MildIsHeavier
    <2>2. t.job[Candidate].meta = Core.job[Candidate].meta
        BY <1>3, <1>7 DEF Standing
    <2> HIDE DEF Candidate
    <2> QED BY <1>7, <2>1, <2>2, WithheldStays
<1>9. Top.ref \in Lanes => HeadOf(t, Top.ref) = Candidate
    <2> SUFFICES ASSUME Top.ref \in Lanes PROVE HeadOf(t, Top.ref) = Candidate
        OBVIOUS
    <2>1. Live(Popped, Top.ref) # {} /\ Candidate = HeadOf(Popped, Top.ref)
        BY CandidateIsFirst
    <2>2. Standing(Popped, t)
        BY <1>2, <1>3, <1>6 DEF Standing, Waiting
    <2>3. Fading(Popped, t) /\ AllWaitOn(Popped, t, Top.ref)
        BY <2>2, StandingIsFading
    <2>4. Safe(t)
        BY DEF Mild
    <2> HIDE DEF Candidate
    <2> QED BY <1>6, <2>1, <2>3, <2>4, HeadsStay
<1> HIDE DEF Candidate
<1>10. \A ref : IsBlocked(t, ref) /\ ref \in Lanes =>
          \/ IsBlocked(Core, ref)
          \/ Withheld(t, limits, penalty, HeadOf(t, ref))
    BY <1>5, <1>8, <1>9
<1>11. \A k \in t.cands \ cands : k.ref \in Lanes /\ IsBlocked(t, k.ref) =>
          Withheld(t, limits, penalty, HeadOf(t, k.ref))
    BY <1>4, <1>5, <1>8, <1>9
<1>12. OffersTheUnblocked(Core, t)
    BY <1>2, <1>4 DEF OffersTheUnblocked
<1> QED BY <1>3, <1>10, <1>11, <1>12, PassesStayDrowsy

LEMMA PausedIsWithheld ==
    ASSUME Paused
    PROVE  Withheld(Core, limits, penalty, Candidate)
<1>1. Core.job[Candidate].meta = Meta
    BY DEF Core, Meta
<1> HIDE DEF Candidate
<1> QED BY <1>1 DEF Paused, Never, Withheld

LEMMA SleeperIsWithheld ==
    ASSUME Safe(Core), Debited(Core), limits \in LimitSets, penalty \in [Scopes -> Nat],
           cands # {}, Grantable(Popped) # {}, ~Paused, Until(Selected) > 0
    PROVE  Withheld(Core, limits, penalty, Candidate)
<1>1. Core.job[Candidate].meta = Meta
    BY DEF Core, Meta
<1>2. /\ Meta \in Metas /\ Meta.weight \in Nat /\ Meta.chat \in Scopes /\ NoChat \in Scopes
    BY CandidateIsFirst, FieldsOfRequests DEF Scopes
<1>3. /\ Safe(Selected) /\ Selected.job = job /\ Selected.ledger = ledger
      /\ Calm(Core, Selected)
    BY SelectingIsCalm
<1>4. Selected \in States /\ Debited(Selected)
    BY <1>3 DEF Debited, Core, Known, Safe
<1>5. /\ Until(Selected) \in Nat
      /\ Until(Selected) \in {penalty[NoChat], penalty[Meta.chat]} \/ Short(Selected) # {}
    BY <1>2, <1>4, UntilIsTyped
<1> HIDE DEF Candidate
<1>6. CASE Until(Selected) \in {penalty[NoChat], penalty[Meta.chat]}
    BY <1>1, <1>6 DEF Withheld
<1>7. CASE Short(Selected) # {}
    <2>1. PICK w \in Range(WindowsOf(Meta)) : ~CanConsume(Selected, w, Meta.weight, 0)
        BY <1>7 DEF Short
    <2>2. PICK l \in limits[w] : ~(Used(Selected, w, l.len, 0) + Meta.weight <= l.cap)
        BY <2>1 DEF CanConsume
    <2>3. w \in Windows
        BY <1>2, <2>1, WindowsAreWindows
    <2>4. l.cap \in Nat /\ l.len \in Nat
        BY <2>3, LimitsAreTyped
    <2>5. Used(Selected, w, l.len, 0) = Used(Core, w, l.len, 0)
        BY <1>3 DEF Used, Core
    <2>6. Used(Core, w, l.len, 0) \in Nat
        <3>1. Mild(Core, Core)
            BY SameJobsAreMild
        <3>2. Heavier(Core, Core)
            BY <3>1, SomeJobIsKnown, MildIsHeavier
        <3> QED BY <3>2, <2>3, <2>4 DEF Heavier
    <2>7. Used(Core, w, l.len, 0) + Meta.weight > l.cap
        BY <1>2, <2>2, <2>4, <2>5, <2>6
    <2> QED BY <1>1, <2>2, <2>1, <2>7 DEF Withheld
<1> QED BY <1>5, <1>6, <1>7

LEMMA TopAsks ==
    ASSUME Safe(Core), cands # {}, Grantable(Popped) # {}
    PROVE  /\ Top.ref \in Refs /\ RefOk(Selected, Top.ref) /\ Asks(Selected, Top.ref)
           /\ Candidate \in JobIds /\ Waiting(Selected, Candidate)
<1>1. Selected.job = job /\ Core.job = job
    BY SelectingIsCalm DEF Core
<1>2. Top.ref \in Refs /\ RefOk(Core, Top.ref)
    BY TopIsACandidate
<1>3. RefOk(Selected, Top.ref)
    BY <1>1, <1>2 DEF RefOk, Known
<1>4. Candidate \in JobIds /\ Waiting(Core, Candidate) /\ RefOf(Core, Candidate) = Top.ref
    BY CandidateIsFirst
<1> HIDE DEF Candidate
<1>5. Waiting(Selected, Candidate) /\ RefOf(Selected, Candidate) = Top.ref
    BY <1>1, <1>4 DEF Waiting, RefOf
<1> QED BY <1>2, <1>3, <1>4, <1>5 DEF Asks

\* References stay what they are when jobs stand.
LEMMA StandingRefs ==
    ASSUME NEW s, NEW t, NEW ref, Safe(t), Standing(s, t), RefOk(s, ref), Asks(s, ref)
    PROVE  RefOk(t, ref) /\ Asks(t, ref)
<1>1. Asks(t, ref)
    BY DEF Standing, Asks, RefOf
<1>2. CASE ref \in Lanes
    BY <1>1, <1>2 DEF RefOk
<1>3. CASE ref \in JobIds
    BY <1>1, <1>3, AskingJobs DEF RefOk, Loose, Waiting, Known
<1> QED BY <1>1, <1>2, <1>3 DEF RefOk

LEMMA PausingKeepsOrder ==
    ASSUME Safe(Core), Debited(Core), limits \in LimitSets, cands # {}, Grantable(Popped) # {},
           Orderly(Core, {}, FALSE), Drowsy(Core, limits, penalty), Paused
    PROVE  LET t == Block(ReleasePreviousReservation(Selected, NoWindow), Top.ref, 0, TRUE) IN
           Orderly(t, {}, FALSE) /\ Drowsy(t, limits, penalty)
<1> DEFINE s == Selected
           r == ReleasePreviousReservation(s, NoWindow)
           t == Block(r, Top.ref, 0, TRUE)
<1>1. Safe(s) /\ InHand(s, Top.ref)
    BY SelectedIsInHand
<1>2. /\ Top.ref \in Refs /\ RefOk(s, Top.ref) /\ Asks(s, Top.ref)
      /\ Candidate \in JobIds /\ Waiting(s, Candidate)
    BY TopAsks
<1>3. Mild(Core, t)
    BY PausingIsMild
<1>4. Withheld(Core, limits, penalty, Candidate)
    BY PausedIsWithheld
<1> HIDE DEF s
<1>5. /\ Safe(r) /\ InHand(r, Top.ref) /\ Standing(s, r)
      /\ r.blocked = s.blocked /\ OffersTheUnblocked(s, r)
    BY <1>1, <1>2, ReleasingPreviousKeepsHand
<1>6. RefOk(r, Top.ref) /\ Asks(r, Top.ref)
    BY <1>2, <1>5, StandingRefs
<1>7. 0 \in Nat /\ TRUE \in BOOLEAN
    OBVIOUS
<1> HIDE DEF r
<1>8. \A i \in Nat, p \in BOOLEAN :
          Asleep(r, Block(r, Top.ref, i, p), Top.ref)
    BY <1>2, <1>5, <1>6, BlockingKeepsOrder
<1>9. Asleep(r, t, Top.ref)
    BY <1>7, <1>8, Zenon
<1> HIDE DEF t
<1>10. Drowsy(t, limits, penalty)
    BY <1>3, <1>4, <1>5, <1>9, SleepersStayDrowsy DEF s, Asleep
<1>11. Orderly(t, {}, FALSE)
    BY <1>9 DEF Asleep
<1> QED BY <1>10, <1>11 DEF t, r, s

LEMMA SleepingKeepsOrder ==
    ASSUME Safe(Core), Debited(Core), limits \in LimitSets, penalty \in [Scopes -> Nat],
           cands # {}, Grantable(Popped) # {},
           Orderly(Core, {}, FALSE), Drowsy(Core, limits, penalty), ~Paused, Until(Selected) > 0
    PROVE  LET until == Until(Selected)
               window == IF Short(Selected) = {} THEN NoWindow ELSE FirstOf(Short(Selected))
               t == Block(Reserved(ReleasePreviousReservation(Selected, window), window, until),
                          Top.ref, until, FALSE)
           IN  Orderly(t, {}, FALSE) /\ Drowsy(t, limits, penalty)
<1> DEFINE s == Selected
           until == Until(s)
           w == IF Short(s) = {} THEN NoWindow ELSE FirstOf(Short(s))
           r == ReleasePreviousReservation(s, w)
           o == Reserved(r, w, until)
           t == Block(o, Top.ref, until, FALSE)
<1>1. Safe(s) /\ InHand(s, Top.ref) /\ s.job = job /\ s.ledger = ledger
    BY SelectedIsInHand, SelectingIsCalm
<1>2. /\ Top.ref \in Refs /\ RefOk(s, Top.ref) /\ Asks(s, Top.ref)
      /\ Candidate \in JobIds /\ Waiting(s, Candidate) /\ Meta \in Metas
    BY TopAsks, CandidateIsFirst
<1>3. Mild(Core, t)
    BY SleepingIsMild
<1>4. Withheld(Core, limits, penalty, Candidate)
    BY SleeperIsWithheld
<1>5. until \in Nat
    <2>1. Debited(s) /\ s \in States
        BY <1>1 DEF Debited, Core, Known, Safe
    <2> QED BY <1>2, <2>1, UntilIsTyped
<1>6. w \in Windows \cup {NoWindow}
    <2>1. Short(s) \in SUBSET Range(WindowsOf(Meta))
        BY DEF Short
    <2> QED BY <1>2, <2>1, FirstOfIsOne
<1> HIDE DEF s, w, until
<1>7. /\ Safe(r) /\ InHand(r, Top.ref) /\ Standing(s, r)
      /\ r.blocked = s.blocked /\ OffersTheUnblocked(s, r)
    BY <1>1, <1>2, ReleasingPreviousKeepsHand
<1>8. RefOk(r, Top.ref) /\ Asks(r, Top.ref)
    BY <1>2, <1>7, StandingRefs
<1>9. Waiting(r, Candidate)
    BY <1>2, <1>7 DEF Standing
<1> HIDE DEF r
<1>10. /\ Safe(o) /\ InHand(o, Top.ref) /\ Standing(r, o)
       /\ o.blocked = r.blocked /\ o.cands = r.cands
    BY <1>2, <1>5, <1>6, <1>7, <1>8, <1>9, ReservingKeepsHand
<1>11. RefOk(o, Top.ref) /\ Asks(o, Top.ref)
    BY <1>8, <1>10, StandingRefs
<1> HIDE DEF o
<1>12. Standing(s, o) /\ o.blocked = s.blocked /\ OffersTheUnblocked(s, o)
    BY <1>7, <1>10 DEF Standing, OffersTheUnblocked
<1>13. FALSE \in BOOLEAN
    OBVIOUS
<1>14. \A i \in Nat, p \in BOOLEAN :
          Asleep(o, Block(o, Top.ref, i, p), Top.ref)
    BY <1>2, <1>10, <1>11, BlockingKeepsOrder
<1>15. Asleep(o, t, Top.ref)
    BY <1>5, <1>13, <1>14, Zenon
<1> HIDE DEF t
<1>16. Drowsy(t, limits, penalty)
    BY <1>3, <1>4, <1>12, <1>15, SleepersStayDrowsy DEF s, Asleep
<1>17. Orderly(t, {}, FALSE)
    BY <1>15 DEF Asleep
<1> QED BY <1>16, <1>17 DEF t, o, r, s, w, until

-----------------------------------------------------------------------------
(* The candidate is granted.                                               *)

\* Nothing withholds the candidate that passes, so its lane was not asleep.
LEMMA PassingIsNotWithheld ==
    ASSUME Safe(Core), Debited(Core), limits \in LimitSets, penalty \in [Scopes -> Nat],
           cands # {}, Grantable(Popped) # {}, ~Paused, Until(Selected) = 0
    PROVE  ~Withheld(Core, limits, penalty, Candidate)
<1>1. Core.job[Candidate].meta = Meta
    BY DEF Core, Meta
<1>2. /\ Meta \in Metas /\ Meta.weight \in Nat /\ Meta.chat \in Scopes /\ NoChat \in Scopes
    BY CandidateIsFirst, FieldsOfRequests DEF Scopes
<1>3. /\ Safe(Selected) /\ Selected.job = job /\ Selected.ledger = ledger
    BY SelectingIsCalm
<1>4. Selected \in States /\ Debited(Selected)
    BY <1>3 DEF Debited, Core, Known, Safe
<1>5. /\ 0 >= penalty[NoChat] /\ 0 >= penalty[Meta.chat]
      /\ \A w \in Short(Selected) : 0 >= EarliestFor(Selected, w, Meta.weight)
      /\ \A w \in Short(Selected) : EarliestFor(Selected, w, Meta.weight) > 0
    BY <1>2, <1>4, UntilIsTyped
<1> HIDE DEF Candidate
<1>6. Short(Selected) = {}
    <2> SUFFICES ASSUME NEW w \in Short(Selected) PROVE FALSE
        OBVIOUS
    <2>1. w \in Windows /\ ~Never(w, Meta.weight)
        BY <1>2, WindowsAreWindows DEF Short, Paused
    <2>2. \A j \in Selected.ledger[w] : Known(Selected, j)
        BY <1>4, <2>1 DEF Debited
    <2>3. EarliestFor(Selected, w, Meta.weight) \in Nat
        BY <1>2, <1>4, <2>1, <2>2, EarliestIsTyped
    <2> QED BY <2>3, <1>5
<1>7. ~(penalty[NoChat] > 0) /\ ~(penalty[Meta.chat] > 0)
    <2>1. penalty[NoChat] \in Nat /\ penalty[Meta.chat] \in Nat
        BY <1>2
    <2> QED BY <2>1, <1>5
<1>8. ASSUME NEW w \in Range(WindowsOf(Meta)), NEW l \in limits[w]
      PROVE  ~(Meta.weight > l.cap) /\ ~(Used(Core, w, l.len, 0) + Meta.weight > l.cap)
    <2>1. w \in Windows
        BY <1>2, WindowsAreWindows
    <2>2. l.cap \in Nat /\ l.len \in Nat
        BY <2>1, LimitsAreTyped
    <2>3. Used(Selected, w, l.len, 0) = Used(Core, w, l.len, 0)
        BY <1>3 DEF Used, Core
    <2>4. Used(Core, w, l.len, 0) \in Nat
        <3>1. Mild(Core, Core)
            BY SameJobsAreMild
        <3>2. Heavier(Core, Core)
            BY <3>1, SomeJobIsKnown, MildIsHeavier
        <3> QED BY <3>2, <2>1, <2>2 DEF Heavier
    <2>5. CanConsume(Selected, w, Meta.weight, 0)
        BY <1>6 DEF Short
    <2>6. Used(Core, w, l.len, 0) + Meta.weight <= l.cap
        BY <2>3, <2>5 DEF CanConsume
    <2> QED BY <1>2, <2>2, <2>4, <2>6
<1> QED BY <1>1, <1>7, <1>8 DEF Withheld

LEMMA PassingIsNotBlocked ==
    ASSUME Safe(Core), Debited(Core), limits \in LimitSets, penalty \in [Scopes -> Nat],
           cands # {}, Grantable(Popped) # {}, ~Paused, Until(Selected) = 0,
           Orderly(Core, {}, FALSE), Drowsy(Core, limits, penalty)
    PROVE  ~IsBlocked(Core, Top.ref)
<1> DEFINE r == Top.ref
           c == Candidate
<1>1. /\ c \in JobIds /\ Waiting(Core, c) /\ c \in Grantable(Popped)
      /\ RefOf(Core, c) = r
      /\ r \in Lanes => Live(Popped, r) # {} /\ c = HeadOf(Popped, r)
    BY CandidateIsFirst
<1>2. Top \in cands /\ KeyOk(Core, Top)
    BY TopIsACandidate
<1>3. Safe(Popped) /\ Popped.job = job
    BY PoppedIsInHand, PoppingIsCalm
<1>4. Core.job = job /\ Core.cands = cands
    BY DEF Core
<1>5. ~Withheld(Core, limits, penalty, c)
    BY PassingIsNotWithheld
<1>6. r \in Lanes => Key(Popped, r, c) = Top
    <2> SUFFICES ASSUME r \in Lanes PROVE Key(Popped, r, c) = Top
        OBVIOUS
    <2>1. c \in Grantable(Popped) /\ Grantable(Popped) # {}
        BY <1>1
    <2>2. Grantable(Popped) = {First(Popped, Live(Popped, r))}
          /\ Key(Popped, r, First(Popped, Live(Popped, r))) = Top
        <3> HIDE DEF c
        <3> QED BY <2>1 DEF Grantable, r
    <2> HIDE DEF c
    <2> QED BY <2>1, <2>2
<1> HIDE DEF c
<1>7. CASE r \in Lanes
    <2>1. Fading(Core, Popped) /\ AllWaitOn(Core, Popped, r)
        BY <1>3, <1>4, SameJobsStand, StandingIsFading
    <2> HIDE DEF r
    <2>2. /\ Live(Popped, r) = Live(Core, r) /\ Live(Core, r) # {}
          /\ HeadOf(Popped, r) = HeadOf(Core, r)
          /\ HeadOf(Core, r) \in JobIds /\ Waiting(Core, HeadOf(Core, r))
          /\ Waiting(Popped, HeadOf(Core, r))
          /\ Core.job[HeadOf(Core, r)].meta.lane = r
          /\ Key(Popped, r, HeadOf(Core, r)) = Key(Core, r, HeadOf(Core, r))
        BY <1>1, <1>3, <1>7, <2>1, HeadsStay
    <2>3. HeadOf(Core, r) = c /\ Key(Core, r, c) = Top
        BY <1>1, <1>6, <1>7, <2>2
    <2>4. Top.ref = r
        BY DEF r
    <2> QED BY <1>2, <1>4, <1>5, <1>7, <2>2, <2>3, <2>4 DEF Drowsy
<1>8. CASE r \notin Lanes
    <2>1. InHeap(Core, r)
        BY <1>2, <1>4 DEF InHeap
    <2>2. r \in JobIds /\ Loose(Core, r)
        BY <1>2, <1>8 DEF KeyOk, Loose
    <2> QED BY <2>1, <2>2 DEF Orderly, Tidy, Single
<1> QED BY <1>7, <1>8

\* Job c, that reference r stands for, leaves it with a permit.
LEMMA ServingLoosens ==
    ASSUME NEW s, Safe(s), NEW c \in JobIds, Waiting(s, c), NEW r, RefOf(s, c) = r,
           Safe(Served(s, c)), NodesAsk(s), ~IsBlocked(s, r)
    PROVE  /\ Loosened(s, Served(s, c), {r})
           /\ r \notin Lanes => ~Asks(Served(s, c), r)
           /\ \A l \in Lanes : ~Waiting(Served(s, c), c) /\ (RefOf(s, c) # l =>
                    \A j \in JobIds : Waiting(s, j) /\ s.job[j].meta.lane = l
                        => Waiting(Served(s, c), j))
<1> DEFINE u == Served(s, c)
           m == s.job[c].meta
<1>1. s \in States /\ s.job \in [JobIds -> JobRecords] /\ s.lane \in [Lanes -> LaneRecords]
      /\ Known(s, c) /\ m.lane \in Lanes \cup {NoLane}
    BY FieldsOfStates, WaitingJobs DEF Safe
<1>2. /\ u \in States
      /\ u.job = [s.job EXCEPT ![c] = GrantedJob(s.job[c])]
      /\ u.lane = Taken(s, c) /\ u.ledger = Charged(s, c)
      /\ u.cands = s.cands /\ u.blocked = s.blocked /\ u.hold = s.hold
    BY <1>1, ServedIs
<1> HIDE DEF u
<1>3. ~Waiting(u, c)
    <2>1. u.job[c] = GrantedJob(s.job[c])
        BY <1>1, <1>2
    <2>2. GrantedJob(s.job[c]).st = "granted"
        BY <1>1, GrantedJobs
    <2> QED BY <2>1, <2>2 DEF Waiting
<1>4. \A j \in JobIds : j # c => u.job[j] = s.job[j]
    BY <1>1, <1>2
<1>5. \A j \in JobIds : Waiting(u, j) <=> j # c /\ Waiting(s, j)
    BY <1>3, <1>4 DEF Waiting
<1>6. r = IF m.lane = NoLane THEN c ELSE m.lane
    BY DEF RefOf
<1>7. \A l \in Lanes : /\ u.lane[l].queued = s.lane[l].queued
                       /\ l # m.lane => u.lane[l] = s.lane[l]
    <2> SUFFICES ASSUME NEW l \in Lanes
                 PROVE  /\ u.lane[l].queued = s.lane[l].queued
                        /\ l # m.lane => u.lane[l] = s.lane[l]
        OBVIOUS
    <2> DEFINE p == [s.lane[l] EXCEPT !.pending = s.lane[l].pending \ {c},
                                      !.count = s.lane[l].count + 1,
                                      !.holder = IF l \in Bounded THEN s.lane[l].holder ELSE c]
    <2>1. CASE m.lane = NoLane
        BY <2>1, <1>2 DEF Taken
    <2>2. CASE m.lane # NoLane /\ l # m.lane
        BY <2>2, <1>1, <1>2 DEF Taken
    <2>3. CASE m.lane # NoLane /\ l = m.lane
        <3>1. Taken(s, c) = [s.lane EXCEPT ![l] = p]
            BY <2>3 DEF Taken
        <3>2. p.queued = s.lane[l].queued
            BY <1>1 DEF LaneRecords
        <3> HIDE DEF p, m
        <3>3. u.lane[l] = p
            BY <3>1, <1>1, <1>2
        <3> QED BY <2>3, <3>2, <3>3
    <2> QED BY <2>1, <2>2, <2>3
<1>8. JobsFit(s, u, {r})
    <2>1. ASSUME NEW j \in JobIds, Loose(u, j), j \in {r} PROVE FALSE
        BY <2>1, <1>1, <1>5, <1>6, NoJobIsALane DEF Loose
    <2> QED BY <2>1, <1>4, <1>5 DEF JobsFit, Delayed
<1>9. HeapFits(s, u, {r})
    BY <1>2, <1>7 DEF HeapFits, InHeap
<1>10. NodesFit(s, u, {r})
    <2>1. ASSUME NEW n \in s.blocked PROVE Asks(u, n.ref)
        <3>1. n.ref # r
            BY DEF IsBlocked
        <3>2. PICK j \in JobIds : Waiting(s, j) /\ RefOf(s, j) = n.ref
            BY DEF NodesAsk, Asks
        <3>3. j # c
            BY <3>1, <3>2
        <3>4. Waiting(u, j) /\ u.job[j] = s.job[j]
            BY <3>2, <3>3, <1>4, <1>5
        <3>5. RefOf(u, j) = n.ref
            BY <3>2, <3>4 DEF RefOf
        <3> QED BY <3>4, <3>5 DEF Asks
    <2> QED BY <2>1, <1>2 DEF NodesFit, IsBlocked
<1>11. QueuesFit(s, u, {r})
    <2>1. \A w \in Windows : u.hold[w].queue = s.hold[w].queue
        BY <1>2
    <2> QED BY <2>1, QueuesThatStayFit
<1>12. LanesFit(s, u, {r})
    <2> SUFFICES ASSUME NEW l \in Lanes, HasCapacity(u, l), l # r PROVE HasCapacity(s, l)
        BY DEF LanesFit
    <2>1. l # m.lane
        BY <1>6, References
    <2> QED BY <2>1, <1>7 DEF HasCapacity
<1>13. Loosened(s, u, {r})
    BY <1>8, <1>9, <1>10, <1>11, <1>12 DEF Loosened
<1>14. r \notin Lanes => ~Asks(u, r)
    <2> SUFFICES ASSUME r \notin Lanes PROVE ~Asks(u, r)
        OBVIOUS
    <2>1. r = c /\ r \in JobIds
        BY <1>1, <1>6
    <2> QED BY <2>1, <1>3, <1>2, AskingJobs DEF Loose, u
<1>15. ASSUME NEW l \in Lanes, RefOf(s, c) # l, NEW j \in JobIds, Waiting(s, j),
              s.job[j].meta.lane = l
       PROVE  Waiting(u, j)
    <2>1. j # c
        BY <1>15, <1>6, References
    <2> QED BY <2>1, <1>5, <1>15
<1> QED BY <1>3, <1>13, <1>14, <1>15 DEF u

\* The reference of the job that gets the permit is back in its place: the
\* lane is pushed again when it has a permit left, and has no use for a key
\* otherwise.
LEMMA ServingKeepsOrder ==
    ASSUME NEW s, NEW c \in JobIds, NEW r, Safe(s), InHand(s, r), Waiting(s, c),
           RefOf(s, c) = r, ~IsBlocked(s, r), \A k \in s.cands : k.ref # c,
           s.job[c].meta.lane # NoLane => HasCapacity(s, s.job[c].meta.lane)
    PROVE  LET g == Granted(s, c) IN
           /\ Orderly(g, {}, FALSE) /\ OffersTheUnblocked(s, g) /\ g.blocked = s.blocked
<1> DEFINE u == Served(s, c)
           l == s.job[c].meta.lane
           g == Granted(s, c)
<1>1. /\ Safe(g)
      /\ g = IF Rearms(u, l) THEN PushLane(u, l) ELSE u
    BY GrantedIsSafe
<1>2. Safe(u)
    BY ServedIsSafe
<1>3. /\ l \in Lanes \cup {NoLane} /\ s \in States /\ s.lane \in [Lanes -> LaneRecords]
    BY WaitingJobs, FieldsOfStates DEF Safe
<1>4. /\ u.lane = Taken(s, c) /\ u.cands = s.cands /\ u.blocked = s.blocked
    BY <1>3, ServedIs
<1>5. Loosened(s, u, {r}) /\ (r \notin Lanes => ~Asks(u, r))
    BY <1>2, ServingLoosens DEF InHand, Orderly
<1>6. r = (IF l = NoLane THEN c ELSE l) /\ NoLane \notin Lanes /\ c \notin Lanes
    BY References, NoJobIsALane DEF RefOf
<1>7. l # NoLane => u.lane[l].count = s.lane[l].count + 1 /\ s.lane[l].count \in Nat
    <2> SUFFICES ASSUME l # NoLane
                 PROVE  u.lane[l].count = s.lane[l].count + 1 /\ s.lane[l].count \in Nat
        OBVIOUS
    <2> DEFINE p == [s.lane[l] EXCEPT !.pending = s.lane[l].pending \ {c},
                                      !.count = s.lane[l].count + 1,
                                      !.holder = IF l \in Bounded THEN s.lane[l].holder ELSE c]
    <2>1. Taken(s, c) = [s.lane EXCEPT ![l] = p]
        BY DEF Taken
    <2>2. p.count = s.lane[l].count + 1 /\ s.lane[l].count \in Nat
        BY <1>3 DEF LaneRecords
    <2> HIDE DEF p, l, u
    <2>3. u.lane[l] = p
        BY <2>1, <1>3, <1>4
    <2> QED BY <2>2, <2>3
<1> HIDE DEF u, l, g
<1>8. Orderly(u, {} \cup {r}, FALSE)
    <2>1. Orderly(u, {r} \cup {r}, FALSE)
        BY <1>2, <1>5, LooseningKeepsOrder DEF InHand
    <2>2. {r} \cup {r} = {} \cup {r}
        OBVIOUS
    <2> QED BY <2>1, <2>2, Zenon
<1>9. CASE Rearms(u, l)
    <2>1. l \in Lanes /\ l = r
        BY <1>6, <1>9, LaneModes DEF Rearms
    <2>2. Mild(u, g) /\ Pushed(u, g, {r})
        BY <1>1, <1>2, <1>9, <2>1, PushingALaneIsMild
    <2>3. {r} \in SUBSET Refs /\ \A j \in JobIds : j # r
        BY <2>1, NoJobIsALane DEF Refs
    <2>4. Orderly(g, {}, FALSE)
        BY <1>1, <1>2, <1>8, <2>2, <2>3, PushingKeepsOrder
    <2>5. g.blocked = s.blocked
        BY <1>4, <2>2 DEF Pushed
    <2>6. OffersTheUnblocked(s, g)
        BY <1>4, <2>2 DEF Pushed, OffersTheUnblocked, IsBlocked
    <2> QED BY <2>4, <2>5, <2>6 DEF g
<1>10. CASE ~Rearms(u, l)
    <2>1. g = u
        BY <1>1, <1>10
    <2>2. \A ref \in Refs \cap {r} :
              Asks(u, ref) /\ (ref \in Lanes => NotBefores = {}) => Kept(u, ref)
        <3> SUFFICES ASSUME r \in Lanes, Asks(u, r) PROVE Kept(u, r)
            BY <1>5
        <3>1. l = r
            BY <1>6
        <3>2. l \in Bounded => ~HasCapacity(u, l)
            <4>1. Live(u, l) # {}
                BY <1>2, <3>1, AskingLanes
            <4>2. u.lane[l].pending # {}
                BY <4>1 DEF Live
            <4> QED BY <1>10, <4>2 DEF Rearms
        <3>3. l \notin Bounded => ~HasCapacity(u, l)
            BY <1>6, <1>7, <3>1 DEF HasCapacity
        <3> QED BY <3>1, <3>2, <3>3 DEF Kept
    <2>3. Orderly(u, {}, FALSE)
        BY <1>8, <2>2, LeavingKeepsOrder
    <2> QED BY <1>4, <2>1, <2>3 DEF OffersTheUnblocked, g
<1> QED BY <1>9, <1>10

\* A grant leaves the blocked lanes withheld: the windows hold more.
LEMMA GrantingKeepsOrder ==
    ASSUME Safe(Core), Debited(Core), limits \in LimitSets, penalty \in [Scopes -> Nat],
           cands # {}, Grantable(Popped) # {}, ~Paused, Until(Selected) = 0,
           Orderly(Core, {}, FALSE), Drowsy(Core, limits, penalty)
    PROVE  LET t == RearmReservations(Granted(Selected, Candidate)) IN
           Orderly(t, {}, FALSE) /\ Drowsy(t, limits, penalty)
<1> DEFINE s == Selected
           c == Candidate
           r == Top.ref
           g == Granted(s, c)
           t == RearmReservations(g)
<1>1. Safe(s) /\ InHand(s, r)
    BY SelectedIsInHand
<1>2. /\ s.job = job /\ s.cands = cands \ {Top} /\ s.blocked = blocked /\ s.ledger = ledger
    BY SelectingIsCalm
<1>3. /\ Waiting(s, c) /\ Meta \in Metas
      /\ job[c].meta.lane # NoLane => HasCapacity(s, job[c].meta.lane)
      /\ \A k \in s.cands : k.ref # c
      /\ Safe(g) /\ Debited(g) /\ g.ledger = Charged(Core, c)
      /\ g.job = [job EXCEPT ![c] = GrantedJob(job[c])]
    BY CandidateIsGranted
<1>4. c \in JobIds /\ Waiting(Core, c) /\ RefOf(Core, c) = r
    BY CandidateIsFirst
<1>5. ~IsBlocked(Core, r)
    BY PassingIsNotBlocked
<1>6. /\ Core.job = job /\ Core.cands = cands /\ Core.blocked = blocked /\ Core.ledger = ledger
    BY DEF Core
<1> HIDE DEF s, c, r
<1>7. RefOf(s, c) = r /\ ~IsBlocked(s, r)
    BY <1>2, <1>4, <1>5, <1>6 DEF RefOf, IsBlocked
<1>8. s.job[c].meta.lane # NoLane => HasCapacity(s, s.job[c].meta.lane)
    BY <1>2, <1>3
<1>9. /\ Orderly(g, {}, FALSE) /\ OffersTheUnblocked(s, g) /\ g.blocked = s.blocked
    BY <1>1, <1>3, <1>4, <1>7, <1>8, ServingKeepsOrder
<1> HIDE DEF g
<1>10. /\ Calm(g, t) /\ t.job = g.job /\ t.lane = g.lane /\ t.cands = g.cands
       /\ t.blocked = g.blocked /\ t.ledger = g.ledger
       /\ \A w \in Windows : /\ t.hold[w].queue = g.hold[w].queue
                             /\ t.hold[w].on = g.hold[w].on
                             /\ t.hold[w].owner = g.hold[w].owner
    BY <1>3, ExtendingIsCalm
<1> HIDE DEF t
<1>11. Safe(t)
    BY <1>3, <1>10, CalmChangesAreSafe
<1>12. Alike(g, t)
    BY <1>10 DEF Alike, Waiting, Delayed, IsBlocked, HasCapacity
<1>13. Orderly(t, {}, FALSE)
    BY <1>3, <1>9, <1>11, <1>12, AlikeKeepsOrder
<1>14. /\ Core \in States /\ t \in States /\ Known(Core, c)
       /\ job \in [JobIds -> JobRecords]
    BY <1>4, <1>6, <1>11, FieldsOfStates DEF Safe, Known, Waiting
<1>15. /\ t.job[c] = GrantedJob(job[c]) /\ \A j \in JobIds \ {c} : t.job[j] = job[j]
    BY <1>3, <1>4, <1>10, <1>14
<1>16. /\ GrantedJob(job[c]).st = "granted" /\ GrantedJob(job[c]).meta = job[c].meta
       /\ GrantedJob(job[c]).ago = job[c].ago
    BY <1>4, <1>6, <1>14, GrantedJobs
<1>17. ~Waiting(t, c)
    BY <1>15, <1>16 DEF Waiting
<1>18. Fading(Core, t)
    BY <1>6, <1>15, <1>17 DEF Fading, Waiting
<1>19. Heavier(Core, t)
    <2>1. \A i \in JobIds : /\ t.job[i].meta = Core.job[i].meta
                            /\ t.job[i].ago = Core.job[i].ago
        BY <1>6, <1>15, <1>16
    <2>2. \A w \in Windows : /\ Core.ledger[w] \subseteq t.ledger[w]
                             /\ t.ledger[w] \subseteq Core.ledger[w] \cup {c}
        BY <1>3, <1>10 DEF Charged
    <2> QED BY <1>4, <1>14, <2>1, <2>2, ChargesWeigh
<1>20. \A k \in t.cands : k.ref \in Lanes /\ IsBlocked(t, k.ref) =>
            k \in Core.cands /\ IsBlocked(Core, k.ref) /\ AllWaitOn(Core, t, k.ref)
    <2> SUFFICES ASSUME NEW k \in t.cands, k.ref \in Lanes, IsBlocked(t, k.ref)
                 PROVE  k \in Core.cands /\ IsBlocked(Core, k.ref) /\ AllWaitOn(Core, t, k.ref)
        OBVIOUS
    <2>1. IsBlocked(s, k.ref) /\ IsBlocked(Core, k.ref)
        BY <1>2, <1>6, <1>9, <1>10 DEF IsBlocked
    <2>2. k \in Core.cands
        BY <1>2, <1>6, <1>10, <1>9, <2>1 DEF OffersTheUnblocked
    <2>3. k.ref # r
        BY <1>5, <2>1
    <2>4. AllWaitOn(Core, t, k.ref)
        <3> SUFFICES ASSUME NEW j \in JobIds, Waiting(Core, j), Core.job[j].meta.lane = k.ref
                     PROVE  Waiting(t, j)
            BY DEF AllWaitOn
        <3>1. k.ref # NoLane
            BY References
        <3>2. j # c
            BY <1>4, <2>3, <3>1 DEF RefOf
        <3> QED BY <3>2, <1>6, <1>15 DEF Waiting
    <2> QED BY <2>1, <2>2, <2>4
<1>21. Drowsy(t, limits, penalty)
    BY <1>11, <1>18, <1>19, <1>20, DrowsinessStays
<1> QED BY <1>13, <1>21 DEF t, g, s, c

-----------------------------------------------------------------------------
(* The steps.                                                              *)

\* The debits of the windows are marked on the jobs that caused them.
SpentInv == \A w \in Windows : \A j \in ledger[w] : job[j].spent

\* Every reference is in its place: in an admission pass a blocked lane may
\* have a key, but then its head is withheld, and the pass blocks it again.
PlacesInv ==
    /\ QueueInv /\ SpentInv
    /\ Orderly(Core, {}, phase # "pop")
    /\ phase = "pop" => Drowsy(Core, limits, penalty)

LEMMA CommandsFindOrder ==
    ASSUME PlacesInv, phase \in {"asleep", "due"}
    PROVE  Safe(Core) /\ Orderly(Core, {}, TRUE)
<1>1. phase # "pop"
    OBVIOUS
<1>2. (phase # "pop") = TRUE
    BY <1>1
<1> QED BY <1>2 DEF PlacesInv, QueueInv

LEMMA CommandsSettle ==
    ASSUME NEW STATE t, t \in States, Install(t), Orderly(t, {}, TRUE),
           phase' \in {"asleep", "due"}
    PROVE  Orderly(Core', {}, phase' # "pop") /\ phase' # "pop"
<1>1. Core' = t /\ phase' # "pop"
    BY InstalledIs
<1>2. (phase' # "pop") = TRUE
    BY <1>1
<1> QED BY <1>1, <1>2

LEMMA PassesSettle ==
    ASSUME NEW STATE t, t \in States, Install(t), Orderly(t, {}, FALSE), phase' = "pop",
           Drowsy(t, limits, penalty), UNCHANGED <<limits, penalty>>
    PROVE  Orderly(Core', {}, phase' # "pop") /\ Drowsy(Core', limits', penalty')
<1>1. Core' = t
    BY InstalledIs
<1>2. (phase' # "pop") = FALSE
    OBVIOUS
<1> QED BY <1>1, <1>2

LEMMA EnqueueKeepsOrder ==
    ASSUME PlacesInv, NEW m \in Metas, NEW delay \in NotBefores \cup {NotDelayed},
           Enqueue(m, delay)
    PROVE  /\ Orderly(Core', {}, phase' # "pop") /\ phase' # "pop"
           /\ ledger' = ledger /\ \A i \in JobIds : Known(Core, i) => job'[i].spent = job[i].spent
<1> DEFINE old == Slot(m)
           inherits == old # {} /\ \A i \in old : job[i].delay = NotDelayed
           seq == IF old = {} THEN nextJob ELSE job[Min(old)].seq
           age == IF inherits /\ delay = NotDelayed THEN job[Min(old)].age ELSE 0
           removed == IF old = {} THEN Core ELSE RemoveWaiting(Core, Min(old))
           r == NewJob(m, seq, age, delay)
           t == Inserted(removed, nextJob, r, old)
<1>1. nextJob \in JobIds /\ Install(t) /\ phase' = "due" /\ phase = "asleep"
    BY Sizes DEF Enqueue, PlacesInv, QueueInv, JobIds
<1>2. Safe(Core) /\ Orderly(Core, {}, TRUE) /\ Numbered(Core, nextJob)
    BY <1>1, CommandsFindOrder DEF PlacesInv, QueueInv
<1>3. Safe(t) /\ SameBooks(Core, t)
    BY <1>1, <1>2, EnqueueingIsSafe
<1>4. nextJob \in JobIds /\ Safe(Core) /\ Numbered(Core, nextJob)
    BY <1>1, <1>2
<1>5. /\ old # {} => Min(old) \in JobIds /\ Waiting(Core, Min(old))
      /\ Safe(removed) /\ removed.ledger = ledger
      /\ \A i \in JobIds : /\ Known(removed, i) <=> Known(Core, i)
                           /\ Known(removed, i) => /\ removed.job[i].meta = job[i].meta
                                                   /\ removed.job[i].seq = job[i].seq
                                                   /\ removed.job[i].spent = job[i].spent
                                                   /\ removed.job[i].ago = job[i].ago
                           /\ Waiting(removed, i) => Waiting(Core, i)
                           /\ removed.job[i].st = "granted" => job[i].st = "granted"
      /\ r \in UsedRecords /\ r.st = "waiting" /\ r.meta = m /\ r.seq = seq
      /\ ~r.spent /\ r.ago = 0 /\ r.delay = delay
      /\ seq \in JobIds /\ seq <= nextJob
      /\ \A i \in JobIds : Known(removed, i) /\ removed.job[i].seq = r.seq
                              => removed.job[i].meta.lane = r.meta.lane /\ ~Waiting(removed, i)
      /\ ~Known(Core, nextJob) /\ ~Known(removed, nextJob)
    BY <1>4, RequestsAreNew, SMTT(60)
<1> HIDE DEF old
<1>6. Orderly(removed, {}, TRUE)
    <2>1. CASE old = {}
        BY <2>1, <1>2
    <2>2. CASE old # {}
        <3> DEFINE o == Min(old)
        <3>1. o \in JobIds /\ Waiting(Core, o) /\ removed = RemoveWaiting(Core, o)
            BY <2>2, <1>5
        <3> HIDE DEF o, removed
        <3> QED BY <3>1, <1>2, RemovingKeepsOrder
    <2> QED BY <2>1, <2>2
<1>7. NotBefores = {} => r.delay = NotDelayed
    BY <1>5
<1> HIDE DEF r, removed
<1>8. Orderly(t, {}, TRUE)
    BY <1>1, <1>5, <1>6, <1>7, InsertingKeepsOrder
<1> HIDE DEF t
<1>9. Orderly(Core', {}, phase' # "pop") /\ phase' # "pop"
    BY <1>1, <1>3, <1>8, CommandsSettle DEF Safe
<1>10. job' = t.job /\ ledger' = t.ledger /\ Core.job = job /\ Core.ledger = ledger
    BY <1>1, <1>3, InstalledIs DEF Safe, Core
<1> QED BY <1>3, <1>9, <1>10 DEF SameBooks

LEMMA CommandsKeepOrder ==
    ASSUME PlacesInv, NEW j \in JobIds,
           Cancel(j) \/ Start(j) \/ Complete(j) \/ CompleteNoRequest(j)
    PROVE  Orderly(Core', {}, phase' # "pop") /\ phase' # "pop"
<1>1. /\ Safe(Core) /\ Orderly(Core, {}, TRUE) /\ phase' \in {"asleep", "due"}
    BY CommandsFindOrder DEF Cancel, Start, Complete, CompleteNoRequest, Command
<1>2. CASE Cancel(j)
    <2> DEFINE t == RemoveWaiting(Core, j)
    <2>1. Mild(Core, t) /\ Install(t) /\ Orderly(t, {}, TRUE)
        BY <1>1, <1>2, RemovingIsMild, RemovingKeepsOrder DEF Cancel
    <2> HIDE DEF t
    <2> QED BY <2>1, <1>1, CommandsSettle DEF Mild, Safe
<1>3. CASE Start(j)
    <2> DEFINE l == job[j].meta.lane
               t == Vacated([Core EXCEPT !.job[j].st = "started", !.lane[l].holder = NoJob,
                                         !.lane[l].count = 0], l)
    <2>1. job[j].st = "granted" /\ l \in Lanes /\ lane[l].holder = j /\ Install(t)
        BY <1>3, LaneModes DEF Start
    <2>2. Core.job = job /\ Core.lane = lane
        BY DEF Core
    <2>3. Mild(Core, t) /\ Orderly(t, {}, TRUE)
        BY <2>1, <2>2, <1>1, StartingIsMild, StartingKeepsOrder
    <2> HIDE DEF t
    <2> QED BY <2>1, <2>3, <1>1, CommandsSettle DEF Mild, Safe
<1>4. CASE Complete(j)
    <2> DEFINE t == ReleaseLane(Landed(Core, j), j)
    <2>1. Mild(Core, t) /\ Install(t) /\ Orderly(t, {}, TRUE)
        BY <1>1, <1>4, LandingIsMild, LandingKeepsOrder DEF Complete
    <2> HIDE DEF t
    <2> QED BY <2>1, <1>1, CommandsSettle DEF Mild, Safe
<1>5. CASE CompleteNoRequest(j)
    <2> DEFINE s == ReleaseLane(Landed(Core, j), j)
               t == Refund(s, j)
    <2>1. Mild(Core, s) /\ Install(t) /\ Orderly(s, {}, TRUE) /\ Flying(Core, j)
        BY <1>1, <1>5, LandingIsMild, LandingKeepsOrder DEF CompleteNoRequest
    <2> HIDE DEF s
    <2>2. Safe(s) /\ Known(s, j) /\ ~Waiting(s, j)
        BY <2>1 DEF Mild, Gentle, Flying, Known, Waiting
    <2>3. Mild(Credited(s, j), t) /\ Orderly(t, {}, TRUE)
        BY <2>1, <2>2, RefundingIsGentle, RefundingKeepsOrder
    <2> HIDE DEF t
    <2> QED BY <2>1, <2>3, <1>1, CommandsSettle DEF Mild, Safe
<1> QED BY <1>2, <1>3, <1>4, <1>5

LEMMA FreezesKeepOrder ==
    ASSUME PlacesInv, NEW c \in Scopes, NEW d \in RetryAfters,
           Penalize(c, d) \/ \E j \in JobIds : CompleteRetryAfter(j, c, d)
    PROVE  Orderly(Core', {}, phase' # "pop") /\ phase' # "pop"
<1>1. /\ Safe(Core) /\ Orderly(Core, {}, TRUE) /\ phase' \in {"asleep", "due"}
    BY CommandsFindOrder DEF Penalize, Call, CompleteRetryAfter, Command
<1>2. CASE Penalize(c, d)
    <2>1. Install(Core) /\ Core \in States
        BY <1>1, <1>2 DEF Penalize, Install, Core, Safe
    <2> QED BY <2>1, <1>1, CommandsSettle
<1>3. ASSUME NEW j \in JobIds, CompleteRetryAfter(j, c, d)
      PROVE  Orderly(Core', {}, phase' # "pop") /\ phase' # "pop"
    <2> DEFINE t == ReleaseLane(Landed(Core, j), j)
    <2>1. Mild(Core, t) /\ Install(t) /\ Orderly(t, {}, TRUE)
        BY <1>1, <1>3, LandingIsMild, LandingKeepsOrder DEF CompleteRetryAfter
    <2> HIDE DEF t
    <2> QED BY <2>1, <1>1, CommandsSettle DEF Mild, Safe
<1> QED BY <1>2, <1>3

LEMMA NewLimitsKeepOrder ==
    ASSUME PlacesInv, NEW new \in LimitSets, SetLimits(new) \/ SetClassLimits(new)
    PROVE  Orderly(Core', {}, phase' # "pop") /\ phase' # "pop"
<1>1. ReplaceLimits(new)
    BY DEF SetLimits, SetClassLimits
<1> DEFINE c == [Core EXCEPT !.ledger = Carried(new)]
           t == Rearmed(c)
<1>2. /\ Install(t) /\ Safe(Core) /\ Orderly(Core, {}, TRUE) /\ phase' \in {"asleep", "due"}
    BY <1>1, CommandsFindOrder DEF ReplaceLimits, Call, Command
<1>3. Carried(new) \in [Windows -> SUBSET JobIds]
    <2>1. ledger \in [Windows -> SUBSET JobIds]
        BY <1>2, FieldsOfStates DEF Safe, Core
    <2> QED BY <2>1 DEF Carried
<1>4. Safe(c) /\ Orderly(c, {}, TRUE)
    BY <1>2, <1>3, CarryingIsGentle, CarryingKeepsOrder
<1> HIDE DEF c
<1>5. Mild(c, t) /\ Orderly(t, {}, TRUE)
    BY <1>4, RearmingIsMild, RearmingKeepsOrder
<1> HIDE DEF t
<1> QED BY <1>2, <1>5, CommandsSettle DEF Mild, Safe

LEMMA QueriesKeepOrder ==
    ASSUME PlacesInv, Query
    PROVE  Orderly(Core', {}, phase' # "pop") /\ phase' # "pop"
<1>1. /\ Safe(Core) /\ Orderly(Core, {}, TRUE) /\ phase' \in {"asleep", "due"}
    BY CommandsFindOrder DEF Query, Call, Command
<1>2. Install(Core) /\ Core \in States
    BY <1>1 DEF Query, Install, Core, Safe
<1> QED BY <1>1, <1>2, CommandsSettle

LEMMA TickKeepsOrder ==
    ASSUME PlacesInv, Tick
    PROVE  Orderly(Core', {}, phase' # "pop") /\ phase' # "pop"
<1>1. /\ Safe(Core) /\ Orderly(Core, {}, TRUE) /\ cands = {} /\ phase' \in {"asleep", "due"}
    BY CommandsFindOrder DEF Tick, PlacesInv, QueueInv
<1>2. Safe(Ticked) /\ Orderly(Ticked, {}, TRUE)
    BY <1>1, TickingIsSafe, TickingKeepsOrder
<1>3. Install(Ticked)
    BY TickKeepsTheQueues DEF PlacesInv
<1> HIDE DEF Ticked
<1> QED BY <1>1, <1>2, <1>3, CommandsSettle DEF Safe

LEMMA PassesKeepOrder ==
    ASSUME PlacesInv, BeginPass \/ Rekey \/ Park \/ Pause \/ Sleep
    PROVE  Orderly(Core', {}, phase' # "pop") /\ Drowsy(Core', limits', penalty')
<1>1. /\ Safe(Core) /\ Debited(Core) /\ limits \in LimitSets /\ penalty \in [Scopes -> Nat]
      /\ UNCHANGED <<limits, penalty>> /\ phase' = "pop"
    BY DEF PlacesInv, QueueInv, BeginPass, Rekey, Park, Pause, Sleep, Considering
<1>2. CASE BeginPass
    <2> DEFINE t == CompactLanes(PromoteReservations(PromoteBlocked(PromoteDelayed(Core))))
    <2>1. phase = "due" /\ Install(t)
        BY <1>2 DEF BeginPass
    <2>2. Orderly(Core, {}, TRUE)
        BY <2>1, CommandsFindOrder
    <2>3. Mild(Core, t) /\ Orderly(t, {}, TRUE)
        BY <1>1, <2>2, BeginningAPassIsMild, BeginningKeepsOrder
    <2> HIDE DEF t
    <2>4. Orderly(t, {}, FALSE) /\ Watchful(t)
        BY <2>3 DEF Orderly
    <2>5. Drowsy(t, limits, penalty)
        BY <2>4, WatchfulIsDrowsy
    <2> QED BY <1>1, <2>1, <2>3, <2>4, <2>5, PassesSettle DEF Mild, Safe
<1>3. ASSUME phase = "pop"
      PROVE  Orderly(Core, {}, FALSE) /\ Drowsy(Core, limits, penalty)
    <2>1. (phase # "pop") = FALSE
        BY <1>3
    <2> QED BY <1>3, <2>1 DEF PlacesInv
<1>4. CASE Rekey
    <2> DEFINE t == Rekeyed(Popped, Top.ref)
    <2>1. /\ phase = "pop" /\ cands # {} /\ Grantable(Popped) = {} /\ Install(t)
        BY <1>4 DEF Rekey
    <2>2. Mild(Core, t) /\ Orderly(t, {}, FALSE) /\ Drowsy(t, limits, penalty)
        BY <1>1, <1>3, <2>1, RekeyingIsMild, RekeyingKeepsOrder, RekeyStaysDrowsy
    <2> HIDE DEF t
    <2> QED BY <1>1, <2>1, <2>2, PassesSettle DEF Mild, Safe
<1>5. ASSUME Considering
      PROVE  /\ cands # {} /\ Grantable(Popped) # {}
             /\ Orderly(Core, {}, FALSE) /\ Drowsy(Core, limits, penalty)
    BY <1>3, <1>5 DEF Considering
<1>6. CASE Park
    <2> DEFINE t == [Selected EXCEPT !.hold[FirstOf(Reserving(Selected))].queue =
                         Append(@, Top.ref)]
    <2>1. Considering /\ Reserving(Selected) # {} /\ Install(t)
        BY <1>6 DEF Park
    <2>2. Mild(Core, t)
        BY <1>1, <1>5, <2>1, ParkingIsMild
    <2>3. Orderly(t, {}, FALSE)
        BY <1>1, <1>5, <2>1, ParkingKeepsOrder
    <2>4. Drowsy(t, limits, penalty)
        BY <1>1, <1>5, <2>1, ParkStaysDrowsy
    <2> HIDE DEF t
    <2> QED BY <1>1, <2>1, <2>2, <2>3, <2>4, PassesSettle DEF Mild, Safe
<1>7. CASE Pause
    <2> DEFINE t == Block(ReleasePreviousReservation(Selected, NoWindow), Top.ref, 0, TRUE)
    <2>1. Considering /\ Paused /\ Install(t)
        BY <1>7 DEF Pause
    <2>2. Mild(Core, t)
        BY <1>1, <1>5, <2>1, PausingIsMild
    <2>3. Orderly(t, {}, FALSE) /\ Drowsy(t, limits, penalty)
        BY <1>1, <1>5, <2>1, PausingKeepsOrder
    <2> HIDE DEF t
    <2> QED BY <1>1, <2>1, <2>2, <2>3, PassesSettle DEF Mild, Safe
<1>8. CASE Sleep
    <2> DEFINE until == Until(Selected)
               window == IF Short(Selected) = {} THEN NoWindow ELSE FirstOf(Short(Selected))
               t == Block(Reserved(ReleasePreviousReservation(Selected, window), window, until),
                          Top.ref, until, FALSE)
    <2>1. Considering /\ ~Paused /\ Until(Selected) > 0 /\ Install(t)
        BY <1>8 DEF Sleep
    <2>2. Mild(Core, t)
        BY <1>1, <1>5, <2>1, SleepingIsMild
    <2>3. Orderly(t, {}, FALSE) /\ Drowsy(t, limits, penalty)
        BY <1>1, <1>5, <2>1, SleepingKeepsOrder
    <2> HIDE DEF t
    <2> QED BY <1>1, <2>1, <2>2, <2>3, PassesSettle DEF Mild, Safe
<1> QED BY <1>2, <1>4, <1>6, <1>7, <1>8

LEMMA GrantKeepsOrder ==
    ASSUME PlacesInv, Grant
    PROVE  Orderly(Core', {}, phase' # "pop") /\ Drowsy(Core', limits', penalty')
<1> DEFINE t == RearmReservations(Granted(Selected, Candidate))
<1>1. /\ Safe(Core) /\ Debited(Core) /\ limits \in LimitSets /\ penalty \in [Scopes -> Nat]
      /\ UNCHANGED <<limits, penalty>> /\ phase' = "pop" /\ phase = "pop"
      /\ cands # {} /\ Grantable(Popped) # {} /\ ~Paused /\ Until(Selected) = 0 /\ Install(t)
    BY DEF PlacesInv, QueueInv, Grant, Considering
<1>2. (phase # "pop") = FALSE
    BY <1>1
<1>3. Orderly(Core, {}, FALSE) /\ Drowsy(Core, limits, penalty)
    BY <1>1, <1>2 DEF PlacesInv
<1>4. Orderly(t, {}, FALSE) /\ Drowsy(t, limits, penalty)
    BY <1>1, <1>3, GrantingKeepsOrder
<1>5. Safe(t)
    BY <1>1, GrantingIsSafe
<1> HIDE DEF t
<1> QED BY <1>1, <1>4, <1>5, PassesSettle DEF Safe

\* The last step of a pass: no candidate is left, blocked or not.
LEMMA EndsKeepOrder ==
    ASSUME PlacesInv, EndPass
    PROVE  Orderly(Core', {}, phase' # "pop") /\ phase' # "pop"
<1> DEFINE t == CompactReservations(Core)
<1>1. /\ Safe(Core) /\ phase = "pop" /\ cands = {} /\ phase' \in {"asleep", "due"} /\ Install(t)
    BY DEF PlacesInv, QueueInv, EndPass
<1>2. (phase # "pop") = FALSE
    BY <1>1
<1>3. Orderly(Core, {}, FALSE) /\ Watchful(Core)
    BY <1>1, <1>2 DEF PlacesInv, Watchful, Core
<1>4. Orderly(Core, {}, TRUE)
    BY <1>3 DEF Orderly
<1>5. Calm(Core, t) /\ Orderly(t, {}, TRUE)
    BY <1>1, <1>4, CompactingReservationsIsCalm, CompactingReservationsKeepsOrder
<1> HIDE DEF t
<1>6. t \in States
    BY <1>1, <1>5, CalmChangesAreSafe DEF Safe
<1> QED BY <1>1, <1>5, <1>6, CommandsSettle

-----------------------------------------------------------------------------
(* The debits.                                                             *)

LEMMA DebtorsAreKnown ==
    ASSUME PlacesInv, NEW w \in Windows, NEW j \in ledger[w]
    PROVE  j \in JobIds /\ Known(Core, j) /\ job[j].st # "none" /\ job[j].spent
<1>1. Core.ledger \in [Windows -> SUBSET JobIds] /\ Core.ledger = ledger /\ Core.job = job
    BY FieldsOfStates DEF PlacesInv, QueueInv, Safe, Core
<1>2. j \in JobIds /\ Known(Core, j)
    BY <1>1 DEF PlacesInv, QueueInv, Debited
<1> QED BY <1>1, <1>2 DEF Known, PlacesInv, SpentInv

LEMMA BooksKeepTheSpent ==
    ASSUME PlacesInv, BooksStand \/ BooksCarried \/ \E j \in JobIds : BooksCredited(j)
    PROVE  SpentInv'
<1> SUFFICES ASSUME NEW w \in Windows, NEW i \in ledger'[w] PROVE job'[i].spent
    BY DEF SpentInv
<1>1. CASE BooksStand
    <2>1. i \in JobIds /\ job[i].st # "none" /\ job[i].spent
        BY <1>1, DebtorsAreKnown DEF BooksStand
    <2> QED BY <1>1, <2>1 DEF BooksStand, JobsStand
<1>2. CASE BooksCarried
    <2>1. i \in JobIds /\ job[i].st # "none" /\ job[i].spent
        BY <1>2, DebtorsAreKnown DEF BooksCarried, Carried
    <2> QED BY <1>2, <2>1 DEF BooksCarried, JobsStand
<1>3. ASSUME NEW j \in JobIds, BooksCredited(j) PROVE job'[i].spent
    <2>1. i \in JobIds /\ job[i].st # "none" /\ job[i].spent /\ i # j
        BY <1>3, DebtorsAreKnown DEF BooksCredited
    <2> QED BY <1>3, <2>1 DEF BooksCredited, JobsStand
<1> QED BY <1>1, <1>2, <1>3

LEMMA GrantKeepsTheSpent ==
    ASSUME PlacesInv, Grant
    PROVE  SpentInv'
<1> DEFINE c == Candidate
<1>1. /\ c \in JobIds /\ Waiting(Core, c) /\ ledger' = Charged(Core, c)
      /\ job' = [job EXCEPT ![c] = GrantedJob(job[c])]
    BY GrantKeepsTheQueues DEF PlacesInv
<1>2. Core \in States /\ job \in [JobIds -> JobRecords] /\ Core.job = job /\ Core.ledger = ledger
    BY FieldsOfStates DEF PlacesInv, QueueInv, Safe, Core
<1> HIDE DEF c
<1>3. job'[c].spent /\ \A i \in JobIds \ {c} : job'[i] = job[i]
    <2>1. job'[c] = GrantedJob(job[c]) /\ \A i \in JobIds \ {c} : job'[i] = job[i]
        BY <1>1, <1>2
    <2>2. Known(Core, c)
        BY <1>1 DEF Known, Waiting
    <2>3. LET r == GrantedJob(Core.job[c]) IN
          /\ r \in JobRecords /\ r.st = "granted" /\ r.meta = Core.job[c].meta
          /\ r.seq = Core.job[c].seq /\ r.ago = Core.job[c].ago /\ r.spent = TRUE
        BY <1>1, <1>2, <2>2, GrantedJobs
    <2> QED BY <1>2, <2>1, <2>3
<1> SUFFICES ASSUME NEW w \in Windows, NEW i \in ledger'[w] PROVE job'[i].spent
    BY DEF SpentInv
<1>4. i = c \/ i \in ledger[w]
    BY <1>1, <1>2 DEF Charged
<1>5. i \in ledger[w] => i \in JobIds /\ job[i].spent
    BY DebtorsAreKnown
<1> QED BY <1>3, <1>4, <1>5

LEMMA TickKeepsTheSpent ==
    ASSUME PlacesInv, Tick
    PROVE  SpentInv'
<1> SUFFICES ASSUME NEW w \in Windows, NEW i \in ledger'[w] PROVE job'[i].spent
    BY DEF SpentInv
<1>1. i \in ledger[w]
    BY DEF Tick
<1>2. i \in JobIds /\ job[i].st # "none" /\ job[i].spent
    BY <1>1, DebtorsAreKnown
<1>3. job[i] \in JobRecords
    BY <1>2, FieldsOfStates DEF PlacesInv, QueueInv, Safe, Core
<1>4. job'[i] = Aged(job[i])
    BY <1>2 DEF Tick
<1> QED BY <1>2, <1>3, <1>4, AgedJobs

LEMMA InitKeepsThePlaces ==
    ASSUME Init
    PROVE  PlacesInv
<1>1. QueueInv
    BY InitKeepsTheQueues
<1>2. \A j \in JobIds : ~Waiting(Core, j)
    BY DEF Init, NeverUsed, Waiting, Core
<1>3. SpentInv
    BY DEF Init, SpentInv
<1>4. Tidy(Core, {}) /\ AllKept(Core, {}) /\ Undelayed(Core)
    BY <1>2 DEF Tidy, Loose, AllKept, Asks, Undelayed
<1>5. NodesAsk(Core) /\ Watchful(Core) /\ QueuedOk(Core)
    BY DEF Init, NodesAsk, Watchful, QueuedOk, Core, NewLane
<1>6. phase # "pop"
    BY DEF Init
<1> QED BY <1>1, <1>3, <1>4, <1>5, <1>6 DEF PlacesInv, Orderly

LEMMA StepsKeepThePlaces ==
    ASSUME PlacesInv, [Next]_vars
    PROVE  PlacesInv'
<1>1. QueueInv'
    BY StepsKeepTheQueues DEF PlacesInv
<1>2. ASSUME SpentInv', Orderly(Core', {}, phase' # "pop"),
             phase' = "pop" => Drowsy(Core', limits', penalty')
      PROVE  PlacesInv'
    BY <1>1, <1>2 DEF PlacesInv
<1>3. ASSUME NEW m \in Metas, NEW d \in NotBefores \cup {NotDelayed}, Enqueue(m, d)
      PROVE  PlacesInv'
    <2>1. /\ Orderly(Core', {}, phase' # "pop") /\ phase' # "pop" /\ ledger' = ledger
          /\ \A i \in JobIds : Known(Core, i) => job'[i].spent = job[i].spent
        BY <1>3, EnqueueKeepsOrder
    <2>2. SpentInv'
        BY <2>1, DebtorsAreKnown DEF SpentInv
    <2> QED BY <1>2, <2>1, <2>2
<1>4. ASSUME NEW j \in JobIds, Cancel(j) \/ Start(j) \/ Complete(j) \/ CompleteNoRequest(j)
      PROVE  PlacesInv'
    <2>1. Orderly(Core', {}, phase' # "pop") /\ phase' # "pop"
        BY <1>4, CommandsKeepOrder
    <2>2. BooksStand \/ BooksCredited(j)
        BY <1>4, CommandsKeepTheQueues DEF PlacesInv
    <2>3. SpentInv'
        BY <2>2, BooksKeepTheSpent
    <2> QED BY <1>2, <2>1, <2>3
<1>5. ASSUME NEW c \in Scopes, NEW d \in RetryAfters,
             Penalize(c, d) \/ \E j \in JobIds : CompleteRetryAfter(j, c, d)
      PROVE  PlacesInv'
    <2>1. Orderly(Core', {}, phase' # "pop") /\ phase' # "pop"
        BY <1>5, FreezesKeepOrder
    <2>2. SpentInv'
        BY <1>5, FreezesKeepTheQueues, BooksKeepTheSpent DEF PlacesInv
    <2> QED BY <1>2, <2>1, <2>2
<1>6. ASSUME NEW new \in LimitSets, SetLimits(new) \/ SetClassLimits(new)
      PROVE  PlacesInv'
    <2>1. Orderly(Core', {}, phase' # "pop") /\ phase' # "pop"
        BY <1>6, NewLimitsKeepOrder
    <2>2. SpentInv'
        BY <1>6, NewLimitsKeepTheQueues, BooksKeepTheSpent DEF PlacesInv
    <2> QED BY <1>2, <2>1, <2>2
<1>7. CASE Query
    <2>1. Orderly(Core', {}, phase' # "pop") /\ phase' # "pop"
        BY <1>7, QueriesKeepOrder
    <2>2. SpentInv'
        BY <1>7, QueriesKeepTheQueues, BooksKeepTheSpent DEF PlacesInv
    <2> QED BY <1>2, <2>1, <2>2
<1>8. CASE BeginPass \/ Rekey \/ Park \/ Pause \/ Sleep
    <2>1. Orderly(Core', {}, phase' # "pop") /\ Drowsy(Core', limits', penalty')
        BY <1>8, PassesKeepOrder
    <2>2. SpentInv'
        BY <1>8, PassesKeepTheQueues, BooksKeepTheSpent DEF PlacesInv
    <2> QED BY <1>2, <2>1, <2>2
<1>9. CASE Grant
    <2>1. Orderly(Core', {}, phase' # "pop") /\ Drowsy(Core', limits', penalty')
        BY <1>9, GrantKeepsOrder
    <2>2. SpentInv'
        BY <1>9, GrantKeepsTheSpent
    <2> QED BY <1>2, <2>1, <2>2
<1>10. CASE EndPass
    <2>1. Orderly(Core', {}, phase' # "pop") /\ phase' # "pop"
        BY <1>10, EndsKeepOrder
    <2>2. SpentInv'
        BY <1>10, PassesKeepTheQueues, BooksKeepTheSpent DEF PlacesInv
    <2> QED BY <1>2, <2>1, <2>2
<1>11. CASE Tick
    <2>1. Orderly(Core', {}, phase' # "pop") /\ phase' # "pop"
        BY <1>11, TickKeepsOrder
    <2>2. SpentInv'
        BY <1>11, TickKeepsTheSpent
    <2> QED BY <1>2, <2>1, <2>2
<1>12. CASE UNCHANGED vars
    <2>1. /\ Core' = Core /\ phase' = phase /\ limits' = limits /\ penalty' = penalty
          /\ ledger' = ledger /\ job' = job
        BY <1>12 DEF vars, Core
    <2>2. SpentInv'
        BY <2>1 DEF SpentInv, PlacesInv
    <2>3. /\ Orderly(Core', {}, phase' # "pop")
          /\ phase' = "pop" => Drowsy(Core', limits', penalty')
        BY <2>1 DEF PlacesInv
    <2> QED BY <1>2, <2>2, <2>3
<1> QED BY <1>3, <1>4, <1>5, <1>6, <1>7, <1>8, <1>9, <1>10, <1>11, <1>12 DEF Next, Pass

-----------------------------------------------------------------------------
\* Theorems

\* Every reference to a pending job is in its place in every reachable state: a
\* job without a lane is delayed, in the heap, blocked or parked, in one of them
\* only; no node of `blocked` outlives its jobs; a lane's key is not lost.
THEOREM PlacesAgree == Spec => []PlacesInv
<1>1. Init => PlacesInv
    BY InitKeepsThePlaces
<1>2. PlacesInv /\ [Next]_vars => PlacesInv'
    BY StepsKeepThePlaces
<1> QED BY <1>1, <1>2, PTL DEF Spec

\* The state keeps its types, and its entries name what is alive: a key of the
\* heap a lane or a waiting job, a node of `blocked` a job that waits or a lane
\* of one, a debit a job that was granted and not refunded.
THEOREM StateIsTyped == Spec => []TypeOK
<1>1. PlacesInv => TypeOK
    <2> SUFFICES ASSUME PlacesInv PROVE TypeOK
        OBVIOUS
    <2>1. /\ Safe(Core) /\ Core \in States /\ Numbered(Core, nextJob)
          /\ nextJob \in Nat /\ \A j \in JobIds : j \in Nat
        BY Sizes DEF PlacesInv, QueueInv, Safe, JobIds
    <2>2. /\ Core.job = job /\ Core.lane = lane /\ Core.cands = cands
          /\ Core.blocked = blocked /\ Core.hold = hold
        BY DEF Core
    <2>3. /\ job \in [JobIds -> JobRecords] /\ lane \in [Lanes -> LaneRecords]
          /\ blocked \subseteq Nodes /\ hold \in [Windows -> HoldRecords]
        BY <2>1, <2>2, FieldsOfStates
    <2>4. ASSUME NEW j \in JobIds
          PROVE  job[j] \in JobRecords /\ (job[j] = NeverUsed <=> j >= nextJob)
        <3>1. Known(Core, j) <=> j < nextJob
            BY <2>1 DEF Numbered
        <3>2. job[j] \in JobRecords
            BY <2>3
        <3>3. Known(Core, j) <=> job[j] # NeverUsed
            BY <2>2, <3>2 DEF Known, NeverUsed, JobRecords
        <3> QED BY <2>1, <3>1, <3>2, <3>3
    <2>5. ASSUME NEW l \in Lanes
          PROVE  /\ lane[l].pending \subseteq JobIds /\ lane[l].count \in Nat
                 /\ lane[l].holder \in JobIds \cup {NoJob} /\ lane[l].queued \in BOOLEAN
        <3>1. lane[l] \in LaneRecords
            BY <2>3
        <3> QED BY <3>1 DEF LaneRecords
    <2>6. \A k \in cands : k.ref \in Lanes \/ Waiting(Core, k.ref)
        BY <2>1, <2>2 DEF Safe, KeysOk, KeyOk
    <2>7. ASSUME NEW n \in blocked PROVE Alive(Core, n.ref) /\ n.in \in Nat
        <3>1. RefOk(Core, n.ref) /\ Asks(Core, n.ref)
            BY <2>1, <2>2 DEF Safe, RefsOk, PlacesInv, Orderly, NodesAsk
        <3>2. n \in Nodes
            BY <2>3
        <3> QED BY <2>1, <3>1, <3>2, AskingIsAlive DEF Nodes
    <2>8. ASSUME NEW w \in Windows
          PROVE  /\ Range(hold[w].queue) \subseteq JobIds \cup Lanes
                 /\ hold[w].in \in Nat /\ hold[w].stale \in Nat
                 /\ \A j \in ledger[w] : job[j].spent
        <3>1. hold[w] \in HoldRecords
            BY <2>3
        <3>2. \A i \in DOMAIN hold[w].queue : RefOk(Core, hold[w].queue[i])
            BY <2>1, <2>2 DEF Safe, RefsOk
        <3> QED BY <3>1, <3>2 DEF HoldRecords, RefOk, Range, PlacesInv, SpentInv
    <2>9. /\ limits \in LimitSets /\ penalty \in [Scopes -> Nat]
          /\ phase \in {"asleep", "due", "pop"}
        BY DEF PlacesInv, QueueInv
    <2> QED BY <2>4, <2>5, <2>6, <2>7, <2>8, <2>9 DEF TypeOK
<1> QED BY <1>1, PlacesAgree, PTL

-----------------------------------------------------------------------------
(* The owners of reservations.  A loose owner is never asleep for longer   *)
(* than it holds its window, so a window that is free for others finds it  *)
(* among the candidates, unless it is parked behind another reservation.   *)

\* Job i holds window w.
Owns(s, i, w) ==
    /\ Loose(s, i) /\ s.job[i].owns = w
    /\ s.hold[w].on /\ s.hold[w].owner = i

\* The job is not delayed, and its deadline is one, that the hold outlasts.  In
\* an admission pass (b) no deadline is over.
Bides(s, i, w, b) ==
    /\ ~Delayed(s, i)
    /\ \A n \in s.blocked : n.ref = i =>
            ~n.permanent /\ n.in <= s.hold[w].in /\ (b => n.in > 0)

OwnersBide(s, b) ==
    \A i \in JobIds : \A w \in Windows : Owns(s, i, w) => Bides(s, i, w, b)

Owning(s, i) == Waiting(s, i) /\ s.job[i].owns # NoWindow

\* The owners of t are owners of s that have come no nearer to a delay or a
\* deadline, and their holds are those of s.
Eased(s, t) ==
    /\ \A i \in JobIds : Owning(t, i) =>
            /\ Owning(s, i) /\ t.job[i].owns = s.job[i].owns /\ t.job[i].meta = s.job[i].meta
            /\ Delayed(t, i) => Delayed(s, i)
    /\ \A n \in t.blocked : n.ref \in JobIds /\ Owning(t, n.ref) => n \in s.blocked
    /\ \A w \in Windows : t.hold[w].on =>
            s.hold[w].on /\ t.hold[w].owner = s.hold[w].owner /\ t.hold[w].in = s.hold[w].in

LEMMA WindowsAreNotNone == NoWindow \notin Windows
BY DEF NoWindow, Windows

LEMMA EasingKeepsOwners ==
    ASSUME NEW s, NEW t, NEW b, Eased(s, t), OwnersBide(s, b)
    PROVE  OwnersBide(t, b)
<1> SUFFICES ASSUME NEW i \in JobIds, NEW w \in Windows, Owns(t, i, w)
             PROVE  Bides(t, i, w, b)
    BY DEF OwnersBide
<1>1. Owning(t, i) /\ t.hold[w].on
    BY WindowsAreNotNone DEF Owns, Loose, Owning
<1>2. /\ Owning(s, i) /\ t.job[i].owns = s.job[i].owns /\ t.job[i].meta = s.job[i].meta
      /\ Delayed(t, i) => Delayed(s, i)
      /\ s.hold[w].on /\ t.hold[w].owner = s.hold[w].owner /\ t.hold[w].in = s.hold[w].in
    BY <1>1 DEF Eased
<1>3. Bides(s, i, w, b)
    BY <1>2 DEF OwnersBide, Owns, Loose, Owning
<1>4. \A n \in t.blocked : n.ref = i => n \in s.blocked
    BY <1>1 DEF Eased
<1> QED BY <1>2, <1>3, <1>4 DEF Bides

LEMMA EasingIsTransitive ==
    ASSUME NEW s, NEW u, NEW t, Eased(s, u), Eased(u, t)
    PROVE  Eased(s, t)
<1>1. \A i \in JobIds : Owning(t, i) =>
            /\ Owning(u, i) /\ Owning(s, i)
            /\ t.job[i].owns = s.job[i].owns /\ t.job[i].meta = s.job[i].meta
            /\ Delayed(t, i) => Delayed(s, i)
    BY DEF Eased
<1>2. ASSUME NEW n \in t.blocked, n.ref \in JobIds, Owning(t, n.ref)
      PROVE  n \in s.blocked
    <2>1. n \in u.blocked /\ Owning(u, n.ref)
        BY <1>1, <1>2 DEF Eased
    <2> QED BY <2>1, <1>2 DEF Eased
<1>3. \A w \in Windows : t.hold[w].on =>
            s.hold[w].on /\ t.hold[w].owner = s.hold[w].owner /\ t.hold[w].in = s.hold[w].in
    BY DEF Eased
<1> QED BY <1>1, <1>2, <1>3 DEF Eased

\* Owners that stay as they are, nodes that only go.
LEMMA UnmovedIsEased ==
    ASSUME NEW s, NEW t, \A j \in JobIds : Owning(t, j) => t.job[j] = s.job[j],
           \A n \in t.blocked : n.ref \in JobIds => n \in s.blocked,
           \A w \in Windows : t.hold[w].on =>
                s.hold[w].on /\ t.hold[w].owner = s.hold[w].owner
                /\ t.hold[w].in = s.hold[w].in
    PROVE  Eased(s, t)
BY DEF Eased, Owning, Waiting, Delayed

LEMMA PushingEases ==
    ASSUME NEW s, NEW t, NEW refs, Pushed(s, t, refs)
    PROVE  Eased(s, t)
<1>1. t.job = s.job /\ t.hold = s.hold /\ t.blocked = s.blocked
    BY DEF Pushed
<1> QED BY <1>1, UnmovedIsEased

LEMMA WakingEases ==
    ASSUME NEW s, Safe(s), NEW A \in SUBSET Refs, \A ref \in A : RefOk(s, ref)
    PROVE  Eased(s, PushAll(Unblock(s, A), A))
<1> DEFINE u == Unblock(s, A)
<1>1. u = [s EXCEPT !.blocked = {n \in s.blocked : n.ref \notin A}] /\ Calm(s, u)
    BY UnblockIsCalm
<1>2. s \in States /\ Safe(u)
    BY <1>1, CalmChangesAreSafe DEF Safe
<1>3. u.job = s.job /\ u.hold = s.hold /\ u.blocked = {n \in s.blocked : n.ref \notin A}
    BY <1>1, <1>2 DEF States
<1> HIDE DEF u
<1>4. Eased(s, u)
    BY <1>3, UnmovedIsEased
<1>5. \A ref \in A : RefOk(u, ref)
    BY <1>3 DEF RefOk, Known
<1>6. Eased(u, PushAll(u, A))
    BY <1>2, <1>5, PushingIsMild, PushingEases
<1>7. Eased(s, PushAll(u, A))
    BY <1>4, <1>6, EasingIsTransitive
<1> QED BY <1>7 DEF u

LEMMA ReleasingEases ==
    ASSUME NEW s, Safe(s), NEW w \in Windows \cup {NoWindow}, NEW owner
    PROVE  Eased(s, ReleaseReservation(s, w, owner))
<1> DEFINE t == ReleaseReservation(s, w, owner)
           c == [s EXCEPT !.hold[w] = NoHold]
<1>1. \/ t = s
      \/ w \in Windows /\ Pushed(c, t, Range(s.hold[w].queue))
    BY ReleasesPush
<1>2. CASE t = s
    BY <1>2, UnmovedIsEased
<1>3. CASE w \in Windows /\ Pushed(c, t, Range(s.hold[w].queue))
    <2>1. s \in States /\ NoHold \in HoldRecords
        BY NoHoldIsAHold DEF Safe
    <2>2. /\ c.hold[w] = NoHold /\ \A v \in Windows \ {w} : c.hold[v] = s.hold[v]
        BY <2>1, <1>3, StateWithHold
    <2>3. c.job = s.job /\ c.blocked = s.blocked
        BY <2>1 DEF States
    <2> HIDE DEF c, t
    <2>4. Eased(s, c)
        BY <2>2, <2>3, UnmovedIsEased DEF NoHold
    <2> QED BY <2>4, <1>3, PushingEases, EasingIsTransitive DEF t
<1> QED BY <1>1, <1>2, <1>3

LEMMA RemovingEases ==
    ASSUME NEW s, Safe(s), NEW j \in JobIds, Waiting(s, j)
    PROVE  Eased(s, RemoveWaiting(s, j))
<1> DEFINE l == s.job[j].meta.lane
           c == Counted(s, j)
           r == Released(s, j)
           d == Dead(r, j)
           t == RemoveWaiting(s, j)
<1>1. /\ Safe(c) /\ c.job = s.job /\ c.blocked = s.blocked
      /\ \A w \in Windows : /\ c.hold[w].on = s.hold[w].on
                            /\ c.hold[w].owner = s.hold[w].owner
                            /\ c.hold[w].in = s.hold[w].in
    BY CountedIsCalm, CalmChangesAreSafe
<1>2. s.job[j].owns \in Windows \cup {NoWindow} /\ l \in Lanes \cup {NoLane}
    BY WaitingJobs
<1>3. Eased(s, c)
    <2> HIDE DEF c
    <2> QED BY <1>1, UnmovedIsEased
<1>4. Eased(c, r)
    BY <1>1, <1>2, ReleasingEases DEF Released
<1>5. /\ r.job = s.job /\ Safe(r) /\ Waiting(r, j)
      /\ t = IF l = NoLane THEN d ELSE RewakeLane(d, l)
    BY RemoveWaitingIs DEF Waiting
<1>6. /\ Safe(d) /\ d.job[j].st = "cancelled"
      /\ \A i \in JobIds \ {j} : d.job[i] = r.job[i]
      /\ d.hold = r.hold /\ d.blocked = {n \in r.blocked : n.ref # j}
    <2>1. Safe(r) /\ Waiting(r, j)
        BY <1>5
    <2> HIDE DEF l, c, r, t
    <2>2. /\ Safe(d)
          /\ d.job = [r.job EXCEPT ![j] = Corpse(r.job[j])]
          /\ d.job[j].st = "cancelled" /\ d.job[j].meta = r.job[j].meta
          /\ d.job[j].seq = r.job[j].seq
          /\ \A i \in JobIds \ {j} : d.job[i] = r.job[i]
          /\ d.lane = r.lane /\ d.hold = r.hold /\ d.ledger = r.ledger
          /\ d.blocked = {n \in r.blocked : n.ref # j}
          /\ d.cands = {k \in r.cands : k.ref # j}
        BY <2>1, DeadIsSafe
    <2> HIDE DEF d
    <2> QED BY <2>2
<1>7. Eased(r, d)
    <2> HIDE DEF r, d
    <2>1. \A i \in JobIds : Owning(d, i) => d.job[i] = r.job[i]
        BY <1>6 DEF Waiting, Owning
    <2> QED BY <2>1, <1>6, UnmovedIsEased
<1>8. Eased(d, t)
    <2>1. CASE l = NoLane
        BY <2>1, <1>5, UnmovedIsEased
    <2>2. CASE l # NoLane
        <3>1. l \in Lanes /\ t = RewakeLane(d, l)
            BY <2>2, <1>2, <1>5
        <3> HIDE DEF l, d, t
        <3>2. /\ RewakeLane(d, l).job = d.job /\ RewakeLane(d, l).hold = d.hold
              /\ \A n \in RewakeLane(d, l).blocked : n \in d.blocked \/ n.ref = l
            BY <3>1, <1>6, RewakeIsCalm
        <3>3. \A n \in t.blocked : n.ref \in JobIds => n \in d.blocked
            BY <3>1, <3>2, NoJobIsALane
        <3> QED BY <3>1, <3>2, <3>3, UnmovedIsEased
    <2> QED BY <2>1, <2>2
<1> HIDE DEF c, r, d, t
<1>9. Eased(s, r)
    BY <1>3, <1>4, EasingIsTransitive
<1>10. Eased(s, d)
    BY <1>7, <1>9, EasingIsTransitive
<1>11. Eased(s, t)
    BY <1>8, <1>10, EasingIsTransitive
<1> QED BY <1>11 DEF t

LEMMA InsertingEases ==
    ASSUME NEW s, Safe(s), NEW j \in JobIds, ~Known(s, j), NEW r \in UsedRecords,
           r.st = "waiting", r.owns = NoWindow, NEW old,
           \A i \in JobIds : Known(s, i) /\ s.job[i].seq = r.seq
               => s.job[i].meta.lane = r.meta.lane /\ ~Waiting(s, i)
    PROVE  Eased(s, Inserted(s, j, r, old))
<1> DEFINE p == Placed(s, j, r, old)
           l == r.meta.lane
           t == Inserted(s, j, r, old)
<1>1. /\ p.job[j] = r /\ \A i \in JobIds \ {j} : p.job[i] = s.job[i]
      /\ p.blocked = s.blocked /\ p.hold = s.hold
    <2>1. /\ Safe(p) /\ p.job[j] = r /\ \A i \in JobIds \ {j} : p.job[i] = s.job[i]
          /\ p.cands = s.cands /\ p.blocked = s.blocked /\ p.hold = s.hold
          /\ p.ledger = s.ledger
          /\ \A m \in Lanes \ {l} : p.lane[m] = s.lane[m]
          /\ l # NoLane => p.lane[l] = Entered(s, j, r, old)
        BY PlacedIsSafe
    <2> HIDE DEF p
    <2> QED BY <2>1
<1>2. \/ l # NoLane /\ Pushed(p, t, {l})
      \/ l = NoLane /\ r.delay = NotDelayed /\ Pushed(p, t, {j})
      \/ l = NoLane /\ r.delay # NotDelayed /\ t = p
    BY InsertionsPush
<1> HIDE DEF p, t
<1>3. Eased(s, p)
    <2>1. \A i \in JobIds : Owning(p, i) => p.job[i] = s.job[i]
        BY <1>1 DEF Owning
    <2> QED BY <2>1, <1>1, UnmovedIsEased
<1>4. Eased(p, t)
    BY <1>2, PushingEases, UnmovedIsEased
<1>5. Eased(s, t)
    BY <1>3, <1>4, EasingIsTransitive
<1> QED BY <1>5 DEF t

LEMMA VacatingEases ==
    ASSUME NEW s, Safe(s), NEW l \in Lanes
    PROVE  Eased(s, Vacated(s, l)) /\ Eased(s, RemoveIdle(s, l)) /\ Eased(s, PushLane(s, l))
<1>1. Eased(s, PushLane(s, l))
    BY PushingALaneIsMild, PushingEases
<1>2. Eased(s, RemoveIdle(s, l))
    BY RemovingIdleIsCalm, UnmovedIsEased
<1> QED BY <1>1, <1>2 DEF Vacated

LEMMA UnlockingEases ==
    ASSUME NEW s, Safe(s), NEW j \in JobIds, Flying(s, j), NEW st \in {"started", "done"},
           NEW l, NEW p
    PROVE  Eased(s, Unlocked(s, j, st, l, p))
<1> DEFINE u == Unlocked(s, j, st, l, p)
           r == [s.job[j] EXCEPT !.st = st]
<1>1. s \in States /\ Known(s, j) /\ s.job \in [JobIds -> JobRecords]
    BY FieldsOfStates DEF Safe, Flying, Known
<1>2. u.job = [s.job EXCEPT ![j] = r] /\ u.blocked = s.blocked /\ u.hold = s.hold
    BY <1>1 DEF Unlocked, States
<1>3. r.st = st
    <2>1. s.job[j] \in [st : {"waiting", "granted", "started", "done", "cancelled"},
                        meta : Metas, seq : JobIds, age : 0 .. Highest * Quantum,
                        delay : {NotDelayed} \cup Nat, owns : Windows \cup {NoWindow},
                        ago : 0 .. MaxLen, spent : BOOLEAN]
        BY <1>1, FieldsOfJobs
    <2> QED BY <2>1
<1> HIDE DEF u, r
<1>4. \A i \in JobIds : Owning(u, i) => u.job[i] = s.job[i]
    BY <1>1, <1>2, <1>3 DEF Owning, Waiting
<1>5. Eased(s, u)
    BY <1>2, <1>4, UnmovedIsEased
<1> QED BY <1>5 DEF u

LEMMA StartingEases ==
    ASSUME NEW s, Safe(s), NEW j \in JobIds, s.job[j].st = "granted",
           s.job[j].meta.lane \in Lanes, s.lane[s.job[j].meta.lane].holder = j
    PROVE  LET l == s.job[j].meta.lane IN
           Eased(s, Vacated([s EXCEPT !.job[j].st = "started",
                                      !.lane[l].holder = NoJob, !.lane[l].count = 0], l))
<1> DEFINE l == s.job[j].meta.lane
           u == [s EXCEPT !.job[j].st = "started",
                          !.lane[l].holder = NoJob, !.lane[l].count = 0]
           p == [s.lane[l] EXCEPT !.holder = NoJob, !.count = 0]
<1>1. s \in States /\ s.lane \in [Lanes -> LaneRecords] /\ l \in Lanes /\ Flying(s, j)
    BY FieldsOfStates DEF Safe, Flying
<1>2. /\ p \in LaneRecords /\ p.pending = s.lane[l].pending /\ p.holder = NoJob
      /\ p.count = 0
    <2>1. s.lane[l] \in LaneRecords
        BY <1>1
    <2> QED BY <2>1 DEF LaneRecords
<1>3. u = Unlocked(s, j, "started", l, p)
    <2> HIDE DEF l
    <2> QED BY <1>1 DEF Unlocked, States
<1>4. "started" \in {"started", "done"}
    OBVIOUS
<1> HIDE DEF u, p
<1>5. Safe(u)
    <2>1. Mild(s, Unlocked(s, j, "started", s.job[j].meta.lane, p))
        BY <1>1, <1>2, <1>4, UnlockingIsMild
    <2> QED BY <2>1, <1>3 DEF Mild
<1> HIDE DEF l
<1>6. Eased(s, u)
    BY <1>1, <1>3, <1>4, UnlockingEases
<1>7. Eased(u, Vacated(u, l))
    BY <1>1, <1>5, VacatingEases
<1>8. Eased(s, Vacated(u, l))
    BY <1>6, <1>7, EasingIsTransitive
<1> QED BY <1>8 DEF u, l

LEMMA LandingEases ==
    ASSUME NEW s, Safe(s), NEW j \in JobIds, Flying(s, j)
    PROVE  Eased(s, ReleaseLane(Landed(s, j), j))
<1> DEFINE l == s.job[j].meta.lane
           t == ReleaseLane(Landed(s, j), j)
<1>1. \/ l = NoLane /\ t = Landed(s, j) /\ Mild(s, t)
      \/ /\ l \in Lanes
         /\ \E p \in LaneRecords :
               /\ Mild(s, Unlocked(s, j, "done", l, p))
               /\ p.pending = s.lane[l].pending /\ p.queued = s.lane[l].queued
               /\ \/ t = Vacated(Unlocked(s, j, "done", l, p), l)
                  \/ /\ t = RemoveIdle(Unlocked(s, j, "done", l, p), l)
                     /\ p.count = s.lane[l].count
    BY LandingUnlocks
<1> HIDE DEF l
<1>2. CASE t = Landed(s, j)
    <2> DEFINE u == Unlocked(s, j, "done", 0, 0)
    <2>1. /\ Landed(s, j).job = [s.job EXCEPT ![j] = [s.job[j] EXCEPT !.st = "done"]]
          /\ Landed(s, j).blocked = s.blocked /\ Landed(s, j).hold = s.hold
        BY LandedIs
    <2>2. /\ u.job = [s.job EXCEPT ![j] = [s.job[j] EXCEPT !.st = "done"]]
          /\ u.blocked = s.blocked /\ u.hold = s.hold
        BY DEF Unlocked, Safe, States
    <2>3. Eased(s, u)
        BY UnlockingEases
    <2> HIDE DEF u, t
    <2>4. Eased(u, Landed(s, j))
        BY <2>1, <2>2, UnmovedIsEased
    <2> QED BY <1>2, <2>3, <2>4, EasingIsTransitive DEF t
<1> HIDE DEF t
<1>3. ASSUME l \in Lanes, NEW p \in LaneRecords, Mild(s, Unlocked(s, j, "done", l, p)),
             \/ t = Vacated(Unlocked(s, j, "done", l, p), l)
             \/ t = RemoveIdle(Unlocked(s, j, "done", l, p), l)
      PROVE  Eased(s, t)
    <2> DEFINE u == Unlocked(s, j, "done", l, p)
    <2>1. Safe(u) /\ "done" \in {"started", "done"}
        BY <1>3 DEF Mild
    <2>2. Eased(s, u)
        BY <2>1, UnlockingEases
    <2> HIDE DEF u
    <2>3. Eased(u, Vacated(u, l)) /\ Eased(u, RemoveIdle(u, l))
        BY <2>1, <1>3, VacatingEases
    <2> QED BY <2>2, <2>3, <1>3, EasingIsTransitive DEF u
<1>4. Eased(s, t)
    <2>1. CASE t # Landed(s, j)
        <3>1. PICK p \in LaneRecords :
                /\ l \in Lanes /\ Mild(s, Unlocked(s, j, "done", l, p))
                /\ \/ t = Vacated(Unlocked(s, j, "done", l, p), l)
                   \/ t = RemoveIdle(Unlocked(s, j, "done", l, p), l)
            BY <2>1, <1>1
        <3> QED BY <3>1, <1>3
    <2> QED BY <2>1, <1>2 DEF t
<1> QED BY <1>4 DEF t

LEMMA RefundingEases ==
    ASSUME NEW s, Safe(s), NEW j \in JobIds, Known(s, j), ~Waiting(s, j)
    PROVE  Eased(s, Refund(s, j))
<1> DEFINE refunded == {w \in Range(WindowsOf(s.job[j].meta)) : j \in s.ledger[w]}
           c == Credited(s, j)
           r == [s.job[j] EXCEPT !.spent = FALSE]
           owners == {c.hold[w].owner : w \in {w \in refunded : c.hold[w].on}}
           asleep == {ref \in owners : IsBlocked(c, ref)}
<1>1. s \in States /\ s.job \in [JobIds -> JobRecords] /\ Known(s, j)
    BY FieldsOfStates DEF Safe
<1>2. refunded \in SUBSET Windows
    <2>1. s.job[j].meta \in Metas
        BY <1>1, FieldsOfJobs
    <2> QED BY <2>1, WindowsAreWindows
<1>3. Refund(s, j) = PushAll(Unblock(c, asleep), asleep)
    <2>1. Refund(s, j) = RearmReservationOwners(c, refunded)
        BY <1>1 DEF Refund, Credited, States
    <2> QED BY <2>1 DEF RearmReservationOwners
<1>4. Safe(c)
    BY <1>1, RefundingIsGentle
<1>5. c.job = [s.job EXCEPT ![j] = r] /\ c.blocked = s.blocked /\ c.hold = s.hold
    BY <1>1 DEF Credited, States
<1>6. r.st = s.job[j].st
    <2>1. s.job[j] \in [st : {"waiting", "granted", "started", "done", "cancelled"},
                        meta : Metas, seq : JobIds, age : 0 .. Highest * Quantum,
                        delay : {NotDelayed} \cup Nat, owns : Windows \cup {NoWindow},
                        ago : 0 .. MaxLen, spent : BOOLEAN]
        BY <1>1, FieldsOfJobs
    <2> QED BY <2>1
<1> HIDE DEF r
<1>7. \A ref \in asleep : RefOk(c, ref)
    BY <1>2, <1>4 DEF Safe, RefsOk
<1> HIDE DEF refunded, c, owners, asleep
<1>8. \A i \in JobIds : Owning(c, i) => c.job[i] = s.job[i]
    BY <1>1, <1>5, <1>6 DEF Owning, Waiting
<1>9. Eased(s, c)
    BY <1>5, <1>8, UnmovedIsEased
<1>10. asleep \in SUBSET Refs
    BY <1>7 DEF RefOk, Refs
<1>11. Eased(c, Refund(s, j))
    BY <1>3, <1>4, <1>7, <1>10, WakingEases
<1> QED BY <1>9, <1>11, EasingIsTransitive

\* New limits end all reservations.
LEMMA RearmingEndsHolds ==
    ASSUME NEW s, Safe(s), NEW b
    PROVE  OwnersBide(Rearmed(s), b)
<1> DEFINE c == Cleared(s)
           refs == Awaiting(s)
           t == PushAll(c, refs)
<1>1. /\ Rearmed(s) = t /\ Mild(s, c) /\ refs \in SUBSET Refs
      /\ \A ref \in refs : RefOk(c, ref)
      /\ c.hold = [w \in Windows |-> NoHold]
    BY ClearingIsMild
<1> HIDE DEF c, refs
<1>2. Pushed(c, t, refs)
    BY <1>1, PushingIsMild DEF Mild
<1> HIDE DEF t
<1>3. \A w \in Windows : ~t.hold[w].on
    BY <1>1, <1>2 DEF Pushed, NoHold
<1> QED BY <1>1, <1>3 DEF OwnersBide, Owns

LEMMA UndelayingEases ==
    ASSUME NEW s, Safe(s)
    PROVE  Safe(PromoteDelayed(s)) /\ Eased(s, PromoteDelayed(s))
<1> DEFINE c == Undelaying(s)
           refs == {RefOf(s, j) : j \in Due(s)}
           t == PushAll(c, refs)
<1>1. /\ PromoteDelayed(s) = t /\ Mild(s, c)
      /\ refs \in SUBSET Refs /\ \A ref \in refs : RefOk(c, ref)
      /\ c.blocked = s.blocked /\ c.hold = s.hold
      /\ \A j \in JobIds :
            IF j \in Due(s)
            THEN c.job[j].st = "waiting" /\ c.job[j].meta = s.job[j].meta
                 /\ c.job[j].delay = NotDelayed
            ELSE c.job[j] = s.job[j]
    BY UndelayingIsMild
<1>2. \A j \in Due(s) : c.job[j].owns = s.job[j].owns
    <2> SUFFICES ASSUME NEW j \in Due(s) PROVE c.job[j].owns = s.job[j].owns
        OBVIOUS
    <2>1. j \in JobIds /\ s \in States /\ Known(s, j)
        BY DEF Due, Waiting, Known, Safe
    <2>2. c.job[j] = [s.job[j] EXCEPT !.delay = NotDelayed]
        BY <2>1 DEF Undelaying, States
    <2>3. s.job[j] \in [st : {"waiting", "granted", "started", "done", "cancelled"},
                        meta : Metas, seq : JobIds, age : 0 .. Highest * Quantum,
                        delay : {NotDelayed} \cup Nat, owns : Windows \cup {NoWindow},
                        ago : 0 .. MaxLen, spent : BOOLEAN]
        BY <2>1, FieldsOfJobs
    <2> HIDE DEF c
    <2> QED BY <2>2, <2>3
<1> HIDE DEF c, refs
<1>3. \A j \in JobIds : Owning(c, j) =>
            /\ Owning(s, j) /\ c.job[j].owns = s.job[j].owns /\ c.job[j].meta = s.job[j].meta
            /\ Delayed(c, j) => Delayed(s, j)
    BY <1>1, <1>2 DEF Owning, Delayed, Due, Waiting
<1>4. Eased(s, c)
    BY <1>1, <1>3 DEF Eased
<1>5. Mild(c, t) /\ Eased(c, t)
    BY <1>1, PushingIsMild, PushingEases DEF Mild
<1> HIDE DEF t
<1> QED BY <1>1, <1>4, <1>5, EasingIsTransitive DEF Mild

\* When the deadlines that are over have been served, none is over.
LEMMA ServingDeadlinesEases ==
    ASSUME NEW s, Safe(s)
    PROVE  LET t == PromoteBlocked(s) IN
           /\ Safe(t) /\ Eased(s, t) /\ t.job = s.job
           /\ \A n \in t.blocked : n.permanent \/ n.in > 0
<1> DEFINE refs == {n.ref : n \in {n \in s.blocked : ~n.permanent /\ n.in = 0}}
           u == Unblock(s, refs)
           t == PromoteBlocked(s)
<1>1. refs \in SUBSET Refs /\ \A ref \in refs : RefOk(s, ref)
    BY DEF Safe, RefsOk, RefOk, Refs
<1>2. t = PushAll(u, refs) /\ Safe(t)
    BY PromotingBlockedIsMild DEF PromoteBlocked, Mild
<1>3. \A n \in s.blocked : n.ref \notin refs => n.permanent \/ n.in # 0
    OBVIOUS
<1> HIDE DEF refs
<1>4. Eased(s, t)
    BY <1>1, <1>2, WakingEases
<1>5. /\ u = [s EXCEPT !.blocked = {n \in s.blocked : n.ref \notin refs}] /\ Calm(s, u)
    BY UnblockIsCalm
<1>6. s \in States /\ s.blocked \subseteq Nodes /\ Safe(u)
    BY <1>5, FieldsOfStates, CalmChangesAreSafe DEF Safe
<1>7. u.blocked = {n \in s.blocked : n.ref \notin refs} /\ u.job = s.job
    BY <1>5, <1>6 DEF States
<1> HIDE DEF u, t
<1>8. \A ref \in refs : RefOk(u, ref)
    BY <1>1, <1>7 DEF RefOk, Known
<1>9. t.blocked = u.blocked /\ t.job = s.job
    BY <1>1, <1>2, <1>6, <1>7, <1>8, PushingIsMild DEF Pushed
<1>10. \A n \in t.blocked : n.permanent \/ n.in > 0
    BY <1>3, <1>6, <1>7, <1>9 DEF Nodes
<1> QED BY <1>2, <1>4, <1>9, <1>10 DEF t

LEMMA ReopeningEases ==
    ASSUME NEW s, Safe(s)
    PROVE  Safe(PromoteReservations(s)) /\ Eased(s, PromoteReservations(s))
<1> DEFINE c == Reopened(s)
           refs == Woken(s)
           t == PushAll(c, refs)
<1>1. /\ PromoteReservations(s) = t /\ Mild(s, c)
      /\ refs \in SUBSET Refs /\ \A ref \in refs : RefOk(c, ref)
      /\ c.job = s.job /\ c.blocked = s.blocked /\ c.hold = HoldsBehind(s)
      /\ \A w \in Waking(s) : FirstEntry(s, w) \in LiveEntries(s, w)
    BY ReopeningIsMild
<1>2. ASSUME NEW w \in Windows, c.hold[w].on
      PROVE  s.hold[w].on /\ c.hold[w].owner = s.hold[w].owner /\ c.hold[w].in = s.hold[w].in
    <2> HIDE DEF c
    <2>1. CASE w \in Waking(s)
        <3>1. c.hold[w] = Behind(s.hold[w], FirstEntry(s, w))
            BY <1>1, <2>1 DEF HoldsBehind
        <3>2. FirstEntry(s, w) \in DOMAIN s.hold[w].queue
            BY <1>1, <2>1 DEF LiveEntries
        <3>3. /\ Behind(s.hold[w], FirstEntry(s, w)).owner = s.hold[w].owner
              /\ Behind(s.hold[w], FirstEntry(s, w)).in = s.hold[w].in
              /\ Behind(s.hold[w], FirstEntry(s, w)).on = s.hold[w].on
            BY <3>2, QueueBehind
        <3> QED BY <1>2, <3>1, <3>3
    <2>2. CASE w \notin Waking(s) /\ w \in Expired(s)
        BY <1>1, <1>2, <2>2 DEF HoldsBehind, NoHold
    <2>3. CASE w \notin Waking(s) /\ w \notin Expired(s)
        BY <1>1, <1>2, <2>3 DEF HoldsBehind
    <2> QED BY <2>1, <2>2, <2>3
<1> HIDE DEF c, refs
<1>3. Eased(s, c)
    BY <1>1, <1>2, UnmovedIsEased
<1>4. Mild(c, t) /\ Eased(c, t)
    BY <1>1, PushingIsMild, PushingEases DEF Mild
<1> HIDE DEF t
<1> QED BY <1>1, <1>3, <1>4, EasingIsTransitive DEF Mild

LEMMA BeginningKeepsOwners ==
    ASSUME NEW s, Safe(s), OwnersBide(s, FALSE)
    PROVE  OwnersBide(CompactLanes(PromoteReservations(PromoteBlocked(PromoteDelayed(s)))),
                      TRUE)
<1> DEFINE d == PromoteDelayed(s)
           e == PromoteBlocked(d)
           f == PromoteReservations(e)
           t == CompactLanes(f)
<1>1. Safe(d) /\ Eased(s, d)
    BY UndelayingEases
<1> HIDE DEF d
<1>2. Safe(e) /\ Eased(d, e) /\ \A n \in e.blocked : n.permanent \/ n.in > 0
    BY <1>1, ServingDeadlinesEases
<1> HIDE DEF e
<1>3. OwnersBide(e, TRUE)
    <2>1. OwnersBide(e, FALSE)
        BY <1>1, <1>2, EasingKeepsOwners
    <2> QED BY <2>1, <1>2 DEF OwnersBide, Bides
<1>4. Safe(f) /\ Eased(e, f)
    BY <1>2, ReopeningEases
<1> HIDE DEF f
<1>5. t.job = f.job /\ t.hold = f.hold /\ t.blocked = f.blocked
    BY <1>4, CompactingLanesIsCalm
<1> HIDE DEF t
<1>6. Eased(f, t)
    BY <1>5, UnmovedIsEased
<1>7. OwnersBide(t, TRUE)
    BY <1>3, <1>4, <1>6, EasingKeepsOwners
<1> QED BY <1>7 DEF d, e, f, t

LEMMA EndingEases ==
    ASSUME NEW s, Safe(s)
    PROVE  LET t == CompactReservations(s) IN
           /\ Eased(s, t)
           /\ \A w \in Windows : t.hold[w].on = s.hold[w].on /\ t.hold[w].in = s.hold[w].in
<1> DEFINE t == CompactReservations(s)
<1>1. t.job = s.job /\ t.blocked = s.blocked
    BY CompactingReservationsIsCalm
<1>2. ASSUME NEW w \in Windows
      PROVE  /\ t.hold[w].on = s.hold[w].on /\ t.hold[w].owner = s.hold[w].owner
             /\ t.hold[w].in = s.hold[w].in
    <2> DEFINE h == s.hold[w]
               x == [h EXCEPT !.queue = Survivors(s, h.queue), !.stale = 0]
    <2>1. t.hold[w] = IF h.stale = 0 \/ h.stale * 2 < Len(h.queue) THEN h ELSE x
        BY DEF CompactReservations, Safe, States
    <2>2. h \in HoldRecords
        BY ParkedReferences
    <2>3. x.on = h.on /\ x.owner = h.owner /\ x.in = h.in
        BY <2>2 DEF HoldRecords
    <2> HIDE DEF h, x, t
    <2>4. t.hold[w].on = h.on /\ t.hold[w].owner = h.owner /\ t.hold[w].in = h.in
        BY <2>1, <2>3
    <2> QED BY <2>4 DEF h
<1> HIDE DEF t
<1>3. Eased(s, t)
    BY <1>1, <1>2, UnmovedIsEased
<1> QED BY <1>2, <1>3 DEF t

\* The deadline of an owner comes no later than the end of its hold.
LEMMA TickingKeepsOwners ==
    ASSUME Safe(Core), OwnersBide(Core, FALSE)
    PROVE  OwnersBide(Ticked, FALSE)
<1>1. /\ Core.job = job /\ Core.hold = hold /\ Core.blocked = blocked
      /\ job \in [JobIds -> JobRecords] /\ hold \in [Windows -> HoldRecords]
      /\ blocked \subseteq Nodes
    BY FieldsOfStates DEF Safe, Core
<1>2. /\ Ticked.job = [j \in JobIds |-> Aged(job[j])]
      /\ Ticked.blocked = {[n EXCEPT !.in = Less(@)] : n \in blocked}
      /\ Ticked.hold = [w \in Windows |-> [hold[w] EXCEPT !.in = Less(@)]]
    BY DEF Ticked
<1> SUFFICES ASSUME NEW i \in JobIds, NEW w \in Windows, Owns(Ticked, i, w)
             PROVE  Bides(Ticked, i, w, FALSE)
    BY DEF OwnersBide
<1>3. Ticked.job[i] = Aged(job[i]) /\ job[i] \in JobRecords
    BY <1>1, <1>2
<1>4. Waiting(Core, i) /\ Aged(job[i]).meta = job[i].meta
    BY <1>1, <1>3, AgedJobs DEF Owns, Loose, Waiting
<1>5. job[i].st = "waiting"
    BY <1>1, <1>4 DEF Waiting
<1>6. Aged(job[i]).owns = job[i].owns
    <2>1. job[i] \in [st : {"waiting", "granted", "started", "done", "cancelled"},
                      meta : Metas, seq : JobIds, age : 0 .. Highest * Quantum,
                      delay : {NotDelayed} \cup Nat, owns : Windows \cup {NoWindow},
                      ago : 0 .. MaxLen, spent : BOOLEAN]
        BY <1>3, <1>5 DEF JobRecords, NeverUsed
    <2> QED BY <2>1, <1>5 DEF Aged
<1>7. /\ Ticked.hold[w].on = hold[w].on /\ Ticked.hold[w].owner = hold[w].owner
      /\ Ticked.hold[w].in = Less(hold[w].in) /\ hold[w].in \in Nat
    <2>1. Ticked.hold[w] = [hold[w] EXCEPT !.in = Less(hold[w].in)] /\ hold[w] \in HoldRecords
        BY <1>1, <1>2
    <2> QED BY <2>1 DEF HoldRecords
<1>8. Owns(Core, i, w)
    BY <1>1, <1>3, <1>4, <1>6, <1>7 DEF Owns, Loose
<1>9. Bides(Core, i, w, FALSE)
    BY <1>8 DEF OwnersBide
<1>10. ~Delayed(Ticked, i)
    BY <1>1, <1>3, <1>5, <1>9, AgedDelays DEF Bides, Delayed
<1>11. ASSUME NEW m \in Ticked.blocked, m.ref = i
       PROVE  ~m.permanent /\ m.in <= Ticked.hold[w].in
    <2>1. PICK n \in blocked : m = [n EXCEPT !.in = Less(n.in)]
        BY <1>2
    <2>2. n \in Nodes
        BY <1>1
    <2>3. m.ref = n.ref /\ m.permanent = n.permanent /\ m.in = Less(n.in) /\ n.in \in Nat
        BY <2>1, <2>2 DEF Nodes
    <2>4. ~n.permanent /\ n.in <= hold[w].in
        BY <1>1, <1>9, <1>11, <2>3 DEF Bides
    <2>5. Less(n.in) <= Less(hold[w].in)
        BY <1>7, <2>3, <2>4, LessIsLess
    <2> QED BY <1>7, <2>3, <2>4, <2>5
<1> QED BY <1>10, <1>11 DEF Bides

-----------------------------------------------------------------------------
(* The owners while a pass pops its candidates.                            *)

LEMMA SelectingEases ==
    ASSUME Safe(Core), cands # {}, Grantable(Popped) # {}
    PROVE  Safe(Selected) /\ Eased(Core, Selected)
<1>1. /\ Safe(Selected) /\ Selected.job = job /\ Selected.hold = hold
      /\ Selected.blocked = blocked
    BY SelectingIsCalm
<1>2. Core.job = job /\ Core.hold = hold /\ Core.blocked = blocked
    BY DEF Core
<1> QED BY <1>1, <1>2, UnmovedIsEased

LEMMA RekeyingEases ==
    ASSUME Safe(Core), cands # {}, Grantable(Popped) = {}
    PROVE  Eased(Core, Rekeyed(Popped, Top.ref))
<1> DEFINE p == Popped
           l == Top.ref
           q == [p EXCEPT !.lane[l].pending = {}]
           d == Drain(p, l)
<1>1. /\ Calm(Core, p) /\ p.job = job /\ p.hold = hold /\ p.blocked = blocked
    BY PoppingIsCalm
<1>2. Core.job = job /\ Core.hold = hold /\ Core.blocked = blocked
    BY DEF Core
<1>3. Safe(p) /\ l \in Lanes
    BY <1>1, CalmChangesAreSafe, RekeyingIsMild
<1> HIDE DEF p, l
<1>4. Eased(Core, p)
    BY <1>1, <1>2, UnmovedIsEased
<1>5. Eased(p, Rekeyed(p, l))
    <2>1. CASE ~HasCapacity(p, l)
        BY <2>1, UnmovedIsEased DEF Rekeyed
    <2>2. CASE HasCapacity(p, l) /\ Live(p, l) = {}
        <3>1. q.job = p.job /\ q.hold = p.hold /\ q.blocked = p.blocked
            BY <1>3 DEF Safe, States
        <3> HIDE DEF q
        <3>2. /\ RemoveIdle(q, l).job = q.job /\ RemoveIdle(q, l).hold = q.hold
              /\ RemoveIdle(q, l).blocked = q.blocked
            <4> DEFINE r == [p.lane[l] EXCEPT !.pending = {}]
            <4>1. p \in States
                BY <1>3 DEF Safe
            <4>2. p.lane[l] \in LaneRecords /\ p.lane \in [Lanes -> LaneRecords]
                BY <1>3, <4>1, FieldsOfStates
            <4>3. r \in LaneRecords
                BY <4>2 DEF LaneRecords
            <4>4. q = [p EXCEPT !.lane[l] = r]
                BY <1>3, <4>1, <4>2 DEF States, q
            <4> HIDE DEF r
            <4>5. q \in States
                BY <1>3, <4>1, <4>3, <4>4, StateWithLane
            <4> QED BY <4>5 DEF RemoveIdle, States
        <3>3. Eased(p, RemoveIdle(q, l))
            BY <3>1, <3>2, UnmovedIsEased
        <3> QED BY <2>2, <3>3 DEF Rekeyed, q
    <2>3. CASE HasCapacity(p, l) /\ Live(p, l) # {}
        <3>1. Calm(p, d) /\ d.job = p.job /\ d.hold = p.hold /\ d.blocked = p.blocked
            BY <1>3, <2>3, DrainingIsCalm
        <3>2. Safe(d)
            BY <1>3, <3>1, CalmChangesAreSafe
        <3> HIDE DEF d
        <3>3. Eased(p, d)
            BY <3>1, UnmovedIsEased
        <3>4. Eased(d, PushLane(d, l))
            BY <1>3, <3>2, VacatingEases
        <3>5. Eased(p, PushLane(d, l))
            BY <3>3, <3>4, EasingIsTransitive
        <3> QED BY <2>3, <3>5 DEF Rekeyed, d
    <2> QED BY <2>1, <2>2, <2>3
<1> QED BY <1>4, <1>5, EasingIsTransitive DEF p, l

LEMMA ParkingEases ==
    ASSUME Safe(Core), cands # {}, Grantable(Popped) # {}, Reserving(Selected) # {}
    PROVE  Eased(Core, [Selected EXCEPT !.hold[FirstOf(Reserving(Selected))].queue =
                           Append(@, Top.ref)])
<1> DEFINE s == Selected
           w == FirstOf(Reserving(s))
           x == [s.hold[w] EXCEPT !.queue = Append(s.hold[w].queue, Top.ref)]
           t == [s EXCEPT !.hold = [s.hold EXCEPT ![w] = x]]
<1>1. Safe(s) /\ Eased(Core, s) /\ Meta \in Metas
    BY SelectingEases, CandidateIsFirst
<1>2. w \in Windows
    <2>1. Reserving(s) \in SUBSET Range(WindowsOf(Meta))
        BY DEF Reserving
    <2> QED BY <1>1, <2>1, FirstOfIsOne
<1> HIDE DEF s, w
<1>3. s.hold \in [Windows -> HoldRecords] /\ s \in States
    BY <1>1, FieldsOfStates DEF Safe
<1>4. x.on = s.hold[w].on /\ x.owner = s.hold[w].owner /\ x.in = s.hold[w].in
    BY <1>2, <1>3 DEF HoldRecords
<1>5. t.job = s.job /\ t.blocked = s.blocked /\ t.hold = [s.hold EXCEPT ![w] = x]
    BY <1>3 DEF States
<1>6. t = [s EXCEPT !.hold[w].queue = Append(@, Top.ref)]
    OBVIOUS
<1> HIDE DEF x, t
<1>7. Eased(s, t)
    BY <1>3, <1>4, <1>5, UnmovedIsEased
<1>8. Eased(Core, t)
    BY <1>1, <1>7, EasingIsTransitive
<1> QED BY <1>6, <1>8 DEF s, w

LEMMA ReleasingPreviousEases ==
    ASSUME NEW s, Safe(s), Candidate \in JobIds, Waiting(s, Candidate), NEW next
    PROVE  LET t == ReleasePreviousReservation(s, next) IN
           /\ Safe(t) /\ Eased(s, t) /\ Waiting(t, Candidate)
           /\ t.job[Candidate].owns \in {next, NoWindow}
           /\ t.job[Candidate].meta = s.job[Candidate].meta
           /\ t.job[Candidate].delay = s.job[Candidate].delay
           /\ \A j \in JobIds \ {Candidate} : t.job[j] = s.job[j]
<1> DEFINE j == Candidate
           w == s.job[j].owns
           r == ReleaseReservation(s, w, Top.ref)
           t == [r EXCEPT !.job[j].owns = NoWindow]
<1>1. w \in Windows \cup {NoWindow} /\ Known(s, j)
    BY WaitingJobs
<1>2. /\ Safe(ReleasePreviousReservation(s, next))
      /\ Waiting(ReleasePreviousReservation(s, next), j)
      /\ \A i \in JobIds \ {j} : ReleasePreviousReservation(s, next).job[i] = s.job[i]
      /\ ReleasePreviousReservation(s, next).job[j].meta = s.job[j].meta
    BY ReleasingPreviousIsMild DEF Mild
<1>3. CASE w = next \/ w = NoWindow
    <2>1. ReleasePreviousReservation(s, next) = s
        BY <1>3 DEF ReleasePreviousReservation
    <2>2. Eased(s, s)
        BY UnmovedIsEased
    <2> QED BY <2>1, <2>2, <1>2, <1>3
<1>4. CASE ~(w = next \/ w = NoWindow)
    <2>1. ReleasePreviousReservation(s, next) = t
        BY <1>4 DEF ReleasePreviousReservation
    <2> HIDE DEF j, w
    <2>2. Mild(s, r) /\ r.job = s.job /\ Eased(s, r)
        BY <1>1, ReleasesAreMild, ReleasingEases
    <2> HIDE DEF r
    <2>3. Safe(r) /\ Known(r, j) /\ NoWindow \in Windows \cup {NoWindow} /\ j \in JobIds
        BY <1>1, <2>2 DEF Mild, Known, j
    <2> DEFINE x == [r.job[j] EXCEPT !.owns = NoWindow]
    <2>4. /\ t.job = [r.job EXCEPT ![j] = x]
          /\ t.hold = r.hold /\ t.blocked = r.blocked
        BY <2>3, OwningIsCalm
    <2>5. x.owns = NoWindow /\ x.delay = r.job[j].delay
        <3>1. r.job[j] \in [st : {"waiting", "granted", "started", "done", "cancelled"},
                            meta : Metas, seq : JobIds, age : 0 .. Highest * Quantum,
                            delay : {NotDelayed} \cup Nat, owns : Windows \cup {NoWindow},
                            ago : 0 .. MaxLen, spent : BOOLEAN]
            BY <2>3, FieldsOfJobs DEF Safe
        <3> QED BY <3>1
    <2> HIDE DEF x, t
    <2>6. r.job \in [JobIds -> JobRecords]
        BY <2>3, FieldsOfStates DEF Safe
    <2>7. t.job[j].owns = NoWindow /\ t.job[j].delay = s.job[j].delay
        BY <2>2, <2>3, <2>4, <2>5, <2>6
    <2>8. \A i \in JobIds : Owning(t, i) => t.job[i] = r.job[i]
        BY <2>3, <2>4, <2>6, <2>7 DEF Owning
    <2>9. Eased(r, t)
        BY <2>4, <2>8, UnmovedIsEased
    <2>10. Eased(s, t)
        BY <2>2, <2>9, EasingIsTransitive
    <2> QED BY <1>2, <2>1, <2>7, <2>10 DEF j
<1> QED BY <1>3, <1>4

\* No job but the candidate is the reference on top.
LEMMA TopIsTheCandidate ==
    ASSUME Safe(Core), cands # {}, Grantable(Popped) # {}
    PROVE  /\ \A i \in JobIds : i = Top.ref => i = Candidate
           /\ Loose(Core, Candidate) => Top.ref = Candidate
<1>1. /\ RefOf(Core, Candidate) = Top.ref
      /\ job[Candidate].meta.lane = IF Top.ref \in Lanes THEN Top.ref ELSE NoLane
    BY CandidateIsFirst
<1>2. Core.job = job
    BY DEF Core
<1> QED BY <1>1, <1>2, NoJobIsALane, References DEF RefOf, Loose

LEMMA PausingEases ==
    ASSUME Safe(Core), cands # {}, Grantable(Popped) # {}
    PROVE  Eased(Core, Block(ReleasePreviousReservation(Selected, NoWindow), Top.ref, 0, TRUE))
<1> DEFINE s == Selected
           r == ReleasePreviousReservation(s, NoWindow)
           t == Block(r, Top.ref, 0, TRUE)
<1>1. Safe(s) /\ Eased(Core, s) /\ s.job = job
    BY SelectingEases, SelectingIsCalm
<1>2. Candidate \in JobIds /\ Waiting(s, Candidate)
    BY <1>1, CandidateIsFirst DEF Waiting, Core
<1> HIDE DEF s
<1>3. Safe(r) /\ Eased(s, r) /\ r.job[Candidate].owns = NoWindow
    BY <1>1, <1>2, ReleasingPreviousEases
<1> HIDE DEF r
<1>4. /\ t.job = r.job /\ t.hold = r.hold
      /\ t.blocked = {n \in r.blocked : n.ref # Top.ref}
                        \cup {[ref |-> Top.ref, in |-> 0, permanent |-> TRUE]}
    BY <1>3 DEF Block, Safe, States
<1> HIDE DEF t
<1>5. ASSUME NEW n \in t.blocked, n.ref \in JobIds, Owning(t, n.ref)
      PROVE  n \in r.blocked
    <2>1. n.ref # Candidate
        BY <1>3, <1>4, <1>5 DEF Owning
    <2>2. n.ref # Top.ref
        BY <2>1, <1>5, TopIsTheCandidate
    <2> QED BY <1>4, <2>2
<1>6. Eased(r, t)
    BY <1>4, <1>5 DEF Eased, Owning, Waiting, Delayed
<1>7. Eased(Core, t)
    BY <1>1, <1>3, <1>6, EasingIsTransitive
<1> QED BY <1>7 DEF s, r, t

\* What a reservation for the candidate changes.
LEMMA ReservedIs ==
    ASSUME NEW s, Safe(s), Candidate \in JobIds, Waiting(s, Candidate),
           NEW w \in Windows \cup {NoWindow}, NEW until \in Nat
    PROVE  LET t == Reserved(s, w, until) IN
           /\ t.blocked = s.blocked
           /\ \A i \in JobIds \ {Candidate} : t.job[i] = s.job[i]
           /\ t.job[Candidate].st = s.job[Candidate].st
           /\ t.job[Candidate].meta = s.job[Candidate].meta
           /\ t.job[Candidate].delay = s.job[Candidate].delay
           /\ t.job[Candidate].owns \in {s.job[Candidate].owns, w}
           /\ \A v \in Windows : t.hold[v] = s.hold[v] \/ t.hold[v].owner = Top.ref
           /\ w \in Windows => until <= t.hold[w].in
<1>1. CASE w = NoWindow \/ (s.hold[w].on /\ until <= s.hold[w].in)
    <2>1. Reserved(s, w, until) = s
        BY <1>1 DEF Reserved
    <2> QED BY <2>1, <1>1, WindowsAreNotNone
<1>2. CASE ~(w = NoWindow \/ (s.hold[w].on /\ until <= s.hold[w].in))
    <2> DEFINE c == Candidate
               x == [s.hold[w] EXCEPT !.on = TRUE, !.in = until, !.owner = Top.ref]
               r == [s.job[c] EXCEPT !.owns = w]
               t == [s EXCEPT !.hold = [s.hold EXCEPT ![w] = x],
                              !.job = [s.job EXCEPT ![c] = r]]
    <2>1. /\ s \in States /\ s.hold \in [Windows -> HoldRecords] /\ w \in Windows
          /\ s.hold[w] \in HoldRecords /\ Known(s, c) /\ s.job \in [JobIds -> JobRecords]
        BY <1>2, FieldsOfStates DEF Safe, Known, Waiting
    <2>2. Reserved(s, w, until) = [s EXCEPT !.hold[w] = x, !.job[c].owns = w]
        BY <1>2 DEF Reserved
    <2>3. s.job[c] \in [st : {"waiting", "granted", "started", "done", "cancelled"},
                        meta : Metas, seq : JobIds, age : 0 .. Highest * Quantum,
                        delay : {NotDelayed} \cup Nat, owns : Windows \cup {NoWindow},
                        ago : 0 .. MaxLen, spent : BOOLEAN]
        BY <2>1, FieldsOfJobs
    <2>4. c \in JobIds
        OBVIOUS
    <2> HIDE DEF c
    <2>5. /\ r.st = s.job[c].st /\ r.meta = s.job[c].meta /\ r.delay = s.job[c].delay
          /\ r.owns = w
        BY <2>3
    <2>6. x.in = until /\ x.owner = Top.ref
        BY <2>1 DEF HoldRecords
    <2> HIDE DEF x
    <2>7. Reserved(s, w, until) = t
        BY <2>1, <2>2 DEF States
    <2> HIDE DEF r
    <2>8. /\ t.blocked = s.blocked /\ t.hold = [s.hold EXCEPT ![w] = x]
          /\ t.job = [s.job EXCEPT ![c] = r]
        BY <2>1 DEF States
    <2> HIDE DEF t
    <2>9. /\ t.hold[w] = x /\ \A v \in Windows \ {w} : t.hold[v] = s.hold[v]
          /\ t.job[c] = r /\ \A i \in JobIds \ {c} : t.job[i] = s.job[i]
        BY <2>1, <2>4, <2>8
    <2> QED BY <2>5, <2>6, <2>7, <2>8, <2>9 DEF c
<1> QED BY <1>1, <1>2

\* A candidate that sleeps wakes no later than its hold ends.
LEMMA SleepingKeepsOwners ==
    ASSUME Safe(Core), Debited(Core), limits \in LimitSets, penalty \in [Scopes -> Nat],
           cands # {}, Grantable(Popped) # {}, ~Paused, Orderly(Core, {}, FALSE),
           Until(Selected) > 0, OwnersBide(Core, TRUE)
    PROVE  LET until == Until(Selected)
               window == IF Short(Selected) = {} THEN NoWindow ELSE FirstOf(Short(Selected))
               t == Block(Reserved(ReleasePreviousReservation(Selected, window), window, until),
                          Top.ref, until, FALSE)
           IN  OwnersBide(t, TRUE)
<1> DEFINE s == Selected
           until == Until(s)
           w == IF Short(s) = {} THEN NoWindow ELSE FirstOf(Short(s))
           r == ReleasePreviousReservation(s, w)
           o == Reserved(r, w, until)
           t == Block(o, Top.ref, until, FALSE)
           c == Candidate
<1>1. Safe(s) /\ InHand(s, Top.ref) /\ s.job = job /\ s.ledger = ledger /\ Eased(Core, s)
    BY SelectedIsInHand, SelectingIsCalm, SelectingEases
<1>2. /\ Top.ref \in Refs /\ RefOk(s, Top.ref) /\ Asks(s, Top.ref)
      /\ Candidate \in JobIds /\ Waiting(s, Candidate) /\ Meta \in Metas
    BY TopAsks, CandidateIsFirst
<1>3. until \in Nat /\ until > 0
    <2>1. Debited(s) /\ s \in States
        BY <1>1 DEF Debited, Core, Known, Safe
    <2> QED BY <1>2, <2>1, UntilIsTyped
<1>4. w \in Windows \cup {NoWindow}
    <2>1. Short(s) \in SUBSET Range(WindowsOf(Meta))
        BY DEF Short
    <2> QED BY <1>2, <2>1, FirstOfIsOne
<1>5. Loose(s, c) => Top.ref = c /\ ~Delayed(s, c)
    <2> SUFFICES ASSUME Loose(s, c) PROVE Top.ref = c /\ ~Delayed(s, c)
        OBVIOUS
    <2>1. Top.ref = c
        BY <1>1, TopIsTheCandidate DEF Loose, Waiting, Core
    <2> QED BY <1>1, <1>2, <2>1 DEF InHand, Orderly, Tidy, Free
<1>6. \A i \in JobIds : i = Top.ref => i = c
    BY TopIsTheCandidate
<1> HIDE DEF s, w, until
<1>7. /\ Safe(r) /\ InHand(r, Top.ref) /\ Standing(s, r)
    BY <1>1, <1>2, ReleasingPreviousKeepsHand
<1>8. /\ Eased(s, r) /\ Waiting(r, c) /\ r.job[c].owns \in {w, NoWindow}
      /\ r.job[c].delay = s.job[c].delay
      /\ r.job[c].meta = s.job[c].meta
    BY <1>1, <1>2, ReleasingPreviousEases
<1>9. RefOk(r, Top.ref)
    BY <1>2, <1>7, StandingRefs
<1>10. OwnersBide(r, TRUE)
    BY <1>1, <1>8, EasingKeepsOwners
<1> HIDE DEF r
<1>11. Safe(o)
    BY <1>2, <1>3, <1>4, <1>7, <1>8, <1>9, ReservingIsMild DEF Mild
<1>12. /\ o.blocked = r.blocked
       /\ \A i \in JobIds \ {c} : o.job[i] = r.job[i]
       /\ o.job[c].st = r.job[c].st /\ o.job[c].meta = r.job[c].meta
       /\ o.job[c].delay = r.job[c].delay /\ o.job[c].owns \in {r.job[c].owns, w}
       /\ \A v \in Windows : o.hold[v] = r.hold[v] \/ o.hold[v].owner = Top.ref
       /\ w \in Windows => until <= o.hold[w].in
    BY <1>2, <1>3, <1>4, <1>7, <1>8, ReservedIs
<1> HIDE DEF o
<1>13. /\ t.job = o.job /\ t.hold = o.hold
       /\ t.blocked = {n \in o.blocked : n.ref # Top.ref}
                         \cup {[ref |-> Top.ref, in |-> until, permanent |-> FALSE]}
    BY <1>11 DEF Block, Safe, States
<1> HIDE DEF t, c
<1>14. ASSUME NEW i \in JobIds, NEW v \in Windows, Owns(t, i, v), i # c
       PROVE  Bides(t, i, v, TRUE)
    <2>1. t.job[i] = r.job[i] /\ i # Top.ref
        BY <1>6, <1>12, <1>13, <1>14
    <2>2. t.hold[v] = r.hold[v]
        BY <1>12, <1>13, <1>14, <2>1 DEF Owns
    <2>3. Bides(r, i, v, TRUE)
        BY <1>10, <1>14, <2>1, <2>2 DEF OwnersBide, Owns, Loose, Waiting
    <2> QED BY <1>12, <1>13, <2>1, <2>2, <2>3 DEF Bides, Delayed
<1>15. ASSUME NEW v \in Windows, Owns(t, c, v)
       PROVE  Bides(t, c, v, TRUE)
    <2>1. Loose(s, c)
        BY <1>2, <1>8, <1>12, <1>13, <1>15 DEF Owns, Loose, c
    <2>2. Top.ref = c /\ ~Delayed(s, c)
        BY <1>5, <2>1
    <2>3. ~Delayed(t, c)
        BY <1>8, <1>12, <1>13, <2>2 DEF Delayed
    <2>4. v = w
        BY <1>8, <1>12, <1>13, <1>15, WindowsAreNotNone DEF Owns
    <2>5. until <= t.hold[v].in
        BY <1>12, <1>13, <2>4
    <2>6. ASSUME NEW n \in t.blocked, n.ref = c
          PROVE  n = [ref |-> Top.ref, in |-> until, permanent |-> FALSE]
        BY <1>13, <2>2, <2>6
    <2>7. ASSUME NEW n \in t.blocked, n.ref = c
          PROVE  ~n.permanent /\ n.in <= t.hold[v].in /\ n.in > 0
        BY <1>3, <2>5, <2>6, <2>7
    <2> QED BY <2>3, <2>7 DEF Bides
<1> QED BY <1>14, <1>15 DEF OwnersBide, t, o, r, s, w, until

\* The owner of a window that the candidate may use is not asleep: its hold would
\* still keep the candidate out.
LEMMA PassedOwnersAreAwake ==
    ASSUME Safe(Core), cands # {}, Grantable(Popped) # {}, Reserving(Selected) = {},
           OwnersBide(Core, TRUE), NEW i \in JobIds, i # Candidate,
           NEW w \in Range(WindowsOf(Meta)), w \in Windows, Owns(Core, i, w)
    PROVE  ~IsBlocked(Core, i) /\ ~Delayed(Core, i)
<1>1. Bides(Core, i, w, TRUE)
    BY DEF OwnersBide
<1>2. SUFFICES ASSUME NEW n \in Core.blocked, n.ref = i PROVE FALSE
    BY <1>1 DEF IsBlocked, Bides
<1>3. n.in <= Core.hold[w].in /\ n.in > 0
    BY <1>1, <1>2 DEF Bides
<1>4. Core \in States /\ Core.hold = hold
    BY DEF Safe, Core
<1>5. n.in \in Nat /\ hold[w].in \in Nat
    BY <1>2, <1>4, FieldsOfStates DEF HoldRecords, Nodes
<1>6. i # Top.ref
    BY TopIsTheCandidate
<1>7. Selected.hold = hold
    BY SelectingIsCalm
<1>8. HoldActive(Selected, w) /\ Selected.hold[w].owner # Top.ref
    BY <1>3, <1>4, <1>5, <1>6, <1>7 DEF Owns, HoldActive
<1> QED BY <1>8 DEF Reserving

\* A grant puts off the end of the global hold only.
LEMMA OtherHoldsStay ==
    ASSUME NEW s, Safe(s), NEW w \in Windows, w # GlobalWindow
    PROVE  RearmReservations(s).hold[w] = s.hold[w]
<1> DEFINE g == GlobalWindow
<1>1. g \in Windows
    BY GlobalIsAWindow
<1> HIDE DEF g
<1> QED BY <1>1 DEF RearmReservations, Safe, States, g

\* Every request uses the global window.
LEMMA EveryRequestIsGlobal ==
    ASSUME NEW m \in Metas
    PROVE  GlobalWindow \in Range(WindowsOf(m))
<1> DEFINE q == WindowsOf(m)
<1>1. Len(q) >= 2 /\ q[1] = GlobalWindow /\ DOMAIN q = 1 .. Len(q)
    BY DEF WindowsOf
<1>2. Len(q) \in Nat
    BY WindowsAreWindows, LenProperties
<1> HIDE DEF q
<1>3. 1 \in DOMAIN q
    BY <1>1, <1>2
<1> QED BY <1>1, <1>3 DEF Range, q

LEMMA GrantingKeepsOwners ==
    ASSUME Safe(Core), Debited(Core), limits \in LimitSets, cands # {},
           Grantable(Popped) # {}, Reserving(Selected) = {}, OwnersBide(Core, TRUE)
    PROVE  OwnersBide(RearmReservations(Granted(Selected, Candidate)), TRUE)
<1> DEFINE s == Selected
           c == Candidate
           l == s.job[c].meta.lane
           u == Served(s, c)
           g == Granted(s, c)
           t == RearmReservations(g)
<1>1. /\ Safe(s) /\ s.job = job /\ s.hold = hold /\ s.blocked = blocked
    BY SelectingIsCalm
<1>2. /\ c \in JobIds /\ Waiting(s, c) /\ Meta \in Metas
      /\ job[c].meta.lane # NoLane => HasCapacity(s, job[c].meta.lane)
      /\ \A k \in s.cands : k.ref # c
      /\ Safe(g) /\ Debited(g)
      /\ g.job = [job EXCEPT ![c] = GrantedJob(job[c])]
    BY CandidateIsGranted, CandidateIsFirst
<1>3. Core.job = job /\ Core.hold = hold /\ Core.blocked = blocked
    BY DEF Core
<1>4. \A i \in JobIds, w \in Range(WindowsOf(Meta)) :
        i # c /\ w \in Windows /\ Owns(Core, i, w)
            => ~IsBlocked(Core, i) /\ ~Delayed(Core, i)
    BY PassedOwnersAreAwake
<1> HIDE DEF s, c
<1>5. g = IF Rearms(u, l) THEN PushLane(u, l) ELSE u
    BY <1>1, <1>2, GrantedIsSafe
<1>6. l \in Lanes \cup {NoLane} /\ s \in States
    BY <1>1, <1>2, WaitingJobs DEF Safe
<1>7. u.hold = hold /\ u.blocked = blocked
    BY <1>1, <1>2, <1>6, ServedIs
<1>8. Safe(u)
    BY <1>1, <1>2, ServedIsSafe
<1> HIDE DEF u, l, g
<1>9. g.hold = hold /\ g.blocked = blocked
    <2>1. CASE Rearms(u, l)
        <3>1. l \in Lanes
            BY <2>1, <1>6, LaneModes DEF Rearms
        <3>2. Pushed(u, PushLane(u, l), {l})
            BY <1>8, <3>1, PushingALaneIsMild
        <3> QED BY <2>1, <3>2, <1>5, <1>7 DEF Pushed
    <2>2. CASE ~Rearms(u, l)
        BY <2>2, <1>5, <1>7
    <2> QED BY <2>1, <2>2
<1>10. job \in [JobIds -> JobRecords]
    BY <1>3, FieldsOfStates DEF Safe
<1>11. /\ g.job[c] = GrantedJob(job[c])
       /\ \A i \in JobIds \ {c} : g.job[i] = job[i]
    BY <1>2, <1>10
<1>12. GrantedJob(job[c]).st = "granted"
    BY <1>2, <1>10 DEF GrantedJob, JobRecords
<1>13. \A i \in JobIds : Waiting(g, i) => i # c
    BY <1>11, <1>12 DEF Waiting
<1>14. Eased(Core, g)
    BY <1>3, <1>9, <1>11, <1>13, UnmovedIsEased DEF Owning
<1>15. OwnersBide(g, TRUE)
    BY <1>14, EasingKeepsOwners
<1>16. /\ t.job = g.job /\ t.blocked = g.blocked
       /\ \A w \in Windows : t.hold[w].on = g.hold[w].on /\ t.hold[w].owner = g.hold[w].owner
    BY <1>2, ExtendingIsCalm
<1>17. \A w \in Windows : w \notin Range(WindowsOf(Meta)) => t.hold[w] = g.hold[w]
    BY <1>2, OtherHoldsStay, EveryRequestIsGlobal
<1> HIDE DEF t
<1> SUFFICES ASSUME NEW i \in JobIds, NEW w \in Windows, Owns(t, i, w)
             PROVE  Bides(t, i, w, TRUE)
    BY DEF OwnersBide, t, g, s, c
<1>18. i # c /\ g.job[i] = job[i]
    BY <1>11, <1>13, <1>16 DEF Owns, Loose, Waiting
<1>19. Owns(g, i, w)
    BY <1>16 DEF Owns, Loose, Waiting
<1>20. CASE w \notin Range(WindowsOf(Meta))
    BY <1>15, <1>16, <1>17, <1>19, <1>20 DEF OwnersBide, Bides, Delayed
<1>21. CASE w \in Range(WindowsOf(Meta))
    <2>1. Owns(Core, i, w)
        BY <1>3, <1>9, <1>18, <1>19 DEF Owns, Loose, Waiting
    <2>2. ~IsBlocked(Core, i) /\ ~Delayed(Core, i)
        BY <1>4, <1>18, <1>21, <2>1
    <2> QED BY <2>2, <1>3, <1>9, <1>16, <1>18 DEF Bides, IsBlocked, Delayed
<1> QED BY <1>20, <1>21

-----------------------------------------------------------------------------
(* The steps of the owners.                                                *)

HoldersInv == OwnersBide(Core, phase = "pop")

LEMMA AwakeOwnersSettle ==
    ASSUME NEW STATE t, t \in States, Install(t), OwnersBide(t, FALSE), phase' # "pop"
    PROVE  HoldersInv'
<1>1. Core' = t
    BY InstalledIs
<1>2. (phase' = "pop") = FALSE
    OBVIOUS
<1> QED BY <1>1, <1>2 DEF HoldersInv

LEMMA PassedOwnersSettle ==
    ASSUME NEW STATE t, t \in States, Install(t), OwnersBide(t, TRUE), phase' = "pop"
    PROVE  HoldersInv'
<1>1. Core' = t
    BY InstalledIs
<1>2. (phase' = "pop") = TRUE
    OBVIOUS
<1> QED BY <1>1, <1>2 DEF HoldersInv

LEMMA CommandsFindOwners ==
    ASSUME PlacesInv, HoldersInv, phase \in {"asleep", "due"}
    PROVE  Safe(Core) /\ OwnersBide(Core, FALSE)
<1>1. (phase = "pop") = FALSE
    OBVIOUS
<1> QED BY <1>1 DEF PlacesInv, QueueInv, HoldersInv

\* A state is installed that eases the owners.
LEMMA EasedOwnersSettle ==
    ASSUME NEW STATE t, t \in States, Install(t), Eased(Core, t), OwnersBide(Core, FALSE),
           phase' # "pop"
    PROVE  HoldersInv'
<1>1. OwnersBide(t, FALSE)
    BY EasingKeepsOwners
<1> QED BY <1>1, AwakeOwnersSettle

LEMMA EnqueueKeepsOwners ==
    ASSUME PlacesInv, HoldersInv, NEW m \in Metas, NEW delay \in NotBefores \cup {NotDelayed},
           Enqueue(m, delay)
    PROVE  HoldersInv'
<1> DEFINE old == Slot(m)
           inherits == old # {} /\ \A i \in old : job[i].delay = NotDelayed
           seq == IF old = {} THEN nextJob ELSE job[Min(old)].seq
           age == IF inherits /\ delay = NotDelayed THEN job[Min(old)].age ELSE 0
           removed == IF old = {} THEN Core ELSE RemoveWaiting(Core, Min(old))
           r == NewJob(m, seq, age, delay)
           t == Inserted(removed, nextJob, r, old)
<1>0. nextJob \in JobIds /\ phase' = "due" /\ phase = "asleep"
    BY Sizes DEF Enqueue, PlacesInv, QueueInv, JobIds
<1>1. Install(t)
    BY DEF Enqueue
<1>2. Safe(Core) /\ OwnersBide(Core, FALSE) /\ Numbered(Core, nextJob)
    BY <1>0, CommandsFindOwners DEF PlacesInv, QueueInv
<1>3. Safe(t) /\ SameBooks(Core, t)
    BY <1>0, <1>2, EnqueueingIsSafe
<1>4. /\ old # {} => Min(old) \in JobIds /\ Waiting(Core, Min(old))
      /\ Safe(removed) /\ removed.ledger = ledger
      /\ \A i \in JobIds : /\ Known(removed, i) <=> Known(Core, i)
                           /\ Known(removed, i) => /\ removed.job[i].meta = job[i].meta
                                                   /\ removed.job[i].seq = job[i].seq
                                                   /\ removed.job[i].spent = job[i].spent
                                                   /\ removed.job[i].ago = job[i].ago
                           /\ Waiting(removed, i) => Waiting(Core, i)
                           /\ removed.job[i].st = "granted" => job[i].st = "granted"
      /\ r \in UsedRecords /\ r.st = "waiting" /\ r.meta = m /\ r.seq = seq
      /\ ~r.spent /\ r.ago = 0 /\ r.delay = delay
      /\ seq \in JobIds /\ seq <= nextJob
      /\ \A i \in JobIds : Known(removed, i) /\ removed.job[i].seq = r.seq
                              => removed.job[i].meta.lane = r.meta.lane /\ ~Waiting(removed, i)
      /\ ~Known(Core, nextJob) /\ ~Known(removed, nextJob)
    BY <1>0, <1>2, RequestsAreNew, SMTT(60)
<1>5. r.owns = NoWindow
    BY DEF NewJob
<1> HIDE DEF old
<1>6. Eased(Core, removed)
    <2>1. CASE old = {}
        BY <2>1, UnmovedIsEased
    <2>2. CASE old # {}
        <3> DEFINE o == Min(old)
        <3>1. o \in JobIds /\ Waiting(Core, o) /\ removed = RemoveWaiting(Core, o)
            BY <2>2, <1>4
        <3> HIDE DEF o, removed
        <3> QED BY <3>1, <1>2, RemovingEases
    <2> QED BY <2>1, <2>2
<1> HIDE DEF r, removed
<1>7. Eased(removed, t)
    BY <1>0, <1>4, <1>5, InsertingEases
<1> HIDE DEF t
<1>8. Eased(Core, t)
    BY <1>6, <1>7, EasingIsTransitive
<1> QED BY <1>0, <1>1, <1>2, <1>3, <1>8, EasedOwnersSettle DEF Safe

LEMMA CommandsKeepOwners ==
    ASSUME PlacesInv, HoldersInv, NEW j \in JobIds,
           Cancel(j) \/ Start(j) \/ Complete(j) \/ CompleteNoRequest(j)
    PROVE  HoldersInv'
<1>1. /\ Safe(Core) /\ OwnersBide(Core, FALSE) /\ phase' \in {"asleep", "due"}
    BY CommandsFindOwners DEF Cancel, Start, Complete, CompleteNoRequest, Command
<1>2. phase' # "pop"
    BY <1>1
<1>3. CASE Cancel(j)
    <2> DEFINE t == RemoveWaiting(Core, j)
    <2>1. Mild(Core, t) /\ Install(t) /\ Eased(Core, t)
        BY <1>1, <1>3, RemovingIsMild, RemovingEases DEF Cancel
    <2> HIDE DEF t
    <2> QED BY <2>1, <1>1, <1>2, EasedOwnersSettle DEF Mild, Safe
<1>4. CASE Start(j)
    <2> DEFINE l == job[j].meta.lane
               t == Vacated([Core EXCEPT !.job[j].st = "started", !.lane[l].holder = NoJob,
                                         !.lane[l].count = 0], l)
    <2>1. job[j].st = "granted" /\ l \in Lanes /\ lane[l].holder = j /\ Install(t)
        BY <1>4, LaneModes DEF Start
    <2>2. Core.job = job /\ Core.lane = lane
        BY DEF Core
    <2>3. Mild(Core, t) /\ Eased(Core, t)
        BY <2>1, <2>2, <1>1, StartingIsMild, StartingEases
    <2> HIDE DEF t
    <2> QED BY <2>1, <2>3, <1>1, <1>2, EasedOwnersSettle DEF Mild, Safe
<1>5. CASE Complete(j)
    <2> DEFINE t == ReleaseLane(Landed(Core, j), j)
    <2>1. Mild(Core, t) /\ Install(t) /\ Eased(Core, t)
        BY <1>1, <1>5, LandingIsMild, LandingEases DEF Complete
    <2> HIDE DEF t
    <2> QED BY <2>1, <1>1, <1>2, EasedOwnersSettle DEF Mild, Safe
<1>6. CASE CompleteNoRequest(j)
    <2> DEFINE s == ReleaseLane(Landed(Core, j), j)
               t == Refund(s, j)
    <2>1. Mild(Core, s) /\ Install(t) /\ Eased(Core, s) /\ Flying(Core, j)
        BY <1>1, <1>6, LandingIsMild, LandingEases DEF CompleteNoRequest
    <2> HIDE DEF s
    <2>2. Safe(s) /\ Known(s, j) /\ ~Waiting(s, j)
        BY <2>1 DEF Mild, Gentle, Flying, Known, Waiting
    <2>3. Mild(Credited(s, j), t) /\ Eased(s, t)
        BY <2>2, RefundingIsGentle, RefundingEases
    <2> HIDE DEF t
    <2>4. Eased(Core, t)
        BY <2>1, <2>3, EasingIsTransitive
    <2> QED BY <2>1, <2>3, <2>4, <1>1, <1>2, EasedOwnersSettle DEF Mild, Safe
<1> QED BY <1>3, <1>4, <1>5, <1>6

LEMMA FreezesKeepOwners ==
    ASSUME PlacesInv, HoldersInv, NEW c \in Scopes, NEW d \in RetryAfters,
           Penalize(c, d) \/ \E j \in JobIds : CompleteRetryAfter(j, c, d)
    PROVE  HoldersInv'
<1>1. /\ Safe(Core) /\ OwnersBide(Core, FALSE) /\ phase' \in {"asleep", "due"}
    BY CommandsFindOwners DEF Penalize, Call, CompleteRetryAfter, Command
<1>2. phase' # "pop"
    BY <1>1
<1>3. CASE Penalize(c, d)
    <2>1. Install(Core) /\ Core \in States
        BY <1>1, <1>3 DEF Penalize, Install, Core, Safe
    <2> QED BY <2>1, <1>1, <1>2, AwakeOwnersSettle
<1>4. ASSUME NEW j \in JobIds, CompleteRetryAfter(j, c, d)
      PROVE  HoldersInv'
    <2> DEFINE t == ReleaseLane(Landed(Core, j), j)
    <2>1. Mild(Core, t) /\ Install(t) /\ Eased(Core, t)
        BY <1>1, <1>4, LandingIsMild, LandingEases DEF CompleteRetryAfter
    <2> HIDE DEF t
    <2> QED BY <2>1, <1>1, <1>2, EasedOwnersSettle DEF Mild, Safe
<1> QED BY <1>3, <1>4

LEMMA NewLimitsKeepOwners ==
    ASSUME PlacesInv, HoldersInv, NEW new \in LimitSets, SetLimits(new) \/ SetClassLimits(new)
    PROVE  HoldersInv'
<1>1. ReplaceLimits(new)
    BY DEF SetLimits, SetClassLimits
<1> DEFINE c == [Core EXCEPT !.ledger = Carried(new)]
           t == Rearmed(c)
<1>2. /\ Install(t) /\ Safe(Core) /\ phase' \in {"asleep", "due"}
    BY <1>1, CommandsFindOwners DEF ReplaceLimits, Call, Command
<1>3. Carried(new) \in [Windows -> SUBSET JobIds]
    <2>1. ledger \in [Windows -> SUBSET JobIds]
        BY <1>2, FieldsOfStates DEF Safe, Core
    <2> QED BY <2>1 DEF Carried
<1>4. Safe(c)
    BY <1>2, <1>3, CarryingIsGentle
<1> HIDE DEF c
<1>5. Mild(c, t) /\ OwnersBide(t, FALSE)
    BY <1>4, RearmingIsMild, RearmingEndsHolds
<1> HIDE DEF t
<1> QED BY <1>2, <1>5, AwakeOwnersSettle DEF Mild, Safe

LEMMA PassesKeepOwners ==
    ASSUME PlacesInv, HoldersInv, BeginPass \/ Rekey \/ Park \/ Pause \/ Sleep \/ Grant
    PROVE  HoldersInv'
<1>1. /\ Safe(Core) /\ Debited(Core) /\ limits \in LimitSets /\ penalty \in [Scopes -> Nat]
      /\ phase' = "pop"
    BY DEF PlacesInv, QueueInv, BeginPass, Rekey, Park, Pause, Sleep, Grant, Considering
<1>2. CASE BeginPass
    <2> DEFINE t == CompactLanes(PromoteReservations(PromoteBlocked(PromoteDelayed(Core))))
    <2>1. phase = "due" /\ Install(t)
        BY <1>2 DEF BeginPass
    <2>2. OwnersBide(Core, FALSE)
        BY <2>1, CommandsFindOwners
    <2>3. Mild(Core, t) /\ OwnersBide(t, TRUE)
        BY <1>1, <2>2, BeginningAPassIsMild, BeginningKeepsOwners
    <2> HIDE DEF t
    <2> QED BY <1>1, <2>1, <2>3, PassedOwnersSettle DEF Mild, Safe
<1>3. ASSUME phase = "pop"
      PROVE  OwnersBide(Core, TRUE) /\ Orderly(Core, {}, FALSE)
    <2>1. (phase # "pop") = FALSE /\ (phase = "pop") = TRUE
        BY <1>3
    <2> QED BY <1>3, <2>1 DEF PlacesInv, HoldersInv
<1>4. ASSUME NEW STATE t, Mild(Core, t), Install(t), Eased(Core, t), phase = "pop"
      PROVE  HoldersInv'
    <2>1. OwnersBide(t, TRUE) /\ t \in States
        BY <1>3, <1>4, EasingKeepsOwners DEF Mild, Safe
    <2> QED BY <1>1, <1>4, <2>1, PassedOwnersSettle
<1>5. CASE Rekey
    <2> DEFINE t == Rekeyed(Popped, Top.ref)
    <2>1. /\ phase = "pop" /\ cands # {} /\ Grantable(Popped) = {} /\ Install(t)
        BY <1>5 DEF Rekey
    <2>2. Mild(Core, t) /\ Eased(Core, t)
        BY <1>1, <2>1, RekeyingIsMild, RekeyingEases
    <2> HIDE DEF t
    <2> QED BY <1>4, <2>1, <2>2
<1>6. ASSUME Considering
      PROVE  phase = "pop" /\ cands # {} /\ Grantable(Popped) # {}
    BY <1>6 DEF Considering
<1>7. CASE Park
    <2> DEFINE t == [Selected EXCEPT !.hold[FirstOf(Reserving(Selected))].queue =
                         Append(@, Top.ref)]
    <2>1. Considering /\ Reserving(Selected) # {} /\ Install(t)
        BY <1>7 DEF Park
    <2>2. Mild(Core, t) /\ Eased(Core, t)
        BY <1>1, <1>6, <2>1, ParkingIsMild, ParkingEases
    <2> HIDE DEF t
    <2> QED BY <1>4, <1>6, <2>1, <2>2
<1>8. CASE Pause
    <2> DEFINE t == Block(ReleasePreviousReservation(Selected, NoWindow), Top.ref, 0, TRUE)
    <2>1. Considering /\ Install(t)
        BY <1>8 DEF Pause
    <2>2. Mild(Core, t) /\ Eased(Core, t)
        BY <1>1, <1>6, <2>1, PausingIsMild, PausingEases
    <2> HIDE DEF t
    <2> QED BY <1>4, <1>6, <2>1, <2>2
<1>9. CASE Sleep
    <2> DEFINE until == Until(Selected)
               window == IF Short(Selected) = {} THEN NoWindow ELSE FirstOf(Short(Selected))
               t == Block(Reserved(ReleasePreviousReservation(Selected, window), window, until),
                          Top.ref, until, FALSE)
    <2>1. Considering /\ ~Paused /\ Until(Selected) > 0 /\ Install(t)
        BY <1>9 DEF Sleep
    <2>2. Mild(Core, t)
        BY <1>1, <1>6, <2>1, SleepingIsMild
    <2>3. OwnersBide(t, TRUE)
        BY <1>1, <1>3, <1>6, <2>1, SleepingKeepsOwners
    <2> HIDE DEF t
    <2> QED BY <1>1, <2>1, <2>2, <2>3, PassedOwnersSettle DEF Mild, Safe
<1>10. CASE Grant
    <2> DEFINE t == RearmReservations(Granted(Selected, Candidate))
    <2>1. Considering /\ ~Paused /\ Until(Selected) = 0 /\ Reserving(Selected) = {} /\ Install(t)
        BY <1>10 DEF Grant
    <2>2. Safe(t)
        BY <1>1, <1>6, <2>1, GrantingIsSafe
    <2>3. OwnersBide(t, TRUE)
        BY <1>1, <1>3, <1>6, <2>1, GrantingKeepsOwners
    <2> HIDE DEF t
    <2> QED BY <1>1, <2>1, <2>2, <2>3, PassedOwnersSettle DEF Safe
<1> QED BY <1>2, <1>5, <1>7, <1>8, <1>9, <1>10

LEMMA OtherStepsKeepOwners ==
    ASSUME PlacesInv, HoldersInv, EndPass \/ Tick \/ Query \/ UNCHANGED vars
    PROVE  HoldersInv'
<1>1. CASE EndPass
    <2> DEFINE t == CompactReservations(Core)
    <2>1. /\ Safe(Core) /\ phase = "pop" /\ phase' # "pop" /\ Install(t)
        BY <1>1 DEF PlacesInv, QueueInv, EndPass
    <2>2. OwnersBide(Core, TRUE)
        <3>1. (phase = "pop") = TRUE
            BY <2>1
        <3> QED BY <3>1 DEF HoldersInv
    <2>3. OwnersBide(Core, FALSE)
        BY <2>2 DEF OwnersBide, Bides
    <2>4. Calm(Core, t) /\ Eased(Core, t)
        BY <2>1, CompactingReservationsIsCalm, EndingEases
    <2> HIDE DEF t
    <2>5. t \in States
        BY <2>1, <2>4, CalmChangesAreSafe DEF Safe
    <2> QED BY <2>1, <2>3, <2>4, <2>5, EasedOwnersSettle
<1>2. CASE Tick
    <2>1. Safe(Core) /\ cands = {} /\ OwnersBide(Core, FALSE) /\ phase' # "pop"
        BY <1>2, CommandsFindOwners DEF Tick, PlacesInv, QueueInv
    <2>2. Safe(Ticked) /\ OwnersBide(Ticked, FALSE)
        BY <2>1, TickingIsSafe, TickingKeepsOwners
    <2>3. Install(Ticked)
        BY <1>2, TickKeepsTheQueues DEF PlacesInv
    <2> HIDE DEF Ticked
    <2> QED BY <2>1, <2>2, <2>3, AwakeOwnersSettle DEF Safe
<1>3. CASE Query
    <2>1. Safe(Core) /\ OwnersBide(Core, FALSE) /\ phase' # "pop"
        BY <1>3, CommandsFindOwners DEF Query, Call, Command
    <2>2. Install(Core) /\ Core \in States
        BY <2>1, <1>3 DEF Query, Install, Core, Safe
    <2> QED BY <2>1, <2>2, AwakeOwnersSettle
<1>4. CASE UNCHANGED vars
    <2>1. Core' = Core /\ phase' = phase
        BY <1>4 DEF vars, Core
    <2> QED BY <2>1 DEF HoldersInv
<1> QED BY <1>1, <1>2, <1>3, <1>4

LEMMA StepsKeepTheHolders ==
    ASSUME PlacesInv, HoldersInv, [Next]_vars
    PROVE  HoldersInv'
<1>1. ASSUME NEW m \in Metas, NEW d \in NotBefores \cup {NotDelayed}, Enqueue(m, d)
      PROVE  HoldersInv'
    BY <1>1, EnqueueKeepsOwners
<1>2. ASSUME NEW j \in JobIds, Cancel(j) \/ Start(j) \/ Complete(j) \/ CompleteNoRequest(j)
      PROVE  HoldersInv'
    BY <1>2, CommandsKeepOwners
<1>3. ASSUME NEW c \in Scopes, NEW d \in RetryAfters,
             Penalize(c, d) \/ \E j \in JobIds : CompleteRetryAfter(j, c, d)
      PROVE  HoldersInv'
    BY <1>3, FreezesKeepOwners
<1>4. ASSUME NEW new \in LimitSets, SetLimits(new) \/ SetClassLimits(new)
      PROVE  HoldersInv'
    BY <1>4, NewLimitsKeepOwners
<1>5. CASE BeginPass \/ Rekey \/ Park \/ Pause \/ Sleep \/ Grant
    BY <1>5, PassesKeepOwners
<1>6. CASE EndPass \/ Tick \/ Query \/ UNCHANGED vars
    BY <1>6, OtherStepsKeepOwners
<1> QED BY <1>1, <1>2, <1>3, <1>4, <1>5, <1>6 DEF Next, Pass

\* The key on top is made for the candidate.
LEMMA TopIsItsKey ==
    ASSUME Safe(Core), cands # {}, Grantable(Popped) # {}
    PROVE  Top.seq = job[Candidate].seq /\ Top.eff \in 0 .. Highest
<1>1. Candidate \in Grantable(Popped) /\ Top \in Keys /\ KeyOk(Core, Top)
    BY CandidateIsFirst, TopIsACandidate
<1>2. Core.job = job /\ Popped.job = job
    BY PoppingIsCalm DEF Core
<1>3. Top.eff \in 0 .. Highest
    BY <1>1 DEF Keys
<1>4. CASE Top.ref \in Lanes
    <2>1. Key(Popped, Top.ref, Candidate) = Top
        BY <1>1, <1>4 DEF Grantable
    <2>2. Key(Popped, Top.ref, Candidate).seq = Popped.job[Candidate].seq
        BY DEF Key
    <2> QED BY <1>2, <1>3, <2>1, <2>2
<1>5. CASE Top.ref \notin Lanes
    <2>1. Candidate = Top.ref /\ Top = Key(Core, Top.ref, Top.ref)
        BY <1>1, <1>5 DEF Grantable, KeyOk
    <2>2. Key(Core, Top.ref, Top.ref).seq = Core.job[Top.ref].seq
        BY DEF Key
    <2> QED BY <1>2, <1>3, <2>1, <2>2
<1> QED BY <1>4, <1>5

\* An owner of the highest priority that is not parked has a key in the heap when
\* its window is passed, so the candidate has the smaller number.
LEMMA PassedOwnersAreYounger ==
    ASSUME PlacesInv, HoldersInv, phase = "pop", cands # {}, Grantable(Popped) # {},
           Reserving(Selected) = {}, NEW i \in JobIds, i # Candidate, Loose(Core, i),
           NEW w \in Range(WindowsOf(Meta)), job[i].owns = w,
           hold[w].on, hold[w].owner = i, Effective(job[i]) = Highest, ~Parked(Core, i)
    PROVE  job[Candidate].seq < job[i].seq
<1>1. Safe(Core) /\ Orderly(Core, {}, FALSE) /\ OwnersBide(Core, TRUE)
    <2>1. (phase # "pop") = FALSE /\ (phase = "pop") = TRUE
        OBVIOUS
    <2> QED BY <2>1 DEF PlacesInv, QueueInv, HoldersInv
<1>2. Core.job = job /\ Core.hold = hold /\ Core.cands = cands
    BY DEF Core
<1>3. w \in Windows
    BY <1>1, CandidateIsFirst, WindowsAreWindows
<1>4. Owns(Core, i, w)
    BY <1>2 DEF Owns
<1>5. ~IsBlocked(Core, i) /\ ~Delayed(Core, i)
    BY <1>1, <1>3, <1>4, PassedOwnersAreAwake
<1>6. i \notin Lanes /\ i \in Refs
    BY NoJobIsALane DEF Refs
<1>7. Asks(Core, i)
    BY <1>1, AskingJobs
<1>8. InHeap(Core, i)
    BY <1>1, <1>5, <1>6, <1>7 DEF Orderly, AllKept, Kept
<1>9. PICK k \in cands : k.ref = i
    BY <1>2, <1>8 DEF InHeap
<1>10. KeyOk(Core, k)
    BY <1>1, <1>2 DEF Safe, KeysOk
<1>11. k = Key(Core, i, i)
    BY <1>6, <1>9, <1>10 DEF KeyOk
<1>12. Key(Core, i, i).eff = Highest /\ Key(Core, i, i).seq = job[i].seq
    BY <1>2 DEF Key
<1>13. k # Top
    BY <1>1, <1>9, TopIsTheCandidate
<1>14. Top.eff > k.eff \/ (Top.eff = k.eff /\ Top.seq < k.seq)
    BY <1>1, <1>13, TopIsFirst
<1>15. Top.seq = job[Candidate].seq /\ Top.eff \in 0 .. Highest /\ Highest \in Nat
    BY <1>1, TopIsItsKey, Sizes
<1> QED BY <1>11, <1>12, <1>14, <1>15

\* The owner of a reservation keeps its turn: no job with a larger number is
\* granted into its window before it once it has the highest priority, unless it
\* is parked behind another reservation.  block_candidate gives the owner the
\* deadline of its hold, so it is a candidate as soon as others are let in.
THEOREM OwnersKeepTheirTurn == Spec => OwnersAreNotOvertaken
<1>1. Spec => [](PlacesInv /\ HoldersInv)
    <2>1. Init => HoldersInv
        BY DEF Init, NeverUsed, HoldersInv, OwnersBide, Owns, Loose, Waiting, Core
    <2>2. Init => PlacesInv /\ HoldersInv
        BY <2>1, InitKeepsThePlaces
    <2>3. PlacesInv /\ HoldersInv /\ [Next]_vars => (PlacesInv /\ HoldersInv)'
        BY StepsKeepThePlaces, StepsKeepTheHolders
    <2> QED BY <2>2, <2>3, PTL DEF Spec
<1>2. ASSUME PlacesInv, HoldersInv, [Next]_vars, NEW i \in JobIds, NEW j \in JobIds,
             GrantedNow(j), Waiting(Core, i), i # j, job[i].meta.lane = NoLane,
             job[i].owns # NoWindow, hold[job[i].owns].on, hold[job[i].owns].owner = i,
             job[i].owns \in Range(WindowsOf(job[j].meta)),
             Effective(job[i]) = Highest, ~ParkedSomewhere(i)
      PROVE  job[j].seq < job[i].seq
    <2>1. Grant
        <3>1. ~GrantsNothing
            BY <1>2 DEF GrantedNow, GrantsNothing, Waiting, Core
        <3> QED BY <3>1, <1>2, StepsKeepTheQueues DEF PlacesInv
    <2>2. j = Candidate
        BY <2>1, <1>2, GrantKeepsTheQueues DEF PlacesInv
    <2>3. /\ phase = "pop" /\ cands # {} /\ Grantable(Popped) # {}
          /\ Reserving(Selected) = {}
        BY <2>1 DEF Grant, Considering
    <2>4. Loose(Core, i)
        BY <1>2 DEF Loose, Core
    <2>5. ~Parked(Core, i)
        BY <1>2 DEF Parked, ParkedSomewhere, Range, Core
    <2>6. job[i].owns \in Range(WindowsOf(Meta))
        BY <1>2, <2>2 DEF Meta
    <2> DEFINE w == job[i].owns
    <2>7. w \in Range(WindowsOf(Meta)) /\ job[i].owns = w /\ hold[w].on /\ hold[w].owner = i
        BY <1>2, <2>6
    <2> HIDE DEF w
    <2> QED BY <1>2, <2>2, <2>3, <2>4, <2>5, <2>7, PassedOwnersAreYounger
<1>3. PlacesInv /\ HoldersInv /\ [Next]_vars =>
        [\A i, j \in JobIds :
            (/\ GrantedNow(j) /\ Waiting(Core, i) /\ i # j /\ job[i].meta.lane = NoLane
             /\ job[i].owns # NoWindow
             /\ hold[job[i].owns].on /\ hold[job[i].owns].owner = i
             /\ job[i].owns \in Range(WindowsOf(job[j].meta))
             /\ Effective(job[i]) = Highest /\ ~ParkedSomewhere(i))
            => job[j].seq < job[i].seq]_vars
    BY <1>2
<1> QED BY <1>1, <1>3, PTL DEF Spec, OwnersAreNotOvertaken

-----------------------------------------------------------------------------
(* What brings the pending jobs back.  A parked reference waits for the    *)
(* end of its hold, but a hold that has ended sets no timer: what matters  *)
(* is that some deadline, completion or pause is left while a live         *)
(* reference is parked.  In a pass, the candidates that are left serve as  *)
(* well.                                                                   *)

\* No deadline is over, and no delay.
Timed(s) ==
    /\ \A n \in s.blocked : n.permanent \/ n.in > 0
    /\ \A j \in JobIds : Waiting(s, j) => s.job[j].delay # 0

\* Something is left that begins a pass: a permit that is out, a delay, a node
\* or a hold.
Beats(s) ==
    \/ \E j \in JobIds : Flying(s, j) \/ (Waiting(s, j) /\ s.job[j].delay > 0)
    \/ s.blocked # {}
    \/ \E w \in Windows : s.hold[w].on /\ s.hold[w].in > 0

Lingers(s) == \E ref \in Refs : Parked(s, ref) /\ Asks(s, ref)
Offers(s) == \E k \in s.cands : Asks(s, k.ref)
Astir(s) == Lingers(s) => Beats(s) \/ Offers(s)

LEMMA SameTimes ==
    ASSUME NEW s, NEW t, t.job = s.job, t.blocked = s.blocked
    PROVE  /\ Timed(t) <=> Timed(s)
           /\ \A ref : Asks(t, ref) <=> Asks(s, ref)
           /\ t.hold = s.hold => (Beats(t) <=> Beats(s)) /\ (Lingers(t) <=> Lingers(s))
<1>1. \A j : (Waiting(t, j) <=> Waiting(s, j)) /\ (Flying(t, j) <=> Flying(s, j))
    BY DEF Waiting, Flying
<1>2. \A ref : Asks(t, ref) <=> Asks(s, ref)
    BY <1>1 DEF Asks, RefOf
<1> QED BY <1>1, <1>2 DEF Timed, Beats, Lingers, Parked

\* A lane that has no permit to give has granted one.
LEMMA FullLanesAreOut ==
    ASSUME NEW s, Safe(s), NEW l \in Lanes, ~HasCapacity(s, l)
    PROVE  Occupying(s, l) # {}
<1>1. s.lane[l].count \in Nat
    BY FieldsOfStates DEF Safe, LaneRecords
<1>2. CASE l \in Bounded
    <2>1. MaxInFlight[l] \in Nat \ {0}
        BY <1>2, LaneModes
    <2>2. s.lane[l].count > 0
        BY <1>1, <1>2, <2>1 DEF HasCapacity
    <2>3. s.lane[l].count <= Cardinality(Occupying(s, l))
        BY <1>2, <2>2 DEF Safe, LocksOk
    <2>4. Cardinality(Occupying(s, l)) \in Nat
        BY OccupantsAreFinite
    <2>5. Occupying(s, l) = {} => Cardinality(Occupying(s, l)) = 0
        BY FS_EmptySet
    <2> QED BY <1>1, <2>2, <2>3, <2>4, <2>5
<1>3. CASE l \notin Bounded
    <2>1. s.lane[l].count >= 1
        BY <1>1, <1>3 DEF HasCapacity
    <2>2. s.lane[l].holder # NoJob
        BY <1>3, <2>1 DEF Safe, LocksOk
    <2> QED BY <1>3, <2>2 DEF Safe, LocksOk
<1> QED BY <1>2, <1>3

\* If nothing else is left, the lane of a pending job can be offered.
LEMMA LivelyLanesAreReady ==
    ASSUME NEW s, Safe(s), NEW l \in Lanes, Asks(s, l), ~Beats(s)
    PROVE  Ready(s, l)
<1>1. HasCapacity(s, l)
    <2>1. Occupying(s, l) = {}
        BY DEF Occupying, Beats, Flying
    <2> QED BY <2>1, FullLanesAreOut
<1>2. ~IsBlocked(s, l)
    BY DEF Beats, IsBlocked
<1>3. Live(s, l) # {}
    BY AskingLanes
<1>4. HeadOf(s, l) \in JobIds /\ Waiting(s, HeadOf(s, l))
    BY <1>3, LiveJobsAreKnown DEF Safe, Live
<1> QED BY <1>1, <1>2, <1>3, <1>4 DEF Ready, Beats

LEMMA ReadyStays ==
    ASSUME NEW s, Safe(s), NEW t, Safe(t), t.job = s.job, t.blocked = s.blocked,
           NEW l \in Lanes, t.lane[l].count = s.lane[l].count, Ready(s, l)
    PROVE  Ready(t, l)
<1>1. Fading(s, t) /\ AllWaitOn(s, t, l)
    BY DEF Fading, AllWaitOn, Waiting
<1>2. Live(t, l) = Live(s, l) /\ Live(s, l) # {} /\ HeadOf(t, l) = HeadOf(s, l)
    BY <1>1, HeadsStay DEF Ready
<1> QED BY <1>2 DEF Ready, HasCapacity, IsBlocked

\* A pass begins with the first live reference parked behind each hold that is
\* over, so that a queue is left only if that one is in the heap or waits for
\* something else.
LEMMA BeginningStirs ==
    ASSUME NEW s, Safe(s), NEW b, Orderly(s, {}, b)
    PROVE  LET t == CompactLanes(PromoteReservations(PromoteBlocked(PromoteDelayed(s)))) IN
           Timed(t) /\ Astir(t)
<1> DEFINE d == PromoteDelayed(s)
           e == PromoteBlocked(d)
           f == PromoteReservations(e)
           t == CompactLanes(f)
           c == Reopened(e)
<1>1. Orderly(t, {}, b)
    BY BeginningKeepsOrder
<1>2. Safe(d)
    BY UndelayingEases
<1>3. \A j \in JobIds : Waiting(d, j) => d.job[j].delay # 0
    <2> DEFINE u == Undelaying(s)
               refs == {RefOf(s, j) : j \in Due(s)}
    <2>1. /\ d = PushAll(u, refs) /\ Mild(s, u)
          /\ refs \in SUBSET Refs /\ \A ref \in refs : RefOk(u, ref)
          /\ \A j \in JobIds :
                IF j \in Due(s)
                THEN u.job[j].st = "waiting" /\ u.job[j].meta = s.job[j].meta
                     /\ u.job[j].delay = NotDelayed
                ELSE u.job[j] = s.job[j]
        BY UndelayingIsMild
    <2> HIDE DEF u, refs
    <2>2. d.job = u.job
        BY <2>1, PushingIsMild DEF Mild
    <2> QED BY <2>1, <2>2 DEF Due, Waiting, NotDelayed
<1> HIDE DEF d
<1>4. /\ Safe(e) /\ e.job = d.job
      /\ \A n \in e.blocked : n.permanent \/ n.in > 0
    BY <1>2, ServingDeadlinesEases
<1> HIDE DEF e
<1>5. /\ f = PushAll(c, Woken(e)) /\ Safe(c)
      /\ Woken(e) \in SUBSET Refs /\ \A ref \in Woken(e) : RefOk(c, ref)
      /\ c.job = e.job /\ c.blocked = e.blocked /\ c.hold = HoldsBehind(e)
      /\ \A w \in Waking(e) : FirstEntry(e, w) \in LiveEntries(e, w)
    BY <1>4, ReopeningIsMild DEF Mild
<1> HIDE DEF c
<1>6. Pushed(c, f, Woken(e)) /\ Safe(f)
    BY <1>5, PushingIsMild DEF Mild
<1> HIDE DEF f
<1>7. /\ Safe(t) /\ t.job = f.job /\ t.hold = f.hold /\ t.cands = f.cands
      /\ t.blocked = f.blocked /\ \A l \in Lanes : t.lane[l].queued = f.lane[l].queued
    BY <1>6, CompactingLanesIsCalm, CalmChangesAreSafe
<1> HIDE DEF t
<1>8. t.job = e.job /\ t.job = c.job /\ t.blocked = e.blocked /\ t.blocked = c.blocked
      /\ t.hold = c.hold
    BY <1>5, <1>6, <1>7 DEF Pushed
<1>9. Timed(t)
    BY <1>3, <1>4, <1>8 DEF Timed, Waiting
<1>10. ASSUME NEW w \in Windows, NEW i \in DOMAIN t.hold[w].queue, ~Beats(t)
       PROVE  Offers(t)
    <2>1. t.hold[w].on /\ t.hold[w].in = 0
        <3>1. t.hold[w].on
            BY <1>7, <1>10 DEF Safe, RefsOk
        <3>2. t.hold[w].in \in Nat
            BY <1>7, ParkedReferences DEF HoldRecords
        <3> QED BY <3>1, <3>2, <1>10 DEF Beats
    <2>2. w \in Waking(e)
        <3>1. CASE w \in Expired(e)
            BY <2>1, <3>1, <1>5, <1>8 DEF HoldsBehind, NoHold
        <3>2. CASE w \notin Expired(e)
            <4>1. w \notin Waking(e)
                BY <3>2 DEF Waking
            <4>2. t.hold[w] = e.hold[w]
                BY <4>1, <3>2, <1>5, <1>8 DEF HoldsBehind
            <4> QED BY <2>1, <3>2, <4>2 DEF Expired
        <3> QED BY <3>1, <3>2
    <2> DEFINE x == e.hold[w].queue[FirstEntry(e, w)]
    <2>3. x \in Woken(e) /\ Alive(e, x) /\ RefOk(e, x)
        <3>1. FirstEntry(e, w) \in DOMAIN e.hold[w].queue /\ Alive(e, x)
            BY <2>2, <1>5 DEF LiveEntries
        <3> QED BY <2>2, <3>1, <1>4 DEF Woken, Safe, RefsOk
    <2> HIDE DEF x
    <2>4. Asks(e, x) /\ Asks(t, x) /\ Asks(c, x)
        <3>1. Asks(e, x)
            BY <2>3, <1>4, AskingIsAlive
        <3> QED BY <3>1, <1>5, <1>8, SameTimes
    <2>5. CASE x \notin Lanes
        <3>1. Waiting(c, x)
            BY <2>3, <2>5, <1>5 DEF Alive, Waiting
        <3>2. Key(c, x, x) \in t.cands
            BY <2>3, <2>5, <3>1, <1>6, <1>7 DEF Pushed
        <3> QED BY <2>4, <3>2 DEF Offers, Key
    <2>6. CASE x \in Lanes
        <3>1. ~Beats(c)
            BY <1>8, <1>10, SameTimes
        <3>2. Ready(c, x)
            BY <2>4, <2>6, <3>1, <1>5, LivelyLanesAreReady
        <3>3. t.lane[x].queued
            BY <2>3, <2>6, <3>2, <1>6, <1>7 DEF Pushed
        <3>4. InHeap(t, x)
            BY <2>6, <3>3, <1>1 DEF Orderly, QueuedOk, t, f, e, d
        <3> QED BY <2>4, <3>4 DEF InHeap, Offers
    <2> QED BY <2>5, <2>6
<1>11. Astir(t)
    BY <1>10 DEF Astir, Lingers, Parked
<1> QED BY <1>9, <1>11 DEF t, f, e, d

\* A key that is popped in vain goes back, if nothing else is left.
LEMMA RekeyingOffersAgain ==
    ASSUME Safe(Core), cands # {}, Grantable(Popped) = {}
    PROVE  LET t == Rekeyed(Popped, Top.ref) IN
           /\ t.job = job /\ t.hold = hold /\ t.blocked = blocked
           /\ cands \ {Top} \subseteq t.cands
           /\ Ready(Core, Top.ref) => InHeap(t, Top.ref)
<1> DEFINE s == Popped
           l == Top.ref
           e == [s EXCEPT !.lane[l].pending = {}]
           t == Rekeyed(s, l)
<1>1. /\ Calm(Core, s) /\ s.job = job /\ s.hold = hold /\ s.blocked = blocked
      /\ s.cands = cands \ {Top}
      /\ \A m \in Lanes : s.lane[m].count = lane[m].count
      /\ l \in Lanes => ~s.lane[l].queued
    BY PoppingIsCalm
<1>2. l \in Lanes
    BY DEF Grantable
<1>3. /\ Core.job = job /\ Core.hold = hold /\ Core.blocked = blocked /\ Core.lane = lane
    BY DEF Core
<1> HIDE DEF l, s
<1>4. Safe(s) /\ s \in States
    BY <1>1, CalmChangesAreSafe DEF Safe
<1>5. Ready(Core, l) => Ready(s, l)
    BY <1>1, <1>2, <1>3, <1>4, ReadyStays
<1>6. CASE ~HasCapacity(s, l)
    <2>1. t = s /\ ~Ready(Core, l)
        BY <1>5, <1>6 DEF Rekeyed, Ready
    <2> QED BY <2>1, <1>1 DEF s, l
<1>7. CASE HasCapacity(s, l) /\ Live(s, l) = {}
    <2>1. t = RemoveIdle(e, l) /\ ~Ready(Core, l)
        BY <1>5, <1>7 DEF Rekeyed, Ready
    <2>2. RemoveIdle(e, l) = [e EXCEPT !.lane[l] = NewLane] \/ RemoveIdle(e, l) = e
        BY DEF RemoveIdle
    <2>3. e.job = s.job /\ e.hold = s.hold /\ e.cands = s.cands /\ e.blocked = s.blocked
        BY <1>4 DEF States
    <2>4. /\ [e EXCEPT !.lane[l] = NewLane].job = e.job
          /\ [e EXCEPT !.lane[l] = NewLane].hold = e.hold
          /\ [e EXCEPT !.lane[l] = NewLane].cands = e.cands
          /\ [e EXCEPT !.lane[l] = NewLane].blocked = e.blocked
        BY <1>4 DEF States
    <2> HIDE DEF t, e
    <2>5. t.job = job /\ t.hold = hold /\ t.blocked = blocked /\ t.cands = cands \ {Top}
        BY <2>1, <2>2, <2>3, <2>4, <1>1
    <2> QED BY <2>1, <2>5 DEF t, s, l
<1>8. CASE HasCapacity(s, l) /\ Live(s, l) # {}
    <2> DEFINE d == Drain(s, l)
    <2>1. t = PushLane(d, l)
        BY <1>8 DEF Rekeyed
    <2>2. /\ Calm(s, d) /\ d.job = s.job /\ d.hold = s.hold /\ d.cands = s.cands
          /\ d.blocked = s.blocked
          /\ d.lane[l].count = s.lane[l].count /\ d.lane[l].queued = s.lane[l].queued
        BY <1>2, <1>4, <1>8, DrainingIsCalm
    <2> HIDE DEF d, t
    <2>3. Safe(d)
        BY <1>4, <2>2, CalmChangesAreSafe
    <2>4. Pushed(d, t, {l})
        BY <1>2, <2>1, <2>3, PushingALaneIsMild
    <2>5. /\ t.job = job /\ t.hold = hold /\ t.blocked = blocked
          /\ cands \ {Top} \subseteq t.cands
        BY <2>2, <2>4, <1>1 DEF Pushed
    <2>6. Ready(Core, l) => Ready(d, l)
        BY <1>2, <1>4, <1>5, <2>2, <2>3, ReadyStays
    <2>7. Ready(Core, l) => t.lane[l].queued /\ ~d.lane[l].queued
        BY <1>1, <1>2, <2>2, <2>4, <2>6 DEF Pushed
    <2>8. Ready(Core, l) => InHeap(t, l)
        BY <1>2, <2>4, <2>7 DEF Pushed, InHeap
    <2> QED BY <2>5, <2>8 DEF t, s, l
<1> QED BY <1>6, <1>7, <1>8

LEMMA RekeyingStirs ==
    ASSUME Safe(Core), cands # {}, Grantable(Popped) = {}, Timed(Core), Astir(Core)
    PROVE  LET t == Rekeyed(Popped, Top.ref) IN Timed(t) /\ Astir(t)
<1> DEFINE t == Rekeyed(Popped, Top.ref)
           l == Top.ref
<1>1. /\ t.job = job /\ t.hold = hold /\ t.blocked = blocked
      /\ cands \ {Top} \subseteq t.cands
      /\ Ready(Core, l) => InHeap(t, l)
    BY RekeyingOffersAgain
<1>2. /\ Core.job = job /\ Core.hold = hold /\ Core.blocked = blocked /\ Core.cands = cands
    BY DEF Core
<1>3. l \in Lanes
    BY DEF Grantable
<1> HIDE DEF t
<1>4. /\ Timed(t) /\ \A ref : Asks(t, ref) <=> Asks(Core, ref)
      /\ (Beats(t) <=> Beats(Core)) /\ (Lingers(t) <=> Lingers(Core))
    BY <1>1, <1>2, SameTimes
<1>5. ASSUME Lingers(t), ~Beats(t)
      PROVE  Offers(t)
    <2>1. PICK k \in cands : Asks(Core, k.ref)
        BY <1>2, <1>4, <1>5 DEF Astir, Offers
    <2>2. CASE k # Top
        BY <2>1, <2>2, <1>1, <1>4 DEF Offers
    <2>3. CASE k = Top
        <3>1. Ready(Core, l)
            BY <2>1, <2>3, <1>3, <1>4, <1>5, LivelyLanesAreReady
        <3> QED BY <2>1, <2>3, <3>1, <1>1, <1>4 DEF InHeap, Offers
    <2> QED BY <2>2, <2>3
<1> QED BY <1>4, <1>5 DEF Astir, t

LEMMA ParkingStirs ==
    ASSUME Safe(Core), cands # {}, Grantable(Popped) # {}, Reserving(Selected) # {},
           Orderly(Core, {}, FALSE), Timed(Core)
    PROVE  LET t == [Selected EXCEPT !.hold[FirstOf(Reserving(Selected))].queue =
                        Append(@, Top.ref)] IN
           Timed(t) /\ Astir(t)
<1> DEFINE s == Selected
           w == FirstOf(Reserving(s))
           x == [s.hold[w] EXCEPT !.queue = Append(s.hold[w].queue, Top.ref)]
           t == [s EXCEPT !.hold[w].queue = Append(@, Top.ref)]
<1>1. t.job = job /\ t.blocked = blocked
    BY ParkingKeepsOrder
<1>2. Core.job = job /\ Core.blocked = blocked
    BY DEF Core
<1>3. Safe(s) /\ Meta \in Metas
    BY SelectingIsCalm, CandidateIsFirst
<1>4. w \in Windows /\ HoldActive(s, w)
    <2>1. Reserving(s) \in SUBSET Range(WindowsOf(Meta))
        BY DEF Reserving
    <2>2. w \in Reserving(s) /\ w \in Windows
        BY <1>3, <2>1, FirstOfIsOne
    <2> QED BY <2>2 DEF Reserving
<1> HIDE DEF s, w
<1>5. s.hold \in [Windows -> HoldRecords] /\ s \in States
    BY <1>3, FieldsOfStates DEF Safe
<1>6. x.on = s.hold[w].on /\ x.in = s.hold[w].in
    BY <1>4, <1>5 DEF HoldRecords
<1>7. t.hold[w] = x
    <2>1. t.hold = [s.hold EXCEPT ![w] = x]
        BY <1>5 DEF States
    <2> HIDE DEF x, t
    <2> QED BY <2>1, <1>4, <1>5
<1> HIDE DEF x, t
<1>8. Beats(t)
    BY <1>4, <1>6, <1>7 DEF HoldActive, Beats
<1>9. Timed(t)
    BY <1>1, <1>2, SameTimes DEF t, s, w
<1> QED BY <1>8, <1>9 DEF Astir, t, s, w

\* The candidate goes to sleep: it is in `blocked`, with a deadline that is not over.
LEMMA SleepersStir ==
    ASSUME NEW s, NEW t, Timed(s), NEW n, n.permanent \/ n.in > 0, NEW ref,
           t.blocked = {m \in s.blocked : m.ref # ref} \cup {n},
           \A j \in JobIds : Waiting(t, j) => Waiting(s, j) /\ t.job[j].delay = s.job[j].delay
    PROVE  Timed(t) /\ Astir(t)
BY DEF Timed, Astir, Beats

LEMMA PausingStirs ==
    ASSUME Safe(Core), cands # {}, Grantable(Popped) # {}, Orderly(Core, {}, FALSE),
           Timed(Core)
    PROVE  LET t == Block(ReleasePreviousReservation(Selected, NoWindow), Top.ref, 0, TRUE)
           IN  Timed(t) /\ Astir(t)
<1> DEFINE s == Selected
           r == ReleasePreviousReservation(s, NoWindow)
           n == [ref |-> Top.ref, in |-> 0, permanent |-> TRUE]
           t == Block(r, Top.ref, 0, TRUE)
<1>1. /\ Safe(s) /\ InHand(s, Top.ref) /\ s.job = job /\ s.blocked = blocked
    BY SelectedIsInHand, SelectingIsCalm
<1>2. /\ Core.job = job /\ Core.blocked = blocked
    BY DEF Core
<1>3. RefOk(s, Top.ref) /\ Candidate \in JobIds /\ Waiting(s, Candidate)
    BY TopAsks
<1> HIDE DEF s
<1>4. r.blocked = s.blocked /\ Safe(r)
    BY <1>1, <1>3, ReleasingPreviousKeepsHand
<1>5. /\ Waiting(r, Candidate) /\ r.job[Candidate].delay = s.job[Candidate].delay
      /\ \A j \in JobIds \ {Candidate} : r.job[j] = s.job[j]
    BY <1>1, <1>3, ReleasingPreviousEases
<1> HIDE DEF r
<1>6. t.job = r.job /\ t.blocked = {m \in r.blocked : m.ref # Top.ref} \cup {n}
    BY <1>4 DEF Block, Safe, States
<1>7. n.permanent
    OBVIOUS
<1> HIDE DEF t, n
<1>8. \A j \in JobIds : Waiting(t, j) =>
            Waiting(Core, j) /\ t.job[j].delay = Core.job[j].delay
    BY <1>1, <1>2, <1>3, <1>5, <1>6 DEF Waiting
<1>9. t.blocked = {m \in Core.blocked : m.ref # Top.ref} \cup {n}
    BY <1>1, <1>2, <1>4, <1>6
<1> QED BY <1>7, <1>8, <1>9, SleepersStir DEF t, r, s

LEMMA SleepingStirs ==
    ASSUME Safe(Core), Debited(Core), limits \in LimitSets, penalty \in [Scopes -> Nat],
           cands # {}, Grantable(Popped) # {}, ~Paused, Orderly(Core, {}, FALSE),
           Until(Selected) > 0, Timed(Core)
    PROVE  LET until == Until(Selected)
               window == IF Short(Selected) = {} THEN NoWindow ELSE FirstOf(Short(Selected))
               t == Block(Reserved(ReleasePreviousReservation(Selected, window), window, until),
                          Top.ref, until, FALSE)
           IN  Timed(t) /\ Astir(t)
<1> DEFINE s == Selected
           until == Until(s)
           w == IF Short(s) = {} THEN NoWindow ELSE FirstOf(Short(s))
           r == ReleasePreviousReservation(s, w)
           o == Reserved(r, w, until)
           n == [ref |-> Top.ref, in |-> until, permanent |-> FALSE]
           t == Block(o, Top.ref, until, FALSE)
<1>1. /\ Safe(s) /\ InHand(s, Top.ref) /\ s.job = job /\ s.ledger = ledger
      /\ s.blocked = blocked
    BY SelectedIsInHand, SelectingIsCalm
<1>2. /\ Core.job = job /\ Core.blocked = blocked
    BY DEF Core
<1>3. /\ Top.ref \in Refs /\ RefOk(s, Top.ref) /\ Asks(s, Top.ref)
      /\ Candidate \in JobIds /\ Waiting(s, Candidate) /\ Meta \in Metas
    BY TopAsks, CandidateIsFirst
<1>4. until \in Nat
    <2>1. Debited(s) /\ s \in States
        BY <1>1 DEF Debited, Core, Known, Safe
    <2> QED BY <1>3, <2>1, UntilIsTyped
<1>5. w \in Windows \cup {NoWindow}
    <2>1. Short(s) \in SUBSET Range(WindowsOf(Meta))
        BY DEF Short
    <2> QED BY <1>3, <2>1, FirstOfIsOne
<1>6. n.in > 0
    OBVIOUS
<1> HIDE DEF s, w, until
<1>7. /\ Safe(r) /\ Standing(s, r) /\ r.blocked = s.blocked
    BY <1>1, <1>3, ReleasingPreviousKeepsHand
<1>8. /\ Waiting(r, Candidate) /\ r.job[Candidate].delay = s.job[Candidate].delay
      /\ \A j \in JobIds \ {Candidate} : r.job[j] = s.job[j]
    BY <1>1, <1>3, ReleasingPreviousEases
<1>9. RefOk(r, Top.ref)
    BY <1>3, <1>7, StandingRefs
<1> HIDE DEF r
<1>10. Safe(o)
    BY <1>3, <1>4, <1>5, <1>7, <1>8, <1>9, ReservingIsMild DEF Mild
<1>11. /\ o.blocked = r.blocked /\ o.job[Candidate].st = r.job[Candidate].st
       /\ o.job[Candidate].delay = r.job[Candidate].delay
       /\ \A j \in JobIds \ {Candidate} : o.job[j] = r.job[j]
    BY <1>3, <1>4, <1>5, <1>7, <1>8, ReservedIs
<1> HIDE DEF o
<1>12. t.job = o.job /\ t.blocked = {m \in o.blocked : m.ref # Top.ref} \cup {n}
    BY <1>10 DEF Block, Safe, States
<1> HIDE DEF t, n
<1>13. \A j \in JobIds : Waiting(t, j) =>
            Waiting(Core, j) /\ t.job[j].delay = Core.job[j].delay
    BY <1>1, <1>2, <1>3, <1>8, <1>11, <1>12 DEF Waiting
<1>14. t.blocked = {m \in Core.blocked : m.ref # Top.ref} \cup {n}
    BY <1>1, <1>2, <1>7, <1>11, <1>12
<1>15. Timed(t) /\ Astir(t)
    BY <1>6, <1>13, <1>14, SleepersStir
<1> QED BY <1>15 DEF t, o, r, w, until, s

LEMMA GrantingStirs ==
    ASSUME Safe(Core), Debited(Core), limits \in LimitSets, cands # {},
           Grantable(Popped) # {}, Timed(Core)
    PROVE  LET t == RearmReservations(Granted(Selected, Candidate)) IN
           Timed(t) /\ Astir(t)
<1> DEFINE s == Selected
           c == Candidate
           l == s.job[c].meta.lane
           u == Served(s, c)
           g == Granted(s, c)
           t == RearmReservations(g)
<1>1. /\ Safe(s) /\ s.job = job /\ s.blocked = blocked
    BY SelectingIsCalm
<1>2. /\ c \in JobIds /\ Waiting(s, c) /\ Meta \in Metas
      /\ job[c].meta.lane # NoLane => HasCapacity(s, job[c].meta.lane)
      /\ \A k \in s.cands : k.ref # c
      /\ Safe(g) /\ Debited(g)
      /\ g.job = [job EXCEPT ![c] = GrantedJob(job[c])]
    BY CandidateIsGranted, CandidateIsFirst
<1>3. Core.job = job /\ Core.blocked = blocked
    BY DEF Core
<1> HIDE DEF s, c
<1>4. g = IF Rearms(u, l) THEN PushLane(u, l) ELSE u
    BY <1>1, <1>2, GrantedIsSafe
<1>5. l \in Lanes \cup {NoLane} /\ s \in States
    BY <1>1, <1>2, WaitingJobs DEF Safe
<1>6. u.blocked = blocked
    BY <1>1, <1>2, <1>5, ServedIs
<1>7. Safe(u)
    BY <1>1, <1>2, ServedIsSafe
<1> HIDE DEF u, l, g
<1>8. g.blocked = blocked
    <2>1. CASE Rearms(u, l)
        <3>1. l \in Lanes
            BY <2>1, <1>5, LaneModes DEF Rearms
        <3>2. Pushed(u, PushLane(u, l), {l})
            BY <1>7, <3>1, PushingALaneIsMild
        <3> QED BY <2>1, <3>2, <1>4, <1>6 DEF Pushed
    <2>2. CASE ~Rearms(u, l)
        BY <2>2, <1>4, <1>6
    <2> QED BY <2>1, <2>2
<1>9. job \in [JobIds -> JobRecords]
    BY <1>3, FieldsOfStates DEF Safe
<1>10. /\ g.job[c] = GrantedJob(job[c])
       /\ \A i \in JobIds \ {c} : g.job[i] = job[i]
    BY <1>2, <1>9
<1>11. GrantedJob(job[c]).st = "granted"
    BY <1>2, <1>9 DEF GrantedJob, JobRecords
<1>12. t.job = g.job /\ t.blocked = g.blocked
    BY <1>2, ExtendingIsCalm
<1> HIDE DEF t
<1>13. Flying(t, c)
    BY <1>10, <1>11, <1>12 DEF Flying
<1>14. \A i \in JobIds : Waiting(t, i) => Waiting(Core, i) /\ t.job[i] = Core.job[i]
    BY <1>3, <1>10, <1>11, <1>12 DEF Waiting
<1>15. Timed(t)
    BY <1>3, <1>8, <1>12, <1>14 DEF Timed
<1>16. Astir(t)
    BY <1>2, <1>13 DEF Astir, Beats
<1> QED BY <1>15, <1>16 DEF t, g, s, c

LEMMA EndingStirs ==
    ASSUME NEW s, Safe(s), NEW b, Orderly(s, {}, b), s.cands = {}, Timed(s), Astir(s)
    PROVE  Timed(CompactReservations(s)) /\ Astir(CompactReservations(s))
<1> DEFINE t == CompactReservations(s)
<1>1. t.job = s.job /\ t.blocked = s.blocked
    BY CompactingReservationsIsCalm
<1>2. \A w \in Windows : Drawn(t.hold[w].queue, s.hold[w].queue)
    BY CompactingReservationsKeepsOrder
<1>3. \A w \in Windows : t.hold[w].on = s.hold[w].on /\ t.hold[w].in = s.hold[w].in
    BY EndingEases
<1> HIDE DEF t
<1>4. Timed(t) /\ \A ref : Asks(t, ref) <=> Asks(s, ref)
    BY <1>1, SameTimes
<1>5. \A ref : Parked(t, ref) => Parked(s, ref)
    BY <1>2, DrawnQueues
<1>6. Lingers(t) => Lingers(s)
    BY <1>4, <1>5 DEF Lingers
<1>7. Beats(s) => Beats(t)
    BY <1>1, <1>3 DEF Beats, Flying, Waiting
<1> QED BY <1>4, <1>6, <1>7 DEF Astir, Offers, t

\* The actor sleeps on: nothing that has a time has come to its end.
LEMMA TickingStirs ==
    ASSUME Safe(Core), cands = {}, ~DeadlineNext, Timed(Core), Astir(Core)
    PROVE  Timed(Ticked) /\ Astir(Ticked)
<1> DEFINE t == Ticked
<1>1. /\ Core.job = job /\ Core.hold = hold /\ Core.blocked = blocked /\ Core.cands = cands
      /\ job \in [JobIds -> JobRecords] /\ hold \in [Windows -> HoldRecords]
      /\ blocked \subseteq Nodes
    BY FieldsOfStates DEF Safe, Core
<1>2. /\ t.job = [j \in JobIds |-> Aged(job[j])]
      /\ t.blocked = {[n EXCEPT !.in = Less(@)] : n \in blocked}
      /\ t.hold = [w \in Windows |-> [hold[w] EXCEPT !.in = Less(@)]]
    BY DEF Ticked
<1> HIDE DEF t
<1>3. ASSUME NEW j \in JobIds
      PROVE  /\ Waiting(t, j) <=> Waiting(Core, j)
             /\ Flying(t, j) <=> Flying(Core, j)
             /\ Waiting(Core, j) =>
                    /\ RefOf(t, j) = RefOf(Core, j) /\ t.job[j].delay # 0
                    /\ job[j].delay > 0 => t.job[j].delay > 0
    <2> DEFINE r == job[j]
    <2>1. r \in JobRecords /\ t.job[j] = Aged(r) /\ Core.job[j] = r
        BY <1>1, <1>2
    <2>2. r.st = "waiting" => r.delay # 0 /\ r.delay # 1
        BY <1>1 DEF Timed, Waiting, DeadlineNext
    <2> HIDE DEF r
    <2>3. Aged(r).st = r.st /\ (r.st # "none" => Aged(r).meta = r.meta)
        BY <2>1, AgedJobs
    <2>4. ASSUME r.st = "waiting"
          PROVE  /\ Aged(r).delay # 0
                 /\ r.delay > 0 => Aged(r).delay > 0
        <3>1. r \in [st : {"waiting", "granted", "started", "done", "cancelled"}, meta : Metas,
                     seq : JobIds, age : 0 .. Highest * Quantum, delay : {NotDelayed} \cup Nat,
                     owns : Windows \cup {NoWindow}, ago : 0 .. MaxLen, spent : BOOLEAN]
            BY <2>1, <2>4 DEF JobRecords, NeverUsed
        <3>2. CASE r.delay = NotDelayed
            BY <2>1, <2>4, <3>2, AgedDelays DEF NotDelayed
        <3>3. CASE r.delay # NotDelayed
            <4> DEFINE x == Less(r.delay)
            <4>1. r.delay \in Nat /\ r.delay > 1
                BY <2>2, <2>4, <3>1, <3>3 DEF NotDelayed
            <4>2. Aged(r) = [r EXCEPT !.delay = x]
                BY <2>4, <3>3 DEF Aged
            <4>3. x \in Nat /\ x > 0
                BY <4>1, LessIsLess
            <4> HIDE DEF x
            <4>4. Aged(r).delay = x
                BY <3>1, <4>2
            <4> QED BY <4>3, <4>4
        <3> QED BY <3>2, <3>3
    <2>5. Waiting(Core, j) <=> r.st = "waiting"
        BY <2>1 DEF Waiting
    <2>6. Waiting(Core, j) => RefOf(t, j) = RefOf(Core, j)
        BY <2>1, <2>3, <2>5 DEF RefOf
    <2> QED BY <2>1, <2>3, <2>4, <2>5, <2>6 DEF Waiting, Flying, r
<1>4. ASSUME NEW m \in t.blocked
      PROVE  m.permanent \/ m.in > 0
    <2>1. PICK n \in blocked : m = [n EXCEPT !.in = Less(n.in)]
        BY <1>2
    <2>2. n \in Nodes
        BY <1>1
    <2>3. m.permanent = n.permanent /\ m.in = Less(n.in) /\ n.in \in Nat
        BY <2>1, <2>2 DEF Nodes
    <2>4. n.permanent \/ n.in > 1
        BY <1>1, <2>3 DEF Timed, DeadlineNext
    <2> QED BY <2>3, <2>4, LessIsLess
<1>5. ASSUME NEW w \in Windows
      PROVE  /\ t.hold[w].queue = hold[w].queue /\ t.hold[w].on = hold[w].on
             /\ hold[w].on /\ hold[w].in > 0 => t.hold[w].in > 0
    <2>1. t.hold[w] = [hold[w] EXCEPT !.in = Less(hold[w].in)] /\ hold[w] \in HoldRecords
        BY <1>1, <1>2
    <2>2. /\ t.hold[w].queue = hold[w].queue /\ t.hold[w].on = hold[w].on
          /\ t.hold[w].in = Less(hold[w].in) /\ hold[w].in \in Nat
        BY <2>1 DEF HoldRecords
    <2>3. hold[w].on => hold[w].in # 1
        BY DEF DeadlineNext
    <2> QED BY <2>2, <2>3, LessIsLess
<1>6. Timed(t)
    BY <1>3, <1>4 DEF Timed
<1>7. Lingers(t) => Lingers(Core)
    BY <1>1, <1>3, <1>5 DEF Lingers, Parked, Asks
<1>8. Beats(Core) => Beats(t)
    <2>1. blocked # {} => t.blocked # {}
        <3> DEFINE F(n) == [n EXCEPT !.in = Less(n.in)]
        <3>1. t.blocked = {F(n) : n \in blocked}
            BY <1>2
        <3> HIDE DEF F
        <3> QED BY <3>1
    <2>2. (\E j \in JobIds : Flying(Core, j) \/ (Waiting(Core, j) /\ job[j].delay > 0))
            => \E j \in JobIds : Flying(t, j) \/ (Waiting(t, j) /\ t.job[j].delay > 0)
        BY <1>3
    <2>3. (\E w \in Windows : hold[w].on /\ hold[w].in > 0)
            => \E w \in Windows : t.hold[w].on /\ t.hold[w].in > 0
        BY <1>5
    <2> QED BY <1>1, <2>1, <2>2, <2>3 DEF Beats
<1>9. ~Offers(Core)
    BY <1>1 DEF Offers
<1> QED BY <1>6, <1>7, <1>8, <1>9 DEF Astir, t

-----------------------------------------------------------------------------
(* The steps.                                                              *)

StirInv == phase # "due" => Timed(Core) /\ Astir(Core)

LEMMA StirringSettles ==
    ASSUME NEW STATE t, t \in States, Install(t), Timed(t) /\ Astir(t)
    PROVE  StirInv'
<1>1. Core' = t
    BY InstalledIs
<1> QED BY <1>1 DEF StirInv

LEMMA PassesStir ==
    ASSUME PlacesInv, StirInv, BeginPass \/ Rekey \/ Park \/ Pause \/ Sleep \/ Grant
    PROVE  StirInv'
<1>1. /\ Safe(Core) /\ Debited(Core) /\ limits \in LimitSets /\ penalty \in [Scopes -> Nat]
      /\ Orderly(Core, {}, phase # "pop")
    BY DEF PlacesInv, QueueInv
<1>2. CASE BeginPass
    <2> DEFINE t == CompactLanes(PromoteReservations(PromoteBlocked(PromoteDelayed(Core))))
    <2>1. Install(t)
        BY <1>2 DEF BeginPass
    <2>2. Mild(Core, t) /\ Timed(t) /\ Astir(t)
        BY <1>1, BeginningAPassIsMild, BeginningStirs
    <2> HIDE DEF t
    <2> QED BY <2>1, <2>2, StirringSettles DEF Mild, Safe
<1>3. ASSUME phase = "pop"
      PROVE  Orderly(Core, {}, FALSE) /\ Timed(Core) /\ Astir(Core)
    <2>1. (phase # "pop") = FALSE
        BY <1>3
    <2> QED BY <1>1, <1>3, <2>1 DEF StirInv
<1>4. CASE Rekey
    <2> DEFINE t == Rekeyed(Popped, Top.ref)
    <2>1. phase = "pop" /\ cands # {} /\ Grantable(Popped) = {} /\ Install(t)
        BY <1>4 DEF Rekey
    <2>2. Mild(Core, t) /\ Timed(t) /\ Astir(t)
        BY <1>1, <1>3, <2>1, RekeyingIsMild, RekeyingStirs
    <2> HIDE DEF t
    <2> QED BY <2>1, <2>2, StirringSettles DEF Mild, Safe
<1>5. ASSUME Considering
      PROVE  phase = "pop" /\ cands # {} /\ Grantable(Popped) # {}
    BY <1>5 DEF Considering
<1>6. CASE Park
    <2> DEFINE t == [Selected EXCEPT !.hold[FirstOf(Reserving(Selected))].queue =
                         Append(@, Top.ref)]
    <2>1. Considering /\ Reserving(Selected) # {} /\ Install(t)
        BY <1>6 DEF Park
    <2>2. Mild(Core, t) /\ Timed(t) /\ Astir(t)
        BY <1>1, <1>3, <1>5, <2>1, ParkingIsMild, ParkingStirs
    <2> HIDE DEF t
    <2> QED BY <2>1, <2>2, StirringSettles DEF Mild, Safe
<1>7. CASE Pause
    <2> DEFINE t == Block(ReleasePreviousReservation(Selected, NoWindow), Top.ref, 0, TRUE)
    <2>1. Considering /\ Install(t)
        BY <1>7 DEF Pause
    <2>2. Mild(Core, t) /\ Timed(t) /\ Astir(t)
        BY <1>1, <1>3, <1>5, <2>1, PausingIsMild, PausingStirs
    <2> HIDE DEF t
    <2> QED BY <2>1, <2>2, StirringSettles DEF Mild, Safe
<1>8. CASE Sleep
    <2> DEFINE until == Until(Selected)
               window == IF Short(Selected) = {} THEN NoWindow ELSE FirstOf(Short(Selected))
               t == Block(Reserved(ReleasePreviousReservation(Selected, window), window, until),
                          Top.ref, until, FALSE)
    <2>1. Considering /\ ~Paused /\ Until(Selected) > 0 /\ Install(t)
        BY <1>8 DEF Sleep
    <2>2. Mild(Core, t)
        BY <1>1, <1>5, <2>1, SleepingIsMild
    <2>3. Timed(t) /\ Astir(t)
        BY <1>1, <1>3, <1>5, <2>1, SleepingStirs
    <2> HIDE DEF t
    <2> QED BY <2>1, <2>2, <2>3, StirringSettles DEF Mild, Safe
<1>9. CASE Grant
    <2> DEFINE t == RearmReservations(Granted(Selected, Candidate))
    <2>1. Considering /\ Install(t)
        BY <1>9 DEF Grant
    <2>2. Safe(t) /\ Timed(t) /\ Astir(t)
        BY <1>1, <1>3, <1>5, <2>1, GrantingIsSafe, GrantingStirs
    <2> HIDE DEF t
    <2> QED BY <2>1, <2>2, StirringSettles DEF Safe
<1> QED BY <1>2, <1>4, <1>6, <1>7, <1>8, <1>9

LEMMA StepsStir ==
    ASSUME PlacesInv, StirInv, [Next]_vars
    PROVE  StirInv'
<1>1. CASE phase' = "due"
    BY <1>1 DEF StirInv
<1>2. CASE BeginPass \/ Rekey \/ Park \/ Pause \/ Sleep \/ Grant
    BY <1>2, PassesStir
<1>3. CASE EndPass
    <2> DEFINE t == CompactReservations(Core)
    <2>1. /\ Safe(Core) /\ phase = "pop" /\ cands = {} /\ Install(t)
          /\ Orderly(Core, {}, phase # "pop") /\ Timed(Core) /\ Astir(Core)
        BY <1>3 DEF PlacesInv, QueueInv, EndPass, StirInv
    <2>2. Calm(Core, t) /\ Timed(t) /\ Astir(t)
        <3>1. Core.cands = {}
            BY <2>1 DEF Core
        <3> QED BY <2>1, <3>1, CompactingReservationsIsCalm, EndingStirs
    <2> HIDE DEF t
    <2>3. t \in States
        BY <2>1, <2>2, CalmChangesAreSafe DEF Safe
    <2> QED BY <2>1, <2>2, <2>3, StirringSettles
<1>4. CASE Tick
    <2>1. Safe(Core) /\ cands = {} /\ phase = "asleep" /\ Timed(Core) /\ Astir(Core)
        BY <1>4 DEF Tick, PlacesInv, QueueInv, StirInv
    <2>2. CASE DeadlineNext
        BY <1>1, <1>4, <2>2 DEF Tick
    <2>3. CASE ~DeadlineNext
        <3>1. Timed(Ticked) /\ Astir(Ticked) /\ Safe(Ticked)
            BY <2>1, <2>3, TickingStirs, TickingIsSafe
        <3>2. Install(Ticked)
            BY <1>4, TickKeepsTheQueues DEF PlacesInv
        <3> HIDE DEF Ticked
        <3> QED BY <3>1, <3>2, StirringSettles DEF Safe
    <2> QED BY <2>2, <2>3
<1>5. CASE UNCHANGED vars
    <2>1. Core' = Core /\ phase' = phase
        BY <1>5 DEF vars, Core
    <2> QED BY <2>1 DEF StirInv
<1>6. ASSUME NEW m \in Metas, NEW d \in NotBefores \cup {NotDelayed}, Enqueue(m, d)
      PROVE  phase' = "due"
    BY <1>6 DEF Enqueue
<1>7. ASSUME NEW j \in JobIds, Cancel(j) \/ Start(j) \/ Complete(j) \/ CompleteNoRequest(j)
      PROVE  phase' = "due"
    BY <1>7 DEF Cancel, Start, Complete, CompleteNoRequest, Command
<1>8. ASSUME NEW c \in Scopes, NEW d \in RetryAfters,
             Penalize(c, d) \/ \E j \in JobIds : CompleteRetryAfter(j, c, d)
      PROVE  phase' = "due"
    BY <1>8 DEF Penalize, Call, CompleteRetryAfter, Command
<1>9. ASSUME NEW new \in LimitSets, SetLimits(new) \/ SetClassLimits(new)
      PROVE  phase' = "due"
    BY <1>9 DEF SetLimits, SetClassLimits, ReplaceLimits, Call, Command
<1>10. ASSUME Query
       PROVE  phase' = "due"
    BY <1>10 DEF Query, Call, Command
<1> QED BY <1>1, <1>2, <1>3, <1>4, <1>5, <1>6, <1>7, <1>8, <1>9, <1>10 DEF Next, Pass

\* Where a pending job waits while the actor sleeps.
LEMMA AsleepAllAreKept ==
    ASSUME PlacesInv, phase = "asleep", NEW j \in JobIds, Waiting(Core, j),
           RefOf(Core, j) \in Lanes => NotBefores = {}
    PROVE  LET ref == RefOf(Core, j) IN
           \/ IsBlocked(Core, ref) \/ Parked(Core, ref)
           \/ ref \in Lanes /\ ~HasCapacity(Core, ref)
           \/ ref \in JobIds /\ Delayed(Core, ref)
<1> DEFINE ref == RefOf(Core, j)
<1>1. Safe(Core) /\ cands = {} /\ Orderly(Core, {}, phase # "pop")
    BY DEF PlacesInv, QueueInv
<1>2. Asks(Core, ref) /\ ref \in Refs
    BY <1>1, WaitingJobs DEF Asks
<1> HIDE DEF ref
<1>3. Kept(Core, ref)
    BY <1>1, <1>2 DEF Orderly, AllKept, ref
<1>4. ~InHeap(Core, ref)
    BY <1>1 DEF InHeap, Core
<1> QED BY <1>3, <1>4 DEF Kept, ref

\* What beats while the actor sleeps begins another pass, unless only paused
\* references are left.
LEMMA BeatsBeginPasses ==
    ASSUME Timed(Core), Beats(Core)
    PROVE  AnotherPassComes \/ SomethingIsPaused
<1>1. Core.job = job /\ Core.blocked = blocked /\ Core.hold = hold
    BY DEF Core
<1>2. CASE blocked # {}
    <2>1. PICK n \in blocked : TRUE
        BY <1>2
    <2>2. n.permanent \/ n.in > 0
        BY <1>1 DEF Timed
    <2> QED BY <2>2 DEF AnotherPassComes, SomethingIsPaused
<1>3. CASE blocked = {}
    BY <1>1, <1>3 DEF Beats, AnotherPassComes
<1> QED BY <1>2, <1>3

LEMMA KeptJobsComeBack ==
    ASSUME PlacesInv, StirInv, phase = "asleep", NEW j \in JobIds, Waiting(Core, j),
           RefOf(Core, j) \in Lanes => NotBefores = {}
    PROVE  ComesBack(j)
<1> DEFINE ref == RefOf(Core, j)
<1>1. Safe(Core) /\ cands = {} /\ Timed(Core) /\ Astir(Core)
    BY DEF PlacesInv, QueueInv, StirInv
<1>2. /\ Core.job = job /\ Core.blocked = blocked /\ Core.hold = hold /\ Core.cands = cands
    BY DEF Core
<1>3. ref \in Refs /\ Asks(Core, ref)
    BY <1>1, WaitingJobs DEF Asks
<1>4. \/ IsBlocked(Core, ref) \/ Parked(Core, ref)
      \/ ref \in Lanes /\ ~HasCapacity(Core, ref)
      \/ ref \in JobIds /\ Delayed(Core, ref)
    BY AsleepAllAreKept
<1>5. ref \in JobIds => ref = j /\ ref \notin Lanes
    <2>1. job[j].meta.lane \in Lanes \cup {NoLane}
        BY <1>1, <1>2, WaitingJobs
    <2> QED BY <1>2, <2>1, NoJobIsALane DEF RefOf
<1> HIDE DEF ref
<1>6. CASE IsBlocked(Core, ref)
    <2>1. PICK n \in blocked : n.ref = ref
        BY <1>2, <1>6 DEF IsBlocked
    <2>2. n.permanent \/ n.in > 0
        BY <1>1, <1>2 DEF Timed
    <2> QED BY <2>1, <2>2 DEF ComesBack, ref
<1>7. CASE Parked(Core, ref)
    <2>1. Lingers(Core) /\ ~Offers(Core)
        BY <1>1, <1>2, <1>3, <1>7 DEF Lingers, Offers
    <2>2. AnotherPassComes \/ SomethingIsPaused
        BY <1>1, <2>1, BeatsBeginPasses DEF Astir
    <2>3. ParkedSomewhere(ref)
        BY <1>2, <1>7 DEF Parked, ParkedSomewhere, Range
    <2> QED BY <2>2, <2>3 DEF ComesBack, ref
<1>8. CASE ref \in Lanes /\ ~HasCapacity(Core, ref)
    <2>1. Occupants(ref) # {}
        <3>1. Occupying(Core, ref) # {}
            BY <1>1, <1>8, FullLanesAreOut
        <3> QED BY <1>2, <3>1 DEF Occupying, Occupants, Flying
    <2> QED BY <1>8, <2>1 DEF ComesBack, ref
<1>9. CASE ref \in JobIds /\ Delayed(Core, ref)
    <2>1. ref = j /\ ref \notin Lanes
        BY <1>5, <1>9
    <2>2. job[j].delay # 0 /\ job[j].delay # NotDelayed
        BY <1>1, <1>2, <1>9, <2>1 DEF Timed, Delayed
    <2>3. job[j].delay \in {NotDelayed} \cup Nat
        BY <1>1, <1>2, FieldsOfJobs DEF Safe, Waiting, Known
    <2>4. job[j].delay > 0
        BY <2>2, <2>3 DEF NotDelayed
    <2> QED BY <2>1, <2>4 DEF ComesBack, ref
<1> QED BY <1>4, <1>6, <1>7, <1>8, <1>9

\* Whenever a live reference is parked something is left that begins a pass, and no
\* deadline is over while the actor sleeps.
LEMMA SomethingStirs == Spec => [](PlacesInv /\ StirInv)
<1>1. Init => PlacesInv /\ StirInv
    <2>1. Init => StirInv
        <3> SUFFICES ASSUME Init PROVE Timed(Core) /\ Astir(Core)
            BY DEF StirInv
        <3>1. /\ Core.blocked = {} /\ \A j \in JobIds : ~Waiting(Core, j)
            BY DEF Init, Core, NeverUsed, Waiting
        <3> QED BY <3>1 DEF Timed, Astir, Lingers, Asks
    <2> QED BY <2>1, InitKeepsThePlaces
<1>2. PlacesInv /\ StirInv /\ [Next]_vars => (PlacesInv /\ StirInv)'
    BY StepsKeepThePlaces, StepsStir
<1> QED BY <1>1, <1>2, PTL DEF Spec

\* While the actor sleeps, something brings every pending job that has no lane
\* back: its delay, its deadline or its paused window, or, when it is parked, a
\* pass that another deadline or a completion begins.
LooseJobsComeBack ==
    phase = "asleep" =>
        \A j \in JobIds : Waiting(Core, j) /\ job[j].meta.lane = NoLane => ComesBack(j)

\* No command, pass or tick drops a job that has no lane, whatever the not_before of
\* the requests: what grant_ready leaves behind has a delay, a deadline, a paused
\* window or a place behind a reservation, and next_deadline or a completion comes.
THEOREM LooseJobsAreNotForgotten == Spec => []LooseJobsComeBack
<1>1. PlacesInv /\ StirInv => LooseJobsComeBack
    <2> SUFFICES ASSUME PlacesInv, StirInv, phase = "asleep", NEW j \in JobIds,
                        Waiting(Core, j), job[j].meta.lane = NoLane
                 PROVE  ComesBack(j)
        BY DEF LooseJobsComeBack
    <2>1. RefOf(Core, j) = j
        BY DEF RefOf, Core
    <2>2. RefOf(Core, j) \notin Lanes
        BY <2>1, NoJobIsALane
    <2> QED BY <2>2, KeptJobsComeBack
<1> QED BY <1>1, SomethingStirs, PTL

\* No pending job at all is forgotten when no lane has delayed jobs, as no request
\* has a not_before (the actor sets none itself) or none has a lane: a lane with
\* pending jobs has granted its permits, or has a deadline, or is parked and another
\* pass comes.
THEOREM NothingIsEverForgotten ==
    ASSUME NotBefores = {} \/ \A m \in Metas : m.lane = NoLane
    PROVE  Spec => []NothingIsForgotten
<1>1. PlacesInv /\ StirInv => NothingIsForgotten
    <2> SUFFICES ASSUME PlacesInv, StirInv, phase = "asleep", NEW j \in JobIds,
                        Waiting(Core, j)
                 PROVE  ComesBack(j)
        BY DEF NothingIsForgotten
    <2>1. RefOf(Core, j) \in Lanes => NotBefores = {}
        <3>1. Core.job[j].meta \in Metas
            BY WaitingJobs DEF PlacesInv, QueueInv
        <3> QED BY <3>1, NoJobIsALane DEF RefOf
    <2> QED BY <2>1, KeptJobsComeBack
<1> QED BY <1>1, SomethingStirs, PTL
=============================================================================
