-------------------------- MODULE SchedulerProofs --------------------------
(***************************************************************************)
(* Theorems about OutboundScheduler: its lanes are locked by the jobs that *)
(* hold them and first in, first out, its freezes are honoured.  They rest *)
(* on one inductive invariant, QueueInv: Safe, which is what the queues,   *)
(* lanes, reservations and heaps agree on, and a few facts about numbers.  *)
(* Most steps are shown Mild: they keep Safe, grant nothing and debit      *)
(* nothing; a method's Mild follows from the Milds of what it calls.       *)
(***************************************************************************)
EXTENDS SchedulerLemmas

------------------------------------------------------------------------------
\* Changes that leave the queues alone

\* The jobs of t are those of s, but for what they own, their delays and debits.
SameJobs(s, t) ==
    \A j \in JobIds : /\ t.job[j].st = s.job[j].st
                      /\ Known(s, j) => /\ t.job[j].seq = s.job[j].seq
                                        /\ t.job[j].meta = s.job[j].meta
                                        /\ t.job[j].age = s.job[j].age

\* The lanes of t have every live entry of s and, where they lock, its locks; a
\* bounded lane may lose its count.
SameLanes(s, t) ==
    \A l \in Lanes : /\ l \notin Bounded => /\ t.lane[l].holder = s.lane[l].holder
                                          /\ t.lane[l].count = s.lane[l].count
                     /\ t.lane[l].count \in {s.lane[l].count, 0}
                     /\ Live(s, l) \subseteq t.lane[l].pending
                     /\ t.lane[l].pending \subseteq s.lane[l].pending

RefsKeptOk(s, t) ==
    /\ \A n \in t.blocked : RefOk(s, n.ref)
    /\ \A w \in Windows : /\ \A i \in DOMAIN t.hold[w].queue : RefOk(s, t.hold[w].queue[i])
                          /\ t.hold[w].on => RefOk(s, t.hold[w].owner)
                          /\ t.hold[w].on \/ DOMAIN t.hold[w].queue = {}

Quiet(s, t) ==
    /\ t \in States /\ SameJobs(s, t) /\ SameLanes(s, t) /\ t.cands \subseteq s.cands
    /\ RefsKeptOk(s, t)

\* Nothing is debited, refunded or aged.
SameBooks(s, t) ==
    /\ t.ledger = s.ledger
    /\ \A j \in JobIds : Known(s, j) => /\ t.job[j].spent = s.job[j].spent
                                        /\ t.job[j].ago = s.job[j].ago
                                        /\ t.job[j].meta = s.job[j].meta

Calm(s, t) == Quiet(s, t) /\ SameBooks(s, t)

LEMMA QuietChangesAreSafe ==
    ASSUME NEW s, Safe(s), NEW t, Quiet(s, t)
    PROVE  Safe(t)
<1>1. s \in States /\ t \in States /\ SameJobs(s, t) /\ SameLanes(s, t)
    BY DEF Safe, Quiet
<1>2. \A j \in JobIds : /\ Known(t, j) <=> Known(s, j)
                        /\ Waiting(t, j) <=> Waiting(s, j)
    BY <1>1 DEF SameJobs, Known, Waiting
<1>3. \A j \in JobIds : Waiting(s, j) => Known(s, j)
    BY DEF Known, Waiting
<1>4. SeqsOk(t)
    BY <1>1, <1>2 DEF SameJobs, Safe, SeqsOk
<1>5. \A ref : RefOk(s, ref) => RefOk(t, ref)
    BY <1>1, <1>2 DEF SameJobs, RefOk
<1>6. RefsOk(t)
    BY <1>5 DEF Quiet, RefsKeptOk, RefsOk
<1>7. PendingOk(t)
    <2>1. ASSUME NEW j \in JobIds, Waiting(t, j), t.job[j].meta.lane # NoLane
          PROVE  j \in t.lane[t.job[j].meta.lane].pending
        <3>1. Waiting(s, j) /\ Known(s, j) /\ s.job[j].meta = t.job[j].meta
            BY <1>1, <1>2, <1>3, <2>1 DEF SameJobs
        <3>2. j \in Live(s, s.job[j].meta.lane)
            BY <3>1, <2>1 DEF Safe, PendingOk, Live
        <3>3. s.job[j].meta.lane \in Lanes
            BY <3>1, <2>1, <1>1, FieldsOfJobs, FieldsOfRequests
        <3> QED BY <3>1, <3>2, <3>3, <1>1 DEF SameLanes
    <2>2. ASSUME NEW l \in Lanes, NEW j \in t.lane[l].pending
          PROVE  Known(t, j) /\ t.job[j].meta.lane = l
        <3>1. j \in s.lane[l].pending
            BY <1>1, <2>2 DEF SameLanes
        <3>2. j \in JobIds
            BY <3>1, <1>1, FieldsOfStates DEF LaneRecords
        <3> QED BY <3>1, <3>2, <1>1, <1>2 DEF SameJobs, Safe, PendingOk
    <2> QED BY <2>1, <2>2 DEF PendingOk
<1>8. LocksOk(t)
    <2>1. \A l \in Lanes : Occupying(t, l) = Occupying(s, l)
        BY <1>1 DEF SameJobs, Occupying, Known
    <2> QED BY <2>1, <1>1, LaneModes DEF SameLanes, Safe, LocksOk
<1>9. KeysOk(t)
    <2> SUFFICES ASSUME NEW k \in t.cands PROVE KeyOk(t, k)
        BY DEF KeysOk
    <2>1. KeyOk(s, k)
        BY DEF Quiet, Safe, KeysOk
    <2>2. CASE k.ref \in Lanes
        BY <2>1, <2>2, <1>1, <1>2 DEF KeyOk, SameJobs
    <2>3. CASE k.ref \notin Lanes
        <3>1. k.ref \in JobIds /\ Waiting(s, k.ref) /\ Known(s, k.ref)
            BY <2>1, <2>3, <1>3 DEF KeyOk
        <3>2. Key(t, k.ref, k.ref) = Key(s, k.ref, k.ref)
            BY <3>1, <1>1 DEF SameJobs, Key, Effective
        <3> QED BY <2>1, <2>3, <3>1, <3>2, <1>1, <1>2 DEF KeyOk, SameJobs
    <2> QED BY <2>2, <2>3
<1> QED BY <1>1, <1>4, <1>6, <1>7, <1>8, <1>9 DEF Safe

LEMMA CalmChangesAreSafe ==
    ASSUME NEW s, Safe(s), NEW t, Calm(s, t)
    PROVE  Safe(t)
BY QuietChangesAreSafe DEF Calm

\* States with another job record, or another hold.
LEMMA StateWithJob ==
    ASSUME NEW s \in States, NEW j \in JobIds, NEW r \in JobRecords
    PROVE  /\ [s EXCEPT !.job[j] = r] \in States
           /\ [s EXCEPT !.job[j] = r] = [s EXCEPT !.job = [s.job EXCEPT ![j] = r]]
           /\ [s EXCEPT !.job[j] = r].job = [s.job EXCEPT ![j] = r]
           /\ [s EXCEPT !.job[j] = r].job[j] = r
           /\ \A i \in JobIds \ {j} : [s EXCEPT !.job[j] = r].job[i] = s.job[i]
<1>1. s.job \in [JobIds -> JobRecords]
    BY FieldsOfStates
<1>2. [s.job EXCEPT ![j] = r] \in [JobIds -> JobRecords]
    BY <1>1
<1>3. [s EXCEPT !.job[j] = r] = [s EXCEPT !.job = [s.job EXCEPT ![j] = r]]
    BY DEF States
<1>4. [s EXCEPT !.job[j] = r].job = [s.job EXCEPT ![j] = r]
    BY DEF States
<1> QED BY <1>1, <1>2, <1>3, <1>4 DEF States

LEMMA StateWithHold ==
    ASSUME NEW s \in States, NEW w \in Windows, NEW r \in HoldRecords
    PROVE  /\ [s EXCEPT !.hold[w] = r] \in States
           /\ [s EXCEPT !.hold[w] = r].hold = [s.hold EXCEPT ![w] = r]
           /\ [s EXCEPT !.hold[w] = r].hold[w] = r
           /\ \A v \in Windows \ {w} : [s EXCEPT !.hold[w] = r].hold[v] = s.hold[v]
<1>1. s.hold \in [Windows -> HoldRecords]
    BY FieldsOfStates
<1>2. [s.hold EXCEPT ![w] = r] \in [Windows -> HoldRecords]
    BY <1>1
<1>3. [s EXCEPT !.hold[w] = r] = [s EXCEPT !.hold = [s.hold EXCEPT ![w] = r]]
    BY DEF States
<1>4. [s EXCEPT !.hold[w] = r].hold = [s.hold EXCEPT ![w] = r]
    BY DEF States
<1> QED BY <1>1, <1>2, <1>3, <1>4 DEF States

LEMMA NoHoldIsAHold == NoHold \in HoldRecords
BY DEF NoHold, HoldRecords

LEMMA ParkedReferences ==
    ASSUME NEW s, Safe(s), NEW w \in Windows
    PROVE  /\ s.hold[w] \in HoldRecords /\ s.hold[w].queue \in Seq(Refs)
           /\ Range(s.hold[w].queue) \in SUBSET Refs
           /\ \A ref \in Range(s.hold[w].queue) : RefOk(s, ref)
<1>1. s.hold[w] \in HoldRecords
    BY FieldsOfStates DEF Safe
<1>2. s.hold[w].queue \in Seq(Refs)
    BY <1>1 DEF HoldRecords
<1> QED BY <1>1, <1>2 DEF Safe, RefsOk, Range

\* States that differ in their holds only are calm if the references are kept.
LEMMA NoHoldIsCalm ==
    ASSUME NEW s, Safe(s), NEW w \in Windows
    PROVE  Calm(s, [s EXCEPT !.hold[w] = NoHold])
<1> DEFINE t == [s EXCEPT !.hold[w] = NoHold]
<1>1. s \in States
    BY DEF Safe
<1>2. /\ t \in States /\ t.hold[w] = NoHold
      /\ \A v \in Windows \ {w} : t.hold[v] = s.hold[v]
    BY <1>1, NoHoldIsAHold, StateWithHold
<1>3. t.job = s.job /\ t.lane = s.lane /\ t.cands = s.cands /\ t.blocked = s.blocked
      /\ t.ledger = s.ledger
    BY <1>1 DEF States
<1> HIDE DEF t
<1>4. RefsKeptOk(s, t)
    BY <1>2, <1>3 DEF RefsKeptOk, NoHold, Safe, RefsOk
<1>5. SameJobs(s, t)
    BY <1>3 DEF SameJobs
<1>6. SameLanes(s, t)
    BY <1>3 DEF SameLanes, Live
<1>7. t.cands \subseteq s.cands
    BY <1>3
<1>8. Calm(s, t)
    BY <1>2, <1>3, <1>4, <1>5, <1>6, <1>7 DEF Calm, Quiet, SameBooks
<1> QED BY <1>8 DEF t

\* The end of a hold pushes all that it parked.
LEMMA ReleasesPush ==
    ASSUME NEW s, Safe(s), NEW w \in Windows \cup {NoWindow}, NEW owner
    PROVE  LET t == ReleaseReservation(s, w, owner)
               c == [s EXCEPT !.hold[w] = NoHold]
           IN  \/ t = s
               \/ /\ w \in Windows /\ s.hold[w].on /\ s.hold[w].owner = owner
                  /\ Safe(c) /\ Pushed(c, t, Range(s.hold[w].queue))
<1>1. CASE w \in Windows /\ s.hold[w].on /\ s.hold[w].owner = owner /\ w # NoWindow
    <2> DEFINE c == [s EXCEPT !.hold[w] = NoHold]
               refs == Range(s.hold[w].queue)
    <2>1. Safe(c)
        BY <1>1, NoHoldIsCalm, CalmChangesAreSafe
    <2>2. ReleaseReservation(s, w, owner) = PushAll(c, refs)
        BY <1>1 DEF ReleaseReservation
    <2>3. refs \in SUBSET Refs
        BY <1>1, ParkedReferences
    <2> HIDE DEF c, refs
    <2>4. Pushed(c, PushAll(c, refs), refs)
        BY <2>1, <2>3, SafeStatesKnowTheirPending, PushAllPushes
    <2> QED BY <1>1, <2>1, <2>2, <2>4 DEF c, refs
<1>2. CASE ~(w \in Windows /\ s.hold[w].on /\ s.hold[w].owner = owner /\ w # NoWindow)
    BY <1>2 DEF ReleaseReservation
<1> QED BY <1>1, <1>2

LEMMA ReleasesAreSafe ==
    ASSUME NEW s, Safe(s), NEW w \in Windows \cup {NoWindow}, NEW owner
    PROVE  Safe(ReleaseReservation(s, w, owner))
<1> DEFINE t == ReleaseReservation(s, w, owner)
           c == [s EXCEPT !.hold[w] = NoHold]
           refs == Range(s.hold[w].queue)
<1>1. CASE t = s
    BY <1>1
<1>2. CASE w \in Windows /\ Safe(c) /\ Pushed(c, t, refs)
    <2>1. refs \in SUBSET Refs /\ \A ref \in refs : RefOk(s, ref)
        BY <1>2, ParkedReferences
    <2>2. c.job = s.job
        BY DEF Safe, States
    <2> HIDE DEF c, t, refs
    <2>3. \A ref \in refs : RefOk(c, ref)
        BY <2>1, <2>2 DEF RefOk, Known
    <2>4. Safe(t)
        BY <1>2, <2>1, <2>3, PushesAreSafe
    <2> QED BY <2>4 DEF t
<1> QED BY <1>1, <1>2, ReleasesPush

\* Changes of the blocked nodes alone.
LEMMA UnblockIsCalm ==
    ASSUME NEW s, Safe(s), NEW refs
    PROVE  /\ Calm(s, Unblock(s, refs))
           /\ Unblock(s, refs) = [s EXCEPT !.blocked = {n \in s.blocked : n.ref \notin refs}]
<1> DEFINE t == Unblock(s, refs)
<1>1. s \in States
    BY DEF Safe
<1>2. t = [s EXCEPT !.blocked = {n \in s.blocked : n.ref \notin refs}]
    BY <1>1 DEF Unblock, States
<1>3. /\ t \in States /\ t.job = s.job /\ t.lane = s.lane /\ t.cands = s.cands
      /\ t.hold = s.hold /\ t.ledger = s.ledger /\ t.blocked \subseteq s.blocked
    BY <1>1, <1>2 DEF States
<1> HIDE DEF t
<1>4. RefsKeptOk(s, t)
    BY <1>3 DEF RefsKeptOk, Safe, RefsOk
<1>5. SameJobs(s, t)
    BY <1>3 DEF SameJobs
<1>6. SameLanes(s, t)
    BY <1>3 DEF SameLanes, Live
<1>7. Calm(s, t)
    BY <1>3, <1>4, <1>5, <1>6 DEF Calm, Quiet, SameBooks
<1> QED BY <1>2, <1>7 DEF t

LEMMA BlockIsCalm ==
    ASSUME NEW s, Safe(s), NEW ref \in Refs, RefOk(s, ref), NEW in \in Nat,
           NEW permanent \in BOOLEAN
    PROVE  LET n == [ref |-> ref, in |-> in, permanent |-> permanent]
               t == Block(s, ref, in, permanent)
           IN  /\ Calm(s, t)
               /\ t = [s EXCEPT !.blocked = {o \in s.blocked : o.ref # ref} \cup {n}]
<1> DEFINE n == [ref |-> ref, in |-> in, permanent |-> permanent]
           nodes == {o \in s.blocked : o.ref # ref} \cup {n}
           t == Block(s, ref, in, permanent)
<1>1. s \in States
    BY DEF Safe
<1>2. t = [s EXCEPT !.blocked = nodes]
    BY <1>1 DEF Block, States
<1>3. n \in Nodes /\ n.ref = ref
    BY DEF Nodes
<1>4. nodes \subseteq Nodes
    BY <1>1, <1>3, FieldsOfStates
<1>5. \A o \in nodes : o \in s.blocked \/ o.ref = ref
    OBVIOUS
<1> HIDE DEF nodes
<1>6. /\ t \in States /\ t.job = s.job /\ t.lane = s.lane /\ t.cands = s.cands
      /\ t.hold = s.hold /\ t.ledger = s.ledger /\ t.blocked = nodes
    BY <1>1, <1>2, <1>4 DEF States
<1> HIDE DEF t
<1>7. RefsKeptOk(s, t)
    BY <1>5, <1>6 DEF RefsKeptOk, Safe, RefsOk
<1>8. SameJobs(s, t)
    BY <1>6 DEF SameJobs
<1>9. SameLanes(s, t)
    BY <1>6 DEF SameLanes, Live
<1>10. Calm(s, t)
    BY <1>6, <1>7, <1>8, <1>9 DEF Calm, Quiet, SameBooks
<1> QED BY <1>2, <1>10 DEF t, nodes, n

------------------------------------------------------------------------------
\* A waiting job is removed

Counted(s, j) ==
    [s EXCEPT !.hold = [w \in Windows |->
        IF j \in Range(s.hold[w].queue) THEN [s.hold[w] EXCEPT !.stale = @ + 1]
        ELSE s.hold[w]]]

Released(s, j) == ReleaseReservation(Counted(s, j), s.job[j].owns, RefOf(s, j))

Corpse(r) == [r EXCEPT !.st = "cancelled", !.owns = NoWindow, !.age = 0,
                       !.delay = NotDelayed]

Dead(s, j) ==
    [s EXCEPT !.job = [s.job EXCEPT ![j] = Corpse(s.job[j])],
              !.blocked = {n \in s.blocked : n.ref # j},
              !.cands = {k \in s.cands : k.ref # j}]

LEMMA CountedIsCalm ==
    ASSUME NEW s, Safe(s), NEW j
    PROVE  LET t == Counted(s, j) IN
           /\ Calm(s, t)
           /\ t.job = s.job /\ t.lane = s.lane /\ t.cands = s.cands
           /\ t.blocked = s.blocked /\ t.ledger = s.ledger
           /\ \A w \in Windows : /\ t.hold[w].queue = s.hold[w].queue
                                 /\ t.hold[w].on = s.hold[w].on
                                 /\ t.hold[w].owner = s.hold[w].owner
                                 /\ t.hold[w].in = s.hold[w].in
<1> DEFINE t == Counted(s, j)
           H(w) == IF j \in Range(s.hold[w].queue) THEN [s.hold[w] EXCEPT !.stale = @ + 1]
                   ELSE s.hold[w]
<1>1. s \in States
    BY DEF Safe
<1>2. ASSUME NEW w \in Windows
      PROVE  /\ H(w) \in HoldRecords /\ H(w).queue = s.hold[w].queue
             /\ H(w).on = s.hold[w].on /\ H(w).owner = s.hold[w].owner
             /\ H(w).in = s.hold[w].in
    <2>1. s.hold[w] \in HoldRecords
        BY <1>1, FieldsOfStates
    <2> QED BY <2>1 DEF HoldRecords
<1>3. t = [s EXCEPT !.hold = [w \in Windows |-> H(w)]]
    BY DEF Counted
<1> HIDE DEF H
<1>4. /\ t \in States /\ t.job = s.job /\ t.lane = s.lane /\ t.cands = s.cands
      /\ t.blocked = s.blocked /\ t.ledger = s.ledger
      /\ t.hold = [w \in Windows |-> H(w)]
    BY <1>1, <1>2, <1>3 DEF States
<1> HIDE DEF t
<1>5. \A w \in Windows : /\ t.hold[w].queue = s.hold[w].queue
                         /\ t.hold[w].on = s.hold[w].on
                         /\ t.hold[w].owner = s.hold[w].owner
                         /\ t.hold[w].in = s.hold[w].in
    BY <1>2, <1>4
<1>6. RefsKeptOk(s, t)
    BY <1>4, <1>5 DEF RefsKeptOk, Safe, RefsOk
<1>7. SameJobs(s, t)
    BY <1>4 DEF SameJobs
<1>8. SameLanes(s, t)
    BY <1>4 DEF SameLanes, Live
<1>9. Calm(s, t)
    BY <1>4, <1>6, <1>7, <1>8 DEF Calm, Quiet, SameBooks
<1> QED BY <1>4, <1>5, <1>9 DEF t

\* What a job that waits owns is a window or nothing, its reference is one.
LEMMA WaitingJobs ==
    ASSUME NEW s, Safe(s), NEW j \in JobIds, Waiting(s, j)
    PROVE  /\ s.job[j].owns \in Windows \cup {NoWindow}
           /\ RefOf(s, j) \in Refs /\ RefOk(s, RefOf(s, j))
           /\ s.job[j].meta \in Metas /\ s.job[j].meta.lane \in Lanes \cup {NoLane}
           /\ Known(s, j)
<1>1. Known(s, j) /\ s \in States
    BY DEF Safe, Known, Waiting
<1>2. s.job[j].owns \in Windows \cup {NoWindow} /\ s.job[j].meta \in Metas
    BY <1>1, FieldsOfJobs
<1>3. s.job[j].meta.lane \in Lanes \cup {NoLane}
    BY <1>2, FieldsOfRequests
<1> QED BY <1>1, <1>2, <1>3 DEF RefOf, Refs, RefOk

LEMMA ReleasedIsSafe ==
    ASSUME NEW s, Safe(s), NEW j \in JobIds, Waiting(s, j)
    PROVE  LET t == Released(s, j) IN
           /\ Safe(t) /\ t.job = s.job /\ t.ledger = s.ledger
           /\ \A w \in Windows : t.hold[w].queue \in {s.hold[w].queue, <<>>}
<1> DEFINE c == Counted(s, j)
           w == s.job[j].owns
           t == ReleaseReservation(c, w, RefOf(s, j))
           e == [c EXCEPT !.hold[w] = NoHold]
<1>1. /\ Safe(c) /\ c.job = s.job /\ c.ledger = s.ledger
      /\ \A v \in Windows : c.hold[v].queue = s.hold[v].queue
    BY CountedIsCalm, CalmChangesAreSafe
<1>2. w \in Windows \cup {NoWindow}
    BY WaitingJobs
<1> HIDE DEF c, w
<1>3. Safe(t)
    BY <1>1, <1>2, ReleasesAreSafe
<1>4. t = c \/ (w \in Windows /\ Pushed(e, t, Range(c.hold[w].queue)))
    BY <1>1, <1>2, ReleasesPush
<1>5. CASE t = c
    BY <1>1, <1>3, <1>5 DEF Released, c, w
<1>6. CASE w \in Windows /\ Pushed(e, t, Range(c.hold[w].queue))
    <2>1. c \in States
        BY <1>1 DEF Safe
    <2>2. e.job = c.job /\ e.ledger = c.ledger
        BY <2>1 DEF States
    <2>3. e.hold[w] = NoHold /\ \A v \in Windows \ {w} : e.hold[v] = c.hold[v]
        BY <2>1, <1>6, NoHoldIsAHold, StateWithHold
    <2> HIDE DEF e, t
    <2>4. t.job = s.job /\ t.hold = e.hold /\ t.ledger = s.ledger
        BY <1>1, <1>6, <2>2 DEF Pushed
    <2>5. \A v \in Windows : t.hold[v].queue \in {s.hold[v].queue, <<>>}
        BY <1>1, <2>3, <2>4 DEF NoHold
    <2> QED BY <1>3, <2>4, <2>5 DEF t, Released, c, w
<1> QED BY <1>4, <1>5, <1>6

LEMMA DeadIsSafe ==
    ASSUME NEW s, Safe(s), NEW j \in JobIds, Waiting(s, j)
    PROVE  LET t == Dead(s, j) IN
           /\ Safe(t)
           /\ t.job = [s.job EXCEPT ![j] = Corpse(s.job[j])]
           /\ t.job[j].st = "cancelled" /\ t.job[j].meta = s.job[j].meta
           /\ t.job[j].seq = s.job[j].seq
           /\ \A i \in JobIds \ {j} : t.job[i] = s.job[i]
           /\ t.lane = s.lane /\ t.hold = s.hold /\ t.ledger = s.ledger
           /\ t.blocked = {n \in s.blocked : n.ref # j}
           /\ t.cands = {k \in s.cands : k.ref # j}
<1> DEFINE r == Corpse(s.job[j])
           t == Dead(s, j)
<1>1. s \in States /\ Known(s, j)
    BY DEF Safe, Known, Waiting
<1>2. s.job[j] \in UsedRecords /\ s.job \in [JobIds -> JobRecords]
    BY <1>1, FieldsOfStates DEF UsedRecords, Known, NeverUsed
<1>3. /\ r \in JobRecords /\ r.st = "cancelled" /\ r.meta = s.job[j].meta
      /\ r.seq = s.job[j].seq
    <2>1. 0 \in 0 .. Highest * Quantum
        <3>1. Highest * Quantum \in Nat
            BY Sizes
        <3> QED BY <3>1
    <2> QED BY <1>2, <2>1 DEF UsedRecords, Corpse, JobRecords, NotDelayed, NoWindow
<1> HIDE DEF r
<1>4. [s.job EXCEPT ![j] = r] \in [JobIds -> JobRecords]
    BY <1>2, <1>3
<1>5. t = [s EXCEPT !.job = [s.job EXCEPT ![j] = r],
                    !.blocked = {n \in s.blocked : n.ref # j},
                    !.cands = {k \in s.cands : k.ref # j}]
    BY DEF Dead, r
<1>6. /\ t \in States /\ t.job = [s.job EXCEPT ![j] = r]
      /\ t.lane = s.lane /\ t.hold = s.hold /\ t.ledger = s.ledger
      /\ t.blocked = {n \in s.blocked : n.ref # j}
      /\ t.cands = {k \in s.cands : k.ref # j}
    BY <1>1, <1>4, <1>5, FieldsOfStates DEF States
<1> HIDE DEF t
<1>7. /\ t.job[j] = r /\ \A i \in JobIds \ {j} : t.job[i] = s.job[i]
    BY <1>2, <1>6
<1>8. \A i \in JobIds : /\ Known(t, i) <=> Known(s, i)
                        /\ Waiting(t, i) => Waiting(s, i) /\ i # j
                        /\ Known(s, i) => /\ t.job[i].meta = s.job[i].meta
                                          /\ t.job[i].seq = s.job[i].seq
                        /\ t.job[i].st = "granted" <=> s.job[i].st = "granted"
    <2> SUFFICES ASSUME NEW i \in JobIds
                 PROVE  /\ Known(t, i) <=> Known(s, i)
                        /\ Waiting(t, i) => Waiting(s, i) /\ i # j
                        /\ Known(s, i) => /\ t.job[i].meta = s.job[i].meta
                                          /\ t.job[i].seq = s.job[i].seq
                        /\ t.job[i].st = "granted" <=> s.job[i].st = "granted"
        OBVIOUS
    <2>1. CASE i = j
        BY <2>1, <1>1, <1>3, <1>7 DEF Known, Waiting
    <2>2. CASE i # j
        BY <2>2, <1>7 DEF Known, Waiting
    <2> QED BY <2>1, <2>2
<1>9. SeqsOk(t)
    BY <1>8 DEF Safe, SeqsOk
<1>10. PendingOk(t)
    <2>1. \A i \in JobIds : Waiting(t, i) => Known(s, i)
        BY <1>8 DEF Known, Waiting
    <2>2. \A l \in Lanes : s.lane[l].pending \subseteq JobIds
        BY <1>1, FieldsOfStates DEF LaneRecords
    <2> QED BY <2>1, <2>2, <1>6, <1>8 DEF Safe, PendingOk
<1>11. LocksOk(t)
    <2>1. \A l \in Lanes : Occupying(t, l) = Occupying(s, l)
        BY <1>8 DEF Occupying, Known
    <2> QED BY <2>1, <1>6, LaneModes DEF Safe, LocksOk
<1>12. RefsOk(t)
    <2>1. \A ref : RefOk(s, ref) => RefOk(t, ref)
        BY <1>8 DEF RefOk
    <2> QED BY <2>1, <1>6 DEF Safe, RefsOk
<1>13. KeysOk(t)
    <2> SUFFICES ASSUME NEW k \in t.cands PROVE KeyOk(t, k)
        BY DEF KeysOk
    <2>1. KeyOk(s, k) /\ k.ref # j
        BY <1>6 DEF Safe, KeysOk
    <2>2. CASE k.ref \in Lanes
        BY <2>1, <2>2, <1>8 DEF KeyOk
    <2>3. CASE k.ref \notin Lanes
        <3>1. k.ref \in JobIds \ {j} /\ t.job[k.ref] = s.job[k.ref]
            BY <2>1, <2>3, <1>7 DEF KeyOk
        <3> QED BY <3>1, <2>1, <2>3 DEF KeyOk, Waiting, Key
    <2> QED BY <2>2, <2>3
<1>14. Safe(t)
    BY <1>6, <1>9, <1>10, <1>11, <1>12, <1>13 DEF Safe
<1> QED BY <1>3, <1>6, <1>7, <1>14 DEF t, r

LEMMA RewakeIsCalm ==
    ASSUME NEW s, Safe(s), NEW l \in Lanes
    PROVE  LET t == RewakeLane(s, l) IN
           /\ Calm(s, t) /\ t.job = s.job
           /\ t.lane = s.lane /\ t.hold = s.hold /\ t.ledger = s.ledger /\ t.cands = s.cands
           /\ \A n \in t.blocked : n \in s.blocked \/ (n.ref = l /\ IsBlocked(s, l))
           /\ \A n \in s.blocked : n.ref # l => n \in t.blocked
           /\ IsBlocked(s, l) /\ Live(s, l) # {} => IsBlocked(t, l)
           /\ IsBlocked(s, l) /\ Live(s, l) = {} => ~IsBlocked(t, l)
<1>1. s \in States
    BY DEF Safe
<1>2. CASE ~IsBlocked(s, l)
    <2>1. RefsKeptOk(s, s)
        BY DEF RefsKeptOk, Safe, RefsOk
    <2>2. SameJobs(s, s)
        BY DEF SameJobs
    <2>3. SameLanes(s, s)
        BY DEF SameLanes, Live
    <2>4. RewakeLane(s, l) = s
        BY <1>2 DEF RewakeLane
    <2>5. Calm(s, s)
        BY <1>1, <2>1, <2>2, <2>3 DEF Calm, Quiet, SameBooks
    <2> QED BY <1>2, <2>4, <2>5
<1>3. CASE IsBlocked(s, l) /\ Live(s, l) # {}
    <2> DEFINE n == [ref |-> l, in |-> 0, permanent |-> FALSE]
               t == Block(s, l, 0, FALSE)
    <2>1. RewakeLane(s, l) = t
        BY <1>3 DEF RewakeLane
    <2>2. /\ Calm(s, t) /\ t = [s EXCEPT !.blocked = {o \in s.blocked : o.ref # l} \cup {n}]
        <3>1. l \in Refs /\ RefOk(s, l)
            BY DEF Refs, RefOk
        <3>2. FALSE \in BOOLEAN /\ 0 \in Nat
            OBVIOUS
        <3>3. \A i \in Nat, p \in BOOLEAN :
                /\ Calm(s, Block(s, l, i, p))
                /\ Block(s, l, i, p) =
                     [s EXCEPT !.blocked = {o \in s.blocked : o.ref # l}
                                 \cup {[ref |-> l, in |-> i, permanent |-> p]}]
            BY <3>1, BlockIsCalm
        <3> QED BY <3>2, <3>3, Zenon
    <2> HIDE DEF t
    <2>3. /\ t.job = s.job /\ t.lane = s.lane /\ t.hold = s.hold /\ t.ledger = s.ledger
          /\ t.cands = s.cands /\ t.blocked = {o \in s.blocked : o.ref # l} \cup {n}
        BY <1>1, <2>2 DEF States
    <2>4. n.ref = l
        OBVIOUS
    <2> HIDE DEF n
    <2> QED BY <1>3, <2>1, <2>2, <2>3, <2>4 DEF IsBlocked
<1>4. CASE IsBlocked(s, l) /\ Live(s, l) = {}
    <2> DEFINE t == Unblock(s, {l})
    <2>1. RewakeLane(s, l) = t
        BY <1>4 DEF RewakeLane
    <2>2. /\ Calm(s, t) /\ t = [s EXCEPT !.blocked = {o \in s.blocked : o.ref \notin {l}}]
        BY UnblockIsCalm
    <2> HIDE DEF t
    <2>3. /\ t.job = s.job /\ t.lane = s.lane /\ t.hold = s.hold /\ t.ledger = s.ledger
          /\ t.cands = s.cands /\ t.blocked = {o \in s.blocked : o.ref \notin {l}}
        BY <1>1, <2>2 DEF States
    <2> QED BY <1>4, <2>1, <2>2, <2>3 DEF IsBlocked
<1> QED BY <1>2, <1>3, <1>4

LEMMA RemoveWaitingIs ==
    ASSUME NEW s, Safe(s), NEW j \in JobIds, Waiting(s, j)
    PROVE  LET l == s.job[j].meta.lane
               d == Dead(Released(s, j), j)
           IN  /\ Released(s, j).job = s.job /\ Safe(Released(s, j))
               /\ Released(s, j).ledger = s.ledger
               /\ RemoveWaiting(s, j) = IF l = NoLane THEN d ELSE RewakeLane(d, l)
<1>1. /\ Released(s, j).job = s.job /\ Safe(Released(s, j))
      /\ Released(s, j).ledger = s.ledger
    BY ReleasedIsSafe
<1> DEFINE x == Released(s, j)
           dead == [x EXCEPT !.job[j] = [@ EXCEPT !.st = "cancelled", !.owns = NoWindow,
                                                  !.age = 0, !.delay = NotDelayed],
                             !.blocked = {n \in @ : n.ref # j},
                             !.cands = {k \in @ : k.ref # j}]
<1>2. s \in States /\ x \in States
    BY <1>1 DEF Safe
<1>4. dead = Dead(x, j)
    <2> HIDE DEF x
    <2>1. Corpse(x.job[j]) = [x.job[j] EXCEPT !.st = "cancelled", !.owns = NoWindow,
                                              !.age = 0, !.delay = NotDelayed]
        BY DEF Corpse
    <2> HIDE DEF Corpse
    <2> QED BY <2>1, <1>2 DEF Dead, States
<1>5. RemoveWaiting(s, j) = IF s.job[j].meta.lane = NoLane THEN dead
                            ELSE RewakeLane(dead, s.job[j].meta.lane)
    BY DEF RemoveWaiting, Released, Counted
<1> HIDE DEF dead, x
<1>6. RemoveWaiting(s, j) = IF s.job[j].meta.lane = NoLane THEN Dead(x, j)
                            ELSE RewakeLane(Dead(x, j), s.job[j].meta.lane)
    BY <1>4, <1>5
<1> QED BY <1>1, <1>6 DEF x

LEMMA RemovalsAreSafe ==
    ASSUME NEW s, Safe(s), NEW j \in JobIds, Waiting(s, j)
    PROVE  LET t == RemoveWaiting(s, j) IN
           /\ Safe(t) /\ t.ledger = s.ledger
           /\ t.job = [s.job EXCEPT ![j] = Corpse(s.job[j])]
           /\ t.job[j].st = "cancelled" /\ t.job[j].meta = s.job[j].meta
           /\ t.job[j].seq = s.job[j].seq
           /\ \A i \in JobIds \ {j} : t.job[i] = s.job[i]
<1> DEFINE x == Released(s, j)
           d == Dead(x, j)
           l == s.job[j].meta.lane
<1>1. x.job = s.job /\ Safe(x) /\ x.ledger = s.ledger
      /\ RemoveWaiting(s, j) = IF l = NoLane THEN d ELSE RewakeLane(d, l)
    BY RemoveWaitingIs
<1> HIDE DEF x
<1>2. Waiting(x, j)
    BY <1>1 DEF Waiting
<1>3. /\ Safe(d) /\ d.ledger = s.ledger /\ d.job = [s.job EXCEPT ![j] = Corpse(s.job[j])]
      /\ d.job[j].st = "cancelled" /\ d.job[j].meta = s.job[j].meta
      /\ d.job[j].seq = s.job[j].seq
      /\ \A i \in JobIds \ {j} : d.job[i] = s.job[i]
    BY <1>1, <1>2, DeadIsSafe
<1>4. l \in Lanes \cup {NoLane}
    BY WaitingJobs
<1> HIDE DEF d, l
<1>5. l \in Lanes => /\ Safe(RewakeLane(d, l)) /\ RewakeLane(d, l).job = d.job
                      /\ RewakeLane(d, l).ledger = d.ledger
    BY <1>3, RewakeIsCalm, CalmChangesAreSafe
<1> QED BY <1>1, <1>3, <1>4, <1>5 DEF l

------------------------------------------------------------------------------
\* A job is inserted

Stored(s, j, r) == [s EXCEPT !.job[j] = r]

Entered(s, j, r, old) ==
    LET l == r.meta.lane
        first == First(Stored(s, j, r), s.lane[l].pending \cup {j})
    IN  [s.lane[l] EXCEPT !.pending = s.lane[l].pending \cup {j},
                          !.queued = s.lane[l].queued /\ first \notin old]

\* The state in which the new job's lane, or the job itself, is pushed.
Placed(s, j, r, old) ==
    IF r.meta.lane = NoLane THEN Stored(s, j, r)
    ELSE [Stored(s, j, r) EXCEPT !.lane[r.meta.lane] = Entered(s, j, r, old)]

LEMMA PlacedIsSafe ==
    ASSUME NEW s, Safe(s), NEW j \in JobIds, ~Known(s, j), NEW r \in UsedRecords,
           r.st = "waiting", NEW old,
           \A i \in JobIds : Known(s, i) /\ s.job[i].seq = r.seq
               => s.job[i].meta.lane = r.meta.lane /\ ~Waiting(s, i)
    PROVE  LET t == Placed(s, j, r, old) IN
           /\ Safe(t)
           /\ t.job[j] = r /\ \A i \in JobIds \ {j} : t.job[i] = s.job[i]
           /\ t.cands = s.cands /\ t.blocked = s.blocked /\ t.hold = s.hold
           /\ t.ledger = s.ledger
           /\ \A l \in Lanes \ {r.meta.lane} : t.lane[l] = s.lane[l]
           /\ r.meta.lane # NoLane => t.lane[r.meta.lane] = Entered(s, j, r, old)
<1> DEFINE l == r.meta.lane
           x == Stored(s, j, r)
           e == Entered(s, j, r, old)
           t == Placed(s, j, r, old)
<1>1. s \in States /\ r \in JobRecords /\ r # NeverUsed /\ r.meta \in Metas
    BY DEF Safe, UsedRecords, JobRecords
<1>2. l \in Lanes \cup {NoLane}
    BY <1>1, FieldsOfRequests
<1>3. /\ x \in States /\ x.job[j] = r /\ \A i \in JobIds \ {j} : x.job[i] = s.job[i]
      /\ x.lane = s.lane /\ x.cands = s.cands /\ x.blocked = s.blocked
      /\ x.hold = s.hold /\ x.ledger = s.ledger
    <2>1. x \in States /\ x = [s EXCEPT !.job = [s.job EXCEPT ![j] = r]]
          /\ x.job[j] = r /\ \A i \in JobIds \ {j} : x.job[i] = s.job[i]
        BY <1>1, StateWithJob DEF Stored
    <2> HIDE DEF x
    <2> QED BY <1>1, <2>1 DEF States
<1> HIDE DEF x
<1>4. l \in Lanes => e \in LaneRecords /\ e.pending = s.lane[l].pending \cup {j}
                     /\ e.holder = s.lane[l].holder /\ e.count = s.lane[l].count
    <2> SUFFICES ASSUME l \in Lanes
                 PROVE  e \in LaneRecords /\ e.pending = s.lane[l].pending \cup {j}
                        /\ e.holder = s.lane[l].holder /\ e.count = s.lane[l].count
        OBVIOUS
    <2>1. s.lane[l] \in LaneRecords
        BY <1>1, FieldsOfStates
    <2> DEFINE b == s.lane[l].queued
                    /\ First(Stored(s, j, r), s.lane[l].pending \cup {j}) \notin old
    <2>2. b \in BOOLEAN
        OBVIOUS
    <2>3. e = [s.lane[l] EXCEPT !.pending = s.lane[l].pending \cup {j}, !.queued = b]
        BY DEF Entered
    <2> HIDE DEF b, e
    <2> QED BY <2>1, <2>2, <2>3 DEF LaneRecords
<1>5. t = IF l = NoLane THEN x ELSE [x EXCEPT !.lane[l] = e]
    BY DEF Placed, x
<1> HIDE DEF e
<1>6. /\ t \in States /\ t.job = x.job /\ t.cands = s.cands /\ t.blocked = s.blocked
      /\ t.hold = s.hold /\ t.ledger = s.ledger
      /\ \A m \in Lanes \ {l} : t.lane[m] = s.lane[m]
      /\ l # NoLane => t.lane[l] = e
    <2>1. CASE l = NoLane
        BY <2>1, <1>3, <1>5
    <2>2. CASE l # NoLane
        <3> DEFINE y == [x EXCEPT !.lane[l] = e]
        <3>1. l \in Lanes /\ t = y
            BY <2>2, <1>2, <1>5
        <3>2. y \in States /\ y.lane[l] = e /\ \A m \in Lanes \ {l} : y.lane[m] = x.lane[m]
            BY <3>1, <1>3, <1>4, StateWithLane
        <3>3. /\ y.job = x.job /\ y.cands = x.cands /\ y.blocked = x.blocked
              /\ y.hold = x.hold /\ y.ledger = x.ledger
            BY <1>3 DEF States
        <3> HIDE DEF y
        <3> QED BY <1>3, <3>1, <3>2, <3>3
    <2> QED BY <2>1, <2>2
<1>7. t.job[j] = r /\ \A i \in JobIds \ {j} : t.job[i] = s.job[i]
    BY <1>3, <1>6
<1> HIDE DEF t
<1>8. \A i \in JobIds : Known(s, i) => i # j /\ Known(t, i) /\ t.job[i] = s.job[i]
    BY <1>7 DEF Known
<1>9. Known(t, j) /\ Waiting(t, j)
    BY <1>7 DEF Known, Waiting
<1>10. SeqsOk(t)
    <2> SUFFICES ASSUME NEW i \in JobIds, NEW k \in JobIds, Known(t, i), Known(t, k),
                        t.job[i].seq = t.job[k].seq
                 PROVE  /\ t.job[i].meta.lane = t.job[k].meta.lane
                        /\ Waiting(t, i) /\ Waiting(t, k) => i = k
        BY DEF SeqsOk
    <2>1. CASE i # j /\ k # j
        BY <2>1, <1>7 DEF Known, Waiting, Safe, SeqsOk
    <2>2. CASE i = j /\ k # j
        BY <2>2, <1>7 DEF Known, Waiting
    <2>3. CASE i # j /\ k = j
        BY <2>3, <1>7 DEF Known, Waiting
    <2> QED BY <2>1, <2>2, <2>3
<1>11. PendingOk(t)
    <2>1. \A m \in Lanes : s.lane[m].pending \subseteq JobIds
        BY <1>1, FieldsOfStates DEF LaneRecords
    <2>2. ASSUME NEW m \in Lanes, NEW i \in t.lane[m].pending
          PROVE  Known(t, i) /\ t.job[i].meta.lane = m
        <3>1. i \in s.lane[m].pending \/ (m = l /\ i = j)
            BY <2>2, <1>2, <1>4, <1>6, References
        <3>2. CASE i \in s.lane[m].pending
            BY <3>2, <2>1, <1>8 DEF Safe, PendingOk
        <3>3. CASE m = l /\ i = j
            BY <3>3, <1>7, <1>9
        <3> QED BY <3>1, <3>2, <3>3
    <2>3. ASSUME NEW i \in JobIds, Waiting(t, i), t.job[i].meta.lane # NoLane
          PROVE  i \in t.lane[t.job[i].meta.lane].pending
        <3>1. CASE i = j
            BY <3>1, <2>3, <1>2, <1>4, <1>6, <1>7
        <3>2. CASE i # j
            <4> DEFINE m == s.job[i].meta.lane
            <4>1. Waiting(s, i) /\ t.job[i] = s.job[i]
                BY <2>3, <3>2, <1>7 DEF Waiting
            <4>2. i \in s.lane[m].pending
                BY <4>1, <2>3 DEF Safe, PendingOk
            <4>3. m \in Lanes
                BY <4>1, <2>3, WaitingJobs
            <4> HIDE DEF m
            <4>4. i \in t.lane[m].pending
                BY <4>2, <4>3, <1>4, <1>6, References
            <4> QED BY <4>1, <4>4 DEF m
        <3> QED BY <3>1, <3>2
    <2> QED BY <2>2, <2>3 DEF PendingOk
<1>12. LocksOk(t)
    <2>1. \A m \in Lanes : Occupying(t, m) = Occupying(s, m)
        BY <1>7 DEF Occupying, Known
    <2>2. \A m \in Lanes : t.lane[m].holder = s.lane[m].holder /\ t.lane[m].count = s.lane[m].count
        BY <1>4, <1>6, References
    <2> QED BY <2>1, <2>2, LaneModes DEF Safe, LocksOk
<1>13. RefsOk(t)
    <2>1. \A ref : RefOk(s, ref) => RefOk(t, ref)
        BY <1>8 DEF RefOk
    <2> QED BY <2>1, <1>6 DEF Safe, RefsOk
<1>14. KeysOk(t)
    <2> SUFFICES ASSUME NEW k \in s.cands PROVE KeyOk(t, k)
        BY <1>6 DEF KeysOk
    <2>1. KeyOk(s, k)
        BY DEF Safe, KeysOk
    <2>2. CASE k.ref \in Lanes
        BY <2>1, <2>2, <1>8 DEF KeyOk
    <2>3. CASE k.ref \notin Lanes
        <3>1. Known(s, k.ref) /\ k.ref \in JobIds
            BY <2>1, <2>3 DEF KeyOk, Waiting, Known
        <3>2. t.job[k.ref] = s.job[k.ref]
            BY <3>1, <1>8
        <3> QED BY <2>1, <2>3, <3>2 DEF KeyOk, Waiting, Key
    <2> QED BY <2>2, <2>3
<1>15. Safe(t)
    BY <1>6, <1>10, <1>11, <1>12, <1>13, <1>14 DEF Safe
<1>16. /\ t.cands = s.cands /\ t.blocked = s.blocked /\ t.hold = s.hold
       /\ t.ledger = s.ledger
       /\ \A m \in Lanes \ {l} : t.lane[m] = s.lane[m]
       /\ l # NoLane => t.lane[l] = e
    BY <1>6
<1> QED BY <1>7, <1>15, <1>16 DEF t, e

LEMMA InsertionsPush ==
    ASSUME NEW s, Safe(s), NEW j \in JobIds, ~Known(s, j), NEW r \in UsedRecords,
           r.st = "waiting", NEW old,
           \A i \in JobIds : Known(s, i) /\ s.job[i].seq = r.seq
               => s.job[i].meta.lane = r.meta.lane /\ ~Waiting(s, i)
    PROVE  LET p == Placed(s, j, r, old)
               l == r.meta.lane
               t == Inserted(s, j, r, old)
           IN  /\ Safe(t) /\ l \in Lanes \cup {NoLane}
               /\ \/ l # NoLane /\ Pushed(p, t, {l})
                  \/ l = NoLane /\ r.delay = NotDelayed /\ Pushed(p, t, {j})
                  \/ l = NoLane /\ r.delay # NotDelayed /\ t = p
<1> DEFINE l == r.meta.lane
           p == Placed(s, j, r, old)
           t == Inserted(s, j, r, old)
<1>1. Safe(p) /\ p.job[j] = r
    BY PlacedIsSafe
<1>2. s \in States /\ l \in Lanes \cup {NoLane} /\ j \notin Lanes
    <2>1. r.meta \in Metas
        BY DEF UsedRecords, JobRecords, NeverUsed
    <2>2. j \in 0 .. MaxJobs
        BY Sizes DEF JobIds
    <2> QED BY <2>1, <2>2, FieldsOfRequests, References DEF Safe
<1>3. t = IF l # NoLane THEN PushLane(p, l)
          ELSE IF r.delay = NotDelayed THEN PushJob(p, j) ELSE p
    <2>1. CASE l = NoLane
        BY <2>1 DEF Inserted, Placed, Stored
    <2>2. CASE l # NoLane
        <3> DEFINE x == Stored(s, j, r)
        <3>2. p = [x EXCEPT !.lane[l] = Entered(s, j, r, old)]
            BY <2>2 DEF Placed
        <3>3. t = PushLane([x EXCEPT !.lane[l] = Entered(s, j, r, old)], l)
            BY <2>2 DEF Inserted, Stored, Entered
        <3> QED BY <2>2, <3>2, <3>3
    <2> QED BY <2>1, <2>2
<1> HIDE DEF p, t
<1>4. p \in States /\ PendingKnown(p)
    BY <1>1, SafeStatesKnowTheirPending
<1>5. CASE l # NoLane
    <2>1. Pushed(p, t, {l}) /\ {l} \in SUBSET Refs /\ RefOk(p, l)
        BY <1>2, <1>3, <1>4, <1>5, PushLanePushes DEF Refs, RefOk
    <2>2. Safe(t)
        BY <1>1, <2>1, PushesAreSafe
    <2> QED BY <1>2, <1>5, <2>1, <2>2 DEF p, t
<1>6. CASE l = NoLane /\ r.delay = NotDelayed
    <2>1. Pushed(p, t, {j})
        BY <1>2, <1>3, <1>4, <1>6, PushJobPushes
    <2>2. {j} \in SUBSET Refs /\ RefOk(p, j)
        BY <1>1, <1>6 DEF Refs, RefOk, Known
    <2>3. Safe(t)
        BY <1>1, <2>1, <2>2, PushesAreSafe
    <2> QED BY <1>2, <1>6, <2>1, <2>3 DEF p, t
<1>7. CASE l = NoLane /\ r.delay # NotDelayed
    BY <1>1, <1>2, <1>3, <1>7 DEF p, t
<1> QED BY <1>5, <1>6, <1>7

------------------------------------------------------------------------------
\* Steps that grant nothing

\* The jobs of t are those of s; none of them is granted anew or waits again.
Gentle(s, t) ==
    \A j \in JobIds : /\ Known(t, j) <=> Known(s, j)
                      /\ Waiting(t, j) => Waiting(s, j)
                      /\ Known(s, j) => t.job[j].seq = s.job[j].seq
                      /\ t.job[j].st = "granted" => s.job[j].st = "granted"

Mild(s, t) == Safe(t) /\ Gentle(s, t) /\ SameBooks(s, t)

LEMMA MildIsTransitive ==
    ASSUME NEW s, NEW u, NEW t, Mild(s, u), Mild(u, t)
    PROVE  Mild(s, t)
BY DEF Mild, Gentle, SameBooks

LEMMA CalmIsMild ==
    ASSUME NEW s, Safe(s), NEW t, Calm(s, t)
    PROVE  Mild(s, t)
<1>1. Safe(t)
    BY CalmChangesAreSafe
<1>2. Gentle(s, t)
    BY DEF Calm, Quiet, SameJobs, Gentle, Known, Waiting
<1> QED BY <1>1, <1>2 DEF Mild, Calm

LEMMA SameJobsAreMild ==
    ASSUME NEW s, NEW t, Safe(t), t.job = s.job, t.ledger = s.ledger
    PROVE  Mild(s, t)
BY DEF Mild, Gentle, SameBooks, Known, Waiting

LEMMA PushingIsMild ==
    ASSUME NEW s, Safe(s), NEW refs \in SUBSET Refs, \A ref \in refs : RefOk(s, ref)
    PROVE  /\ Mild(s, PushAll(s, refs)) /\ PushAll(s, refs).job = s.job
           /\ Pushed(s, PushAll(s, refs), refs)
<1>1. Pushed(s, PushAll(s, refs), refs)
    BY SafeStatesKnowTheirPending, PushAllPushes
<1>2. /\ Safe(PushAll(s, refs)) /\ PushAll(s, refs).job = s.job
      /\ PushAll(s, refs).ledger = s.ledger
    BY <1>1, PushesAreSafe DEF Pushed
<1> QED BY <1>1, <1>2, SameJobsAreMild

LEMMA PushingALaneIsMild ==
    ASSUME NEW s, Safe(s), NEW l \in Lanes
    PROVE  /\ Mild(s, PushLane(s, l)) /\ PushLane(s, l).job = s.job
           /\ Pushed(s, PushLane(s, l), {l})
<1>1. Pushed(s, PushLane(s, l), {l})
    BY SafeStatesKnowTheirPending, PushLanePushes
<1>2. {l} \in SUBSET Refs /\ RefOk(s, l)
    BY DEF Refs, RefOk
<1>3. /\ Safe(PushLane(s, l)) /\ PushLane(s, l).job = s.job
      /\ PushLane(s, l).ledger = s.ledger
    BY ZenonT(60), <1>1, <1>2, PushesAreSafe DEF Pushed
<1> QED BY <1>1, <1>3, SameJobsAreMild

\* Sleeping references that are woken compete again.
LEMMA WakingIsMild ==
    ASSUME NEW s, Safe(s), NEW refs \in SUBSET Refs, \A ref \in refs : RefOk(s, ref)
    PROVE  /\ Mild(s, PushAll(Unblock(s, refs), refs))
           /\ PushAll(Unblock(s, refs), refs).job = s.job
<1> DEFINE u == Unblock(s, refs)
<1>1. Calm(s, u) /\ u = [s EXCEPT !.blocked = {n \in s.blocked : n.ref \notin refs}]
    BY UnblockIsCalm
<1>2. u.job = s.job
    BY <1>1 DEF Safe, States
<1>3. Mild(s, u)
    BY <1>1, CalmIsMild
<1> HIDE DEF u
<1>4. Safe(u) /\ \A ref \in refs : RefOk(u, ref)
    BY <1>2, <1>3 DEF Mild, RefOk, Known
<1>5. Mild(u, PushAll(u, refs)) /\ PushAll(u, refs).job = u.job
    BY <1>4, PushingIsMild
<1>6. Mild(s, PushAll(u, refs)) /\ PushAll(u, refs).job = s.job
    BY <1>2, <1>3, <1>5, MildIsTransitive
<1> QED BY <1>6 DEF u

\* Changes of the lanes alone.
LEMMA LaneChangesAreCalm ==
    ASSUME NEW s, Safe(s), NEW t \in States, SameLanes(s, t),
           t.job = s.job, t.cands \subseteq s.cands, t.blocked \subseteq s.blocked,
           t.hold = s.hold, t.ledger = s.ledger
    PROVE  Calm(s, t)
<1>1. SameJobs(s, t)
    BY DEF SameJobs
<1>2. RefsKeptOk(s, t)
    BY DEF RefsKeptOk, Safe, RefsOk
<1> QED BY <1>1, <1>2 DEF Calm, Quiet, SameBooks

LEMMA RemovingIdleIsCalm ==
    ASSUME NEW s, Safe(s), NEW l \in Lanes
    PROVE  /\ Calm(s, RemoveIdle(s, l)) /\ RemoveIdle(s, l).job = s.job
           /\ RemoveIdle(s, l).hold = s.hold /\ RemoveIdle(s, l).blocked = s.blocked
           /\ RemoveIdle(s, l).cands = s.cands /\ RemoveIdle(s, l).ledger = s.ledger
           /\ \A m \in Lanes \ {l} : RemoveIdle(s, l).lane[m] = s.lane[m]
           /\ RemoveIdle(s, l).lane[l] \in {s.lane[l], NewLane}
           /\ RemoveIdle(s, l).lane[l] # s.lane[l] => IsIdle(s, l)
<1>1. s \in States
    BY DEF Safe
<1> DEFINE t == [s EXCEPT !.lane[l] = NewLane]
<1>2. CASE IsIdle(s, l)
    <2>1. RemoveIdle(s, l) = t
        BY <1>2 DEF RemoveIdle
    <2>2. t \in States /\ t.lane[l] = NewLane /\ \A m \in Lanes \ {l} : t.lane[m] = s.lane[m]
        BY <1>1, StateWithLane, NewLaneIsALane
    <2>3. /\ t.job = s.job /\ t.cands = s.cands /\ t.blocked = s.blocked
          /\ t.hold = s.hold /\ t.ledger = s.ledger
        BY <1>1 DEF States
    <2> HIDE DEF t
    <2>4. s.lane[l].pending = {} /\ (l \notin Bounded => s.lane[l].holder = NoJob)
        BY <1>2 DEF IsIdle
    <2>5. l \notin Bounded => s.lane[l].count = 0
        BY <2>4 DEF Safe, LocksOk
    <2>6. SameLanes(s, t)
        <3> SUFFICES ASSUME NEW m \in Lanes
                     PROVE  /\ m \notin Bounded => /\ t.lane[m].holder = s.lane[m].holder
                                                   /\ t.lane[m].count = s.lane[m].count
                            /\ t.lane[m].count \in {s.lane[m].count, 0}
                            /\ Live(s, m) \subseteq t.lane[m].pending
                            /\ t.lane[m].pending \subseteq s.lane[m].pending
            BY DEF SameLanes
        <3>1. CASE m = l
            BY <3>1, <2>2, <2>4, <2>5 DEF NewLane, Live
        <3>2. CASE m # l
            BY <3>2, <2>2 DEF Live
        <3> QED BY <3>1, <3>2
    <2>7. Calm(s, t)
        BY <2>2, <2>3, <2>6, LaneChangesAreCalm
    <2> QED BY <1>2, <2>1, <2>2, <2>3, <2>7
<1>3. CASE ~IsIdle(s, l)
    <2>1. SameLanes(s, s)
        BY DEF SameLanes, Live
    <2>2. Calm(s, s)
        BY <1>1, <2>1, LaneChangesAreCalm
    <2> QED BY <1>3, <2>2 DEF RemoveIdle
<1> QED BY <1>2, <1>3

LEMMA VacatingIsMild ==
    ASSUME NEW s, Safe(s), NEW l \in Lanes
    PROVE  Mild(s, Vacated(s, l)) /\ Vacated(s, l).job = s.job
<1>1. Mild(s, RemoveIdle(s, l)) /\ RemoveIdle(s, l).job = s.job
    BY RemovingIdleIsCalm, CalmIsMild
<1> QED BY <1>1, PushingALaneIsMild DEF Vacated

LEMMA RemovingIsMild ==
    ASSUME NEW s, Safe(s), NEW j \in JobIds, Waiting(s, j)
    PROVE  Mild(s, RemoveWaiting(s, j))
<1> DEFINE t == RemoveWaiting(s, j)
<1>1. /\ Safe(t) /\ t.job[j].st = "cancelled" /\ t.job[j].seq = s.job[j].seq
      /\ \A i \in JobIds \ {j} : t.job[i] = s.job[i]
      /\ t.job = [s.job EXCEPT ![j] = Corpse(s.job[j])] /\ t.ledger = s.ledger
    BY RemovalsAreSafe
<1> HIDE DEF t
<1>2. ASSUME NEW i \in JobIds
      PROVE  /\ Known(t, i) <=> Known(s, i)
             /\ Waiting(t, i) => Waiting(s, i)
             /\ Known(s, i) => t.job[i].seq = s.job[i].seq
             /\ t.job[i].st = "granted" => s.job[i].st = "granted"
    <2>1. CASE i = j
        BY <2>1, <1>1 DEF Known, Waiting
    <2>2. CASE i # j
        BY <2>2, <1>1 DEF Known, Waiting
    <2> QED BY <2>1, <2>2
<1>3. Gentle(s, t)
    BY <1>2 DEF Gentle
<1>4. SameBooks(s, t)
    <2>1. s \in States /\ s.job \in [JobIds -> JobRecords] /\ Known(s, j)
        BY FieldsOfStates DEF Safe, Known, Waiting
    <2>2. t.job[j] = Corpse(s.job[j])
        BY <1>1, <2>1
    <2>3. /\ t.job[j].spent = s.job[j].spent /\ t.job[j].ago = s.job[j].ago
          /\ t.job[j].meta = s.job[j].meta
        BY <2>1, <2>2, FieldsOfJobs DEF Corpse
    <2> QED BY <1>1, <2>3 DEF SameBooks
<1>5. Mild(s, t)
    BY <1>1, <1>3, <1>4 DEF Mild
<1> QED BY <1>5 DEF t

------------------------------------------------------------------------------
\* A granted job starts or lands

\* State u is state s with job j, which was granted, in state st, and with lanes
\* that may have changed their locks.
Freed(s, u, j, st) ==
    /\ u \in States
    /\ u.job = [s.job EXCEPT ![j] = [s.job[j] EXCEPT !.st = st]]
    /\ u.cands = s.cands /\ u.blocked = s.blocked /\ u.hold = s.hold
    /\ u.ledger = s.ledger
    /\ \A l \in Lanes : u.lane[l].pending = s.lane[l].pending
    /\ LocksOk(u)

LEMMA FreeingIsMild ==
    ASSUME NEW s, Safe(s), NEW j \in JobIds, Flying(s, j), NEW st \in {"started", "done"},
           NEW u, Freed(s, u, j, st)
    PROVE  Mild(s, u)
<1>1. s \in States /\ u \in States /\ s.job \in [JobIds -> JobRecords]
    BY FieldsOfStates DEF Safe, Freed
<1>2. Known(s, j)
    BY DEF Flying, Known
<1>3. /\ u.job[j].st = st /\ u.job[j].seq = s.job[j].seq /\ u.job[j].meta = s.job[j].meta
      /\ u.job[j].spent = s.job[j].spent /\ u.job[j].ago = s.job[j].ago
    <2>1. u.job[j] = [s.job[j] EXCEPT !.st = st]
        BY <1>1 DEF Freed
    <2> QED BY <2>1, <1>2, FieldsOfJobs, <1>1
<1>4. \A i \in JobIds \ {j} : u.job[i] = s.job[i]
    BY <1>1 DEF Freed
<1>5. ASSUME NEW i \in JobIds
      PROVE  /\ Known(u, i) <=> Known(s, i)
             /\ Waiting(u, i) <=> Waiting(s, i)
             /\ Known(s, i) => u.job[i].seq = s.job[i].seq /\ u.job[i].meta = s.job[i].meta
             /\ u.job[i].st = "granted" => s.job[i].st = "granted"
    <2>1. CASE i = j
        BY <2>1, <1>2, <1>3 DEF Known, Waiting, Flying
    <2>2. CASE i # j
        BY <2>2, <1>4 DEF Known, Waiting
    <2> QED BY <2>1, <2>2
<1>6. SeqsOk(u)
    BY <1>5 DEF Safe, SeqsOk
<1>7. PendingOk(u)
    <2>1. ASSUME NEW i \in JobIds, Waiting(u, i), u.job[i].meta.lane # NoLane
          PROVE  i \in u.lane[u.job[i].meta.lane].pending
        <3>1. Waiting(s, i) /\ Known(s, i)
            BY <1>5, <2>1 DEF Known, Waiting
        <3>2. s.job[i].meta.lane # NoLane /\ u.job[i].meta.lane = s.job[i].meta.lane
            BY <3>1, <1>5, <2>1
        <3>3. s.job[i].meta.lane \in Lanes
            BY <3>1, <3>2, WaitingJobs
        <3>4. i \in s.lane[s.job[i].meta.lane].pending
            BY <3>1, <3>2 DEF Safe, PendingOk
        <3> QED BY <3>2, <3>3, <3>4 DEF Freed
    <2>2. \A l \in Lanes : s.lane[l].pending \subseteq JobIds
        BY <1>1, FieldsOfStates DEF LaneRecords
    <2>3. \A l \in Lanes : \A i \in u.lane[l].pending : Known(u, i) /\ u.job[i].meta.lane = l
        BY <2>2, <1>5 DEF Freed, Safe, PendingOk
    <2> QED BY <2>1, <2>3 DEF PendingOk
<1>8. RefsOk(u)
    <2>1. \A ref : RefOk(s, ref) => RefOk(u, ref)
        BY <1>5 DEF RefOk
    <2> QED BY <2>1 DEF Freed, Safe, RefsOk
<1>9. KeysOk(u)
    <2> SUFFICES ASSUME NEW k \in s.cands PROVE KeyOk(u, k)
        BY DEF Freed, KeysOk
    <2>1. KeyOk(s, k)
        BY DEF Safe, KeysOk
    <2>2. CASE k.ref \in Lanes
        BY <2>1, <2>2, <1>5 DEF KeyOk
    <2>3. CASE k.ref \notin Lanes
        <3>1. k.ref \in JobIds \ {j}
            BY <2>1, <2>3 DEF KeyOk, Waiting, Flying
        <3>2. u.job[k.ref] = s.job[k.ref]
            BY <3>1, <1>4
        <3> QED BY <2>1, <2>3, <3>2 DEF KeyOk, Waiting, Key
    <2> QED BY <2>2, <2>3
<1>10. Gentle(s, u)
    BY <1>5 DEF Gentle
<1>11. LocksOk(u)
    BY DEF Freed
<1>12. SameBooks(s, u)
    BY <1>3, <1>4 DEF Freed, SameBooks
<1> QED BY <1>1, <1>6, <1>7, <1>8, <1>9, <1>10, <1>11, <1>12 DEF Safe, Mild

\* The state in which job j has landed or started, and its lane has the permits p.
Unlocked(s, j, st, l, p) ==
    [s EXCEPT !.job = [s.job EXCEPT ![j] = [s.job[j] EXCEPT !.st = st]],
              !.lane = [s.lane EXCEPT ![l] = p]]

LEMMA UnlockingIsMild ==
    ASSUME NEW s, Safe(s), NEW j \in JobIds, Flying(s, j), NEW st \in {"started", "done"},
           NEW p \in LaneRecords, s.job[j].meta.lane \in Lanes,
           p.pending = s.lane[s.job[j].meta.lane].pending,
           s.job[j].meta.lane \notin Bounded =>
               IF s.lane[s.job[j].meta.lane].holder = j
               THEN p.holder = NoJob /\ p.count = 0
               ELSE p = s.lane[s.job[j].meta.lane],
           p.count = 0 \/ p.count + 1 = s.lane[s.job[j].meta.lane].count
               \/ s.job[j].meta.lane \notin Bounded
    PROVE  LET u == Unlocked(s, j, st, s.job[j].meta.lane, p) IN
           /\ Mild(s, u)
           /\ u.job = [s.job EXCEPT ![j] = [s.job[j] EXCEPT !.st = st]]
           /\ u.ledger = s.ledger
<1> DEFINE l == s.job[j].meta.lane
           u == Unlocked(s, j, st, l, p)
<1>1. /\ s \in States /\ s.job \in [JobIds -> JobRecords] /\ s.lane \in [Lanes -> LaneRecords]
      /\ Known(s, j)
    BY FieldsOfStates DEF Safe, Flying, Known
<1> DEFINE r == [s.job[j] EXCEPT !.st = st]
<1>2. /\ r \in JobRecords /\ r.st = st /\ r.meta = s.job[j].meta
    <2>1. s.job[j] \in [st : {"waiting", "granted", "started", "done", "cancelled"},
                        meta : Metas, seq : JobIds, age : 0 .. Highest * Quantum,
                        delay : {NotDelayed} \cup Nat, owns : Windows \cup {NoWindow},
                        ago : 0 .. MaxLen, spent : BOOLEAN]
        BY <1>1, FieldsOfJobs
    <2> QED BY <2>1 DEF JobRecords
<1> HIDE DEF r
<1>3. [s.job EXCEPT ![j] = r] \in [JobIds -> JobRecords]
    BY <1>1, <1>2
<1>4. [s.lane EXCEPT ![l] = p] \in [Lanes -> LaneRecords]
    BY <1>1
<1>5. /\ u \in States /\ u.job = [s.job EXCEPT ![j] = r] /\ u.lane = [s.lane EXCEPT ![l] = p]
      /\ u.cands = s.cands /\ u.blocked = s.blocked /\ u.hold = s.hold
      /\ u.ledger = s.ledger
    <2>1. u = [s EXCEPT !.job = [s.job EXCEPT ![j] = r], !.lane = [s.lane EXCEPT ![l] = p]]
        BY DEF Unlocked, r
    <2> HIDE DEF u, l
    <2> QED BY <2>1, <1>1, <1>3, <1>4 DEF States
<1> HIDE DEF u
<1>6. u.lane[l] = p /\ \A m \in Lanes \ {l} : u.lane[m] = s.lane[m]
    BY <1>1, <1>5
<1>7. u.job[j] = r /\ \A i \in JobIds \ {j} : u.job[i] = s.job[i]
    BY <1>1, <1>5
<1>13. ASSUME NEW m \in Bounded
       PROVE  u.lane[m].count = 0 \/ u.lane[m].count <= Cardinality(Occupying(u, m))
    <2> DEFINE S == Occupying(s, m)
               n == Cardinality(S)
               x == s.lane[m].count
    <2>1. x = 0 \/ x <= n
        BY DEF Safe, LocksOk
    <2>2. Occupying(u, m) = S \ {j}
        BY <1>2, <1>7 DEF Occupying
    <2>3. m \in Lanes /\ x \in Nat
        BY <1>1, LaneModes, FieldsOfStates DEF LaneRecords
    <2>4. IsFiniteSet(S) /\ n \in Nat
        BY OccupantsAreFinite
    <2>5. Cardinality(S \ {j}) = IF j \in S THEN n - 1 ELSE n
        BY <2>4, FS_RemoveElement
    <2>6. CASE m # l
        <3>1. j \notin S /\ u.lane[m] = s.lane[m]
            BY <2>6, <2>3, <1>6 DEF Occupying
        <3> QED BY <3>1, <2>1, <2>2, <2>5
    <2>7. CASE m = l
        <3>1. u.lane[m].count = p.count /\ p.count \in Nat
            BY <2>7, <1>6 DEF LaneRecords
        <3>2. p.count = 0 \/ p.count + 1 = x
            BY <2>7
        <3> HIDE DEF S, n, x
        <3> QED BY <3>1, <3>2, <2>1, <2>2, <2>3, <2>4, <2>5
    <2> QED BY <2>6, <2>7
<1>8. LocksOk(u)
    <2> SUFFICES ASSUME NEW m \in Lanes \ Bounded
                 PROVE  /\ u.lane[m].count = IF u.lane[m].holder = NoJob THEN 0 ELSE 1
                        /\ Occupying(u, m) =
                             IF u.lane[m].holder = NoJob THEN {} ELSE {u.lane[m].holder}
        BY <1>13 DEF LocksOk
    <2>1. /\ s.lane[m].count = IF s.lane[m].holder = NoJob THEN 0 ELSE 1
          /\ Occupying(s, m) = IF s.lane[m].holder = NoJob THEN {} ELSE {s.lane[m].holder}
        BY DEF Safe, LocksOk
    <2>2. Occupying(u, m) = Occupying(s, m) \ {j}
        BY <1>2, <1>7 DEF Occupying
    <2>3. CASE m # l
        <3>1. j \notin Occupying(s, m) /\ u.lane[m] = s.lane[m]
            BY <2>3, <1>6 DEF Occupying
        <3> QED BY <3>1, <2>1, <2>2
    <2>4. CASE m = l /\ s.lane[m].holder = j
        <3>1. j # NoJob
            BY Sizes DEF JobIds, NoJob
        <3>2. u.lane[m].holder = NoJob /\ u.lane[m].count = 0
            BY <2>4, <1>6
        <3> QED BY <3>1, <3>2, <2>1, <2>2, <2>4
    <2>5. CASE m = l /\ s.lane[m].holder # j
        <3>1. u.lane[m] = s.lane[m]
            BY <2>5, <1>6
        <3> QED BY <3>1, <2>1, <2>2, <2>5
    <2> QED BY <2>3, <2>4, <2>5
<1>9. Freed(s, u, j, st)
    <2>1. \A m \in Lanes : u.lane[m].pending = s.lane[m].pending
        BY <1>6
    <2> QED BY <2>1, <1>5, <1>8 DEF Freed, r
<1>10. Mild(s, u)
    BY <1>9, FreeingIsMild
<1> QED BY <1>5, <1>10 DEF u, r

LEMMA StartingIsMild ==
    ASSUME NEW s, Safe(s), NEW j \in JobIds, s.job[j].st = "granted",
           s.job[j].meta.lane \in Lanes, s.lane[s.job[j].meta.lane].holder = j
    PROVE  LET l == s.job[j].meta.lane IN
           Mild(s, Vacated([s EXCEPT !.job[j].st = "started",
                                     !.lane[l].holder = NoJob, !.lane[l].count = 0], l))
<1> DEFINE l == s.job[j].meta.lane
           u == [s EXCEPT !.job[j].st = "started",
                          !.lane[l].holder = NoJob, !.lane[l].count = 0]
           p == [s.lane[l] EXCEPT !.holder = NoJob, !.count = 0]
<1>1. s \in States /\ s.lane \in [Lanes -> LaneRecords] /\ l \in Lanes /\ Flying(s, j)
    BY FieldsOfStates DEF Safe, Flying
<1>2. /\ p \in LaneRecords /\ p.pending = s.lane[l].pending /\ p.holder = NoJob
      /\ p.count = 0
    <2>1. s.lane[l] \in LaneRecords
        BY <1>1
    <2> QED BY <2>1 DEF LaneRecords
<1>3. u = Unlocked(s, j, "started", l, p)
    <2> HIDE DEF l
    <2> QED BY <1>1 DEF Unlocked, States
<1> HIDE DEF u
<1>4. Mild(s, u)
    <2>1. "started" \in {"started", "done"}
        OBVIOUS
    <2> HIDE DEF p
    <2>2. Mild(s, Unlocked(s, j, "started", s.job[j].meta.lane, p))
        BY <1>1, <1>2, <2>1, UnlockingIsMild
    <2> QED BY <2>2, <1>3
<1>5. Safe(u)
    BY <1>4 DEF Mild
<1>6. Mild(u, Vacated(u, l))
    BY <1>1, <1>5, VacatingIsMild
<1>7. Mild(s, Vacated(u, l))
    BY <1>4, <1>6, MildIsTransitive
<1> QED BY <1>7 DEF u

LEMMA LandedIs ==
    ASSUME NEW s, Safe(s), NEW j \in JobIds, Flying(s, j)
    PROVE  LET x == Landed(s, j) IN
           /\ x = [s EXCEPT !.job = [s.job EXCEPT ![j] = [s.job[j] EXCEPT !.st = "done"]]]
           /\ x.job = [s.job EXCEPT ![j] = [s.job[j] EXCEPT !.st = "done"]]
           /\ x.lane = s.lane /\ x.cands = s.cands /\ x.blocked = s.blocked
           /\ x.hold = s.hold /\ x.ledger = s.ledger
           /\ x.job[j].meta = s.job[j].meta
<1>1. s \in States /\ Known(s, j) /\ s.job \in [JobIds -> JobRecords]
    BY FieldsOfStates DEF Safe, Flying, Known
<1> DEFINE x == Landed(s, j)
<1>2. x = [s EXCEPT !.job = [s.job EXCEPT ![j] = [s.job[j] EXCEPT !.st = "done"]]]
    BY <1>1 DEF Landed, States
<1> HIDE DEF x
<1>3. /\ x.job = [s.job EXCEPT ![j] = [s.job[j] EXCEPT !.st = "done"]]
      /\ x.lane = s.lane /\ x.cands = s.cands /\ x.blocked = s.blocked
      /\ x.hold = s.hold /\ x.ledger = s.ledger
    BY <1>1, <1>2 DEF States
<1>4. x.job[j] = [s.job[j] EXCEPT !.st = "done"]
    BY <1>1, <1>3
<1>5. x.job[j].meta = s.job[j].meta
    BY <1>1, <1>4, FieldsOfJobs
<1> QED BY <1>2, <1>3, <1>5 DEF x

\* A job that lands unlocks its lane, which is vacated, or it had not held
\* the lane.
LEMMA LandingUnlocks ==
    ASSUME NEW s, Safe(s), NEW j \in JobIds, Flying(s, j)
    PROVE  LET l == s.job[j].meta.lane
               t == ReleaseLane(Landed(s, j), j)
           IN  \/ l = NoLane /\ t = Landed(s, j) /\ Mild(s, t)
               \/ /\ l \in Lanes
                  /\ \E p \in LaneRecords :
                        /\ Mild(s, Unlocked(s, j, "done", l, p))
                        /\ p.pending = s.lane[l].pending /\ p.queued = s.lane[l].queued
                        /\ \/ t = Vacated(Unlocked(s, j, "done", l, p), l)
                           \/ /\ t = RemoveIdle(Unlocked(s, j, "done", l, p), l)
                              /\ p.count = s.lane[l].count
<1> DEFINE l == s.job[j].meta.lane
           x == Landed(s, j)
           done == [s.job EXCEPT ![j] = [s.job[j] EXCEPT !.st = "done"]]
<1>1. /\ s \in States /\ s.lane \in [Lanes -> LaneRecords] /\ Known(s, j)
      /\ s.job \in [JobIds -> JobRecords]
    BY FieldsOfStates DEF Safe, Flying, Known
<1>2. l \in Lanes \cup {NoLane}
    BY <1>1, FieldsOfJobs, FieldsOfRequests
<1>3. /\ x = [s EXCEPT !.job = done]
      /\ x.job = done /\ x.lane = s.lane /\ x.cands = s.cands /\ x.blocked = s.blocked
      /\ x.hold = s.hold /\ x.ledger = s.ledger /\ x.job[j].meta.lane = l
    BY LandedIs
<1>4. "done" \in {"started", "done"}
    OBVIOUS
<1> DEFINE drop == [x EXCEPT !.lane[l].count = @ - 1]
           free == [x EXCEPT !.lane[l].holder = NoJob, !.lane[l].count = 0]
<1>5. ReleaseLane(x, j) =
        IF l = NoLane THEN x
        ELSE IF l \in Bounded /\ s.lane[l].count > 0 THEN Vacated(drop, l)
        ELSE IF l \notin Bounded /\ s.lane[l].holder = j THEN Vacated(free, l)
        ELSE RemoveIdle(x, l)
    <2> HIDE DEF l, x
    <2> DEFINE m == x.job[j].meta.lane
    <2>1. ReleaseLane(x, j) =
            IF m = NoLane THEN x
            ELSE IF m \in Bounded /\ x.lane[m].count > 0
            THEN Vacated([x EXCEPT !.lane[m].count = @ - 1], m)
            ELSE IF m \notin Bounded /\ x.lane[m].holder = j
            THEN Vacated([x EXCEPT !.lane[m].holder = NoJob, !.lane[m].count = 0], m)
            ELSE RemoveIdle(x, m)
        BY DEF ReleaseLane
    <2>2. m = l /\ x.lane = s.lane
        BY <1>3
    <2> HIDE DEF m
    <2> QED BY <2>1, <2>2
<1>6. CASE l = NoLane
    <2>1. LocksOk(x)
        <3>1. x.job[j].st = "done" /\ \A i \in JobIds \ {j} : x.job[i] = s.job[i]
            <4> HIDE DEF x
            <4>1. x.job[j] = [s.job[j] EXCEPT !.st = "done"]
                BY <1>1, <1>3
            <4> QED BY <4>1, <1>1, <1>3, FieldsOfJobs
        <3>2. \A m \in Lanes : Occupying(x, m) = Occupying(s, m)
            BY <3>1, <1>6, References DEF Occupying
        <3> QED BY <3>2, <1>3, LaneModes DEF Safe, LocksOk
    <2>2. x \in States
        <3>1. [s.job[j] EXCEPT !.st = "done"] \in JobRecords
            BY <1>1, FieldsOfJobs DEF JobRecords
        <3> QED BY <3>1, <1>1, StateWithJob, <1>3
    <2>3. Freed(s, x, j, "done")
        BY <2>1, <2>2, <1>3 DEF Freed
    <2>4. Mild(s, x)
        BY <2>3, <1>4, FreeingIsMild
    <2>5. ReleaseLane(x, j) = x
        BY <1>5, <1>6
    <2> QED BY <2>4, <2>5, <1>6
<1>7. ASSUME NEW p \in LaneRecords, p.pending = s.lane[l].pending, l \in Lanes,
             l \notin Bounded => IF s.lane[l].holder = j THEN p.holder = NoJob /\ p.count = 0
                                 ELSE p = s.lane[l],
             p.count = 0 \/ p.count + 1 = s.lane[l].count \/ l \notin Bounded
      PROVE  Mild(s, Unlocked(s, j, "done", l, p))
    BY <1>4, <1>7, UnlockingIsMild
<1>8. l \in Lanes => s.lane[l] \in LaneRecords
    BY <1>1
<1>9. CASE l \in Bounded /\ l \in Lanes /\ s.lane[l].count > 0
    <2> DEFINE p == [s.lane[l] EXCEPT !.count = @ - 1]
    <2>1. /\ p \in LaneRecords /\ p.pending = s.lane[l].pending /\ p.queued = s.lane[l].queued
          /\ p.count + 1 = s.lane[l].count
        <3> DEFINE q == s.lane[l]
        <3>1. q \in LaneRecords /\ q.count > 0
            BY <1>8, <1>9
        <3> HIDE DEF q
        <3>2. [q EXCEPT !.count = @ - 1] \in LaneRecords
            BY <3>1 DEF LaneRecords
        <3>3. /\ [q EXCEPT !.count = @ - 1].pending = q.pending
              /\ [q EXCEPT !.count = @ - 1].queued = q.queued
              /\ [q EXCEPT !.count = @ - 1].count + 1 = q.count
            BY <3>1 DEF LaneRecords
        <3> USE DEF q
        <3> QED BY <3>2, <3>3
    <2>2. drop = Unlocked(s, j, "done", l, p)
        <3> HIDE DEF x, l, done
        <3>1. drop = [x EXCEPT !.lane = [s.lane EXCEPT ![l] = p]]
            BY <1>3, <1>9, <1>1 DEF States
        <3> HIDE DEF p
        <3> QED BY <3>1, <1>3, <1>1 DEF Unlocked, States, done
    <2> HIDE DEF p, drop, l, x
    <2>3. Mild(s, drop)
        BY <2>1, <2>2, <1>7, <1>9
    <2>4. ReleaseLane(x, j) = Vacated(drop, l)
        BY <1>5, <1>9, References
    <2> QED BY <2>1, <2>2, <2>3, <2>4, <1>9 DEF x, l
<1>10. CASE l \notin Bounded /\ l \in Lanes /\ s.lane[l].holder = j
    <2> DEFINE p == [s.lane[l] EXCEPT !.holder = NoJob, !.count = 0]
    <2>1. /\ p \in LaneRecords /\ p.pending = s.lane[l].pending /\ p.queued = s.lane[l].queued
          /\ p.holder = NoJob /\ p.count = 0
        BY <1>8, <1>10 DEF LaneRecords
    <2>2. free = Unlocked(s, j, "done", l, p)
        <3> HIDE DEF x, l, done
        <3>1. free = [x EXCEPT !.lane = [s.lane EXCEPT ![l] = p]]
            BY ZenonT(60), <1>3, <1>10, <1>1 DEF States
        <3> HIDE DEF p
        <3> QED BY <3>1, <1>3, <1>1 DEF Unlocked, States, done
    <2> HIDE DEF p, free, l, x
    <2>3. Mild(s, free)
        BY <2>1, <2>2, <1>7, <1>10
    <2>4. ReleaseLane(x, j) = Vacated(free, l)
        BY <1>5, <1>10, References
    <2> QED BY <2>1, <2>2, <2>3, <2>4, <1>10 DEF x, l
<1>11. CASE /\ l \in Lanes
            /\ ~(l \in Bounded /\ s.lane[l].count > 0)
            /\ ~(l \notin Bounded /\ s.lane[l].holder = j)
    <2>1. x = Unlocked(s, j, "done", l, s.lane[l])
        <3> HIDE DEF x, l
        <3>1. [s.lane EXCEPT ![l] = s.lane[l]] = s.lane
            BY <1>1, <1>11
        <3> QED BY <3>1, <1>3, <1>1 DEF Unlocked, States
    <2> HIDE DEF x, l
    <2>4. s.lane[l].count = 0 \/ l \notin Bounded
        BY <1>8, <1>11 DEF LaneRecords
    <2>2. Mild(s, x)
        BY <2>1, <2>4, <1>7, <1>8, <1>11
    <2>3. ReleaseLane(x, j) = RemoveIdle(x, l)
        BY <1>5, <1>11, References
    <2> QED BY <2>1, <2>2, <2>3, <1>8, <1>11 DEF x, l
<1> QED BY <1>2, <1>6, <1>9, <1>10, <1>11

LEMMA LandingIsMild ==
    ASSUME NEW s, Safe(s), NEW j \in JobIds, Flying(s, j)
    PROVE  Mild(s, ReleaseLane(Landed(s, j), j))
<1> DEFINE l == s.job[j].meta.lane
           t == ReleaseLane(Landed(s, j), j)
<1> HIDE DEF l, t
<1>1. ASSUME NEW u, l \in Lanes, Mild(s, u), t = Vacated(u, l) \/ t = RemoveIdle(u, l)
      PROVE  Mild(s, t)
    <2>1. Safe(u)
        BY <1>1 DEF Mild
    <2>2. Mild(u, Vacated(u, l)) /\ Mild(u, RemoveIdle(u, l))
        BY <2>1, <1>1, VacatingIsMild, RemovingIdleIsCalm, CalmIsMild
    <2> QED BY <2>2, <1>1, MildIsTransitive
<1> QED BY <1>1, LandingUnlocks DEF l, t

------------------------------------------------------------------------------
\* Refunds and new limits

LEMMA RearmingOwnersIsMild ==
    ASSUME NEW s, Safe(s), NEW ws \in SUBSET Windows
    PROVE  /\ Mild(s, RearmReservationOwners(s, ws))
           /\ RearmReservationOwners(s, ws).job = s.job
<1> DEFINE owners == {s.hold[w].owner : w \in {w \in ws : s.hold[w].on}}
           asleep == {ref \in owners : IsBlocked(s, ref)}
<1>1. \A ref \in asleep : RefOk(s, ref) /\ ref \in Refs
    BY DEF Safe, RefsOk, RefOk, Refs
<1>2. RearmReservationOwners(s, ws) = PushAll(Unblock(s, asleep), asleep)
    BY DEF RearmReservationOwners
<1> HIDE DEF asleep
<1>3. asleep \in SUBSET Refs
    BY <1>1
<1> QED BY <1>1, <1>2, <1>3, WakingIsMild

\* The debits of a job may be dropped.
LEMMA CreditingIsQuiet ==
    ASSUME NEW s, Safe(s), NEW j \in JobIds, Known(s, j), NEW debits \in [Windows -> SUBSET JobIds]
    PROVE  LET c == [s EXCEPT !.job[j].spent = FALSE, !.ledger = debits]
           IN  /\ Quiet(s, c) /\ c.ledger = debits
               /\ c.job = [s.job EXCEPT ![j] = [s.job[j] EXCEPT !.spent = FALSE]]
<1> DEFINE c == [s EXCEPT !.job[j].spent = FALSE, !.ledger = debits]
           r == [s.job[j] EXCEPT !.spent = FALSE]
<1>1. s \in States /\ s.job \in [JobIds -> JobRecords]
    BY FieldsOfStates DEF Safe
<1>2. /\ r \in JobRecords /\ r.st = s.job[j].st /\ r.seq = s.job[j].seq
      /\ r.meta = s.job[j].meta /\ r.age = s.job[j].age
    <2>1. s.job[j] \in [st : {"waiting", "granted", "started", "done", "cancelled"},
                        meta : Metas, seq : JobIds, age : 0 .. Highest * Quantum,
                        delay : {NotDelayed} \cup Nat, owns : Windows \cup {NoWindow},
                        ago : 0 .. MaxLen, spent : BOOLEAN]
        BY <1>1, FieldsOfJobs
    <2> QED BY <2>1 DEF JobRecords
<1>3. c = [s EXCEPT !.job = [s.job EXCEPT ![j] = r], !.ledger = debits]
    BY <1>1 DEF States
<1> HIDE DEF r, c
<1>4. [s.job EXCEPT ![j] = r] \in [JobIds -> JobRecords]
    BY <1>1, <1>2
<1>5. /\ c \in States /\ c.job = [s.job EXCEPT ![j] = r] /\ c.lane = s.lane
      /\ c.cands = s.cands /\ c.blocked = s.blocked /\ c.hold = s.hold /\ c.ledger = debits
    BY <1>1, <1>3, <1>4 DEF States
<1>6. SameJobs(s, c)
    BY <1>1, <1>2, <1>5 DEF SameJobs
<1>7. SameLanes(s, c)
    BY <1>5 DEF SameLanes, Live
<1>8. RefsKeptOk(s, c)
    BY <1>5 DEF RefsKeptOk, Safe, RefsOk
<1>9. Quiet(s, c)
    BY <1>5, <1>6, <1>7, <1>8 DEF Quiet
<1> QED BY <1>5, <1>9 DEF c, r

LEMMA WindowsAreWindows ==
    ASSUME NEW m \in Metas
    PROVE  /\ Range(WindowsOf(m)) \in SUBSET Windows
           /\ WindowsOf(m) # <<>> /\ WindowsOf(m) \in Seq(Windows)
<1>1. m.chat \in Scopes /\ m.class \in Classes
    BY FieldsOfRequests
<1>2. /\ <<NoChat, NoClass>> \in Windows /\ <<NoChat, m.class>> \in Windows
      /\ <<m.chat, NoClass>> \in Windows /\ <<m.chat, m.class>> \in Windows
    BY <1>1 DEF Windows, Scopes
<1>3. WindowsOf(m) \in Seq(Windows) /\ WindowsOf(m) # <<>>
    <2>1. CASE m.chat = NoChat
        BY <1>2, <2>1 DEF WindowsOf, GlobalWindow
    <2>2. CASE m.chat # NoChat
        <3> DEFINE a == <<<<NoChat, NoClass>>, <<NoChat, m.class>>>>
                   b == <<<<m.chat, NoClass>>, <<m.chat, m.class>>>>
        <3>1. a \in Seq(Windows) /\ b \in Seq(Windows) /\ Len(a) = 2
            BY <1>2
        <3>2. WindowsOf(m) = a \o b
            BY <2>2 DEF WindowsOf, GlobalWindow
        <3> HIDE DEF a, b
        <3>3. a \o b \in Seq(Windows) /\ Len(a \o b) = Len(a) + Len(b)
            BY <3>1, ConcatProperties
        <3>4. Len(b) \in Nat
            BY <3>1, LenProperties
        <3>5. Len(a \o b) # 0
            BY <3>1, <3>3, <3>4
        <3> QED BY <3>2, <3>3, <3>5
    <2> QED BY <2>1, <2>2
<1> QED BY <1>3 DEF Range

\* What is refunded: the debits of the job, and nothing else.
Credited(s, j) ==
    [s EXCEPT !.job[j].spent = FALSE, !.ledger = [w \in Windows |-> s.ledger[w] \ {j}]]

LEMMA QuietChangesAreGentle ==
    ASSUME NEW s, Safe(s), NEW t, Quiet(s, t)
    PROVE  Safe(t) /\ Gentle(s, t)
<1>1. Safe(t)
    BY QuietChangesAreSafe
<1>2. Gentle(s, t)
    BY DEF Quiet, SameJobs, Gentle, Known, Waiting
<1> QED BY <1>1, <1>2

LEMMA RefundingIsGentle ==
    ASSUME NEW s, Safe(s), NEW j \in JobIds, Known(s, j)
    PROVE  LET c == Credited(s, j) IN
           /\ Safe(c) /\ Gentle(s, c) /\ Mild(c, Refund(s, j))
           /\ c.ledger = [w \in Windows |-> s.ledger[w] \ {j}]
           /\ c.job = [s.job EXCEPT ![j] = [s.job[j] EXCEPT !.spent = FALSE]]
<1> DEFINE refunded == {w \in Range(WindowsOf(s.job[j].meta)) : j \in s.ledger[w]}
           debits == [w \in Windows |-> s.ledger[w] \ {j}]
           c == Credited(s, j)
<1>1. s \in States
    BY DEF Safe
<1>2. debits \in [Windows -> SUBSET JobIds]
    BY <1>1, FieldsOfStates
<1>3. refunded \in SUBSET Windows
    <2>1. s.job[j].meta \in Metas
        BY <1>1, FieldsOfJobs
    <2> QED BY <2>1, WindowsAreWindows
<1>4. Refund(s, j) = RearmReservationOwners(c, refunded)
    BY <1>1 DEF Refund, Credited, States
<1>5. c = [s EXCEPT !.job[j].spent = FALSE, !.ledger = debits]
    BY DEF Credited
<1> HIDE DEF refunded, debits, c
<1>6. /\ Quiet(s, c) /\ c.ledger = debits
      /\ c.job = [s.job EXCEPT ![j] = [s.job[j] EXCEPT !.spent = FALSE]]
    <2> DEFINE d == [s EXCEPT !.job[j].spent = FALSE, !.ledger = debits]
    <2>1. /\ Quiet(s, d) /\ d.ledger = debits
          /\ d.job = [s.job EXCEPT ![j] = [s.job[j] EXCEPT !.spent = FALSE]]
        BY ZenonT(60), <1>2, CreditingIsQuiet
    <2>2. c = d
        BY <1>5
    <2> HIDE DEF d
    <2> QED BY <2>1, <2>2
<1>7. Safe(c) /\ Gentle(s, c)
    BY <1>6, QuietChangesAreGentle
<1>8. Mild(c, Refund(s, j))
    BY <1>3, <1>4, <1>7, RearmingOwnersIsMild
<1> QED BY <1>6, <1>7, <1>8 DEF c, debits

LEMMA CarryingIsGentle ==
    ASSUME NEW s, Safe(s), NEW debits \in [Windows -> SUBSET JobIds]
    PROVE  LET c == [s EXCEPT !.ledger = debits]
           IN  Safe(c) /\ Gentle(s, c) /\ c.job = s.job /\ c.ledger = debits
<1> DEFINE c == [s EXCEPT !.ledger = debits]
<1>1. s \in States
    BY DEF Safe
<1>2. /\ c \in States /\ c.job = s.job /\ c.lane = s.lane
      /\ c.cands = s.cands /\ c.blocked = s.blocked /\ c.hold = s.hold /\ c.ledger = debits
    BY <1>1 DEF States
<1> HIDE DEF c
<1>3. SameJobs(s, c)
    BY <1>2 DEF SameJobs
<1>4. SameLanes(s, c)
    BY <1>2 DEF SameLanes, Live
<1>5. RefsKeptOk(s, c)
    BY <1>2 DEF RefsKeptOk, Safe, RefsOk
<1>6. Safe(c) /\ Gentle(s, c)
    BY <1>2, <1>3, <1>4, <1>5, QuietChangesAreGentle DEF Quiet
<1> QED BY <1>2, <1>6 DEF c

\* New limits end every deadline and reservation; all that they kept competes
\* again.
\* What waits for a deadline or behind a reservation, and the state in which
\* none of it does.
Awaiting(s) ==
    {n.ref : n \in s.blocked} \cup UNION {Range(s.hold[w].queue) : w \in Windows}

Disowned(s) ==
    [j \in JobIds |-> IF j \in Awaiting(s) /\ Waiting(s, j)
                      THEN [s.job[j] EXCEPT !.owns = NoWindow] ELSE s.job[j]]

Cleared(s) ==
    [s EXCEPT !.blocked = {}, !.hold = [w \in Windows |-> NoHold], !.job = Disowned(s)]

LEMMA ClearingIsMild ==
    ASSUME NEW s, Safe(s)
    PROVE  LET c == Cleared(s)
               refs == Awaiting(s)
           IN  /\ Rearmed(s) = PushAll(c, refs) /\ Mild(s, c)
               /\ refs \in SUBSET Refs /\ \A ref \in refs : RefOk(c, ref)
               /\ c.lane = s.lane /\ c.cands = s.cands
               /\ c.blocked = {} /\ c.hold = [w \in Windows |-> NoHold]
               /\ \A j \in JobIds :
                    Known(s, j) => /\ c.job[j].st = s.job[j].st
                                   /\ c.job[j].meta = s.job[j].meta
                                   /\ c.job[j].delay = s.job[j].delay
<1> DEFINE refs == Awaiting(s)
           jobs == Disowned(s)
           c == Cleared(s)
<1>1. s \in States
    BY DEF Safe
<1>2. Rearmed(s) = PushAll(c, refs)
    BY <1>1 DEF Rearmed, Cleared, Awaiting, Disowned, States
<1>3. \A ref \in refs : RefOk(s, ref) /\ ref \in Refs
    <2>1. \A n \in s.blocked : RefOk(s, n.ref)
        BY DEF Safe, RefsOk
    <2>2. \A w \in Windows : \A ref \in Range(s.hold[w].queue) : RefOk(s, ref)
        BY ParkedReferences
    <2> QED BY <2>1, <2>2 DEF RefOk, Refs, Awaiting
<1> HIDE DEF refs
<1>4. ASSUME NEW j \in JobIds
      PROVE  /\ jobs[j] \in JobRecords /\ jobs[j].st = s.job[j].st
             /\ Known(s, j) => /\ jobs[j].seq = s.job[j].seq /\ jobs[j].meta = s.job[j].meta
                               /\ jobs[j].delay = s.job[j].delay
                               /\ jobs[j].age = s.job[j].age
                               /\ jobs[j].spent = s.job[j].spent
                               /\ jobs[j].ago = s.job[j].ago
    <2>1. CASE Waiting(s, j) /\ j \in refs
        <3>1. s.job[j] \in [st : {"waiting", "granted", "started", "done", "cancelled"},
                            meta : Metas, seq : JobIds, age : 0 .. Highest * Quantum,
                            delay : {NotDelayed} \cup Nat, owns : Windows \cup {NoWindow},
                            ago : 0 .. MaxLen, spent : BOOLEAN]
            BY <1>1, <2>1, FieldsOfJobs DEF Known, Waiting
        <3>2. jobs[j] = [s.job[j] EXCEPT !.owns = NoWindow]
            BY <2>1 DEF Disowned, refs
        <3> QED BY <3>1, <3>2 DEF JobRecords
    <2>2. CASE ~(Waiting(s, j) /\ j \in refs)
        <3>1. jobs[j] = s.job[j]
            BY <2>2 DEF Disowned, refs
        <3> QED BY <3>1, <1>1, FieldsOfStates
    <2> QED BY <2>1, <2>2
<1>5. jobs \in [JobIds -> JobRecords]
    BY <1>4 DEF Disowned
<1> HIDE DEF jobs
<1>6. /\ c \in States /\ c.job = jobs /\ c.lane = s.lane /\ c.cands = s.cands
      /\ c.blocked = {} /\ c.hold = [w \in Windows |-> NoHold] /\ c.ledger = s.ledger
    <2>1. c = [s EXCEPT !.blocked = {}, !.hold = [w \in Windows |-> NoHold], !.job = jobs]
        BY DEF Cleared, jobs
    <2> DEFINE h == [w \in Windows |-> NoHold]
    <2>2. h \in [Windows -> HoldRecords]
        BY NoHoldIsAHold
    <2> HIDE DEF c, h
    <2>3. c = [s EXCEPT !.blocked = {}, !.hold = h, !.job = jobs]
        BY <2>1 DEF h
    <2>4. /\ c \in States /\ c.job = jobs /\ c.lane = s.lane /\ c.cands = s.cands
          /\ c.blocked = {} /\ c.hold = h /\ c.ledger = s.ledger
        BY <2>2, <2>3, <1>1, <1>5 DEF States
    <2> QED BY <2>4 DEF h
<1> HIDE DEF c
<1>7. SameJobs(s, c)
    BY <1>4, <1>6 DEF SameJobs
<1>8. SameLanes(s, c)
    BY <1>6 DEF SameLanes, Live
<1>9. RefsKeptOk(s, c)
    BY <1>6 DEF RefsKeptOk, NoHold
<1>10. Mild(s, c)
    <2>1. SameBooks(s, c)
        BY <1>4, <1>6 DEF SameBooks
    <2> QED BY <2>1, <1>6, <1>7, <1>8, <1>9, CalmIsMild DEF Calm, Quiet
<1>11. \A ref \in refs : RefOk(c, ref)
    BY <1>3, <1>6, <1>7 DEF RefOk, SameJobs, Known
<1>12. refs \in SUBSET Refs
    BY <1>3
<1>13. \A j \in JobIds :
          Known(s, j) => /\ c.job[j].st = s.job[j].st /\ c.job[j].meta = s.job[j].meta
                         /\ c.job[j].delay = s.job[j].delay
    BY <1>4, <1>6
<1> QED BY <1>2, <1>6, <1>10, <1>11, <1>12, <1>13 DEF c, refs

LEMMA RearmingIsMild ==
    ASSUME NEW s, Safe(s)
    PROVE  Mild(s, Rearmed(s))
<1> DEFINE c == Cleared(s)
           refs == Awaiting(s)
<1>1. /\ Rearmed(s) = PushAll(c, refs) /\ Mild(s, c)
      /\ refs \in SUBSET Refs /\ \A ref \in refs : RefOk(c, ref)
    BY ClearingIsMild
<1> HIDE DEF c, refs
<1>2. Mild(c, PushAll(c, refs))
    BY <1>1, PushingIsMild DEF Mild
<1> QED BY <1>1, <1>2, MildIsTransitive

------------------------------------------------------------------------------
\* The admission pass begins and ends

LEMMA HoldChangesAreCalm ==
    ASSUME NEW s, Safe(s), NEW h \in [Windows -> HoldRecords],
           \A w \in Windows : /\ \A i \in DOMAIN h[w].queue : RefOk(s, h[w].queue[i])
                              /\ h[w].on => RefOk(s, h[w].owner)
                              /\ h[w].on \/ DOMAIN h[w].queue = {}
    PROVE  LET t == [s EXCEPT !.hold = h] IN
           /\ Calm(s, t) /\ t.hold = h
           /\ t.job = s.job /\ t.lane = s.lane /\ t.cands = s.cands
           /\ t.blocked = s.blocked /\ t.ledger = s.ledger
<1> DEFINE t == [s EXCEPT !.hold = h]
<1>1. s \in States
    BY DEF Safe
<1>2. /\ t \in States /\ t.job = s.job /\ t.lane = s.lane /\ t.cands = s.cands
      /\ t.blocked = s.blocked /\ t.ledger = s.ledger /\ t.hold = h
    BY <1>1 DEF States
<1> HIDE DEF t
<1>3. SameJobs(s, t)
    BY <1>2 DEF SameJobs
<1>4. SameLanes(s, t)
    BY <1>2 DEF SameLanes, Live
<1>5. RefsKeptOk(s, t)
    BY <1>2 DEF RefsKeptOk, Safe, RefsOk
<1>6. Calm(s, t)
    BY <1>2, <1>3, <1>4, <1>5 DEF Calm, Quiet, SameBooks
<1> QED BY <1>2, <1>6 DEF t

\* The jobs whose not_before has come, and the state in which they wait for it
\* no longer.
Due(s) == {j \in JobIds : Waiting(s, j) /\ s.job[j].delay = 0}

Undelaying(s) ==
    [s EXCEPT !.job = [j \in JobIds |-> IF j \in Due(s) THEN [s.job[j] EXCEPT !.delay = NotDelayed]
                                        ELSE s.job[j]]]

LEMMA UndelayingIsMild ==
    ASSUME NEW s, Safe(s)
    PROVE  LET c == Undelaying(s)
               refs == {RefOf(s, j) : j \in Due(s)}
           IN  /\ PromoteDelayed(s) = PushAll(c, refs) /\ Mild(s, c)
               /\ refs \in SUBSET Refs /\ \A ref \in refs : RefOk(c, ref)
               /\ c.lane = s.lane /\ c.cands = s.cands /\ c.blocked = s.blocked
               /\ c.hold = s.hold
               /\ \A j \in JobIds :
                    IF j \in Due(s)
                    THEN c.job[j].st = "waiting" /\ c.job[j].meta = s.job[j].meta
                         /\ c.job[j].delay = NotDelayed
                    ELSE c.job[j] = s.job[j]
<1> DEFINE ready == Due(s)
           refs == {RefOf(s, j) : j \in ready}
           jobs == [j \in JobIds |-> IF j \in ready THEN [s.job[j] EXCEPT !.delay = NotDelayed]
                                     ELSE s.job[j]]
           c == Undelaying(s)
<1>1. s \in States
    BY DEF Safe
<1>2. PromoteDelayed(s) = PushAll(c, refs)
    BY <1>1 DEF PromoteDelayed, Undelaying, Due, States
<1>3. \A ref \in refs : RefOk(s, ref) /\ ref \in Refs
    BY WaitingJobs DEF Due
<1>4. ASSUME NEW j \in JobIds
      PROVE  /\ jobs[j] \in JobRecords /\ jobs[j].st = s.job[j].st
             /\ Known(s, j) => /\ jobs[j].seq = s.job[j].seq /\ jobs[j].meta = s.job[j].meta
                               /\ jobs[j].age = s.job[j].age
                               /\ jobs[j].spent = s.job[j].spent
                               /\ jobs[j].ago = s.job[j].ago
    <2>1. CASE j \in ready
        <3>1. s.job[j] \in [st : {"waiting", "granted", "started", "done", "cancelled"},
                            meta : Metas, seq : JobIds, age : 0 .. Highest * Quantum,
                            delay : {NotDelayed} \cup Nat, owns : Windows \cup {NoWindow},
                            ago : 0 .. MaxLen, spent : BOOLEAN]
            BY <1>1, <2>1, FieldsOfJobs DEF Known, Waiting, Due
        <3>2. jobs[j] = [s.job[j] EXCEPT !.delay = NotDelayed]
            BY <2>1
        <3> QED BY <3>1, <3>2 DEF JobRecords
    <2>2. CASE j \notin ready
        BY <2>2, <1>1, FieldsOfStates
    <2> QED BY <2>1, <2>2
<1> HIDE DEF refs
<1>14. \A j \in JobIds :
          IF j \in ready
          THEN jobs[j].st = "waiting" /\ jobs[j].meta = s.job[j].meta
               /\ jobs[j].delay = NotDelayed
          ELSE jobs[j] = s.job[j]
    <2> SUFFICES ASSUME NEW j \in ready
                 PROVE  jobs[j].st = "waiting" /\ jobs[j].meta = s.job[j].meta
                        /\ jobs[j].delay = NotDelayed
        BY DEF Due
    <2>1. Known(s, j) /\ s.job[j].st = "waiting" /\ j \in JobIds
        BY DEF Due, Known, Waiting
    <2>2. s.job[j] \in [st : {"waiting", "granted", "started", "done", "cancelled"},
                        meta : Metas, seq : JobIds, age : 0 .. Highest * Quantum,
                        delay : {NotDelayed} \cup Nat, owns : Windows \cup {NoWindow},
                        ago : 0 .. MaxLen, spent : BOOLEAN]
        BY <1>1, <2>1, FieldsOfJobs
    <2>3. jobs[j] = [s.job[j] EXCEPT !.delay = NotDelayed]
        BY <2>1
    <2> QED BY <2>1, <2>2, <2>3
<1>5. jobs \in [JobIds -> JobRecords]
    BY <1>4
<1> HIDE DEF jobs
<1>6. /\ c \in States /\ c.job = jobs /\ c.lane = s.lane /\ c.cands = s.cands
      /\ c.blocked = s.blocked /\ c.hold = s.hold /\ c.ledger = s.ledger
    <2>1. c = [s EXCEPT !.job = jobs]
        BY DEF Undelaying, jobs
    <2> HIDE DEF c
    <2> QED BY <1>1, <1>5, <2>1 DEF States
<1> HIDE DEF c
<1>7. SameJobs(s, c)
    BY <1>4, <1>6 DEF SameJobs
<1>8. SameLanes(s, c)
    BY <1>6 DEF SameLanes, Live
<1>9. RefsKeptOk(s, c)
    BY <1>6 DEF RefsKeptOk, Safe, RefsOk
<1>10. Mild(s, c)
    <2>1. SameBooks(s, c)
        BY <1>4, <1>6 DEF SameBooks
    <2> QED BY <2>1, <1>6, <1>7, <1>8, <1>9, CalmIsMild DEF Calm, Quiet
<1>11. \A ref \in refs : RefOk(c, ref)
    BY <1>3, <1>6, <1>7 DEF RefOk, SameJobs, Known
<1>12. refs \in SUBSET Refs
    BY <1>3
<1> QED BY <1>2, <1>6, <1>10, <1>11, <1>12, <1>14 DEF c, refs

LEMMA PromotingDelayedIsMild ==
    ASSUME NEW s, Safe(s)
    PROVE  Mild(s, PromoteDelayed(s))
<1> DEFINE c == Undelaying(s)
           refs == {RefOf(s, j) : j \in Due(s)}
<1>1. /\ PromoteDelayed(s) = PushAll(c, refs) /\ Mild(s, c)
      /\ refs \in SUBSET Refs /\ \A ref \in refs : RefOk(c, ref)
    BY UndelayingIsMild
<1> HIDE DEF c, refs
<1>2. Mild(c, PushAll(c, refs))
    BY <1>1, PushingIsMild DEF Mild
<1> QED BY <1>1, <1>2, MildIsTransitive

LEMMA PromotingBlockedIsMild ==
    ASSUME NEW s, Safe(s)
    PROVE  Mild(s, PromoteBlocked(s))
<1> DEFINE refs == {n.ref : n \in {n \in s.blocked : ~n.permanent /\ n.in = 0}}
<1>1. \A ref \in refs : RefOk(s, ref) /\ ref \in Refs
    BY DEF Safe, RefsOk, RefOk, Refs
<1>2. PromoteBlocked(s) = PushAll(Unblock(s, refs), refs)
    BY DEF PromoteBlocked
<1> HIDE DEF refs
<1>3. refs \in SUBSET Refs
    BY <1>1
<1> QED BY <1>1, <1>2, <1>3, WakingIsMild

\* The hold whose queue is left with what is parked behind entry i.
Behind(h, i) == [h EXCEPT !.queue = SubSeq(@, i + 1, Len(@)),
                          !.stale = Max({0, @ - (i - 1)})]

LEMMA QueueBehind ==
    ASSUME NEW s, Safe(s), NEW w \in Windows, NEW i \in DOMAIN s.hold[w].queue
    PROVE  LET q == s.hold[w].queue
               h == Behind(s.hold[w], i)
           IN  /\ h \in HoldRecords /\ h.on = s.hold[w].on /\ h.owner = s.hold[w].owner
               /\ h.in = s.hold[w].in
               /\ q[i] \in Refs /\ RefOk(s, q[i])
               /\ \A k \in DOMAIN h.queue : RefOk(s, h.queue[k])
               /\ i \in 1 .. Len(q) /\ DOMAIN h.queue = 1 .. Len(q) - i
               /\ \A k \in DOMAIN h.queue : h.queue[k] = q[i + k]
<1> DEFINE q == s.hold[w].queue
           rest == SubSeq(q, i + 1, Len(q))
           stale == Max({0, s.hold[w].stale - (i - 1)})
           h == [s.hold[w] EXCEPT !.queue = rest, !.stale = stale]
<1>1. s.hold[w] \in HoldRecords /\ q \in Seq(Refs) /\ s.hold[w].stale \in Nat
    BY ParkedReferences DEF HoldRecords
<1>2. Len(q) \in Nat /\ DOMAIN q = 1 .. Len(q) /\ \A k \in 1 .. Len(q) : q[k] \in Refs
    BY <1>1, LenProperties
<1>3. i \in 1 .. Len(q)
    BY <1>2
<1>4. \A k \in 1 .. Len(q) : RefOk(s, q[k])
    BY <1>2 DEF Safe, RefsOk
<1> HIDE DEF q
<1>5. /\ rest \in Seq(Refs)
      /\ Len(rest) = IF i + 1 <= Len(q) THEN Len(q) - (i + 1) + 1 ELSE 0
      /\ \A k \in 1 .. Len(q) - (i + 1) + 1 : rest[k] = q[i + 1 + k - 1]
    <2>1. i + 1 \in Int /\ Len(q) \in Int /\ \A k \in i + 1 .. Len(q) : q[k] \in Refs
        BY <1>2, <1>3
    <2> QED BY <2>1, SubSeqProperties
<1>6. DOMAIN rest = 1 .. Len(rest)
    BY <1>5, LenProperties
<1> HIDE DEF rest
<1>7. DOMAIN rest = 1 .. Len(q) - i
    BY <1>2, <1>3, <1>5, <1>6
<1>8. \A k \in DOMAIN rest : rest[k] = q[i + k] /\ i + k \in 1 .. Len(q)
    <2> SUFFICES ASSUME NEW k \in 1 .. Len(q) - i
                 PROVE  rest[k] = q[i + k] /\ i + k \in 1 .. Len(q)
        BY <1>7
    <2>1. k \in Int /\ i \in Int /\ Len(q) \in Int
        BY <1>2, <1>3
    <2>2. rest[k] = q[i + 1 + k - 1]
        BY <2>1, <1>5
    <2>3. i + 1 + k - 1 = i + k
        BY <2>1
    <2> QED BY <2>1, <2>2, <2>3, <1>3
<1>9. stale \in Nat
    <2>1. s.hold[w].stale - (i - 1) \in Int
        BY <1>1, <1>3
    <2> QED BY <2>1, MaxOfTwo
<1> HIDE DEF stale
<1>10. /\ h \in HoldRecords /\ h.on = s.hold[w].on /\ h.owner = s.hold[w].owner
       /\ h.in = s.hold[w].in /\ h.queue = rest
    BY <1>1, <1>5, <1>9 DEF HoldRecords
<1>11. h = Behind(s.hold[w], i)
    BY DEF Behind, rest, stale, q
<1> HIDE DEF h
<1> QED BY <1>2, <1>3, <1>4, <1>7, <1>8, <1>10, <1>11 DEF q, rest

\* The reservations that have expired, the live entries of their queues, and
\* the state in which what is parked first is taken out of each.
Expired(s) == {w \in Windows : s.hold[w].on /\ s.hold[w].in = 0}
LiveEntries(s, w) == {i \in DOMAIN s.hold[w].queue : Alive(s, s.hold[w].queue[i])}
Waking(s) == {w \in Expired(s) : LiveEntries(s, w) # {}}
FirstEntry(s, w) == Min(LiveEntries(s, w))

HoldsBehind(s) ==
    [w \in Windows |-> IF w \in Waking(s) THEN Behind(s.hold[w], FirstEntry(s, w))
                       ELSE IF w \in Expired(s) THEN NoHold ELSE s.hold[w]]
Reopened(s) == [s EXCEPT !.hold = HoldsBehind(s)]
Woken(s) == {s.hold[w].queue[FirstEntry(s, w)] : w \in Waking(s)}

LEMMA ReopeningIsMild ==
    ASSUME NEW s, Safe(s)
    PROVE  LET t == Reopened(s)
               refs == Woken(s)
           IN  /\ PromoteReservations(s) = PushAll(t, refs) /\ Mild(s, t)
               /\ refs \in SUBSET Refs /\ \A ref \in refs : RefOk(t, ref)
               /\ t.job = s.job /\ t.lane = s.lane /\ t.cands = s.cands
               /\ t.blocked = s.blocked /\ t.hold = HoldsBehind(s)
               /\ \A w \in Waking(s) : /\ FirstEntry(s, w) \in LiveEntries(s, w)
                                       /\ \A i \in LiveEntries(s, w) : FirstEntry(s, w) <= i
<1> DEFINE expired == Expired(s)
           AliveIn(w) == LiveEntries(s, w)
           woken == Waking(s)
           I(w) == FirstEntry(s, w)
           Rest(w) == Behind(s.hold[w], I(w))
           h == HoldsBehind(s)
           refs == Woken(s)
           t == Reopened(s)
<1>1. s \in States
    BY DEF Safe
<1>2. PromoteReservations(s) = PushAll([s EXCEPT !.hold = h], refs)
    BY <1>1 DEF PromoteReservations, Behind, States, HoldsBehind, Expired, LiveEntries,
                Waking, FirstEntry, Woken
<1>3. \A w \in Windows : AliveIn(w) \in SUBSET Nat
    <2> SUFFICES ASSUME NEW w \in Windows PROVE AliveIn(w) \in SUBSET Nat
        OBVIOUS
    <2>1. s.hold[w].queue \in Seq(Refs)
        BY ParkedReferences
    <2>2. DOMAIN s.hold[w].queue = 1 .. Len(s.hold[w].queue) /\ Len(s.hold[w].queue) \in Nat
        BY <2>1, LenProperties
    <2> QED BY <2>2 DEF LiveEntries
<1>4. \A w \in woken : /\ w \in Windows /\ I(w) \in AliveIn(w)
                       /\ \A i \in AliveIn(w) : I(w) <= i
                       /\ I(w) \in DOMAIN s.hold[w].queue
    <2> SUFFICES ASSUME NEW w \in woken
                 PROVE  w \in Windows /\ I(w) \in AliveIn(w) /\ \A i \in AliveIn(w) : I(w) <= i
        BY DEF LiveEntries
    <2>1. w \in Windows /\ AliveIn(w) # {} /\ AliveIn(w) \in SUBSET Nat
        BY <1>3 DEF Waking, Expired
    <2>2. I(w) = Min(AliveIn(w))
        BY DEF FirstEntry
    <2> HIDE DEF AliveIn, I
    <2> QED BY <2>1, <2>2, MinIsLeast
<1> HIDE DEF I
<1>5. \A w \in woken : /\ Rest(w) \in HoldRecords /\ Rest(w).owner = s.hold[w].owner
                       /\ Rest(w).on = s.hold[w].on
                       /\ s.hold[w].queue[I(w)] \in Refs /\ RefOk(s, s.hold[w].queue[I(w)])
                       /\ \A k \in DOMAIN Rest(w).queue : RefOk(s, Rest(w).queue[k])
    <2> SUFFICES ASSUME NEW w \in woken
                 PROVE  /\ Rest(w) \in HoldRecords /\ Rest(w).owner = s.hold[w].owner
                        /\ Rest(w).on = s.hold[w].on
                        /\ s.hold[w].queue[I(w)] \in Refs /\ RefOk(s, s.hold[w].queue[I(w)])
                        /\ \A k \in DOMAIN Rest(w).queue : RefOk(s, Rest(w).queue[k])
        OBVIOUS
    <2>1. w \in Windows /\ I(w) \in DOMAIN s.hold[w].queue
        BY <1>4
    <2> QED BY <2>1, QueueBehind
<1> HIDE DEF AliveIn
<1>6. \A w \in woken : s.hold[w].on /\ w \in Windows
    BY DEF Waking, Expired
<1>14. \A w \in Windows : h[w] = IF w \in woken THEN Rest(w)
                                 ELSE IF w \in expired THEN NoHold ELSE s.hold[w]
    BY DEF HoldsBehind, I
<1> HIDE DEF Rest, woken, expired
<1>7. \A w \in Windows : /\ h[w] \in HoldRecords
                         /\ \A i \in DOMAIN h[w].queue : RefOk(s, h[w].queue[i])
                         /\ h[w].on => RefOk(s, h[w].owner)
                         /\ h[w].on \/ DOMAIN h[w].queue = {}
    <2> SUFFICES ASSUME NEW w \in Windows
                 PROVE  /\ h[w] \in HoldRecords
                        /\ \A i \in DOMAIN h[w].queue : RefOk(s, h[w].queue[i])
                        /\ h[w].on => RefOk(s, h[w].owner)
                        /\ h[w].on \/ DOMAIN h[w].queue = {}
        OBVIOUS
    <2>1. s.hold[w].on => RefOk(s, s.hold[w].owner)
        BY DEF Safe, RefsOk
    <2>2. CASE w \in woken
        BY <2>1, <2>2, <1>5, <1>6, <1>14
    <2>3. CASE w \notin woken /\ w \in expired
        BY <2>3, <1>14, NoHoldIsAHold DEF NoHold
    <2>4. CASE w \notin woken /\ w \notin expired
        BY <2>1, <2>4, <1>1, <1>14, FieldsOfStates DEF Safe, RefsOk
    <2> QED BY <2>2, <2>3, <2>4
<1>8. h \in [Windows -> HoldRecords]
    BY <1>7 DEF HoldsBehind
<1>9. refs \in SUBSET Refs /\ \A ref \in refs : RefOk(s, ref)
    BY <1>5 DEF Woken, I, woken
<1>15. t = [s EXCEPT !.hold = h]
    BY DEF Reopened
<1> HIDE DEF h, refs, t
<1>10. /\ Calm(s, t) /\ t.hold = h
       /\ t.job = s.job /\ t.lane = s.lane /\ t.cands = s.cands
       /\ t.blocked = s.blocked /\ t.ledger = s.ledger
    <2> DEFINE x == [s EXCEPT !.hold = h]
    <2>1. /\ Calm(s, x) /\ x.hold = h
          /\ x.job = s.job /\ x.lane = s.lane /\ x.cands = s.cands
          /\ x.blocked = s.blocked /\ x.ledger = s.ledger
        BY <1>7, <1>8, HoldChangesAreCalm
    <2>2. t = x
        BY <1>15
    <2> HIDE DEF x
    <2> QED BY <2>1, <2>2
<1>11. Mild(s, t)
    BY <1>10, CalmIsMild
<1>12. \A ref \in refs : RefOk(t, ref)
    BY <1>9, <1>10 DEF RefOk, Known
<1> QED BY <1>2, <1>4, <1>9, <1>10, <1>11, <1>12, <1>15 DEF t, refs, h, woken, I, AliveIn

LEMMA PromotingReservationsIsMild ==
    ASSUME NEW s, Safe(s)
    PROVE  Mild(s, PromoteReservations(s))
<1> DEFINE t == Reopened(s)
           refs == Woken(s)
<1>1. /\ PromoteReservations(s) = PushAll(t, refs) /\ Mild(s, t)
      /\ refs \in SUBSET Refs /\ \A ref \in refs : RefOk(t, ref)
    BY ReopeningIsMild
<1> HIDE DEF t, refs
<1>2. Mild(t, PushAll(t, refs))
    BY <1>1, PushingIsMild DEF Mild
<1> QED BY <1>1, <1>2, MildIsTransitive

LEMMA CompactingLanesIsCalm ==
    ASSUME NEW s, Safe(s)
    PROVE  LET t == CompactLanes(s) IN
           /\ Calm(s, t) /\ t.job = s.job /\ t.hold = s.hold /\ t.ledger = s.ledger
           /\ t.cands = s.cands /\ t.blocked = s.blocked
           /\ \A l \in Lanes : /\ t.lane[l].holder = s.lane[l].holder
                               /\ t.lane[l].count = s.lane[l].count
                               /\ t.lane[l].queued = s.lane[l].queued
                               /\ Live(s, l) \subseteq t.lane[l].pending
                               /\ t.lane[l].pending \subseteq s.lane[l].pending
<1> DEFINE t == CompactLanes(s)
           L(l) == IF Cardinality(s.lane[l].pending \ Live(s, l)) * 2
                        > Cardinality(s.lane[l].pending)
                   THEN [s.lane[l] EXCEPT !.pending = Live(s, l)] ELSE s.lane[l]
           ls == [l \in Lanes |-> L(l)]
<1>1. s \in States
    BY DEF Safe
<1>2. t = [s EXCEPT !.lane = ls]
    BY <1>1 DEF CompactLanes, States
<1>3. ASSUME NEW l \in Lanes
      PROVE  /\ L(l) \in LaneRecords
             /\ L(l).holder = s.lane[l].holder /\ L(l).count = s.lane[l].count
             /\ L(l).queued = s.lane[l].queued
             /\ Live(s, l) \subseteq L(l).pending /\ L(l).pending \subseteq s.lane[l].pending
    <2> DEFINE live == Live(s, l)
    <2>1. s.lane[l] \in LaneRecords /\ live \subseteq s.lane[l].pending
          /\ live \in SUBSET JobIds
        BY <1>1, FieldsOfStates, LiveJobsAreKnown DEF Live
    <2>2. L(l) \in {s.lane[l], [s.lane[l] EXCEPT !.pending = live]}
        OBVIOUS
    <2> HIDE DEF L, live
    <2>3. CASE L(l) = s.lane[l]
        BY <2>1, <2>3 DEF live
    <2>4. CASE L(l) = [s.lane[l] EXCEPT !.pending = live]
        <3>1. /\ L(l) \in LaneRecords
              /\ L(l).holder = s.lane[l].holder /\ L(l).count = s.lane[l].count
              /\ L(l).queued = s.lane[l].queued /\ L(l).pending = live
            BY <2>1, <2>4 DEF LaneRecords
        <3> QED BY <3>1, <2>1 DEF live
    <2> QED BY <2>2, <2>3, <2>4
<1> HIDE DEF L
<1>4. ls \in [Lanes -> LaneRecords] /\ \A l \in Lanes : ls[l] = L(l)
    BY <1>3
<1> HIDE DEF ls
<1>5. /\ t \in States /\ t.job = s.job /\ t.lane = ls /\ t.cands = s.cands
      /\ t.blocked = s.blocked /\ t.hold = s.hold /\ t.ledger = s.ledger
    BY <1>1, <1>2, <1>4 DEF States
<1> HIDE DEF t
<1>6. SameLanes(s, t)
    BY <1>3, <1>4, <1>5 DEF SameLanes
<1>7. Calm(s, t)
    BY <1>5, <1>6, LaneChangesAreCalm
<1> QED BY <1>3, <1>4, <1>5, <1>7 DEF t

LEMMA BeginningAPassIsMild ==
    ASSUME NEW s, Safe(s)
    PROVE  Mild(s, CompactLanes(PromoteReservations(PromoteBlocked(PromoteDelayed(s)))))
<1> DEFINE a == PromoteDelayed(s)
           b == PromoteBlocked(a)
           c == PromoteReservations(b)
<1>1. Mild(s, a)
    BY PromotingDelayedIsMild
<1> HIDE DEF a
<1>2. Mild(s, b)
    BY <1>1, PromotingBlockedIsMild, MildIsTransitive DEF Mild
<1> HIDE DEF b
<1>3. Mild(s, c)
    BY <1>2, PromotingReservationsIsMild, MildIsTransitive DEF Mild
<1> HIDE DEF c
<1>4. Mild(c, CompactLanes(c))
    BY <1>3, CompactingLanesIsCalm, CalmIsMild DEF Mild
<1>5. Mild(s, CompactLanes(c))
    BY <1>3, <1>4, MildIsTransitive
<1> QED BY <1>5 DEF c, b, a

------------------------------------------------------------------------------
\* The top candidate

LEMMA KeysDiffer ==
    ASSUME NEW s, Safe(s), NEW k \in s.cands, NEW o \in s.cands, k.eff = o.eff, k.seq = o.seq
    PROVE  k = o
<1>1. k \in Keys /\ o \in Keys /\ KeyOk(s, k) /\ KeyOk(s, o) /\ s \in States
    BY FieldsOfStates DEF Safe, KeysOk
<1>2. SUFFICES k.ref = o.ref
    BY <1>1 DEF Keys
<1>3. \A i, j \in JobIds : Known(s, i) /\ Known(s, j) /\ s.job[i].seq = s.job[j].seq
        => /\ s.job[i].meta.lane = s.job[j].meta.lane
           /\ Waiting(s, i) /\ Waiting(s, j) => i = j
    BY DEF Safe, SeqsOk
<1>4. ASSUME NEW x \in s.cands, x \in Keys, KeyOk(s, x)
      PROVE  \E j \in JobIds : /\ Known(s, j) /\ s.job[j].seq = x.seq
                               /\ IF x.ref \in Lanes THEN s.job[j].meta.lane = x.ref
                                  ELSE s.job[j].meta.lane = NoLane /\ j = x.ref /\ Waiting(s, j)
    <2>1. CASE x.ref \in Lanes
        BY <1>4, <2>1 DEF KeyOk
    <2>2. CASE x.ref \notin Lanes
        <3>1. /\ x.ref \in JobIds /\ Waiting(s, x.ref) /\ s.job[x.ref].meta.lane = NoLane
              /\ x = Key(s, x.ref, x.ref)
            BY <1>4, <2>2 DEF KeyOk
        <3>2. s.job[x.ref].seq = x.seq /\ Known(s, x.ref)
            BY <3>1 DEF Key, Known, Waiting
        <3> QED BY <2>2, <3>1, <3>2
    <2> QED BY <2>1, <2>2
<1>5. PICK i \in JobIds : /\ Known(s, i) /\ s.job[i].seq = k.seq
                          /\ IF k.ref \in Lanes THEN s.job[i].meta.lane = k.ref
                             ELSE s.job[i].meta.lane = NoLane /\ i = k.ref /\ Waiting(s, i)
    BY <1>1, <1>4
<1>6. PICK j \in JobIds : /\ Known(s, j) /\ s.job[j].seq = o.seq
                          /\ IF o.ref \in Lanes THEN s.job[j].meta.lane = o.ref
                             ELSE s.job[j].meta.lane = NoLane /\ j = o.ref /\ Waiting(s, j)
    BY <1>1, <1>4
<1> QED BY <1>3, <1>5, <1>6, References

\* The heap has a first key: keys differ in their priority or their number.
LEMMA TopIsFirst ==
    ASSUME Safe(Core), cands # {}
    PROVE  /\ Top \in cands
           /\ \A o \in cands \ {Top} : Top.eff > o.eff \/ (Top.eff = o.eff /\ Top.seq < o.seq)
<1>1. Core.cands = cands /\ cands \subseteq Keys
    BY FieldsOfStates DEF Core, Safe
<1>2. \A k \in cands : k.eff \in Nat /\ Highest - k.eff \in Nat /\ k.seq \in Nat
    BY <1>1, Sizes DEF Keys
<1> DEFINE Lacks == {Highest - k.eff : k \in cands}
<1>3. PICK e \in Lacks : \A y \in Lacks : e <= y
    <2>1. Lacks \in SUBSET Nat /\ Lacks # {}
        BY <1>2
    <2> HIDE DEF Lacks
    <2> QED BY <2>1, LeastExists
<1> DEFINE Best == {k \in cands : Highest - k.eff = e}
           Seqs == {k.seq : k \in Best}
<1>4. PICK n \in Seqs : \A y \in Seqs : n <= y
    <2>1. Seqs \in SUBSET Nat /\ Seqs # {}
        BY <1>2, <1>3
    <2> HIDE DEF Seqs
    <2> QED BY <2>1, LeastExists
<1>5. PICK k \in Best : k.seq = n
    BY <1>4
<1>6. \A o \in cands \ {k} : k.eff > o.eff \/ (k.eff = o.eff /\ k.seq < o.seq)
    <2> SUFFICES ASSUME NEW o \in cands, o # k
                 PROVE  k.eff > o.eff \/ (k.eff = o.eff /\ k.seq < o.seq)
        OBVIOUS
    <2>1. Highest - k.eff <= Highest - o.eff
        BY <1>3, <1>5
    <2>2. k.eff \in Nat /\ o.eff \in Nat /\ k.seq \in Nat /\ o.seq \in Nat /\ Highest \in Nat
        BY <1>2, <1>5, Sizes
    <2>3. CASE k.eff = o.eff
        <3>1. k.seq <= o.seq
            BY <2>3, <1>4, <1>5
        <3>2. k.seq # o.seq
            BY <2>3, <1>1, <1>5, KeysDiffer
        <3> QED BY <2>2, <2>3, <3>1, <3>2
    <2>4. CASE k.eff # o.eff
        BY <2>1, <2>2, <2>4
    <2> QED BY <2>3, <2>4
<1> QED BY <1>5, <1>6 DEF Top

LEMMA TopIsACandidate ==
    ASSUME Safe(Core), cands # {}
    PROVE  /\ Top \in cands /\ Top \in Keys /\ KeyOk(Core, Top)
           /\ Top.ref \in Refs /\ RefOk(Core, Top.ref)
<1>1. Top \in cands /\ Core.cands = cands /\ cands \subseteq Keys
    BY TopIsFirst, FieldsOfStates DEF Core, Safe
<1>2. KeyOk(Core, Top)
    BY <1>1 DEF Safe, KeysOk
<1>3. Top \in Keys
    BY <1>1
<1>4. RefOk(Core, Top.ref)
    BY <1>2 DEF KeyOk, RefOk, Known, Waiting
<1> QED BY <1>1, <1>2, <1>3, <1>4 DEF Keys

LEMMA DrainingIsCalm ==
    ASSUME NEW s, Safe(s), NEW l \in Lanes, Live(s, l) # {}
    PROVE  LET t == Drain(s, l) IN
           /\ Calm(s, t) /\ t.job = s.job /\ t.hold = s.hold /\ t.ledger = s.ledger
           /\ t.cands = s.cands /\ t.blocked = s.blocked
           /\ \A m \in Lanes : /\ t.lane[m].holder = s.lane[m].holder
                               /\ t.lane[m].count = s.lane[m].count
                               /\ t.lane[m].queued = s.lane[m].queued
                               /\ Live(s, m) \subseteq t.lane[m].pending
                               /\ t.lane[m].pending \subseteq s.lane[m].pending
           /\ First(t, t.lane[l].pending) = HeadOf(s, l)
<1> DEFINE t == Drain(s, l)
<1>1. s \in States /\ PendingKnown(s)
    BY SafeStatesKnowTheirPending
<1>2. /\ t \in States
      /\ t = [s EXCEPT !.lane[l].pending = t.lane[l].pending]
      /\ t.lane = [s.lane EXCEPT ![l].pending = t.lane[l].pending]
      /\ Live(s, l) \subseteq t.lane[l].pending
      /\ t.lane[l].pending \subseteq s.lane[l].pending
      /\ First(t, t.lane[l].pending) = HeadOf(s, l)
    BY <1>1, DrainedLane
<1> HIDE DEF t
<1>3. /\ t.job = s.job /\ t.hold = s.hold /\ t.ledger = s.ledger
      /\ t.cands = s.cands /\ t.blocked = s.blocked
    BY <1>1, <1>2 DEF States
<1>4. \A m \in Lanes : /\ t.lane[m].holder = s.lane[m].holder
                       /\ t.lane[m].count = s.lane[m].count
                       /\ t.lane[m].queued = s.lane[m].queued
                       /\ Live(s, m) \subseteq t.lane[m].pending
                       /\ t.lane[m].pending \subseteq s.lane[m].pending
    <2> SUFFICES ASSUME NEW m \in Lanes
                 PROVE  /\ t.lane[m].holder = s.lane[m].holder
                        /\ t.lane[m].count = s.lane[m].count
                        /\ t.lane[m].queued = s.lane[m].queued
                        /\ Live(s, m) \subseteq t.lane[m].pending
                        /\ t.lane[m].pending \subseteq s.lane[m].pending
        OBVIOUS
    <2>1. s.lane \in [Lanes -> LaneRecords] /\ s.lane[m] \in LaneRecords
        BY <1>1, FieldsOfStates
    <2>2. CASE m = l
        BY <2>1, <2>2, <1>2 DEF LaneRecords
    <2>3. CASE m # l
        BY <2>1, <2>3, <1>2 DEF Live
    <2> QED BY <2>2, <2>3
<1>5. SameLanes(s, t)
    BY <1>4 DEF SameLanes
<1>6. Calm(s, t)
    BY <1>2, <1>3, <1>5, LaneChangesAreCalm
<1> QED BY <1>2, <1>3, <1>4, <1>6 DEF t

LEMMA PoppingIsCalm ==
    ASSUME Safe(Core), cands # {}
    PROVE  /\ Calm(Core, Popped) /\ Popped.job = job /\ Popped.hold = hold
           /\ Popped.ledger = ledger /\ Popped.cands = cands \ {Top} /\ Popped.blocked = blocked
           /\ \A l \in Lanes : /\ Popped.lane[l].pending = lane[l].pending
                               /\ Popped.lane[l].holder = lane[l].holder
                               /\ Popped.lane[l].count = lane[l].count
                               /\ l # Top.ref => Popped.lane[l].queued = lane[l].queued
           /\ Top.ref \in Lanes => ~Popped.lane[Top.ref].queued
<1> DEFINE s == [Core EXCEPT !.cands = @ \ {Top}]
           l == Top.ref
           r == [lane[l] EXCEPT !.queued = FALSE]
           t == [s EXCEPT !.lane[l] = r]
<1>1. /\ Core \in States /\ Core.job = job /\ Core.lane = lane /\ Core.cands = cands
      /\ Core.blocked = blocked /\ Core.hold = hold /\ Core.ledger = ledger
    BY DEF Safe, Core
<1>2. /\ s \in States /\ s.job = job /\ s.lane = lane /\ s.cands = cands \ {Top}
      /\ s.blocked = blocked /\ s.hold = hold /\ s.ledger = ledger
    <2> HIDE DEF Core
    <2> QED BY <1>1 DEF States
<1>3. CASE l \in Lanes
    <2>1. lane \in [Lanes -> LaneRecords]
        BY <1>1, FieldsOfStates
    <2>2. /\ r \in LaneRecords /\ r.pending = lane[l].pending /\ r.holder = lane[l].holder
          /\ r.count = lane[l].count /\ ~r.queued
        BY <2>1, <1>3 DEF LaneRecords
    <2>3. Popped = t
        <3>1. Popped = [s EXCEPT !.lane[Top.ref].queued = FALSE]
            BY <1>3 DEF Popped
        <3> HIDE DEF s
        <3> QED BY <3>1, <1>2, <1>3, <2>1 DEF States
    <2> HIDE DEF r, s, l
    <2>4. t \in States /\ t.lane[l] = r /\ \A m \in Lanes \ {l} : t.lane[m] = s.lane[m]
        BY <1>2, <1>3, <2>2, StateWithLane
    <2>5. /\ t.job = job /\ t.cands = cands \ {Top}
          /\ t.blocked = blocked /\ t.hold = hold /\ t.ledger = ledger
        BY <1>2 DEF States
    <2> HIDE DEF t
    <2>6. \A m \in Lanes : /\ t.lane[m].pending = lane[m].pending
                           /\ t.lane[m].holder = lane[m].holder
                           /\ t.lane[m].count = lane[m].count
                           /\ m # l => t.lane[m].queued = lane[m].queued
        BY <1>2, <2>2, <2>4
    <2>7. SameLanes(Core, t)
        BY <2>6, <1>1 DEF SameLanes, Live
    <2>8. Calm(Core, t)
        BY <2>4, <2>5, <2>7, <1>1, LaneChangesAreCalm
    <2> QED BY <1>3, <2>2, <2>3, <2>4, <2>5, <2>6, <2>8 DEF l
<1>4. CASE l \notin Lanes
    <2>1. Popped = s
        BY <1>4 DEF Popped
    <2> HIDE DEF s, l
    <2>2. SameLanes(Core, s)
        BY <1>1, <1>2 DEF SameLanes, Live
    <2>3. Calm(Core, s)
        BY <2>2, <1>1, <1>2, LaneChangesAreCalm
    <2> QED BY <1>2, <1>4, <2>1, <2>3 DEF l
<1> QED BY <1>3, <1>4

LEMMA RekeyingIsMild ==
    ASSUME Safe(Core), cands # {}, Grantable(Popped) = {}
    PROVE  Mild(Core, Rekeyed(Popped, Top.ref)) /\ Top.ref \in Lanes
<1> DEFINE s == Popped
           l == Top.ref
           e == [s EXCEPT !.lane[l].pending = {}]
<1>1. Mild(Core, s)
    BY PoppingIsCalm, CalmIsMild
<1>2. l \in Lanes
    BY DEF Grantable
<1> HIDE DEF l, s
<1>3. Safe(s) /\ s \in States
    BY <1>1 DEF Mild, Safe
<1>4. CASE ~HasCapacity(s, l)
    BY <1>1, <1>2, <1>4 DEF Rekeyed, s, l
<1>5. CASE HasCapacity(s, l) /\ Live(s, l) = {}
    <2>1. Rekeyed(s, l) = RemoveIdle(e, l)
        BY <1>5 DEF Rekeyed
    <2>2. s.lane[l] \in LaneRecords /\ s.lane \in [Lanes -> LaneRecords]
        BY <1>2, <1>3, FieldsOfStates
    <2> DEFINE r == [s.lane[l] EXCEPT !.pending = {}]
    <2>3. /\ r \in LaneRecords /\ r.pending = {} /\ r.holder = s.lane[l].holder
          /\ r.count = s.lane[l].count
        BY <2>2 DEF LaneRecords
    <2>4. e = [s EXCEPT !.lane[l] = r]
        BY <1>2, <1>3, <2>2 DEF States
    <2> HIDE DEF r, e
    <2>5. e \in States /\ e.lane[l] = r /\ \A m \in Lanes \ {l} : e.lane[m] = s.lane[m]
        BY <1>2, <1>3, <2>3, <2>4, StateWithLane
    <2>6. /\ e.job = s.job /\ e.cands = s.cands /\ e.blocked = s.blocked /\ e.hold = s.hold
          /\ e.ledger = s.ledger
        BY <1>3, <2>4 DEF States
    <2>7. SameLanes(s, e)
        <3> SUFFICES ASSUME NEW m \in Lanes
                     PROVE  /\ m \notin Bounded => /\ e.lane[m].holder = s.lane[m].holder
                                                   /\ e.lane[m].count = s.lane[m].count
                            /\ e.lane[m].count \in {s.lane[m].count, 0}
                            /\ Live(s, m) \subseteq e.lane[m].pending
                            /\ e.lane[m].pending \subseteq s.lane[m].pending
            BY DEF SameLanes
        <3>1. CASE m = l
            BY <3>1, <2>3, <2>5, <1>5
        <3>2. CASE m # l
            BY <3>2, <2>5 DEF Live
        <3> QED BY <3>1, <3>2
    <2>8. Mild(s, e)
        BY <1>3, <2>5, <2>6, <2>7, LaneChangesAreCalm, CalmIsMild
    <2>9. Mild(e, RemoveIdle(e, l))
        BY <1>2, <2>8, RemovingIdleIsCalm, CalmIsMild DEF Mild
    <2> QED BY <1>1, <1>2, <2>1, <2>8, <2>9, MildIsTransitive DEF s, l
<1>6. CASE HasCapacity(s, l) /\ Live(s, l) # {}
    <2>1. Rekeyed(s, l) = PushLane(Drain(s, l), l)
        BY <1>6 DEF Rekeyed
    <2>2. Mild(s, Drain(s, l))
        BY <1>2, <1>3, <1>6, DrainingIsCalm, CalmIsMild
    <2>3. Mild(Drain(s, l), PushLane(Drain(s, l), l))
        BY <1>2, <2>2, PushingALaneIsMild DEF Mild
    <2> QED BY <1>1, <1>2, <2>1, <2>2, <2>3, MildIsTransitive DEF s, l
<1> QED BY <1>4, <1>5, <1>6

\* The candidate is a waiting job, the first of its lane if it has one.
LEMMA CandidateIsFirst ==
    ASSUME Safe(Core), cands # {}, Grantable(Popped) # {}
    PROVE  /\ Candidate \in JobIds /\ Waiting(Core, Candidate) /\ Candidate \in Grantable(Popped)
           /\ Meta \in Metas /\ RefOf(Core, Candidate) = Top.ref
           /\ job[Candidate].meta.lane = IF Top.ref \in Lanes THEN Top.ref ELSE NoLane
           /\ \A i \in JobIds :
                Waiting(Core, i) /\ i # Candidate
                /\ job[i].meta.lane = job[Candidate].meta.lane /\ job[i].meta.lane # NoLane
                    => job[Candidate].seq < job[i].seq
           /\ Top.ref \in Lanes => /\ HasCapacity(Popped, Top.ref)
                                   /\ Live(Popped, Top.ref) # {}
                                   /\ Candidate = HeadOf(Popped, Top.ref)
                                   /\ job[Candidate].delay <= 0
<1>1. /\ Top \in cands /\ Top \in Keys /\ KeyOk(Core, Top)
    BY TopIsACandidate
<1>2. Popped \in States /\ Popped.job = job /\ Safe(Popped)
    BY PoppingIsCalm, CalmIsMild DEF Mild, Safe
<1>3. Core \in States /\ Core.job = job /\ Core.lane = lane
    BY DEF Safe, Core
<1>4. \A j \in JobIds : Waiting(Popped, j) <=> Waiting(Core, j)
    BY <1>2, <1>3 DEF Waiting
<1>5. ASSUME NEW j \in JobIds, Grantable(Popped) = {j} PROVE Candidate = j
    <2>1. {j} \in SUBSET Nat /\ {j} # {}
        BY Sizes DEF JobIds
    <2>2. Min({j}) \in {j}
        BY <2>1, MinIsLeast
    <2> QED BY <2>2, <1>5 DEF Candidate
<1>6. CASE Top.ref \notin Lanes
    <2>1. /\ Top.ref \in JobIds /\ Waiting(Core, Top.ref) /\ job[Top.ref].meta.lane = NoLane
        BY <1>1, <1>3, <1>6 DEF KeyOk
    <2>2. Grantable(Popped) = {Top.ref}
        BY <1>6 DEF Grantable
    <2>3. Candidate = Top.ref
        BY <2>1, <2>2, <1>5
    <2>4. Meta \in Metas
        BY <2>1, <2>3, WaitingJobs, <1>3 DEF Meta
    <2> QED BY <1>3, <1>6, <2>1, <2>2, <2>3, <2>4 DEF RefOf
<1>7. CASE Top.ref \in Lanes
    <2> DEFINE l == Top.ref
               s == Popped
               h == First(s, Live(s, l))
    <2>1. HasCapacity(s, l) /\ Live(s, l) # {}
        BY <1>7 DEF Grantable
    <2>2. Grantable(s) = {h} /\ job[h].delay <= 0
        BY <1>2, <1>7, <2>1 DEF Grantable
    <2> HIDE DEF s, l
    <2>3. h \in Live(s, l) /\ h \in JobIds /\ \A i \in Live(s, l) \ {h} : Before(s, h, i)
        BY <1>2, <1>7, <2>1, LiveJobsAreKnown, FirstComesFirst DEF s, l
    <2> HIDE DEF h
    <2>4. Candidate = h
        BY <2>2, <2>3, <1>5 DEF s
    <2>5. Waiting(s, h) /\ h \in s.lane[l].pending
        BY <2>3 DEF Live
    <2>6. Waiting(Core, h) /\ s.job[h].meta.lane = l
        BY <2>5, <2>3, <1>2, <1>4, <1>7 DEF s, l, Safe, PendingOk
    <2>7. Meta \in Metas
        BY <2>3, <2>4, <2>6, WaitingJobs, <1>3 DEF Meta
    <2>8. l # NoLane
        BY <1>7, References DEF l
    <2>9. ASSUME NEW i \in JobIds, Waiting(Core, i), i # h, job[i].meta.lane = l
          PROVE  job[h].seq < job[i].seq
        <3>1. i \in Live(s, l)
            BY <2>8, <2>9, <1>2, <1>4 DEF s, Safe, PendingOk, Live
        <3>2. Before(s, h, i)
            BY <3>1, <2>9, <2>3
        <3>3. s.job[h].seq # s.job[i].seq
            BY <2>3, <2>5, <2>6, <2>9, <1>2, <1>4 DEF s, Safe, SeqsOk, Known, Waiting
        <3> QED BY <3>2, <3>3, <1>2 DEF Before, s
    <2> QED BY <1>2, <1>3, <1>7, <2>1, <2>2, <2>3, <2>4, <2>6, <2>7, <2>8, <2>9
            DEF RefOf, s, l, h, HeadOf
<1> QED BY <1>6, <1>7

\* Selecting the candidate drops the key and dead entries only.
LEMMA SelectingIsCalm ==
    ASSUME Safe(Core), cands # {}, Grantable(Popped) # {}
    PROVE  /\ Calm(Core, Selected) /\ Safe(Selected)
           /\ Selected.job = job /\ Selected.hold = hold
           /\ Selected.ledger = ledger /\ Selected.cands = cands \ {Top}
           /\ Selected.blocked = blocked
           /\ \A l \in Lanes : /\ Selected.lane[l].holder = lane[l].holder
                               /\ Selected.lane[l].count = lane[l].count
                               /\ Live(Core, l) \subseteq Selected.lane[l].pending
                               /\ Selected.lane[l].pending \subseteq lane[l].pending
                               /\ l # Top.ref => Selected.lane[l].queued = lane[l].queued
           /\ Top.ref \in Lanes => ~Selected.lane[Top.ref].queued
<1> DEFINE s == Popped
           l == Top.ref
<1>1. /\ Calm(Core, s) /\ s.job = job /\ s.hold = hold
      /\ s.ledger = ledger /\ s.cands = cands \ {Top} /\ s.blocked = blocked
      /\ \A m \in Lanes : /\ s.lane[m].pending = lane[m].pending
                          /\ s.lane[m].holder = lane[m].holder
                          /\ s.lane[m].count = lane[m].count
                          /\ m # l => s.lane[m].queued = lane[m].queued
      /\ l \in Lanes => ~s.lane[l].queued
    BY PoppingIsCalm
<1>2. Safe(s) /\ Core.job = job /\ Core.lane = lane /\ Core.cands = cands
      /\ Core.blocked = blocked /\ Core.hold = hold /\ Core.ledger = ledger
    BY <1>1, CalmChangesAreSafe DEF Core
<1> HIDE DEF s, l
<1>3. \A m \in Lanes : Live(s, m) = Live(Core, m)
    BY <1>1, <1>2 DEF Live, Waiting
<1>4. CASE l \in Lanes
    <2>1. Selected = Drain(s, l) /\ Live(s, l) # {}
        BY <1>4, CandidateIsFirst DEF Selected, s, l
    <2> DEFINE t == Drain(s, l)
    <2>2. /\ Calm(s, t) /\ t.job = s.job /\ t.hold = s.hold /\ t.ledger = s.ledger
          /\ t.cands = s.cands /\ t.blocked = s.blocked
          /\ \A m \in Lanes : /\ t.lane[m].holder = s.lane[m].holder
                              /\ t.lane[m].count = s.lane[m].count
                              /\ t.lane[m].queued = s.lane[m].queued
                              /\ Live(s, m) \subseteq t.lane[m].pending
                              /\ t.lane[m].pending \subseteq s.lane[m].pending
        BY <1>2, <1>4, <2>1, DrainingIsCalm
    <2> HIDE DEF t
    <2>3. Safe(t) /\ t \in States
        BY <1>2, <2>2, CalmChangesAreSafe DEF Safe
    <2>4. SameLanes(Core, t)
        BY <1>1, <1>2, <1>3, <2>2 DEF SameLanes
    <2>5. Calm(Core, t)
        BY <1>1, <1>2, <2>2, <2>3, <2>4, LaneChangesAreCalm
    <2> QED BY <1>1, <1>3, <1>4, <2>1, <2>2, <2>3, <2>5 DEF t, l
<1>5. CASE l \notin Lanes
    <2>1. Selected = s
        BY <1>5 DEF Selected, s, l
    <2>2. \A m \in Lanes : Live(Core, m) \subseteq s.lane[m].pending
        BY <1>1, <1>2 DEF Live
    <2> QED BY <1>1, <1>2, <1>5, <2>1, <2>2 DEF l
<1> QED BY <1>4, <1>5

------------------------------------------------------------------------------
\* The candidate is parked, paused or put to sleep

\* Only jobs that were granted are debited.
Debited(s) == \A w \in Windows : \A j \in s.ledger[w] : Known(s, j)

LEMMA WindowsAreFew ==
    ASSUME NEW m \in Metas
    PROVE  IsFiniteSet(Range(WindowsOf(m)))
<1> DEFINE q == WindowsOf(m)
<1>1. q \in Seq(Windows)
    BY WindowsAreWindows
<1>2. Len(q) \in Nat /\ DOMAIN q = 1 .. Len(q) /\ q \in [1 .. Len(q) -> Windows]
    BY <1>1, LenProperties
<1>3. IsFiniteSet(1 .. Len(q))
    BY <1>2, FS_Interval
<1> HIDE DEF q
<1>4. q \in Surjection(1 .. Len(q), Range(q))
    BY <1>2 DEF Surjection, Range
<1>5. IsFiniteSet(Range(q))
    BY <1>3, <1>4, FS_Surjection
<1> QED BY <1>5 DEF q

LEMMA FirstOfIsOne ==
    ASSUME Meta \in Metas, NEW ws \in SUBSET Range(WindowsOf(Meta)), ws # {}
    PROVE  FirstOf(ws) \in ws /\ FirstOf(ws) \in Windows
<1> DEFINE order == WindowsOf(Meta)
           I == {i \in DOMAIN order : order[i] \in ws}
<1>1. order \in Seq(Windows) /\ Range(order) \in SUBSET Windows
    BY WindowsAreWindows
<1>2. Len(order) \in Nat /\ DOMAIN order = 1 .. Len(order)
    BY <1>1, LenProperties
<1>3. I # {} /\ I \in SUBSET Nat
    BY <1>2 DEF Range
<1>4. FirstOf(ws) = order[Min(I)]
    BY DEF FirstOf
<1>5. Min(I) \in I
    <2> HIDE DEF I
    <2> QED BY <1>3, MinIsLeast
<1>6. FirstOf(ws) \in ws
    BY <1>4, <1>5
<1> QED BY <1>1, <1>6

LEMMA ReleasesAreMild ==
    ASSUME NEW s, Safe(s), NEW w \in Windows \cup {NoWindow}, NEW owner
    PROVE  /\ Mild(s, ReleaseReservation(s, w, owner))
           /\ ReleaseReservation(s, w, owner).job = s.job
<1> DEFINE t == ReleaseReservation(s, w, owner)
           c == [s EXCEPT !.hold[w] = NoHold]
<1>1. Safe(t)
    BY ReleasesAreSafe
<1>2. t = s \/ Pushed(c, t, Range(s.hold[w].queue))
    BY ReleasesPush
<1>3. c.job = s.job /\ c.ledger = s.ledger
    BY DEF Safe, States
<1> HIDE DEF t, c
<1>4. t.job = s.job /\ t.ledger = s.ledger
    BY <1>2, <1>3 DEF Pushed
<1> QED BY <1>1, <1>4, SameJobsAreMild DEF t

LEMMA OwningIsCalm ==
    ASSUME NEW s, Safe(s), NEW j \in JobIds, Known(s, j), NEW w \in Windows \cup {NoWindow}
    PROVE  LET t == [s EXCEPT !.job[j].owns = w] IN
           /\ Calm(s, t) /\ t.job = [s.job EXCEPT ![j] = [s.job[j] EXCEPT !.owns = w]]
           /\ t.hold = s.hold /\ t.blocked = s.blocked /\ t.cands = s.cands
           /\ t.lane = s.lane
<1> DEFINE t == [s EXCEPT !.job[j].owns = w]
           r == [s.job[j] EXCEPT !.owns = w]
<1>1. s \in States /\ s.job \in [JobIds -> JobRecords]
    BY FieldsOfStates DEF Safe
<1>2. /\ r \in JobRecords /\ r.st = s.job[j].st /\ r.seq = s.job[j].seq
      /\ r.meta = s.job[j].meta /\ r.age = s.job[j].age
      /\ r.spent = s.job[j].spent /\ r.ago = s.job[j].ago
    <2>1. s.job[j] \in [st : {"waiting", "granted", "started", "done", "cancelled"},
                        meta : Metas, seq : JobIds, age : 0 .. Highest * Quantum,
                        delay : {NotDelayed} \cup Nat, owns : Windows \cup {NoWindow},
                        ago : 0 .. MaxLen, spent : BOOLEAN]
        BY <1>1, FieldsOfJobs
    <2> QED BY <2>1 DEF JobRecords
<1>3. t = [s EXCEPT !.job = [s.job EXCEPT ![j] = r]]
    BY <1>1 DEF States
<1> HIDE DEF r, t
<1>4. [s.job EXCEPT ![j] = r] \in [JobIds -> JobRecords]
    BY <1>1, <1>2
<1>5. /\ t \in States /\ t.job = [s.job EXCEPT ![j] = r] /\ t.lane = s.lane
      /\ t.cands = s.cands /\ t.blocked = s.blocked /\ t.hold = s.hold
      /\ t.ledger = s.ledger
    BY <1>1, <1>3, <1>4 DEF States
<1>6. SameJobs(s, t)
    BY <1>1, <1>2, <1>5 DEF SameJobs
<1>7. SameLanes(s, t)
    BY <1>5 DEF SameLanes, Live
<1>8. RefsKeptOk(s, t)
    BY <1>5 DEF RefsKeptOk, Safe, RefsOk
<1>9. SameBooks(s, t)
    BY <1>1, <1>2, <1>5 DEF SameBooks
<1>10. Calm(s, t)
    BY <1>5, <1>6, <1>7, <1>8, <1>9 DEF Calm, Quiet
<1> QED BY <1>5, <1>10 DEF t, r

LEMMA BlockingIsMild ==
    ASSUME NEW s, Safe(s), NEW ref \in Refs, RefOk(s, ref), NEW in \in Nat,
           NEW permanent \in BOOLEAN
    PROVE  Mild(s, Block(s, ref, in, permanent)) /\ Block(s, ref, in, permanent).job = s.job
<1> DEFINE n == [ref |-> ref, in |-> in, permanent |-> permanent]
           nodes == {o \in s.blocked : o.ref # ref} \cup {n}
           t == Block(s, ref, in, permanent)
<1>1. Calm(s, t) /\ t = [s EXCEPT !.blocked = nodes]
    BY BlockIsCalm
<1> HIDE DEF nodes, t
<1>2. t.job = s.job
    BY <1>1 DEF Safe, States
<1> QED BY <1>1, <1>2, CalmIsMild DEF t

LEMMA ReleasingPreviousIsMild ==
    ASSUME NEW s, Safe(s), Candidate \in JobIds, Waiting(s, Candidate), NEW next
    PROVE  LET t == ReleasePreviousReservation(s, next) IN
           /\ Mild(s, t) /\ Waiting(t, Candidate)
           /\ \A j \in JobIds \ {Candidate} : t.job[j] = s.job[j]
           /\ t.job[Candidate].meta = s.job[Candidate].meta
<1> DEFINE j == Candidate
           w == s.job[j].owns
           r == ReleaseReservation(s, w, Top.ref)
           t == [r EXCEPT !.job[j].owns = NoWindow]
<1>1. w \in Windows \cup {NoWindow} /\ Known(s, j)
    BY WaitingJobs
<1> HIDE DEF j, w
<1>2. Mild(s, r) /\ r.job = s.job
    BY <1>1, ReleasesAreMild
<1>3. CASE w = next \/ w = NoWindow
    <2>1. ReleasePreviousReservation(s, next) = s
        BY <1>3 DEF ReleasePreviousReservation, j, w
    <2> QED BY <2>1, SameJobsAreMild
<1>4. CASE ~(w = next \/ w = NoWindow)
    <2>1. ReleasePreviousReservation(s, next) = t
        BY <1>4 DEF ReleasePreviousReservation, j, w
    <2> HIDE DEF r
    <2>2. j \in JobIds /\ Known(r, j) /\ Safe(r) /\ NoWindow \in Windows \cup {NoWindow}
        BY <1>1, <1>2 DEF Mild, Known, j
    <2>3. Calm(r, t) /\ t.job = [r.job EXCEPT ![j] = [r.job[j] EXCEPT !.owns = NoWindow]]
        BY <2>2, OwningIsCalm
    <2> HIDE DEF t
    <2>4. Mild(s, t)
        BY <1>2, <2>2, <2>3, CalmIsMild, MildIsTransitive
    <2>5. s \in States /\ s.job \in [JobIds -> JobRecords]
        BY FieldsOfStates DEF Safe
    <2>6. t.job[j] = [s.job[j] EXCEPT !.owns = NoWindow]
          /\ \A i \in JobIds \ {j} : t.job[i] = s.job[i]
        BY <1>2, <2>2, <2>3, <2>5
    <2>7. t.job[j].st = s.job[j].st /\ t.job[j].meta = s.job[j].meta
        BY <2>5, <2>6, <1>1, <2>2, FieldsOfJobs
    <2> QED BY <2>1, <2>4, <2>6, <2>7 DEF j, Waiting
<1> QED BY <1>3, <1>4

LEMMA ParkingIsMild ==
    ASSUME Safe(Core), cands # {}, Grantable(Popped) # {}, Reserving(Selected) # {}
    PROVE  Mild(Core, [Selected EXCEPT !.hold[FirstOf(Reserving(Selected))].queue =
                          Append(@, Top.ref)])
<1> DEFINE s == Selected
           w == FirstOf(Reserving(s))
           x == [s.hold[w] EXCEPT !.queue = Append(@, Top.ref)]
           h == [s.hold EXCEPT ![w] = x]
           t == [s EXCEPT !.hold = h]
<1>1. Calm(Core, s) /\ Safe(s) /\ s.job = job /\ Meta \in Metas
    BY SelectingIsCalm, CandidateIsFirst
<1>2. w \in Windows /\ s.hold[w].on
    <2>1. /\ Reserving(s) \in SUBSET Range(WindowsOf(Meta))
          /\ \A v \in Reserving(s) : s.hold[v].on
        BY DEF Reserving, HoldActive
    <2>2. w \in Windows /\ w \in Reserving(s)
        BY <1>1, <2>1, FirstOfIsOne
    <2> QED BY <2>1, <2>2
<1>3. Top.ref \in Refs /\ RefOk(Core, Top.ref)
    BY TopIsACandidate
<1>4. RefOk(s, Top.ref)
    BY <1>1, <1>3 DEF RefOk, Known, Core
<1> HIDE DEF s, w
<1>5. s \in States /\ s.hold \in [Windows -> HoldRecords]
    BY <1>1, FieldsOfStates DEF Safe
<1>6. s.hold[w] \in HoldRecords /\ s.hold[w].queue \in Seq(Refs)
    BY <1>1, <1>2, ParkedReferences
<1>7. /\ Append(s.hold[w].queue, Top.ref) \in Seq(Refs)
      /\ \A i \in DOMAIN Append(s.hold[w].queue, Top.ref) :
            RefOk(s, Append(s.hold[w].queue, Top.ref)[i])
    <2> DEFINE q == s.hold[w].queue
               a == Append(q, Top.ref)
    <2>1. Len(q) \in Nat /\ DOMAIN q = 1 .. Len(q)
        BY <1>6, LenProperties
    <2>2. /\ a \in Seq(Refs) /\ Len(a) = Len(q) + 1
          /\ \A i \in 1 .. Len(q) : a[i] = q[i]
          /\ a[Len(q) + 1] = Top.ref
        BY <1>3, <1>6, AppendProperties
    <2>3. DOMAIN a = 1 .. Len(a)
        BY <2>2, LenProperties
    <2>4. \A i \in 1 .. Len(q) : RefOk(s, q[i])
        BY <2>1, <1>1, <1>2 DEF Safe, RefsOk
    <2> HIDE DEF q, a
    <2>5. \A i \in DOMAIN a : i \in 1 .. Len(q) \/ i = Len(q) + 1
        BY <2>1, <2>2, <2>3
    <2>6. a \in Seq(Refs) /\ \A i \in DOMAIN a : RefOk(s, a[i])
        BY <2>2, <2>4, <2>5, <1>4
    <2> QED BY <2>6 DEF a, q
<1>8. /\ x \in HoldRecords /\ x.on = s.hold[w].on /\ x.owner = s.hold[w].owner
      /\ \A i \in DOMAIN x.queue : RefOk(s, x.queue[i])
    BY <1>6, <1>7 DEF HoldRecords
<1> HIDE DEF x
<1>9. /\ h \in [Windows -> HoldRecords] /\ h[w] = x
      /\ \A v \in Windows \ {w} : h[v] = s.hold[v]
    BY <1>2, <1>5, <1>8
<1> HIDE DEF h
<1>10. \A v \in Windows : /\ \A i \in DOMAIN h[v].queue : RefOk(s, h[v].queue[i])
                          /\ h[v].on => RefOk(s, h[v].owner)
                          /\ h[v].on \/ DOMAIN h[v].queue = {}
    BY <1>1, <1>2, <1>8, <1>9 DEF Safe, RefsOk
<1>11. Mild(s, t)
    BY <1>1, <1>9, <1>10, HoldChangesAreCalm, CalmIsMild
<1>12. Mild(Core, t)
    BY <1>1, <1>11, CalmIsMild, MildIsTransitive
<1>13. t = [s EXCEPT !.hold[w].queue = Append(@, Top.ref)]
    BY <1>2, <1>5 DEF h, x, States
<1> QED BY <1>12, <1>13 DEF s, w

LEMMA PausingIsMild ==
    ASSUME Safe(Core), cands # {}, Grantable(Popped) # {}
    PROVE  Mild(Core, Block(ReleasePreviousReservation(Selected, NoWindow), Top.ref, 0, TRUE))
<1> DEFINE s == Selected
           r == ReleasePreviousReservation(s, NoWindow)
<1>1. Mild(Core, s) /\ Safe(s) /\ s.job = job
    BY SelectingIsCalm, CalmIsMild
<1>2. Candidate \in JobIds /\ Waiting(s, Candidate)
    BY <1>1, CandidateIsFirst DEF Waiting, Core
<1>3. Top.ref \in Refs /\ RefOk(Core, Top.ref)
    BY TopIsACandidate
<1> HIDE DEF s
<1>4. Mild(s, r)
    BY <1>1, <1>2, ReleasingPreviousIsMild
<1>5. RefOk(r, Top.ref)
    <2>1. \A j \in JobIds : Known(s, j) => Known(r, j) /\ r.job[j].meta = s.job[j].meta
        BY <1>4 DEF Mild, Gentle, SameBooks
    <2> QED BY <1>1, <1>3, <2>1 DEF RefOk, Known, Core
<1> HIDE DEF r
<1>6. \A i \in Nat, p \in BOOLEAN : Mild(r, Block(r, Top.ref, i, p))
    BY <1>3, <1>4, <1>5, BlockingIsMild DEF Mild
<1>7. 0 \in Nat /\ TRUE \in BOOLEAN
    OBVIOUS
<1>8. Mild(r, Block(r, Top.ref, 0, TRUE))
    BY <1>6, <1>7, Zenon
<1> QED BY <1>1, <1>4, <1>8, MildIsTransitive DEF s, r
\* The moment until which the candidate is held back is a number, not before
\* that its penalties end.
LEMMA UntilIsTyped ==
    ASSUME limits \in LimitSets, penalty \in [Scopes -> Nat], Meta \in Metas, ~Paused,
           NEW s \in States, Debited(s)
    PROVE  /\ Until(s) \in Nat /\ Until(s) >= penalty[NoChat] /\ Until(s) >= penalty[Meta.chat]
           /\ \A w \in Short(s) : Until(s) >= EarliestFor(s, w, Meta.weight)
           /\ \A w \in Short(s) : EarliestFor(s, w, Meta.weight) > 0
           /\ Until(s) \in {penalty[NoChat], penalty[Meta.chat]} \/ Short(s) # {}
<1> DEFINE E(w) == EarliestFor(s, w, Meta.weight)
           P == {penalty[NoChat], penalty[Meta.chat]}
           T == P \cup {E(w) : w \in Short(s)}
           f == [w \in Short(s) |-> E(w)]
<1>1. /\ Meta.weight \in Nat /\ Meta.chat \in Scopes /\ NoChat \in Scopes
      /\ Range(WindowsOf(Meta)) \in SUBSET Windows
    BY FieldsOfRequests, WindowsAreWindows DEF Scopes
<1>2. \A w \in Short(s) : /\ E(w) \in Nat /\ E(w) > 0
    <2> SUFFICES ASSUME NEW w \in Short(s) PROVE E(w) \in Nat /\ E(w) > 0
        OBVIOUS
    <2>1. w \in Windows /\ ~CanConsume(s, w, Meta.weight, 0) /\ ~Never(w, Meta.weight)
        BY <1>1 DEF Short, Paused
    <2>2. \A j \in s.ledger[w] : Known(s, j)
        BY <2>1 DEF Debited
    <2> QED BY <1>1, <2>1, <2>2, EarliestIsTyped
<1>3. IsFiniteSet(Short(s))
    <2>1. Short(s) \subseteq Range(WindowsOf(Meta))
        BY DEF Short
    <2> QED BY <2>1, WindowsAreFew, FS_Subset
<1> HIDE DEF E
<1>4. f \in Surjection(Short(s), {E(w) : w \in Short(s)})
    BY DEF Surjection
<1>5. IsFiniteSet({E(w) : w \in Short(s)})
    <2> HIDE DEF f
    <2> QED BY <1>3, <1>4, FS_Surjection
<1>6. IsFiniteSet(P)
    <2>1. IsFiniteSet({penalty[NoChat]})
        BY FS_Singleton
    <2>2. IsFiniteSet({penalty[NoChat]} \cup {penalty[Meta.chat]})
        BY <2>1, FS_AddElement
    <2>3. P = {penalty[NoChat]} \cup {penalty[Meta.chat]}
        OBVIOUS
    <2> QED BY <2>2, <2>3
<1>7. IsFiniteSet(T) /\ T \in SUBSET Nat /\ T # {}
    BY <1>1, <1>2, <1>5, <1>6, FS_Union
<1>8. Until(s) = Max(T)
    BY DEF Until, E
<1>9. /\ penalty[NoChat] \in T /\ penalty[Meta.chat] \in T /\ \A w \in Short(s) : E(w) \in T
      /\ \A x \in T : x \in P \/ Short(s) # {}
    OBVIOUS
<1> HIDE DEF T
<1>10. Max(T) \in T /\ \A y \in T : Max(T) >= y
    BY <1>7, MaxIsGreatest
<1> QED BY <1>2, <1>7, <1>8, <1>9, <1>10 DEF E

LEMMA ReservingIsMild ==
    ASSUME NEW s, Safe(s), Candidate \in JobIds, Waiting(s, Candidate),
           NEW w \in Windows \cup {NoWindow}, NEW until \in Nat,
           Top.ref \in Refs, RefOk(s, Top.ref)
    PROVE  Mild(s, Reserved(s, w, until))
<1>1. CASE w = NoWindow \/ (s.hold[w].on /\ until <= s.hold[w].in)
    <2>1. Reserved(s, w, until) = s
        BY <1>1 DEF Reserved
    <2> QED BY <2>1, SameJobsAreMild
<1>2. CASE ~(w = NoWindow \/ (s.hold[w].on /\ until <= s.hold[w].in))
    <2> DEFINE x == [s.hold[w] EXCEPT !.on = TRUE, !.in = until, !.owner = Top.ref]
               h == [s.hold EXCEPT ![w] = x]
               u == [s EXCEPT !.hold = h]
               t == [u EXCEPT !.job[Candidate].owns = w]
    <2>1. /\ s \in States /\ s.hold \in [Windows -> HoldRecords] /\ w \in Windows
          /\ s.hold[w] \in HoldRecords /\ Known(s, Candidate)
        BY <1>2, FieldsOfStates DEF Safe, Known, Waiting
    <2>2. Reserved(s, w, until) = t
        <3>1. Reserved(s, w, until) =
                [s EXCEPT !.hold[w] = x, !.job[Candidate].owns = w]
            BY <1>2 DEF Reserved
        <3> HIDE DEF Candidate, x
        <3> QED BY <3>1, <2>1 DEF States
    <2>3. /\ x \in HoldRecords /\ x.owner = Top.ref /\ x.queue = s.hold[w].queue /\ x.on
        <3>1. TRUE \in BOOLEAN
            OBVIOUS
        <3> QED BY <2>1, <3>1 DEF HoldRecords
    <2> HIDE DEF x
    <2>4. /\ h \in [Windows -> HoldRecords] /\ h[w] = x
          /\ \A v \in Windows \ {w} : h[v] = s.hold[v]
        BY <2>1, <2>3
    <2> HIDE DEF h
    <2>5. \A v \in Windows : /\ \A i \in DOMAIN h[v].queue : RefOk(s, h[v].queue[i])
                             /\ h[v].on => RefOk(s, h[v].owner)
                             /\ h[v].on \/ DOMAIN h[v].queue = {}
        BY <2>1, <2>3, <2>4 DEF Safe, RefsOk
    <2>6. Calm(s, u) /\ u.job = s.job
        BY <2>4, <2>5, HoldChangesAreCalm
    <2> HIDE DEF u
    <2>7. Mild(s, u) /\ Safe(u) /\ Known(u, Candidate)
        BY <2>1, <2>6, CalmIsMild DEF Mild, Known
    <2>8. Calm(u, t)
        BY <2>7, OwningIsCalm
    <2> QED BY <2>2, <2>7, <2>8, CalmIsMild, MildIsTransitive
<1> QED BY <1>1, <1>2

LEMMA SleepingIsMild ==
    ASSUME Safe(Core), cands # {}, Grantable(Popped) # {}, limits \in LimitSets, ~Paused,
           penalty \in [Scopes -> Nat], Debited(Core)
    PROVE  LET until == Until(Selected)
               window == IF Short(Selected) = {} THEN NoWindow ELSE FirstOf(Short(Selected))
           IN  Mild(Core,
                    Block(Reserved(ReleasePreviousReservation(Selected, window), window, until),
                          Top.ref, until, FALSE))
<1> DEFINE s == Selected
           until == Until(s)
           w == IF Short(s) = {} THEN NoWindow ELSE FirstOf(Short(s))
           r == ReleasePreviousReservation(s, w)
           o == Reserved(r, w, until)
<1>1. Mild(Core, s) /\ Safe(s) /\ s.job = job /\ s.ledger = ledger
    BY SelectingIsCalm, CalmIsMild
<1>2. Candidate \in JobIds /\ Waiting(s, Candidate) /\ Meta \in Metas
    BY <1>1, CandidateIsFirst DEF Waiting, Core
<1>3. Top.ref \in Refs /\ RefOk(Core, Top.ref)
    BY TopIsACandidate
<1>4. until \in Nat
    <2>1. Debited(s) /\ s \in States
        BY <1>1 DEF Debited, Core, Known, Safe
    <2> QED BY <1>2, <2>1, UntilIsTyped
<1>5. w \in Windows \cup {NoWindow}
    <2>1. Short(s) \in SUBSET Range(WindowsOf(Meta))
        BY DEF Short
    <2> QED BY <1>2, <2>1, FirstOfIsOne
<1> HIDE DEF s, w, until
<1>6. Mild(s, r) /\ Safe(r) /\ Waiting(r, Candidate)
    BY <1>1, <1>2, ReleasingPreviousIsMild DEF Mild
<1>7. \A t : Mild(s, t) => RefOk(t, Top.ref)
    <2> SUFFICES ASSUME NEW t, Mild(s, t) PROVE RefOk(t, Top.ref)
        OBVIOUS
    <2>1. \A j \in JobIds : Known(s, j) => Known(t, j) /\ t.job[j].meta = s.job[j].meta
        BY DEF Mild, Gentle, SameBooks
    <2> QED BY <1>1, <1>3, <2>1 DEF RefOk, Known, Core
<1> HIDE DEF r
<1>8. Mild(s, o)
    BY <1>2, <1>3, <1>4, <1>5, <1>6, <1>7, ReservingIsMild, MildIsTransitive
<1> HIDE DEF o
<1>9. Safe(o) /\ RefOk(o, Top.ref)
    BY <1>7, <1>8 DEF Mild
<1>10. \A i \in Nat, p \in BOOLEAN : Mild(o, Block(o, Top.ref, i, p))
    BY <1>3, <1>9, BlockingIsMild
<1>11. FALSE \in BOOLEAN
    OBVIOUS
<1>12. Mild(o, Block(o, Top.ref, until, FALSE))
    BY <1>4, <1>10, <1>11, Zenon
<1>13. Mild(Core, Block(o, Top.ref, until, FALSE))
    BY <1>1, <1>8, <1>12, MildIsTransitive
<1> QED BY <1>13 DEF o, r, s, w, until

------------------------------------------------------------------------------
\* The candidate is granted

GrantedJob(r) == [r EXCEPT !.st = "granted", !.owns = NoWindow, !.age = 0,
                           !.delay = NotDelayed, !.spent = TRUE]

\* What the grant of job j debits.
Charged(s, j) ==
    [w \in Windows |-> IF w \in Range(WindowsOf(s.job[j].meta)) /\ limits[w] # {}
                       THEN s.ledger[w] \cup {j} ELSE s.ledger[w]]

\* The lane that job j leaves for its permit.
Taken(s, j) ==
    LET l == s.job[j].meta.lane IN
    IF l = NoLane THEN s.lane
    ELSE [s.lane EXCEPT ![l] = [s.lane[l] EXCEPT
            !.pending = s.lane[l].pending \ {j}, !.count = s.lane[l].count + 1,
            !.holder = IF l \in Bounded THEN s.lane[l].holder ELSE j]]

\* The state in which job j is granted and its lane not yet pushed again.
Served(s, j) ==
    [s EXCEPT !.job = [s.job EXCEPT ![j] = GrantedJob(s.job[j])],
              !.lane = Taken(s, j), !.ledger = Charged(s, j)]

LEMMA GrantedJobs ==
    ASSUME NEW s \in States, NEW j \in JobIds, Known(s, j)
    PROVE  LET r == GrantedJob(s.job[j]) IN
           /\ r \in JobRecords /\ r.st = "granted" /\ r.meta = s.job[j].meta
           /\ r.seq = s.job[j].seq /\ r.ago = s.job[j].ago /\ r.spent = TRUE
<1>1. s.job[j] \in [st : {"waiting", "granted", "started", "done", "cancelled"},
                    meta : Metas, seq : JobIds, age : 0 .. Highest * Quantum,
                    delay : {NotDelayed} \cup Nat, owns : Windows \cup {NoWindow},
                    ago : 0 .. MaxLen, spent : BOOLEAN]
    BY FieldsOfJobs
<1>2. 0 \in 0 .. Highest * Quantum
    <2>1. Highest * Quantum \in Nat
        BY Sizes
    <2> QED BY <2>1
<1>3. TRUE \in BOOLEAN
    OBVIOUS
<1> QED BY <1>1, <1>2, <1>3 DEF GrantedJob, JobRecords

LEMMA ServedIs ==
    ASSUME NEW s \in States, NEW j \in JobIds, Waiting(s, j),
           s.job[j].meta.lane \in Lanes \cup {NoLane}
    PROVE  LET u == Served(s, j) IN
           /\ u \in States
           /\ u.job = [s.job EXCEPT ![j] = GrantedJob(s.job[j])]
           /\ u.lane = Taken(s, j) /\ u.ledger = Charged(s, j)
           /\ u.cands = s.cands /\ u.blocked = s.blocked /\ u.hold = s.hold
<1> DEFINE u == Served(s, j)
           r == GrantedJob(s.job[j])
<1>1. /\ s.job \in [JobIds -> JobRecords] /\ s.lane \in [Lanes -> LaneRecords]
      /\ s.ledger \in [Windows -> SUBSET JobIds] /\ Known(s, j)
    BY FieldsOfStates DEF Waiting, Known
<1>2. r \in JobRecords
    BY <1>1, GrantedJobs
<1> HIDE DEF r
<1>3. [s.job EXCEPT ![j] = r] \in [JobIds -> JobRecords]
    BY <1>1, <1>2
<1>4. Charged(s, j) \in [Windows -> SUBSET JobIds]
    <2>1. \A w \in Windows : s.ledger[w] \cup {j} \in SUBSET JobIds /\ s.ledger[w] \in SUBSET JobIds
        BY <1>1
    <2> QED BY <2>1 DEF Charged
<1>5. Taken(s, j) \in [Lanes -> LaneRecords]
    <2> DEFINE l == s.job[j].meta.lane
    <2>1. CASE l = NoLane
        BY <2>1, <1>1 DEF Taken
    <2>2. CASE l # NoLane
        <3> DEFINE h == IF l \in Bounded THEN s.lane[l].holder ELSE j
                   p == [s.lane[l] EXCEPT !.pending = s.lane[l].pending \ {j},
                                          !.count = s.lane[l].count + 1, !.holder = h]
        <3>1. l \in Lanes /\ s.lane[l] \in LaneRecords
            BY <2>2, <1>1
        <3>2. /\ s.lane[l].pending \ {j} \in SUBSET JobIds /\ s.lane[l].count + 1 \in Nat
              /\ h \in JobIds \cup {NoJob}
            BY <3>1 DEF LaneRecords
        <3>3. Taken(s, j) = [s.lane EXCEPT ![l] = p]
            BY <2>2 DEF Taken
        <3> HIDE DEF h, l
        <3>4. p \in LaneRecords
            BY <3>1, <3>2 DEF LaneRecords
        <3> HIDE DEF p
        <3> QED BY <3>3, <3>4, <1>1
    <2> QED BY <2>1, <2>2
<1>6. u = [s EXCEPT !.job = [s.job EXCEPT ![j] = r],
                    !.lane = Taken(s, j), !.ledger = Charged(s, j)]
    BY DEF Served, r
<1> HIDE DEF u
<1>7. /\ u \in States /\ u.job = [s.job EXCEPT ![j] = r]
      /\ u.lane = Taken(s, j) /\ u.ledger = Charged(s, j)
      /\ u.cands = s.cands /\ u.blocked = s.blocked /\ u.hold = s.hold
    BY <1>3, <1>4, <1>5, <1>6 DEF States
<1> QED BY <1>7 DEF u, r

\* A job is granted when its lane has a permit for it; no key of it is left.
LEMMA ServedIsSafe ==
    ASSUME NEW s, Safe(s), NEW j \in JobIds, Waiting(s, j), \A k \in s.cands : k.ref # j,
           s.job[j].meta.lane # NoLane => HasCapacity(s, s.job[j].meta.lane)
    PROVE  Safe(Served(s, j))
<1> DEFINE u == Served(s, j)
           l == s.job[j].meta.lane
<1>1. /\ s \in States /\ s.job \in [JobIds -> JobRecords] /\ s.lane \in [Lanes -> LaneRecords]
      /\ Known(s, j) /\ l \in Lanes \cup {NoLane}
    BY FieldsOfStates, WaitingJobs DEF Safe
<1>2. /\ u \in States
      /\ u.job = [s.job EXCEPT ![j] = GrantedJob(s.job[j])]
      /\ u.lane = Taken(s, j)
      /\ u.cands = s.cands /\ u.blocked = s.blocked /\ u.hold = s.hold
    BY <1>1, ServedIs
<1> HIDE DEF u
<1>3. /\ u.job[j].st = "granted" /\ u.job[j].meta = s.job[j].meta
      /\ u.job[j].seq = s.job[j].seq /\ \A i \in JobIds \ {j} : u.job[i] = s.job[i]
    <2>1. u.job[j] = GrantedJob(s.job[j]) /\ \A i \in JobIds \ {j} : u.job[i] = s.job[i]
        BY <1>1, <1>2
    <2>2. /\ GrantedJob(s.job[j]).st = "granted" /\ GrantedJob(s.job[j]).meta = s.job[j].meta
          /\ GrantedJob(s.job[j]).seq = s.job[j].seq
        BY <1>1, GrantedJobs
    <2> QED BY <2>1, <2>2
<1>4. /\ \A m \in Lanes \ {l} : u.lane[m] = s.lane[m]
      /\ l \in Lanes => /\ u.lane[l].pending = s.lane[l].pending \ {j}
                        /\ u.lane[l].count = s.lane[l].count + 1
                        /\ l \notin Bounded => u.lane[l].holder = j
    <2>1. CASE l = NoLane
        BY <2>1, <1>2, References DEF Taken
    <2>2. CASE l # NoLane
        <3> DEFINE h == IF l \in Bounded THEN s.lane[l].holder ELSE j
                   p == [s.lane[l] EXCEPT !.pending = s.lane[l].pending \ {j},
                                          !.count = s.lane[l].count + 1, !.holder = h]
        <3>1. l \in Lanes /\ s.lane[l] \in LaneRecords
            BY <2>2, <1>1
        <3>2. u.lane = [s.lane EXCEPT ![l] = p]
            BY <1>2, <2>2 DEF Taken
        <3>3. p.pending = s.lane[l].pending \ {j} /\ p.count = s.lane[l].count + 1 /\ p.holder = h
            <4> HIDE DEF h
            <4> QED BY <3>1 DEF LaneRecords
        <3>4. l \notin Bounded => h = j
            OBVIOUS
        <3> HIDE DEF p, h, l
        <3> QED BY <3>1, <3>2, <3>3, <3>4, <1>1
    <2> QED BY <2>1, <2>2
<1>5. ASSUME NEW i \in JobIds
      PROVE  /\ Known(u, i) <=> Known(s, i)
             /\ Waiting(u, i) <=> Waiting(s, i) /\ i # j
             /\ Known(s, i) => u.job[i].seq = s.job[i].seq /\ u.job[i].meta = s.job[i].meta
             /\ u.job[i].st = "granted" <=> s.job[i].st = "granted" \/ i = j
    <2>1. CASE i = j
        BY <2>1, <1>1, <1>3 DEF Known, Waiting
    <2>2. CASE i # j
        BY <2>2, <1>3 DEF Known, Waiting
    <2> QED BY <2>1, <2>2
<1>6. SeqsOk(u)
    BY <1>5 DEF Safe, SeqsOk
<1>7. PendingOk(u)
    <2>1. ASSUME NEW i \in JobIds, Waiting(u, i), u.job[i].meta.lane # NoLane
          PROVE  i \in u.lane[u.job[i].meta.lane].pending
        <3>1. Waiting(s, i) /\ Known(s, i) /\ i # j
            BY <1>5, <2>1 DEF Known, Waiting
        <3>2. s.job[i].meta.lane # NoLane /\ u.job[i].meta.lane = s.job[i].meta.lane
            BY <3>1, <1>5, <2>1
        <3>3. s.job[i].meta.lane \in Lanes
            BY <3>1, <3>2, WaitingJobs
        <3>4. i \in s.lane[s.job[i].meta.lane].pending
            BY <3>1, <3>2 DEF Safe, PendingOk
        <3> HIDE DEF l
        <3> QED BY <3>1, <3>2, <3>3, <3>4, <1>4
    <2>2. \A m \in Lanes : /\ s.lane[m].pending \subseteq JobIds
                           /\ u.lane[m].pending \subseteq s.lane[m].pending
        <3>1. \A m \in Lanes : s.lane[m].pending \subseteq JobIds
            BY <1>1, FieldsOfStates DEF LaneRecords
        <3> HIDE DEF l
        <3> QED BY <3>1, <1>4
    <2>3. \A m \in Lanes : \A i \in u.lane[m].pending : Known(u, i) /\ u.job[i].meta.lane = m
        BY <2>2, <1>5 DEF Safe, PendingOk
    <2> QED BY <2>1, <2>3 DEF PendingOk
<1>13. ASSUME NEW m \in Bounded
       PROVE  u.lane[m].count = 0 \/ u.lane[m].count <= Cardinality(Occupying(u, m))
    <2> DEFINE S == Occupying(s, m)
               n == Cardinality(S)
               x == s.lane[m].count
    <2>1. x = 0 \/ x <= n
        BY DEF Safe, LocksOk
    <2>2. m \in Lanes /\ x \in Nat
        BY <1>1, LaneModes, FieldsOfStates DEF LaneRecords
    <2>3. IsFiniteSet(S) /\ n \in Nat
        BY OccupantsAreFinite
    <2>4. j \notin S
        BY DEF Occupying, Waiting
    <2>5. Cardinality(S \cup {j}) = n + 1
        BY <2>3, <2>4, FS_AddElement
    <2>6. Occupying(u, m) = IF m = l THEN S \cup {j} ELSE S
        <3>1. \A i \in JobIds : s.job[i].st = "granted" => Known(s, i)
            BY DEF Known
        <3>2. \A i \in JobIds : i \in Occupying(u, m) <=> i \in S \/ (i = j /\ m = l)
            BY <3>1, <1>1, <1>3, <1>5 DEF Occupying
        <3>3. Occupying(u, m) \subseteq JobIds /\ S \subseteq JobIds
            BY DEF Occupying
        <3> HIDE DEF S, u, l
        <3> QED BY <3>2, <3>3
    <2>7. CASE m # l
        <3>1. u.lane[m] = s.lane[m]
            BY <2>2, <2>7, <1>4
        <3> QED BY <3>1, <2>1, <2>6, <2>7
    <2>8. CASE m = l
        <3>1. u.lane[m].count = x + 1
            BY <2>2, <2>8, <1>4
        <3> HIDE DEF S, n, x
        <3>2. Occupying(u, m) = S \cup {j}
            BY <2>6, <2>8
        <3> QED BY <3>1, <3>2, <2>1, <2>2, <2>3, <2>5
    <2> QED BY <2>7, <2>8
<1>8. LocksOk(u)
    <2> SUFFICES ASSUME NEW m \in Lanes \ Bounded
                 PROVE  /\ u.lane[m].count = IF u.lane[m].holder = NoJob THEN 0 ELSE 1
                        /\ Occupying(u, m) =
                             IF u.lane[m].holder = NoJob THEN {} ELSE {u.lane[m].holder}
        BY <1>13 DEF LocksOk
    <2>1. /\ s.lane[m].count = IF s.lane[m].holder = NoJob THEN 0 ELSE 1
          /\ Occupying(s, m) = IF s.lane[m].holder = NoJob THEN {} ELSE {s.lane[m].holder}
        BY DEF Safe, LocksOk
    <2>2. \A i \in JobIds : i \in Occupying(u, m) <=> i \in Occupying(s, m) \/ (i = j /\ m = l)
        <3>1. \A i \in JobIds : s.job[i].st = "granted" => Known(s, i)
            BY DEF Known
        <3> QED BY <3>1, <1>1, <1>3, <1>5 DEF Occupying
    <2>3. Occupying(u, m) \subseteq JobIds /\ Occupying(s, m) \subseteq JobIds
        BY DEF Occupying
    <2>4. CASE m # l
        <3>1. u.lane[m] = s.lane[m]
            BY <2>4, <1>4
        <3> QED BY <3>1, <2>1, <2>2, <2>3, <2>4
    <2>5. CASE m = l
        <3>1. HasCapacity(s, l)
            <4>1. l # NoLane
                BY <2>5, References
            <4> QED BY <4>1
        <3> HIDE DEF l
        <3>7. s.lane[m].count < 1
            BY <3>1, <2>5 DEF HasCapacity
        <3>2. s.lane[m].holder = NoJob /\ s.lane[m].count = 0
            BY <3>7, <2>1
        <3>6. /\ u.lane[m].count = s.lane[m].count + 1
              /\ u.lane[m].holder = j
            BY <2>5, <1>4
        <3>3. u.lane[m].holder = j /\ u.lane[m].count = 1
            BY <3>2, <3>6
        <3>4. j # NoJob
            BY Sizes DEF JobIds, NoJob
        <3>5. Occupying(u, m) = {j}
            BY <3>2, <2>1, <2>2, <2>3, <2>5
        <3> QED BY <3>3, <3>4, <3>5
    <2> QED BY <2>4, <2>5
<1>9. RefsOk(u)
    <2>1. \A ref : RefOk(s, ref) => RefOk(u, ref)
        BY <1>5 DEF RefOk
    <2> QED BY <2>1, <1>2 DEF Safe, RefsOk
<1>10. KeysOk(u)
    <2> SUFFICES ASSUME NEW k \in s.cands PROVE KeyOk(u, k)
        BY <1>2 DEF KeysOk
    <2>1. KeyOk(s, k) /\ k.ref # j
        BY DEF Safe, KeysOk
    <2>2. CASE k.ref \in Lanes
        BY <2>1, <2>2, <1>5 DEF KeyOk
    <2>3. CASE k.ref \notin Lanes
        <3>1. k.ref \in JobIds \ {j} /\ u.job[k.ref] = s.job[k.ref]
            BY <2>1, <2>3, <1>3 DEF KeyOk
        <3> QED BY <2>1, <2>3, <3>1 DEF KeyOk, Waiting, Key
    <2> QED BY <2>2, <2>3
<1>11. Safe(u)
    BY <1>2, <1>6, <1>7, <1>8, <1>9, <1>10 DEF Safe
<1> QED BY <1>11 DEF u

\* Granted is that state, and for a lane of several permits a push of it.
Rearms(s, l) == l \in Bounded /\ HasCapacity(s, l) /\ s.lane[l].pending # {}

LEMMA GrantedIsSafe ==
    ASSUME NEW s, Safe(s), NEW j \in JobIds, Waiting(s, j), \A k \in s.cands : k.ref # j,
           s.job[j].meta.lane # NoLane => HasCapacity(s, s.job[j].meta.lane)
    PROVE  LET t == Granted(s, j) IN
           /\ Safe(t) /\ t.job = [s.job EXCEPT ![j] = GrantedJob(s.job[j])]
           /\ t.ledger = Charged(s, j)
           /\ t = IF Rearms(Served(s, j), s.job[j].meta.lane)
                  THEN PushLane(Served(s, j), s.job[j].meta.lane) ELSE Served(s, j)
<1> DEFINE l == s.job[j].meta.lane
           r == GrantedJob(s.job[j])
           jobs == [s.job EXCEPT ![j] = r]
           taken == [s EXCEPT !.job = jobs]
           u == Served(s, j)
           t == Granted(s, j)
<1>1. /\ s \in States /\ s.job \in [JobIds -> JobRecords] /\ s.lane \in [Lanes -> LaneRecords]
      /\ Known(s, j) /\ l \in Lanes \cup {NoLane}
    BY FieldsOfStates, WaitingJobs DEF Safe
<1>2. /\ u \in States /\ u.job = jobs /\ u.ledger = Charged(s, j) /\ Safe(u)
    BY <1>1, ServedIs, ServedIsSafe
<1>3. t = RearmLane(Consume(TakeLane(taken, j), j), l)
    <2>1. [s EXCEPT !.job[j] = [@ EXCEPT !.st = "granted", !.owns = NoWindow,
                                         !.age = 0, !.delay = NotDelayed,
                                         !.spent = TRUE]] = taken
        BY <1>1 DEF GrantedJob, States
    <2> QED BY <2>1 DEF Granted
<1>4. r \in JobRecords /\ r.meta = s.job[j].meta
    BY <1>1, GrantedJobs
<1> HIDE DEF r
<1>5. jobs \in [JobIds -> JobRecords] /\ jobs[j] = r
    BY <1>1, <1>4
<1> HIDE DEF jobs
<1>6. /\ taken.job = jobs /\ taken.lane = s.lane /\ taken.ledger = s.ledger
      /\ taken.job[j].meta = s.job[j].meta
    BY <1>1, <1>4, <1>5 DEF States
<1>7. TakeLane(taken, j) = [s EXCEPT !.job = jobs, !.lane = Taken(s, j)]
    <2>1. CASE l = NoLane
        <3>1. TakeLane(taken, j) = taken
            BY <2>1, <1>6 DEF TakeLane
        <3>2. Taken(s, j) = s.lane
            BY <2>1 DEF Taken
        <3> QED BY <3>1, <3>2, <1>1 DEF States
    <2>2. CASE l # NoLane
        <3> DEFINE p == [s.lane[l] EXCEPT !.pending = s.lane[l].pending \ {j},
                                          !.count = s.lane[l].count + 1,
                                          !.holder = IF l \in Bounded THEN s.lane[l].holder
                                                                      ELSE j]
        <3>1. Taken(s, j) = [s.lane EXCEPT ![l] = p]
            BY <2>2 DEF Taken
        <3>2. TakeLane(taken, j) = [taken EXCEPT !.lane[l] = p]
            <4> DEFINE L == taken.job[j].meta.lane
                       q == [taken.lane[L] EXCEPT !.pending = @ \ {j}, !.count = @ + 1,
                                                  !.holder = IF L \in Bounded THEN @ ELSE j]
            <4>1. L = l /\ taken.lane = s.lane
                BY <1>6
            <4>2. TakeLane(taken, j) = IF L = NoLane THEN taken ELSE [taken EXCEPT !.lane[L] = q]
                BY DEF TakeLane
            <4> HIDE DEF L, taken, l
            <4>3. q = p
                BY <4>1
            <4> HIDE DEF q, p, L, taken, l
            <4> QED BY <4>1, <4>2, <4>3, <2>2
        <3>3. l \in Lanes
            BY <2>2, <1>1
        <3> HIDE DEF l, p
        <3> QED BY <3>1, <3>2, <3>3, <1>1, <1>6 DEF States
    <2> QED BY <2>1, <2>2
<1>8. Consume(TakeLane(taken, j), j) = u
    <2> DEFINE v == [s EXCEPT !.job = jobs, !.lane = Taken(s, j)]
    <2>1. v.ledger = s.ledger /\ v.job[j].meta = s.job[j].meta
        BY <1>1, <1>4, <1>5 DEF States
    <2>2. Consume(v, j) = [v EXCEPT !.ledger = Charged(s, j)]
        <3> HIDE DEF v
        <3>1. Consume(v, j) = [v EXCEPT !.ledger =
                [w \in Windows |-> IF w \in Range(WindowsOf(v.job[j].meta)) /\ limits[w] # {}
                                   THEN v.ledger[w] \cup {j} ELSE v.ledger[w]]]
            BY DEF Consume
        <3> QED BY <3>1, <2>1 DEF Charged
    <2>3. u = [s EXCEPT !.job = jobs, !.lane = Taken(s, j), !.ledger = Charged(s, j)]
        BY DEF Served, jobs, r
    <2> QED BY <2>2, <2>3, <1>1, <1>7 DEF States
<1>9. t = IF Rearms(u, l) THEN PushLane(u, l) ELSE u
    BY <1>3, <1>8 DEF RearmLane, Rearms
<1> HIDE DEF u
<1>10. CASE ~Rearms(u, l)
    <2>1. t = u
        BY <1>9, <1>10
    <2> QED BY <2>1, <1>2, <1>9 DEF t, u, r, jobs
<1>11. CASE Rearms(u, l)
    <2>1. l \in Lanes /\ t = PushLane(u, l)
        BY <1>9, <1>11, LaneModes DEF Rearms
    <2>2. Mild(u, t) /\ t.job = u.job
        BY <2>1, <1>2, PushingALaneIsMild
    <2>3. t.ledger = u.ledger
        BY <2>2 DEF Mild, SameBooks
    <2> HIDE DEF t
    <2>4. Safe(t) /\ t.job = jobs /\ t.ledger = Charged(s, j)
        BY <1>2, <2>2, <2>3 DEF Mild
    <2> QED BY <2>4, <1>9 DEF t, u, r, jobs
<1> QED BY <1>10, <1>11

\* The weight of what a reference stands for: of the lane's first entry, if it
\* waits, or of the waiting job.
WeightOf(s, ref) ==
    IF ref \in Lanes THEN {s.job[First(s, p)].meta.weight :
                              p \in {p \in {s.lane[ref].pending} :
                                        p # {} /\ Waiting(s, First(s, p))}}
    ELSE {s.job[j].meta.weight : j \in {j \in {ref} : Waiting(s, j)}}

\* The weights of the first parked reference that window set w could ever take.
Extending(s, w) ==
    IF s.hold[w].on /\ s.hold[w].queue # <<>>
    THEN {x \in WeightOf(s, Head(s.hold[w].queue)) : ~Never(w, x)} ELSE {}

Extension(s, w) ==
    IF Extending(s, w) = {} THEN s.hold[w]
    ELSE [s.hold[w] EXCEPT !.in = EarliestFor(s, w, Min(Extending(s, w)))]

LEMMA WeightsAreNumbers ==
    ASSUME NEW s, Safe(s), NEW ref \in Refs
    PROVE  WeightOf(s, ref) \in SUBSET Nat
<1>1. \A j \in JobIds : Waiting(s, j) => s.job[j].meta.weight \in Nat
    BY AgesAreNumbers DEF Safe, Known, Waiting
<1>2. CASE ref \in Lanes
    <2> DEFINE p == s.lane[ref].pending
    <2>1. p \in SUBSET JobIds /\ \A j \in p : Known(s, j)
        <3>1. s \in States /\ PendingKnown(s)
            BY SafeStatesKnowTheirPending
        <3>2. s.lane[ref] \in LaneRecords
            BY <3>1, <1>2, FieldsOfStates
        <3> QED BY <3>1, <3>2, <1>2 DEF PendingKnown, LaneRecords
    <2>2. p # {} => First(s, p) \in JobIds
        <3> HIDE DEF p
        <3> QED BY <2>1, FirstComesFirst DEF Safe
    <2> QED BY <2>2, <1>1, <1>2 DEF WeightOf
<1>3. CASE ref \notin Lanes
    BY <1>1, <1>3 DEF WeightOf, Refs
<1> QED BY <1>2, <1>3

LEMMA GlobalIsAWindow == GlobalWindow \in Windows
BY DEF GlobalWindow, Windows, Scopes

LEMMA ExtendingIsCalm ==
    ASSUME NEW s, Safe(s), Debited(s), limits \in LimitSets
    PROVE  LET t == RearmReservations(s) IN
           /\ Calm(s, t) /\ t.job = s.job /\ t.lane = s.lane /\ t.cands = s.cands
           /\ t.blocked = s.blocked /\ t.ledger = s.ledger
           /\ \A w \in Windows : /\ t.hold[w].queue = s.hold[w].queue
                                 /\ t.hold[w].on = s.hold[w].on
                                 /\ t.hold[w].owner = s.hold[w].owner
<1> DEFINE h == [w \in Windows |-> IF w = GlobalWindow THEN Extension(s, w)
                                   ELSE s.hold[w]]
           t == [s EXCEPT !.hold = h]
<1>1. RearmReservations(s) = t
    <2> DEFINE g == GlobalWindow
               ws == Extending(s, g)
               e == EarliestFor(s, g, Min(ws))
    <2>1. g \in Windows /\ s.hold \in [Windows -> HoldRecords] /\ s \in States
        BY GlobalIsAWindow, FieldsOfStates DEF Safe
    <2>2. RearmReservations(s) = IF ws = {} THEN s ELSE [s EXCEPT !.hold[g].in = e]
        BY DEF RearmReservations, Extending, WeightOf
    <2>3. Extension(s, g) = IF ws = {} THEN s.hold[g] ELSE [s.hold[g] EXCEPT !.in = e]
        BY DEF Extension
    <2> HIDE DEF g, ws, e
    <2>4. h = IF ws = {} THEN s.hold ELSE [s.hold EXCEPT ![g] = [@ EXCEPT !.in = e]]
        BY <2>1, <2>3 DEF g
    <2> HIDE DEF h
    <2> QED BY <2>1, <2>2, <2>4 DEF States
<1>2. ASSUME NEW w \in Windows
      PROVE  /\ Extension(s, w) \in HoldRecords
             /\ Extension(s, w).queue = s.hold[w].queue
             /\ Extension(s, w).on = s.hold[w].on
             /\ Extension(s, w).owner = s.hold[w].owner
    <2> DEFINE ws == Extending(s, w)
    <2>1. /\ s.hold[w] \in HoldRecords /\ s.hold[w].queue \in Seq(Refs)
        BY ParkedReferences
    <2>2. CASE ws = {}
        BY <2>1, <2>2 DEF Extension
    <2>3. CASE ws # {}
        <3> DEFINE ref == Head(s.hold[w].queue)
                   e == EarliestFor(s, w, Min(ws))
        <3>1. s.hold[w].queue # <<>>
            BY <2>3 DEF Extending
        <3>2. ref \in Refs
            BY <2>1, <3>1, HeadTailProperties
        <3>3. WeightOf(s, ref) \in SUBSET Nat
            BY <3>2, WeightsAreNumbers
        <3>4. ws \in SUBSET Nat /\ \A x \in ws : ~Never(w, x)
            BY <3>3 DEF Extending
        <3>5. Min(ws) \in ws
            <4> HIDE DEF ws
            <4> QED BY <3>4, <2>3, MinIsLeast
        <3>6. Min(ws) \in Nat /\ ~Never(w, Min(ws))
            BY <3>4, <3>5
        <3>7. e \in Nat
            <4>1. s \in States /\ \A j \in s.ledger[w] : Known(s, j)
                BY DEF Safe, Debited
            <4> DEFINE x == Min(ws)
            <4>2. x \in Nat /\ ~Never(w, x)
                BY <3>6
            <4> HIDE DEF x
            <4>3. EarliestFor(s, w, x) \in Nat
                BY <4>1, <4>2, EarliestIsTyped
            <4> QED BY <4>3 DEF x
        <3>8. Extension(s, w) = [s.hold[w] EXCEPT !.in = e]
            BY <2>3 DEF Extension
        <3> HIDE DEF e
        <3> QED BY <2>1, <3>7, <3>8 DEF HoldRecords
    <2> QED BY <2>2, <2>3
<1>3. /\ h \in [Windows -> HoldRecords]
      /\ \A w \in Windows : /\ h[w].queue = s.hold[w].queue /\ h[w].on = s.hold[w].on
                            /\ h[w].owner = s.hold[w].owner
    <2>1. \A w \in Windows : s.hold[w] \in HoldRecords
        BY ParkedReferences
    <2> QED BY <2>1, <1>2
<1> HIDE DEF h
<1>4. \A w \in Windows : /\ \A i \in DOMAIN h[w].queue : RefOk(s, h[w].queue[i])
                         /\ h[w].on => RefOk(s, h[w].owner)
                         /\ h[w].on \/ DOMAIN h[w].queue = {}
    BY <1>3 DEF Safe, RefsOk
<1>5. /\ Calm(s, t) /\ t.hold = h /\ t.job = s.job /\ t.lane = s.lane /\ t.cands = s.cands
      /\ t.blocked = s.blocked /\ t.ledger = s.ledger
    BY <1>3, <1>4, HoldChangesAreCalm
<1> HIDE DEF t
<1> QED BY <1>1, <1>3, <1>5

\* The step that grants the candidate: no other job changes, and what it grants
\* is what it debits.
LEMMA CandidateIsGranted ==
    ASSUME Safe(Core), Debited(Core), limits \in LimitSets, cands # {},
           Grantable(Popped) # {}
    PROVE  LET g == Granted(Selected, Candidate) IN
           /\ Waiting(Selected, Candidate) /\ Meta \in Metas
           /\ job[Candidate].meta.lane # NoLane => HasCapacity(Selected, job[Candidate].meta.lane)
           /\ \A k \in Selected.cands : k.ref # Candidate
           /\ Safe(g) /\ Debited(g) /\ g.ledger = Charged(Core, Candidate)
           /\ g.job = [job EXCEPT ![Candidate] = GrantedJob(job[Candidate])]
<1> DEFINE s == Selected
           j == Candidate
           g == Granted(s, j)
<1>1. /\ Safe(s) /\ s.job = job /\ s.ledger = ledger /\ s.cands = cands \ {Top}
      /\ \A l \in Lanes : s.lane[l].count = lane[l].count
    BY SelectingIsCalm
<1>2. /\ j \in JobIds /\ Waiting(Core, j) /\ Meta \in Metas
      /\ job[j].meta.lane = IF Top.ref \in Lanes THEN Top.ref ELSE NoLane
      /\ RefOf(Core, j) = Top.ref
      /\ Top.ref \in Lanes => HasCapacity(Popped, Top.ref)
    BY CandidateIsFirst
<1>3. Top \in cands
    BY TopIsACandidate
<1>4. \A l \in Lanes : Popped.lane[l].count = lane[l].count
    BY PoppingIsCalm
<1> HIDE DEF s, j
<1>5. Waiting(s, j)
    BY <1>1, <1>2 DEF Waiting, Core
<1>6. s.job[j].meta.lane # NoLane => HasCapacity(s, s.job[j].meta.lane)
    <2>1. s.job[j].meta.lane # NoLane => Top.ref \in Lanes /\ s.job[j].meta.lane = Top.ref
        BY <1>1, <1>2
    <2>2. Top.ref \in Lanes => (HasCapacity(s, Top.ref) <=> HasCapacity(Popped, Top.ref))
        BY <1>1, <1>4 DEF HasCapacity
    <2> QED BY <2>1, <2>2, <1>2
<1>7. \A k \in s.cands : k.ref # j
    <2> SUFFICES ASSUME NEW k \in cands, k # Top, k.ref = j PROVE FALSE
        BY <1>1
    <2>1. KeyOk(Core, k) /\ KeyOk(Core, Top)
        BY <1>3 DEF Safe, KeysOk, Core
    <2>2. j \notin Lanes
        BY <1>2, References, Sizes DEF JobIds
    <2>3. job[j].meta.lane = NoLane /\ k = Key(Core, j, j)
        BY <2>1, <2>2 DEF KeyOk, Core
    <2>4. Top.ref \notin Lanes
        BY <2>3, <1>2, References
    <2>5. Top.ref = j
        BY <2>3, <1>2 DEF RefOf, Core
    <2>6. Top = Key(Core, j, j)
        BY <2>1, <2>4, <2>5 DEF KeyOk
    <2> QED BY <2>3, <2>6
<1>8. /\ Safe(g) /\ g.job = [s.job EXCEPT ![j] = GrantedJob(s.job[j])]
      /\ g.ledger = Charged(s, j)
    BY <1>1, <1>2, <1>5, <1>6, <1>7, GrantedIsSafe
<1> HIDE DEF g
<1>9. g.ledger = Charged(Core, j)
    BY <1>1, <1>8 DEF Charged, Core
<1>10. Debited(g)
    <2> SUFFICES ASSUME NEW w \in Windows, NEW i \in g.ledger[w] PROVE Known(g, i)
        BY DEF Debited
    <2>1. i = j \/ i \in ledger[w]
        BY <1>9 DEF Charged, Core
    <2>2. i = j \/ Known(Core, i)
        BY <2>1 DEF Debited, Core
    <2>3. i \in JobIds
        BY <2>1, <1>2, FieldsOfStates DEF Safe, Core
    <2>4. job \in [JobIds -> JobRecords] /\ Known(Core, j)
        BY <1>2, FieldsOfStates DEF Safe, Core, Known, Waiting
    <2>5. g.job[j].st = "granted"
        <3>1. g.job[j] = GrantedJob(s.job[j])
            BY <2>4, <1>1, <1>2, <1>8
        <3>2. s \in States /\ Known(s, j)
            BY <1>1, <1>5 DEF Safe, Known, Waiting
        <3> QED BY <3>1, <3>2, <1>2, GrantedJobs
    <2>6. i # j => g.job[i] = job[i]
        BY <2>3, <2>4, <1>1, <1>8
    <2> QED BY <2>2, <2>5, <2>6 DEF Known, Core
<1>11. g.job = [job EXCEPT ![j] = GrantedJob(job[j])]
    BY <1>1, <1>8
<1>12. job[j].meta.lane # NoLane => HasCapacity(s, job[j].meta.lane)
    BY <1>1, <1>6
<1> QED BY <1>2, <1>5, <1>7, <1>8, <1>9, <1>10, <1>11, <1>12 DEF g, s, j

LEMMA GrantingIsSafe ==
    ASSUME Safe(Core), Debited(Core), limits \in LimitSets, cands # {},
           Grantable(Popped) # {}
    PROVE  LET t == RearmReservations(Granted(Selected, Candidate)) IN
           /\ Safe(t) /\ t.job = [job EXCEPT ![Candidate] = GrantedJob(job[Candidate])]
           /\ t.ledger = Charged(Core, Candidate)
<1> DEFINE j == Candidate
           g == Granted(Selected, j)
           t == RearmReservations(g)
<1>1. /\ Waiting(Selected, j) /\ Meta \in Metas
      /\ job[j].meta.lane # NoLane => HasCapacity(Selected, job[j].meta.lane)
      /\ \A k \in Selected.cands : k.ref # j
      /\ Safe(g) /\ Debited(g) /\ g.ledger = Charged(Core, j)
      /\ g.job = [job EXCEPT ![j] = GrantedJob(job[j])]
    BY CandidateIsGranted
<1> HIDE DEF g, j
<1>2. Calm(g, t) /\ t.job = g.job /\ t.ledger = g.ledger
    BY <1>1, ExtendingIsCalm
<1>3. Safe(t)
    BY <1>1, <1>2, CalmChangesAreSafe
<1> HIDE DEF t
<1>4. /\ Safe(t) /\ t.job = [job EXCEPT ![j] = GrantedJob(job[j])]
      /\ t.ledger = Charged(Core, j)
    BY <1>1, <1>2, <1>3
<1> QED BY <1>4 DEF t, g, j

------------------------------------------------------------------------------
\* The end of a pass

\* The members of a finite set of numbers are ranked from 1 on: some member has
\* every rank up to their number.
LEMMA RanksExist ==
    ASSUME NEW n \in Nat, NEW S \in SUBSET (1 .. n), NEW k \in 1 .. Cardinality(S)
    PROVE  \E i \in S : Cardinality({h \in S : h <= i}) = k
<1> DEFINE Upto(i) == {h \in S : h <= i}
           R(i) == Cardinality(Upto(i))
           Enough == {i \in 0 .. n : R(i) >= k}
<1>0. \A h \in S : h \in Nat /\ 1 <= h /\ h <= n
    OBVIOUS
<1>1. IsFiniteSet(S) /\ Cardinality(S) \in Nat
    <2>1. IsFiniteSet(1 .. n)
        BY FS_Interval
    <2>2. S \subseteq 1 .. n
        OBVIOUS
    <2>3. IsFiniteSet(S)
        BY <2>1, <2>2, FS_Subset
    <2> QED BY <2>3, FS_CardinalityType
<1>2. \A i \in Nat : Upto(i) \subseteq S /\ IsFiniteSet(Upto(i)) /\ R(i) \in Nat
    BY <1>1, FS_Subset, FS_CardinalityType
<1>3. k \in Nat /\ k >= 1 /\ k <= Cardinality(S)
    BY <1>1
<1>4. n \in Enough
    <2>1. Upto(n) = S
        BY <1>0
    <2>2. R(n) = Cardinality(S)
        BY <2>1
    <2> HIDE DEF Upto, R
    <2> QED BY <2>2, <1>1, <1>3
<1>5. Enough \in SUBSET Nat
    OBVIOUS
<1>6. PICK i \in Enough : \A y \in Enough : i <= y
    <2> HIDE DEF Enough
    <2> QED BY <1>4, <1>5, LeastExists
<1>7. i \in Nat /\ R(i) >= k /\ i <= n
    BY <1>6
<1>8. i # 0
    <2>3. \A h \in S : ~(h <= 0)
        BY <1>0
    <2>1. Upto(0) = {}
        BY <2>3
    <2>2. R(0) = 0
        BY <2>1, FS_EmptySet
    <2> HIDE DEF Upto, R
    <2> QED BY <2>2, <1>3, <1>7
<1>9. i - 1 \in Nat /\ i - 1 \notin Enough
    <2> HIDE DEF Enough
    <2> QED BY <1>5, <1>6, <1>7, <1>8
<1>10. R(i - 1) < k
    <2> HIDE DEF R, Upto
    <2> QED BY <1>2, <1>3, <1>7, <1>9
<1>11. i \in S
    <2> SUFFICES ASSUME i \notin S PROVE FALSE
        OBVIOUS
    <2>1. \A h \in S : h <= i <=> h <= i - 1
        BY <1>0, <1>7
    <2>3. Upto(i) = Upto(i - 1)
        BY <2>1
    <2>2. R(i) = R(i - 1)
        BY <2>3
    <2> HIDE DEF R, Upto
    <2> QED BY <2>2, <1>2, <1>3, <1>7, <1>9, <1>10
<1>12. R(i) = R(i - 1) + 1
    <2>2. \A h \in S : h <= i <=> h <= i - 1 \/ h = i
        BY <1>0, <1>7
    <2>3. i <= i /\ ~(i <= i - 1)
        BY <1>7
    <2>1. Upto(i) = Upto(i - 1) \cup {i} /\ i \notin Upto(i - 1)
        BY <2>2, <2>3, <1>11
    <2> HIDE DEF Upto
    <2> QED BY <2>1, <1>2, <1>9, FS_AddElement
<1>13. R(i) = k
    <2> HIDE DEF R, Upto
    <2> QED BY <1>2, <1>3, <1>7, <1>9, <1>10, <1>12
<1> QED BY <1>11, <1>13

LEMMA SurvivorsAreParked ==
    ASSUME NEW s, NEW q \in Seq(Refs)
    PROVE  /\ Survivors(s, q) \in Seq(Refs)
           /\ \A k \in DOMAIN Survivors(s, q) : \E i \in DOMAIN q :
                Survivors(s, q)[k] = q[i] /\ Alive(s, q[i])
<1> DEFINE alive == {i \in DOMAIN q : Alive(s, q[i])}
           n == Cardinality(alive)
           Rank(i) == Cardinality({h \in alive : h <= i})
           At(k) == CHOOSE i \in alive : Rank(i) = k
           c == [k \in 1 .. n |-> q[At(k)]]
<1>1. Len(q) \in Nat /\ DOMAIN q = 1 .. Len(q) /\ \A i \in 1 .. Len(q) : q[i] \in Refs
    BY LenProperties
<1>2. alive \in SUBSET (1 .. Len(q)) /\ alive \subseteq DOMAIN q
    BY <1>1
<1>3. \A i \in alive : Alive(s, q[i])
    OBVIOUS
<1>4. Survivors(s, q) = c
    BY DEF Survivors
<1> HIDE DEF alive
<1>5. n \in Nat
    <2>1. IsFiniteSet(1 .. Len(q))
        BY <1>1, FS_Interval
    <2>2. IsFiniteSet(alive)
        BY <1>2, <2>1, FS_Subset
    <2> QED BY <2>2, FS_CardinalityType
<1>6. ASSUME NEW k \in 1 .. n PROVE At(k) \in alive
    <2>1. \E i \in alive : Rank(i) = k
        BY <1>1, <1>2, RanksExist
    <2> HIDE DEF Rank
    <2> QED BY <2>1
<1> HIDE DEF At, n
<1>7. \A k \in 1 .. n : c[k] = q[At(k)] /\ c[k] \in Refs
    BY <1>1, <1>2, <1>6
<1>8. c \in Seq(Refs)
    BY <1>5, <1>7
<1>9. DOMAIN c = 1 .. n
    OBVIOUS
<1> HIDE DEF c
<1>10. \A k \in DOMAIN c : \E i \in DOMAIN q : c[k] = q[i] /\ Alive(s, q[i])
    BY <1>2, <1>3, <1>6, <1>7, <1>9
<1> QED BY <1>4, <1>8, <1>10

LEMMA CompactingReservationsIsCalm ==
    ASSUME NEW s, Safe(s)
    PROVE  LET t == CompactReservations(s) IN
           /\ Calm(s, t) /\ t.job = s.job /\ t.lane = s.lane /\ t.cands = s.cands
           /\ t.blocked = s.blocked /\ t.ledger = s.ledger
<1> DEFINE Compacted(w) == [s.hold[w] EXCEPT !.queue = Survivors(s, s.hold[w].queue),
                                             !.stale = 0]
           Kept(w) == s.hold[w].stale = 0 \/ s.hold[w].stale * 2 < Len(s.hold[w].queue)
           h == [w \in Windows |-> IF Kept(w) THEN s.hold[w] ELSE Compacted(w)]
           t == [s EXCEPT !.hold = h]
<1>1. CompactReservations(s) = t
    BY DEF CompactReservations
<1>2. ASSUME NEW w \in Windows
      PROVE  /\ Compacted(w) \in HoldRecords
             /\ Compacted(w).on = s.hold[w].on /\ Compacted(w).owner = s.hold[w].owner
             /\ \A i \in DOMAIN Compacted(w).queue : RefOk(s, Compacted(w).queue[i])
             /\ s.hold[w].on \/ DOMAIN Compacted(w).queue = {}
    <2> DEFINE q == Survivors(s, s.hold[w].queue)
    <2>1. /\ s.hold[w] \in HoldRecords /\ s.hold[w].queue \in Seq(Refs)
        BY ParkedReferences
    <2>2. /\ q \in Seq(Refs)
          /\ \A k \in DOMAIN q : \E i \in DOMAIN s.hold[w].queue : q[k] = s.hold[w].queue[i]
        BY <2>1, SurvivorsAreParked
    <2> HIDE DEF q
    <2>3. /\ Compacted(w) \in HoldRecords /\ Compacted(w).queue = q
          /\ Compacted(w).on = s.hold[w].on /\ Compacted(w).owner = s.hold[w].owner
        BY <2>1, <2>2 DEF HoldRecords, q
    <2>4. \A i \in DOMAIN q : RefOk(s, q[i])
        BY <2>2 DEF Safe, RefsOk
    <2>5. s.hold[w].on \/ DOMAIN q = {}
        BY <2>2 DEF Safe, RefsOk
    <2> QED BY <2>3, <2>4, <2>5
<1> HIDE DEF Compacted, Kept
<1>3. \A w \in Windows : s.hold[w] \in HoldRecords
    BY ParkedReferences
<1>4. /\ h \in [Windows -> HoldRecords]
      /\ \A w \in Windows : h[w] = s.hold[w] \/ h[w] = Compacted(w)
    BY <1>2, <1>3
<1> HIDE DEF h
<1>5. \A w \in Windows : /\ \A i \in DOMAIN h[w].queue : RefOk(s, h[w].queue[i])
                         /\ h[w].on => RefOk(s, h[w].owner)
                         /\ h[w].on \/ DOMAIN h[w].queue = {}
    BY <1>2, <1>4 DEF Safe, RefsOk
<1>6. /\ Calm(s, t) /\ t.job = s.job /\ t.lane = s.lane /\ t.cands = s.cands
      /\ t.blocked = s.blocked /\ t.ledger = s.ledger
    BY <1>4, <1>5, HoldChangesAreCalm
<1> HIDE DEF t
<1> QED BY <1>1, <1>6

------------------------------------------------------------------------------
\* A request is enqueued

\* The jobs below n are known, and so are their sequence numbers.
Numbered(s, n) ==
    \A j \in JobIds : /\ Known(s, j) <=> j < n
                      /\ Known(s, j) => s.job[j].seq < n

LEMMA InsertionsAddOne ==
    ASSUME NEW s, Safe(s), NEW j \in JobIds, ~Known(s, j), NEW r \in UsedRecords,
           r.st = "waiting", NEW old,
           \A i \in JobIds : Known(s, i) /\ s.job[i].seq = r.seq
               => s.job[i].meta.lane = r.meta.lane /\ ~Waiting(s, i)
    PROVE  LET t == Inserted(s, j, r, old) IN
           /\ Safe(t) /\ t.ledger = s.ledger
           /\ t.job[j] = r /\ \A i \in JobIds \ {j} : t.job[i] = s.job[i]
<1> DEFINE p == Placed(s, j, r, old)
           t == Inserted(s, j, r, old)
<1>1. /\ p.job[j] = r /\ \A i \in JobIds \ {j} : p.job[i] = s.job[i]
      /\ p.ledger = s.ledger
    BY PlacedIsSafe
<1>2. Safe(t) /\ (t = p \/ \E refs : Pushed(p, t, refs))
    BY InsertionsPush
<1> HIDE DEF p, t
<1>3. t.job = p.job /\ t.ledger = p.ledger
    BY <1>2 DEF Pushed
<1> QED BY <1>1, <1>2, <1>3 DEF t

\* The record of a new job.
LEMMA NewJobs ==
    ASSUME NEW m \in Metas, NEW seq \in JobIds, NEW age \in 0 .. Highest * Quantum,
           NEW delay \in NotBefores \cup {NotDelayed}
    PROVE  LET r == NewJob(m, seq, age, delay) IN
           /\ r \in UsedRecords /\ r.st = "waiting" /\ r.meta = m /\ r.seq = seq
           /\ ~r.spent /\ r.ago = 0 /\ r.delay = delay
<1>1. delay \in {NotDelayed} \cup Nat
    BY DurationsAreTyped
<1>2. 0 \in 0 .. MaxLen
    BY MaxLenIsLongest
<1>3. FALSE \in BOOLEAN /\ NoWindow \in Windows \cup {NoWindow}
    OBVIOUS
<1>4. NewJob(m, seq, age, delay) # NeverUsed
    BY DEF NewJob, NeverUsed
<1> QED BY <1>1, <1>2, <1>3, <1>4 DEF NewJob, UsedRecords, JobRecords

\* An enqueue takes the request it replaces out first; its job is a new one, and
\* has the number of the replaced one, or the next.
LEMMA RequestsAreNew ==
    ASSUME Safe(Core), Numbered(Core, nextJob), nextJob \in JobIds,
           NEW m \in Metas, NEW delay \in NotBefores \cup {NotDelayed}
    PROVE  LET old == Slot(m)
               inherits == old # {} /\ \A i \in old : job[i].delay = NotDelayed
               seq == IF old = {} THEN nextJob ELSE job[Min(old)].seq
               age == IF inherits /\ delay = NotDelayed THEN job[Min(old)].age ELSE 0
               s == IF old = {} THEN Core ELSE RemoveWaiting(Core, Min(old))
               r == NewJob(m, seq, age, delay)
           IN  /\ old # {} => Min(old) \in JobIds /\ Waiting(Core, Min(old))
               /\ Safe(s) /\ s.ledger = ledger
               /\ \A i \in JobIds : /\ Known(s, i) <=> Known(Core, i)
                                    /\ Known(s, i) => /\ s.job[i].meta = job[i].meta
                                                      /\ s.job[i].seq = job[i].seq
                                                      /\ s.job[i].spent = job[i].spent
                                                      /\ s.job[i].ago = job[i].ago
                                    /\ Waiting(s, i) => Waiting(Core, i)
                                    /\ s.job[i].st = "granted" => job[i].st = "granted"
               /\ r \in UsedRecords /\ r.st = "waiting" /\ r.meta = m /\ r.seq = seq
               /\ ~r.spent /\ r.ago = 0 /\ r.delay = delay
               /\ seq \in JobIds /\ seq <= nextJob
               /\ \A i \in JobIds : Known(s, i) /\ s.job[i].seq = r.seq
                                       => s.job[i].meta.lane = r.meta.lane /\ ~Waiting(s, i)
               /\ ~Known(Core, nextJob) /\ ~Known(s, nextJob)
<1> DEFINE old == Slot(m)
           inherits == old # {} /\ \A i \in old : job[i].delay = NotDelayed
           seq == IF old = {} THEN nextJob ELSE job[Min(old)].seq
           age == IF inherits /\ delay = NotDelayed THEN job[Min(old)].age ELSE 0
           s == IF old = {} THEN Core ELSE RemoveWaiting(Core, Min(old))
           r == NewJob(m, seq, age, delay)
           n == nextJob
<1>1. /\ Core \in States /\ job \in [JobIds -> JobRecords] /\ n \in Nat
      /\ \A i \in JobIds : i \in Nat
    BY FieldsOfStates, Sizes DEF Safe, Core, JobIds
<1>2. old # {} => /\ Min(old) \in JobIds /\ Waiting(Core, Min(old)) /\ Known(Core, Min(old))
                  /\ job[Min(old)].meta.lane = m.lane
    <2> SUFFICES ASSUME old # {}
                 PROVE  /\ Min(old) \in JobIds /\ Waiting(Core, Min(old))
                        /\ Known(Core, Min(old)) /\ job[Min(old)].meta.lane = m.lane
        OBVIOUS
    <2>1. old \in SUBSET Nat
        BY <1>1 DEF Slot
    <2>2. Min(old) \in old
        <3> HIDE DEF old
        <3> QED BY <2>1, MinIsLeast
    <2>3. \A i \in old : /\ i \in JobIds /\ Waiting(Core, i)
                         /\ job[i].meta.lane = m.lane
        BY DEF Slot
    <2> HIDE DEF old
    <2> QED BY <2>2, <2>3 DEF Known, Waiting
<1> HIDE DEF old
<1>3. /\ Safe(s) /\ s.ledger = ledger
      /\ \A i \in JobIds : /\ Known(s, i) <=> Known(Core, i)
                           /\ Known(s, i) => /\ s.job[i].meta = job[i].meta
                                             /\ s.job[i].seq = job[i].seq
                                             /\ s.job[i].spent = job[i].spent
                                             /\ s.job[i].ago = job[i].ago
                           /\ Waiting(s, i) => Waiting(Core, i)
                                               /\ (old # {} => i # Min(old))
                           /\ s.job[i].st = "granted" => job[i].st = "granted"
    <2>1. CASE old = {}
        BY <2>1 DEF Core, Waiting, Known
    <2>2. CASE old # {}
        <3> DEFINE o == Min(old)
                   u == RemoveWaiting(Core, o)
        <3>1. s = u /\ o \in JobIds /\ Waiting(Core, o) /\ Known(Core, o)
            BY <2>2, <1>2
        <3>2. /\ Safe(u) /\ u.ledger = Core.ledger
              /\ u.job[o].st = "cancelled"
              /\ \A i \in JobIds \ {o} : u.job[i] = Core.job[i]
            BY ZenonT(60), <3>1, RemovalsAreSafe
        <3>3. Mild(Core, u)
            BY <3>1, RemovingIsMild
        <3> HIDE DEF u, o, s
        <3>4. \A i \in JobIds : Waiting(u, i) => Waiting(Core, i) /\ i # o
            BY <3>1, <3>2 DEF Waiting
        <3>5. \A i \in JobIds : /\ Known(u, i) <=> Known(Core, i)
                                /\ Known(u, i) => /\ u.job[i].meta = Core.job[i].meta
                                                  /\ u.job[i].seq = Core.job[i].seq
                                                  /\ u.job[i].spent = Core.job[i].spent
                                                  /\ u.job[i].ago = Core.job[i].ago
                                /\ u.job[i].st = "granted" => Core.job[i].st = "granted"
            BY <3>3 DEF Mild, Gentle, SameBooks
        <3>6. Core.job = job /\ Core.ledger = ledger
            BY DEF Core
        <3> QED BY <3>1, <3>2, <3>4, <3>5, <3>6 DEF o
    <2> QED BY <2>1, <2>2
<1> HIDE DEF s
<1>4. seq \in JobIds /\ seq <= n
    <2>1. CASE old = {}
        BY <2>1, <1>1
    <2>2. CASE old # {}
        <3>1. Min(old) \in JobIds /\ Known(Core, Min(old))
            BY <1>2, <2>2
        <3>2. job[Min(old)].seq \in JobIds
            BY <3>1, <1>1, FieldsOfJobs DEF Core
        <3>3. job[Min(old)].seq < n
            BY <3>1 DEF Numbered, Core
        <3> DEFINE q == job[Min(old)].seq
        <3>4. seq = q /\ q \in JobIds /\ q < n
            BY <2>2, <3>2, <3>3
        <3> HIDE DEF q, seq
        <3>5. q \in Nat /\ q <= n
            BY <3>4, <1>1
        <3> QED BY <3>4, <3>5
    <2> QED BY <2>1, <2>2
<1>5. age \in 0 .. Highest * Quantum
    <2>1. 0 \in 0 .. Highest * Quantum
        <3>1. Highest * Quantum \in Nat
            BY Sizes
        <3> QED BY <3>1
    <2>2. old # {} => job[Min(old)].age \in 0 .. Highest * Quantum
        <3> SUFFICES ASSUME old # {} PROVE job[Min(old)].age \in 0 .. Highest * Quantum
            OBVIOUS
        <3>1. Min(old) \in JobIds /\ Known(Core, Min(old))
            BY <1>2
        <3>2. Core.job[Min(old)].age \in 0 .. Highest * Quantum
            BY <3>1, <1>1, FieldsOfJobs
        <3> QED BY <3>2 DEF Core
    <2> QED BY <2>1, <2>2
<1>6. \A i \in JobIds : Known(s, i) /\ s.job[i].seq = seq
                         => s.job[i].meta.lane = m.lane /\ ~Waiting(s, i)
    <2> SUFFICES ASSUME NEW i \in JobIds, Known(s, i), s.job[i].seq = seq
                 PROVE  s.job[i].meta.lane = m.lane /\ ~Waiting(s, i)
        OBVIOUS
    <2>1. Known(Core, i) /\ job[i].seq = seq /\ s.job[i].meta = job[i].meta
        BY <1>3
    <2>2. CASE old = {}
        <3>1. job[i].seq < n /\ job[i].seq = n
            BY <2>1, <2>2 DEF Numbered, Core
        <3>2. FALSE
            BY <3>1, <1>1
        <3> QED BY <3>2
    <2>3. CASE old # {}
        <3> DEFINE o == Min(old)
        <3>1. o \in JobIds /\ Waiting(Core, o) /\ Known(Core, o) /\ job[o].meta.lane = m.lane
              /\ job[i].seq = job[o].seq
            BY <2>1, <2>3, <1>2
        <3> HIDE DEF o
        <3>2. /\ job[i].meta.lane = job[o].meta.lane
              /\ Waiting(Core, i) => i = o
            BY <3>1, <2>1 DEF Safe, SeqsOk, Core
        <3>3. Waiting(s, i) => Waiting(Core, i) /\ i # o
            BY <2>3, <1>3 DEF o
        <3> QED BY <3>1, <3>2, <3>3, <2>1
    <2> QED BY <2>2, <2>3
<1> HIDE DEF seq, age
<1>7. /\ r \in UsedRecords /\ r.st = "waiting" /\ r.meta = m /\ r.seq = seq /\ ~r.spent
      /\ r.ago = 0 /\ r.delay = delay
    BY <1>4, <1>5, NewJobs
<1> HIDE DEF r
<1>8. ~Known(Core, n) /\ ~Known(s, n)
    <2>1. ~Known(Core, n)
        BY <1>1 DEF Numbered
    <2> QED BY <2>1, <1>3
<1>9. \A i \in JobIds : Known(s, i) /\ s.job[i].seq = r.seq
                         => s.job[i].meta.lane = r.meta.lane /\ ~Waiting(s, i)
    BY <1>6, <1>7
<1> QED BY <1>2, <1>3, <1>4, <1>7, <1>8, <1>9 DEF r, s, seq, age, old

\* An enqueue knows one job more, grants none and debits nothing.
LEMMA EnqueueingIsSafe ==
    ASSUME Safe(Core), Numbered(Core, nextJob), nextJob \in JobIds,
           NEW m \in Metas, NEW delay \in NotBefores \cup {NotDelayed}
    PROVE  LET old == Slot(m)
               inherits == old # {} /\ \A i \in old : job[i].delay = NotDelayed
               seq == IF old = {} THEN nextJob ELSE job[Min(old)].seq
               age == IF inherits /\ delay = NotDelayed THEN job[Min(old)].age ELSE 0
               removed == IF old = {} THEN Core ELSE RemoveWaiting(Core, Min(old))
               t == Inserted(removed, nextJob, NewJob(m, seq, age, delay), old)
           IN  /\ Safe(t) /\ SameBooks(Core, t) /\ Numbered(t, nextJob + 1)
               /\ Waiting(t, nextJob) /\ ~t.job[nextJob].spent /\ t.job[nextJob].ago = 0
               /\ \A i \in JobIds \ {nextJob} : Waiting(t, i) => Waiting(Core, i)
               /\ \A i \in JobIds : t.job[i].st = "granted" => job[i].st = "granted"
<1> DEFINE old == Slot(m)
           inherits == old # {} /\ \A i \in old : job[i].delay = NotDelayed
           seq == IF old = {} THEN nextJob ELSE job[Min(old)].seq
           age == IF inherits /\ delay = NotDelayed THEN job[Min(old)].age ELSE 0
           s == IF old = {} THEN Core ELSE RemoveWaiting(Core, Min(old))
           r == NewJob(m, seq, age, delay)
           n == nextJob
           t == Inserted(s, n, r, old)
<1>1. /\ Core \in States /\ job \in [JobIds -> JobRecords] /\ n \in Nat
      /\ \A i \in JobIds : i \in Nat
    BY FieldsOfStates, Sizes DEF Safe, Core, JobIds
<1>2. /\ old # {} => Min(old) \in JobIds /\ Waiting(Core, Min(old))
      /\ Safe(s) /\ s.ledger = ledger
      /\ \A i \in JobIds : /\ Known(s, i) <=> Known(Core, i)
                           /\ Known(s, i) => /\ s.job[i].meta = job[i].meta
                                             /\ s.job[i].seq = job[i].seq
                                             /\ s.job[i].spent = job[i].spent
                                             /\ s.job[i].ago = job[i].ago
                           /\ Waiting(s, i) => Waiting(Core, i)
                           /\ s.job[i].st = "granted" => job[i].st = "granted"
      /\ r \in UsedRecords /\ r.st = "waiting" /\ r.meta = m /\ r.seq = seq
      /\ ~r.spent /\ r.ago = 0 /\ r.delay = delay
      /\ seq \in JobIds /\ seq <= nextJob
      /\ \A i \in JobIds : Known(s, i) /\ s.job[i].seq = r.seq
                              => s.job[i].meta.lane = r.meta.lane /\ ~Waiting(s, i)
      /\ ~Known(Core, nextJob) /\ ~Known(s, nextJob)
    BY RequestsAreNew
<1> HIDE DEF old, s, seq, age, r
<1>3. /\ Safe(s) /\ s.ledger = ledger
      /\ \A i \in JobIds : /\ Known(s, i) <=> Known(Core, i)
                           /\ Known(s, i) => /\ s.job[i].meta = job[i].meta
                                             /\ s.job[i].seq = job[i].seq
                                             /\ s.job[i].spent = job[i].spent
                                             /\ s.job[i].ago = job[i].ago
                           /\ Waiting(s, i) => Waiting(Core, i)
                           /\ s.job[i].st = "granted" => job[i].st = "granted"
    BY <1>2
<1>4. seq \in JobIds /\ seq <= n
    BY <1>2
<1>7. /\ r \in UsedRecords /\ r.st = "waiting" /\ r.meta = m /\ r.seq = seq /\ ~r.spent
      /\ r.ago = 0
    BY <1>2
<1>8. ~Known(Core, n) /\ ~Known(s, n)
    BY <1>2
<1>9. /\ Safe(t) /\ t.ledger = s.ledger
      /\ t.job[n] = r /\ \A i \in JobIds \ {n} : t.job[i] = s.job[i]
    BY <1>2, InsertionsAddOne
<1> HIDE DEF t
<1>10. SameBooks(Core, t)
    <2> SUFFICES ASSUME NEW i \in JobIds, Known(Core, i)
                 PROVE  /\ t.job[i].spent = job[i].spent /\ t.job[i].ago = job[i].ago
                        /\ t.job[i].meta = job[i].meta
        BY <1>3, <1>9 DEF SameBooks, Core
    <2>1. i # n /\ t.job[i] = s.job[i] /\ Known(s, i)
        BY <1>3, <1>8, <1>9
    <2> QED BY <2>1, <1>3
<1>11. Numbered(t, n + 1)
    <2> SUFFICES ASSUME NEW i \in JobIds
                 PROVE  /\ Known(t, i) <=> i < n + 1
                        /\ Known(t, i) => t.job[i].seq < n + 1
        BY DEF Numbered
    <2>1. CASE i = n
        <3>1. Known(t, n)
            BY <1>7, <1>9 DEF Known
        <3>2. t.job[n].seq \in Nat /\ t.job[n].seq <= n
            BY <1>1, <1>4, <1>7, <1>9
        <3> QED BY <2>1, <3>1, <3>2, <1>1
    <2>2. CASE i # n
        <3>1. t.job[i] = s.job[i] /\ (Known(t, i) <=> Known(Core, i))
            BY <2>2, <1>3, <1>9 DEF Known
        <3>2. Known(Core, i) <=> i < n
            BY DEF Numbered
        <3>3. Known(Core, i) => t.job[i].seq < n /\ t.job[i].seq \in Nat
            <4>1. Known(Core, i) => job[i].seq < n /\ job[i].seq \in Nat
                BY <1>1, FieldsOfJobs DEF Numbered, Core
            <4> QED BY <4>1, <3>1, <1>3
        <3> QED BY <2>2, <3>1, <3>2, <3>3, <1>1
    <2> QED BY <2>1, <2>2
<1>12. \A i \in JobIds : t.job[i].st = "granted" => job[i].st = "granted"
    <2>1. \A i \in JobIds : i = n \/ t.job[i] = s.job[i]
        BY <1>9
    <2> QED BY <2>1, <1>3, <1>7, <1>9
<1>13. Waiting(t, n) /\ ~t.job[n].spent /\ t.job[n].ago = 0
    BY <1>7, <1>9 DEF Waiting
<1>14. \A i \in JobIds \ {n} : Waiting(t, i) => Waiting(Core, i)
    <2>1. \A i \in JobIds \ {n} : t.job[i] = s.job[i] /\ (Waiting(s, i) => Waiting(Core, i))
        BY <1>3, <1>9
    <2> QED BY <2>1 DEF Waiting
<1> QED BY <1>9, <1>10, <1>11, <1>12, <1>13, <1>14 DEF t, r, s, seq, age, old

------------------------------------------------------------------------------
\* Time passes

LEMMA LessIsLess ==
    ASSUME NEW n \in Nat
    PROVE  Less(n) \in Nat /\ Less(n) = IF n = 0 THEN 0 ELSE n - 1
BY MaxOfTwo DEF Less

\* An aged job is the same job, older.
LEMMA AgedJobs ==
    ASSUME NEW r \in JobRecords
    PROVE  /\ Aged(r) \in JobRecords /\ Aged(r).st = r.st
           /\ r.st # "none" => /\ Aged(r).meta = r.meta /\ Aged(r).seq = r.seq
                               /\ Aged(r).spent = r.spent
                               /\ Aged(r).ago = IF r.st = "waiting" THEN r.ago
                                                ELSE IF r.ago = MaxLen THEN MaxLen
                                                ELSE r.ago + 1
<1> DEFINE Used0 == [st : {"waiting", "granted", "started", "done", "cancelled"}, meta : Metas,
                     seq : JobIds, age : 0 .. Highest * Quantum, delay : {NotDelayed} \cup Nat,
                     owns : Windows \cup {NoWindow}, ago : 0 .. MaxLen, spent : BOOLEAN]
<1>1. CASE r.st = "none"
    <2>1. Aged(r) = r
        BY <1>1 DEF Aged
    <2> QED BY <2>1, <1>1
<1>2. CASE r.st # "none"
    <2>1. r \in Used0
        BY <1>2 DEF JobRecords, NeverUsed
    <2>2. r.age \in 0 .. Highest * Quantum /\ r.ago \in 0 .. MaxLen
          /\ r.delay \in {NotDelayed} \cup Nat
        BY <2>1
    <2>3. MaxLen \in Nat /\ Highest * Quantum \in Nat
        BY MaxLenIsLongest, Sizes
    <2>4. CASE r.st = "waiting" /\ r.delay = NotDelayed
        <3> DEFINE a == Min({Highest * Quantum, r.age + 1})
        <3>1. a \in 0 .. Highest * Quantum
            <4> DEFINE b == r.age + 1
                       top == Highest * Quantum
            <4>1. b \in Nat /\ top \in Nat
                BY <2>2, <2>3
            <4> HIDE DEF b, top
            <4>2. Min({top, b}) = IF top <= b THEN top ELSE b
                BY <4>1, MinOfTwo
            <4> QED BY <4>1, <4>2 DEF b, top
        <3>2. Aged(r) = [r EXCEPT !.age = a]
            BY <2>4 DEF Aged
        <3> HIDE DEF a
        <3>3. Aged(r) \in Used0
            BY <2>1, <3>1, <3>2
        <3> QED BY <2>1, <2>4, <3>2, <3>3 DEF JobRecords
    <2>5. CASE r.st = "waiting" /\ r.delay # NotDelayed
        <3> DEFINE d == Less(r.delay)
        <3>1. d \in Nat
            BY <2>2, <2>5, LessIsLess
        <3>2. Aged(r) = [r EXCEPT !.delay = d]
            BY <2>5 DEF Aged
        <3> HIDE DEF d
        <3>3. Aged(r) \in Used0
            BY <2>1, <3>1, <3>2
        <3> QED BY <2>1, <2>5, <3>2, <3>3 DEF JobRecords
    <2>6. CASE r.st # "waiting"
        <3> DEFINE a == Min({MaxLen, r.ago + 1})
        <3>1. a \in 0 .. MaxLen /\ a = IF r.ago = MaxLen THEN MaxLen ELSE r.ago + 1
            <4> DEFINE b == r.ago + 1
            <4>1. b \in Nat
                BY <2>2, <2>3
            <4>2. Min({MaxLen, b}) = IF MaxLen <= b THEN MaxLen ELSE b
                <5> HIDE DEF b
                <5> QED BY <4>1, <2>3, MinOfTwo
            <4> QED BY <4>1, <4>2, <2>2, <2>3
        <3>2. Aged(r) = [r EXCEPT !.ago = a]
            BY <1>2, <2>6 DEF Aged
        <3> HIDE DEF a
        <3>3. Aged(r) \in Used0
            BY <2>1, <3>1, <3>2
        <3>4. Aged(r).ago = a /\ Aged(r).st = r.st /\ Aged(r).meta = r.meta
              /\ Aged(r).seq = r.seq /\ Aged(r).spent = r.spent
            BY <2>1, <3>2
        <3> QED BY <2>6, <3>1, <3>3, <3>4 DEF JobRecords
    <2> QED BY <2>4, <2>5, <2>6
<1> QED BY <1>1, <1>2

\* The state after a tick.
Ticked ==
    LET jobs == [j \in JobIds |-> Aged(job[j])] IN
    [job |-> jobs, lane |-> lane, cands |-> cands,
     blocked |-> {[n EXCEPT !.in = Less(@)] : n \in blocked},
     hold |-> [w \in Windows |-> [hold[w] EXCEPT !.in = Less(@)]],
     ledger |-> [w \in Windows |-> {j \in ledger[w] : jobs[j].ago < Longest(w)}]]

LEMMA TickingIsSafe ==
    ASSUME Safe(Core), cands = {}
    PROVE  Safe(Ticked) /\ Gentle(Core, Ticked)
<1> DEFINE t == Ticked
           jobs == [j \in JobIds |-> Aged(job[j])]
           nodes == {[n EXCEPT !.in = Less(@)] : n \in blocked}
           holds == [w \in Windows |-> [hold[w] EXCEPT !.in = Less(@)]]
           debits == [w \in Windows |-> {j \in ledger[w] : jobs[j].ago < Longest(w)}]
<1>1. /\ Core \in States /\ job \in [JobIds -> JobRecords] /\ lane \in [Lanes -> LaneRecords]
      /\ blocked \subseteq Nodes /\ hold \in [Windows -> HoldRecords]
      /\ ledger \in [Windows -> SUBSET JobIds]
    BY FieldsOfStates DEF Safe, Core
<1>2. jobs \in [JobIds -> JobRecords]
    BY <1>1, AgedJobs
<1>3. /\ nodes \subseteq Nodes
      /\ \A n \in nodes : \E o \in blocked : n.ref = o.ref
    <2> SUFFICES ASSUME NEW o \in blocked
                 PROVE  LET n == [o EXCEPT !.in = Less(@)] IN n \in Nodes /\ n.ref = o.ref
        OBVIOUS
    <2>1. o \in Nodes /\ o.in \in Nat
        BY <1>1 DEF Nodes
    <2> DEFINE i == Less(o.in)
    <2>2. i \in Nat
        BY <2>1, LessIsLess
    <2> HIDE DEF i
    <2>3. [o EXCEPT !.in = i] \in Nodes /\ [o EXCEPT !.in = i].ref = o.ref
        BY <2>1, <2>2 DEF Nodes
    <2> QED BY <2>3 DEF i
<1>4. /\ holds \in [Windows -> HoldRecords]
      /\ \A w \in Windows : /\ holds[w].on = hold[w].on /\ holds[w].owner = hold[w].owner
                            /\ holds[w].queue = hold[w].queue
    <2> SUFFICES ASSUME NEW w \in Windows
                 PROVE  LET h == [hold[w] EXCEPT !.in = Less(@)] IN
                        /\ h \in HoldRecords /\ h.on = hold[w].on /\ h.owner = hold[w].owner
                        /\ h.queue = hold[w].queue
        OBVIOUS
    <2>1. hold[w] \in HoldRecords /\ hold[w].in \in Nat
        BY <1>1 DEF HoldRecords
    <2> DEFINE i == Less(hold[w].in)
    <2>2. i \in Nat
        BY <2>1, LessIsLess
    <2> HIDE DEF i
    <2>3. LET h == [hold[w] EXCEPT !.in = i] IN
          /\ h \in HoldRecords /\ h.on = hold[w].on /\ h.owner = hold[w].owner
          /\ h.queue = hold[w].queue
        BY <2>1, <2>2 DEF HoldRecords
    <2> QED BY <2>3 DEF i
<1>5. debits \in [Windows -> SUBSET JobIds]
    BY <1>1
<1>6. t = [job |-> jobs, lane |-> lane, cands |-> {}, blocked |-> nodes,
           hold |-> holds, ledger |-> debits]
    BY DEF Ticked
<1>7. \A j \in JobIds : /\ jobs[j].st = job[j].st
                        /\ job[j].st # "none" => /\ jobs[j].meta = job[j].meta
                                                 /\ jobs[j].seq = job[j].seq
    BY <1>1, AgedJobs
<1> HIDE DEF jobs, nodes, holds, debits
<1>8. /\ t \in States /\ t.job = jobs /\ t.lane = lane /\ t.cands = {} /\ t.blocked = nodes
      /\ t.hold = holds
    BY <1>1, <1>2, <1>3, <1>4, <1>5, <1>6 DEF States
<1> HIDE DEF t
<1>9. \A j \in JobIds : /\ Known(t, j) <=> Known(Core, j)
                        /\ Waiting(t, j) <=> Waiting(Core, j)
                        /\ t.job[j].st = Core.job[j].st
                        /\ Known(Core, j) => /\ t.job[j].meta = Core.job[j].meta
                                             /\ t.job[j].seq = Core.job[j].seq
    BY <1>7, <1>8 DEF Known, Waiting, Core
<1>10. SeqsOk(t)
    BY <1>9 DEF Safe, SeqsOk
<1>11. PendingOk(t)
    <2>1. \A j \in JobIds : Waiting(t, j) => Known(Core, j)
        BY <1>9 DEF Known, Waiting
    <2>2. \A l \in Lanes : Core.lane[l].pending \subseteq JobIds
        BY <1>1, FieldsOfStates DEF LaneRecords
    <2>3. t.lane = Core.lane
        BY <1>8 DEF Core
    <2> QED BY <2>1, <2>2, <2>3, <1>9 DEF Safe, PendingOk
<1>12. LocksOk(t)
    <2>1. \A l \in Lanes : Occupying(t, l) = Occupying(Core, l)
        BY <1>9 DEF Occupying, Known
    <2>2. t.lane = Core.lane
        BY <1>8 DEF Core
    <2> QED BY <2>1, <2>2, LaneModes DEF Safe, LocksOk
<1>13. RefsOk(t)
    <2>1. \A ref : RefOk(Core, ref) => RefOk(t, ref)
        BY <1>9 DEF RefOk
    <2>2. /\ \A n \in blocked : RefOk(Core, n.ref)
          /\ \A w \in Windows : /\ \A i \in DOMAIN hold[w].queue : RefOk(Core, hold[w].queue[i])
                                /\ hold[w].on => RefOk(Core, hold[w].owner)
                                /\ hold[w].on \/ DOMAIN hold[w].queue = {}
        BY DEF Safe, RefsOk, Core
    <2> QED BY <2>1, <2>2, <1>3, <1>4, <1>8 DEF RefsOk
<1>14. KeysOk(t)
    BY <1>8 DEF KeysOk
<1>15. Gentle(Core, t)
    BY <1>9 DEF Gentle
<1> QED BY <1>8, <1>10, <1>11, <1>12, <1>13, <1>14, <1>15 DEF Safe, t

------------------------------------------------------------------------------
\* The inductive invariant of the queues

QueueInv ==
    /\ Safe(Core) /\ Debited(Core) /\ Numbered(Core, nextJob)
    /\ nextJob \in 1 .. MaxJobs + 1
    /\ limits \in LimitSets /\ penalty \in [Scopes -> Nat]
    /\ phase \in {"asleep", "due", "pop"} /\ (phase = "asleep" => cands = {})

\* Nothing is granted by the step.
GrantsNothing == \A j \in JobIds : job'[j].st = "granted" => job[j].st = "granted"

\* What the steps do to the books: no job waits that did not, and none but the
\* refunded ones is debited otherwise; the ledger stays, is credited with the
\* refund of job j, or is carried over to new limits.
JobsStand(refunded) ==
    \A j \in JobIds : /\ job'[j].st = "waiting" => job[j].st = "waiting"
                      /\ job'[j].st = "none" <=> job[j].st = "none"
                      /\ job[j].st # "none" =>
                            /\ job'[j].spent = IF j \in refunded THEN FALSE ELSE job[j].spent
                            /\ job'[j].ago = job[j].ago
                            /\ job'[j].meta = job[j].meta

BooksStand == ledger' = ledger /\ JobsStand({})
BooksCredited(j) == ledger' = [w \in Windows |-> ledger[w] \ {j}] /\ JobsStand({j})
BooksCarried == ledger' = Carried(limits') /\ JobsStand({})

\* What the steps leave to show: the sizes and the phase.
Bookkeeping ==
    /\ nextJob' = nextJob /\ limits' \in LimitSets /\ penalty' \in [Scopes -> Nat]
    /\ phase' \in {"due", "pop"} \/ (phase' = "asleep" /\ cands' = {})

LEMMA InstalledIs ==
    ASSUME NEW STATE t, t \in States, Install(t)
    PROVE  Core' = t /\ job' = t.job /\ ledger' = t.ledger /\ cands' = t.cands
BY DEF Install, Core, States

\* A gentle step that debits nothing keeps the invariant and grants nothing.
LEMMA GentleStepsKeepTheInvariant ==
    ASSUME QueueInv, NEW STATE t, Install(t), Safe(t), Gentle(Core, t),
           \A w \in Windows : t.ledger[w] \subseteq ledger[w], Bookkeeping
    PROVE  QueueInv' /\ GrantsNothing
<1>1. Core' = t /\ job' = t.job
    BY InstalledIs DEF Safe
<1>2. Safe(Core)' /\ Debited(Core)' /\ Numbered(Core, nextJob)'
    <2>1. Safe(t)
        OBVIOUS
    <2>2. Debited(t)
        <3> SUFFICES ASSUME NEW w \in Windows, NEW j \in t.ledger[w] PROVE Known(t, j)
            BY DEF Debited
        <3>1. j \in ledger[w] /\ j \in JobIds
            BY FieldsOfStates DEF Safe
        <3>2. Known(Core, j)
            BY <3>1 DEF QueueInv, Debited, Core
        <3> QED BY <3>1, <3>2 DEF Gentle
    <2>3. Numbered(t, nextJob)
        BY DEF QueueInv, Numbered, Gentle
    <2> QED BY <2>1, <2>2, <2>3, <1>1 DEF Bookkeeping, Safe, Debited, Numbered,
               SeqsOk, PendingOk, LocksOk, RefsOk, KeysOk
<1>3. QueueInv'
    BY <1>2 DEF QueueInv, Bookkeeping
<1>4. GrantsNothing
    BY <1>1 DEF GrantsNothing, Gentle, Core
<1> QED BY <1>3, <1>4

LEMMA MildStepsKeepTheInvariant ==
    ASSUME QueueInv, NEW STATE t, Install(t), Mild(Core, t), Bookkeeping
    PROVE  QueueInv' /\ GrantsNothing /\ BooksStand
<1>1. Safe(t) /\ Gentle(Core, t) /\ SameBooks(Core, t) /\ t.ledger = ledger
    BY DEF Mild, SameBooks, Core
<1>2. job' = t.job /\ ledger' = t.ledger
    BY <1>1, InstalledIs DEF Safe
<1>3. BooksStand
    BY <1>1, <1>2 DEF BooksStand, JobsStand, Gentle, SameBooks, Known, Waiting, Core
<1> QED BY <1>1, <1>3, GentleStepsKeepTheInvariant

LEMMA InitKeepsTheQueues ==
    ASSUME Init
    PROVE  QueueInv
<1>1. \A j \in JobIds : job[j].st = "none"
    BY DEF Init, NeverUsed
<1>2. Core \in States
    <2>1. job \in [JobIds -> JobRecords]
        BY DEF Init, JobRecords
    <2>2. lane \in [Lanes -> LaneRecords]
        BY NewLaneIsALane DEF Init
    <2>3. hold \in [Windows -> HoldRecords]
        BY NoHoldIsAHold DEF Init
    <2> QED BY <2>1, <2>2, <2>3 DEF Init, Core, States
<1>3. \A j \in JobIds : ~Known(Core, j) /\ ~Waiting(Core, j)
    BY <1>1 DEF Known, Waiting, Core
<1>4. SeqsOk(Core)
    BY <1>3 DEF SeqsOk
<1>5. PendingOk(Core)
    BY <1>3 DEF PendingOk, Init, Core, NewLane
<1>6. LocksOk(Core)
    BY <1>1, LaneModes DEF LocksOk, Init, Core, NewLane, Occupying
<1>7. RefsOk(Core)
    BY DEF RefsOk, Init, Core, NoHold
<1>8. KeysOk(Core)
    BY DEF KeysOk, Init, Core
<1>9. Debited(Core)
    BY DEF Debited, Init, Core
<1>10. Numbered(Core, nextJob)
    <2>1. \A j \in JobIds : ~(j < 1)
        BY Sizes DEF JobIds
    <2> QED BY <2>1, <1>3 DEF Numbered, Init
<1>11. nextJob \in 1 .. MaxJobs + 1 /\ penalty \in [Scopes -> Nat]
    BY Sizes DEF Init
<1> QED BY <1>2, <1>4, <1>5, <1>6, <1>7, <1>8, <1>9, <1>10, <1>11 DEF Safe, QueueInv, Init

LEMMA EnqueueKeepsTheQueues ==
    ASSUME QueueInv, NEW m \in Metas, NEW delay \in NotBefores \cup {NotDelayed},
           Enqueue(m, delay)
    PROVE  QueueInv' /\ GrantsNothing
<1> DEFINE old == Slot(m)
           inherits == old # {} /\ \A i \in old : job[i].delay = NotDelayed
           seq == IF old = {} THEN nextJob ELSE job[Min(old)].seq
           age == IF inherits /\ delay = NotDelayed THEN job[Min(old)].age ELSE 0
           removed == IF old = {} THEN Core ELSE RemoveWaiting(Core, Min(old))
           t == Inserted(removed, nextJob, NewJob(m, seq, age, delay), old)
<1>1. nextJob \in JobIds /\ nextJob + 1 \in 1 .. MaxJobs + 1 /\ nextJob' = nextJob + 1
    BY Sizes DEF Enqueue, QueueInv, JobIds
<1>2. /\ Safe(t) /\ SameBooks(Core, t) /\ Numbered(t, nextJob + 1)
      /\ Waiting(t, nextJob)
      /\ \A i \in JobIds : t.job[i].st = "granted" => job[i].st = "granted"
    BY <1>1, EnqueueingIsSafe DEF QueueInv
<1>3. Install(t) /\ phase' = "due" /\ UNCHANGED <<limits, penalty>>
    BY DEF Enqueue
<1> HIDE DEF t
<1>4. Core' = t /\ job' = t.job
    BY <1>2, <1>3, InstalledIs DEF Safe
<1>5. Debited(t)
    <2> SUFFICES ASSUME NEW w \in Windows, NEW j \in t.ledger[w] PROVE Known(t, j)
        BY DEF Debited
    <2>1. j \in ledger[w] /\ j \in JobIds
        BY <1>2, FieldsOfStates DEF Safe, SameBooks, Core
    <2>2. Known(Core, j)
        BY <2>1 DEF QueueInv, Debited, Core
    <2>3. j < nextJob /\ j \in Nat /\ nextJob \in Nat
        BY <2>1, <2>2, <1>1, Sizes DEF QueueInv, Numbered, JobIds
    <2>4. j < nextJob + 1
        BY <2>3
    <2> QED BY <2>1, <2>4, <1>2 DEF Numbered
<1>6. Safe(Core)' /\ Debited(Core)' /\ Numbered(Core, nextJob)'
    BY <1>1, <1>2, <1>4, <1>5 DEF Safe, Debited, Numbered,
       SeqsOk, PendingOk, LocksOk, RefsOk, KeysOk
<1>7. QueueInv'
    BY <1>1, <1>3, <1>6 DEF QueueInv
<1>8. GrantsNothing
    BY <1>2, <1>4 DEF GrantsNothing
<1> QED BY <1>7, <1>8

LEMMA PenaltiesAreNumbers ==
    ASSUME QueueInv, NEW c \in Scopes, NEW d \in RetryAfters
    PROVE  /\ Penalized(c, d) \in [Scopes -> Nat]
           /\ \A e \in Scopes : Penalized(c, d)[e] >= penalty[e]
<1>1. penalty \in [Scopes -> Nat] /\ d \in Nat
    BY DurationsAreTyped DEF QueueInv
<1>2. penalty[c] \in Nat
    BY <1>1
<1> DEFINE x == Max({penalty[c], d})
<1>3. x \in Nat /\ x >= penalty[c]
    BY <1>1, <1>2, MaxOfTwo
<1>4. Penalized(c, d) = [penalty EXCEPT ![c] = x]
    BY DEF Penalized
<1> HIDE DEF x
<1>5. \A e \in Scopes : penalty[e] \in Nat
    BY <1>1
<1> QED BY <1>1, <1>3, <1>4, <1>5

LEMMA CommandsKeepTheQueues ==
    ASSUME QueueInv, NEW j \in JobIds,
           Cancel(j) \/ Start(j) \/ Complete(j) \/ CompleteNoRequest(j)
    PROVE  QueueInv' /\ GrantsNothing /\ (BooksStand \/ BooksCredited(j))
<1>1. Bookkeeping /\ Safe(Core)
    BY DEF Cancel, Start, Complete, CompleteNoRequest, Command, QueueInv, Bookkeeping
<1>2. Flying(Core, j) => Known(Core, j)
    BY DEF Flying, Known
<1>3. CASE Cancel(j)
    <2> DEFINE t == RemoveWaiting(Core, j)
    <2>1. Mild(Core, t) /\ Install(t)
        BY <1>1, <1>3, RemovingIsMild DEF Cancel
    <2> HIDE DEF t
    <2> QED BY <2>1, <1>1, MildStepsKeepTheInvariant
<1>4. CASE Start(j)
    <2> DEFINE l == job[j].meta.lane
               t == Vacated([Core EXCEPT !.job[j].st = "started", !.lane[l].holder = NoJob,
                                         !.lane[l].count = 0], l)
    <2>1. job[j].st = "granted" /\ l \in Lanes /\ lane[l].holder = j /\ Install(t)
        BY <1>4, LaneModes DEF Start
    <2>2. Core.job = job /\ Core.lane = lane
        BY DEF Core
    <2>3. Mild(Core, t)
        BY <2>1, <2>2, <1>1, StartingIsMild
    <2> HIDE DEF t
    <2> QED BY <2>1, <2>3, <1>1, MildStepsKeepTheInvariant
<1>5. CASE Complete(j)
    <2> DEFINE t == ReleaseLane(Landed(Core, j), j)
    <2>1. Mild(Core, t) /\ Install(t)
        BY <1>1, <1>5, LandingIsMild DEF Complete
    <2> HIDE DEF t
    <2> QED BY <2>1, <1>1, MildStepsKeepTheInvariant
<1>6. CASE CompleteNoRequest(j)
    <2> DEFINE s == ReleaseLane(Landed(Core, j), j)
               c == Credited(s, j)
               t == Refund(s, j)
    <2>1. Mild(Core, s) /\ Install(t) /\ Known(Core, j)
        BY <1>1, <1>2, <1>6, LandingIsMild DEF CompleteNoRequest
    <2> HIDE DEF s
    <2>2. Safe(s) /\ Known(s, j) /\ s.ledger = ledger
        BY <2>1 DEF Mild, Gentle, SameBooks, Core
    <2>3. /\ Safe(c) /\ Gentle(s, c) /\ Mild(c, t)
          /\ \A w \in Windows : c.ledger[w] \subseteq s.ledger[w]
        <3>1. Safe(c) /\ Gentle(s, c) /\ Mild(c, t)
            BY <2>2, RefundingIsGentle
        <3>2. \A w \in Windows : c.ledger[w] \subseteq s.ledger[w]
            BY <2>2 DEF Credited, Safe, States
        <3> QED BY <3>1, <3>2
    <2> HIDE DEF c, t
    <2>4. \A w \in Windows : t.ledger[w] \subseteq ledger[w]
        BY <2>2, <2>3 DEF Mild, SameBooks
    <2>5. Safe(t) /\ Gentle(Core, t)
        BY <2>1, <2>3 DEF Mild, Gentle
    <2>6. BooksCredited(j)
        <3>1. /\ t.ledger = [w \in Windows |-> ledger[w] \ {j}]
              /\ c.job = [s.job EXCEPT ![j] = [s.job[j] EXCEPT !.spent = FALSE]]
            BY <2>2, <2>3, RefundingIsGentle DEF Mild, SameBooks, c
        <3>2. ASSUME NEW i \in JobIds, Known(s, i)
              PROVE  /\ c.job[i].spent = IF i = j THEN FALSE ELSE s.job[i].spent
                     /\ c.job[i].ago = s.job[i].ago /\ c.job[i].meta = s.job[i].meta
            <4>1. s.job \in [JobIds -> JobRecords] /\ s \in States
                BY <2>2, FieldsOfStates DEF Safe
            <4>2. CASE i = j
                <5>1. c.job[j] = [s.job[j] EXCEPT !.spent = FALSE]
                    BY <3>1, <4>1
                <5> QED BY <4>1, <4>2, <5>1, <3>2, FieldsOfJobs
            <4>3. CASE i # j
                BY <3>1, <4>1, <4>3
            <4> QED BY <4>2, <4>3
        <3>3. job' = t.job /\ ledger' = t.ledger
            BY <2>1, <2>5, InstalledIs DEF Safe
        <3>4. /\ SameBooks(Core, s) /\ Gentle(Core, s) /\ SameBooks(c, t) /\ Gentle(s, c)
              /\ Gentle(c, t) /\ Core.job = job
            BY <2>1, <2>3 DEF Mild, Core
        <3>5. ASSUME NEW i \in JobIds
              PROVE  /\ Waiting(t, i) => Waiting(Core, i)
                     /\ Known(t, i) <=> Known(Core, i)
                     /\ Known(Core, i) =>
                            /\ t.job[i].spent = IF i \in {j} THEN FALSE ELSE job[i].spent
                            /\ t.job[i].ago = job[i].ago /\ t.job[i].meta = job[i].meta
            <4>1. /\ Waiting(t, i) => Waiting(Core, i)
                  /\ Known(t, i) <=> Known(Core, i)
                  /\ Known(Core, i) => Known(s, i) /\ Known(c, i)
                BY <3>4 DEF Gentle
            <4>2. Known(Core, i) =>
                    /\ t.job[i].spent = c.job[i].spent /\ t.job[i].ago = c.job[i].ago
                    /\ t.job[i].meta = c.job[i].meta
                    /\ s.job[i].spent = job[i].spent /\ s.job[i].ago = job[i].ago
                    /\ s.job[i].meta = job[i].meta
                BY <3>4, <4>1 DEF SameBooks
            <4> QED BY <3>2, <4>1, <4>2
        <3> QED BY <3>1, <3>3, <3>5 DEF BooksCredited, JobsStand, Known, Waiting, Core
    <2> QED BY <2>1, <2>4, <2>5, <2>6, <1>1, GentleStepsKeepTheInvariant
<1> QED BY <1>3, <1>4, <1>5, <1>6

LEMMA FreezesKeepTheQueues ==
    ASSUME QueueInv, NEW c \in Scopes, NEW d \in RetryAfters,
           Penalize(c, d) \/ \E j \in JobIds : CompleteRetryAfter(j, c, d)
    PROVE  QueueInv' /\ GrantsNothing /\ BooksStand
<1>1. Bookkeeping /\ Safe(Core)
    <2>1. nextJob' = nextJob /\ limits' = limits /\ penalty' = Penalized(c, d) /\ phase' = "due"
        BY DEF Penalize, Call, CompleteRetryAfter, Command
    <2> QED BY <2>1, PenaltiesAreNumbers DEF QueueInv, Bookkeeping
<1>2. CASE Penalize(c, d)
    <2> DEFINE t == Core
    <2>1. Install(t) /\ Mild(Core, t)
        BY <1>1, <1>2, SameJobsAreMild DEF Penalize, Install, Core
    <2> QED BY <2>1, <1>1, MildStepsKeepTheInvariant
<1>3. ASSUME NEW j \in JobIds, CompleteRetryAfter(j, c, d)
      PROVE  QueueInv' /\ GrantsNothing /\ BooksStand
    <2> DEFINE t == ReleaseLane(Landed(Core, j), j)
    <2>1. Mild(Core, t) /\ Install(t)
        BY <1>1, <1>3, LandingIsMild DEF CompleteRetryAfter
    <2> HIDE DEF t
    <2> QED BY <2>1, <1>1, MildStepsKeepTheInvariant
<1> QED BY <1>2, <1>3

LEMMA NewLimitsKeepTheQueues ==
    ASSUME QueueInv, NEW new \in LimitSets, SetLimits(new) \/ SetClassLimits(new)
    PROVE  QueueInv' /\ GrantsNothing /\ BooksCarried
<1>1. ReplaceLimits(new)
    BY DEF SetLimits, SetClassLimits
<1> DEFINE c == [Core EXCEPT !.ledger = Carried(new)]
           t == Rearmed(c)
<1>2. Bookkeeping /\ Install(t) /\ Safe(Core)
    BY <1>1 DEF ReplaceLimits, Call, Command, QueueInv, Bookkeeping
<1>3. /\ Carried(new) \in [Windows -> SUBSET JobIds]
      /\ \A w \in Windows : Carried(new)[w] \subseteq ledger[w]
    <2>1. ledger \in [Windows -> SUBSET JobIds]
        BY <1>2, FieldsOfStates DEF Safe, Core
    <2> QED BY <2>1 DEF Carried
<1>4. Safe(c) /\ Gentle(Core, c) /\ c.ledger = Carried(new) /\ c.job = Core.job
    BY <1>2, <1>3, CarryingIsGentle
<1> HIDE DEF c
<1>5. Mild(c, t)
    BY <1>4, RearmingIsMild
<1> HIDE DEF t
<1>6. Safe(t) /\ Gentle(Core, t) /\ t.ledger = Carried(new)
    BY <1>4, <1>5 DEF Mild, Gentle, SameBooks
<1>7. BooksCarried
    <2>1. job' = t.job /\ ledger' = t.ledger /\ limits' = new
        BY <1>1, <1>2, <1>6, InstalledIs DEF Safe, ReplaceLimits
    <2>2. SameBooks(c, t) /\ c.job = job
        BY <1>4, <1>5 DEF Mild, Core
    <2> QED BY <1>6, <2>1, <2>2
        DEF BooksCarried, JobsStand, SameBooks, Gentle, Known, Waiting, Core
<1> QED BY <1>2, <1>3, <1>6, <1>7, GentleStepsKeepTheInvariant

LEMMA QueriesKeepTheQueues ==
    ASSUME QueueInv, Query
    PROVE  QueueInv' /\ GrantsNothing /\ BooksStand
<1>1. Bookkeeping /\ Install(Core)
    BY DEF Query, Call, Command, QueueInv, Bookkeeping, Install, Core
<1>2. Mild(Core, Core)
    BY SameJobsAreMild DEF QueueInv
<1> QED BY <1>1, <1>2, MildStepsKeepTheInvariant

LEMMA PassesKeepTheQueues ==
    ASSUME QueueInv, BeginPass \/ Rekey \/ Park \/ Pause \/ Sleep \/ EndPass
    PROVE  QueueInv' /\ GrantsNothing /\ BooksStand
<1>1. /\ Safe(Core) /\ Debited(Core) /\ limits \in LimitSets /\ penalty \in [Scopes -> Nat]
      /\ nextJob' = nextJob /\ limits' \in LimitSets /\ penalty' \in [Scopes -> Nat]
    BY DEF QueueInv, BeginPass, Rekey, Park, Pause, Sleep, EndPass, Considering
<1>2. CASE BeginPass
    <2> DEFINE t == CompactLanes(PromoteReservations(PromoteBlocked(PromoteDelayed(Core))))
    <2>1. Mild(Core, t) /\ Install(t) /\ Bookkeeping
        BY <1>1, <1>2, BeginningAPassIsMild DEF BeginPass, Bookkeeping
    <2> HIDE DEF t
    <2> QED BY <2>1, MildStepsKeepTheInvariant
<1>3. CASE Rekey
    <2> DEFINE t == Rekeyed(Popped, Top.ref)
    <2>1. Mild(Core, t) /\ Install(t) /\ Bookkeeping
        BY <1>1, <1>3, RekeyingIsMild DEF Rekey, Bookkeeping
    <2> HIDE DEF t
    <2> QED BY <2>1, MildStepsKeepTheInvariant
<1>4. ASSUME Considering
      PROVE  cands # {} /\ Grantable(Popped) # {} /\ Bookkeeping
    BY <1>1, <1>4 DEF Considering, Bookkeeping
<1>5. CASE Park
    <2> DEFINE t == [Selected EXCEPT !.hold[FirstOf(Reserving(Selected))].queue =
                         Append(@, Top.ref)]
    <2>1. Considering /\ Reserving(Selected) # {} /\ Install(t)
        BY <1>5 DEF Park
    <2>2. Mild(Core, t)
        BY <1>1, <1>4, <2>1, ParkingIsMild
    <2> HIDE DEF t
    <2> QED BY <1>4, <2>1, <2>2, MildStepsKeepTheInvariant
<1>6. CASE Pause
    <2> DEFINE t == Block(ReleasePreviousReservation(Selected, NoWindow), Top.ref, 0, TRUE)
    <2>1. Considering /\ Install(t)
        BY <1>6 DEF Pause
    <2>2. Mild(Core, t)
        BY <1>1, <1>4, <2>1, PausingIsMild
    <2> HIDE DEF t
    <2> QED BY <1>4, <2>1, <2>2, MildStepsKeepTheInvariant
<1>7. CASE Sleep
    <2> DEFINE until == Until(Selected)
               window == IF Short(Selected) = {} THEN NoWindow ELSE FirstOf(Short(Selected))
               t == Block(Reserved(ReleasePreviousReservation(Selected, window), window, until),
                          Top.ref, until, FALSE)
    <2>1. Considering /\ ~Paused /\ Install(t)
        BY <1>7 DEF Sleep
    <2>2. Mild(Core, t)
        BY <1>1, <1>4, <2>1, SleepingIsMild
    <2> HIDE DEF t
    <2> QED BY <1>4, <2>1, <2>2, MildStepsKeepTheInvariant
<1>8. CASE EndPass
    <2> DEFINE t == CompactReservations(Core)
    <2>1. Calm(Core, t) /\ t.cands = cands /\ Install(t) /\ cands = {} /\ phase' = "asleep"
        BY <1>1, <1>8, CompactingReservationsIsCalm DEF EndPass, Core
    <2> HIDE DEF t
    <2>2. Mild(Core, t) /\ Bookkeeping
        BY <1>1, <2>1, CalmIsMild DEF Bookkeeping, Install
    <2> QED BY <2>1, <2>2, MildStepsKeepTheInvariant
<1> QED BY <1>2, <1>3, <1>5, <1>6, <1>7, <1>8

\* A grant grants the candidate, and nothing else.
LEMMA GrantKeepsTheQueues ==
    ASSUME QueueInv, Grant
    PROVE  /\ QueueInv' /\ Candidate \in JobIds /\ Waiting(Core, Candidate)
           /\ job' = [job EXCEPT ![Candidate] = GrantedJob(job[Candidate])]
           /\ ledger' = Charged(Core, Candidate)
           /\ \A j \in JobIds : GrantedNow(j) => j = Candidate
<1> DEFINE c == Candidate
           t == RearmReservations(Granted(Selected, c))
<1>1. /\ Safe(Core) /\ Debited(Core) /\ limits \in LimitSets /\ penalty \in [Scopes -> Nat]
      /\ Numbered(Core, nextJob)
      /\ cands # {} /\ Grantable(Popped) # {} /\ Install(t)
      /\ UNCHANGED <<limits, penalty, phase, nextJob>> /\ phase = "pop"
    BY DEF QueueInv, Grant, Considering
<1>2. /\ Safe(t) /\ t.job = [job EXCEPT ![c] = GrantedJob(job[c])]
      /\ t.ledger = Charged(Core, c)
    BY <1>1, GrantingIsSafe
<1>3. /\ c \in JobIds /\ Waiting(Core, c)
    BY <1>1, CandidateIsFirst
<1> HIDE DEF t, c
<1>4. Core' = t /\ job' = t.job /\ ledger' = t.ledger
    BY <1>1, <1>2, InstalledIs DEF Safe
<1>5. /\ Core \in States /\ job \in [JobIds -> JobRecords] /\ Known(Core, c)
    BY <1>1, <1>3, FieldsOfStates DEF Safe, Core, Known, Waiting
<1>6. /\ t.job[c].st = "granted" /\ t.job[c].seq = job[c].seq
      /\ \A j \in JobIds \ {c} : t.job[j] = job[j]
    <2>1. t.job[c] = GrantedJob(job[c]) /\ \A j \in JobIds \ {c} : t.job[j] = job[j]
        BY <1>2, <1>3, <1>5
    <2>2. /\ GrantedJob(Core.job[c]).st = "granted"
          /\ GrantedJob(Core.job[c]).seq = Core.job[c].seq
        BY <1>3, <1>5, GrantedJobs
    <2> QED BY <2>1, <2>2 DEF Core
<1>7. \A j \in JobIds : /\ Known(t, j) <=> Known(Core, j)
                        /\ Known(Core, j) => t.job[j].seq = Core.job[j].seq
    <2> SUFFICES ASSUME NEW j \in JobIds
                 PROVE  /\ Known(t, j) <=> Known(Core, j)
                        /\ Known(Core, j) => t.job[j].seq = Core.job[j].seq
        OBVIOUS
    <2>1. CASE j = c
        BY <2>1, <1>5, <1>6 DEF Known, Core
    <2>2. CASE j # c
        BY <2>2, <1>6 DEF Known, Core
    <2> QED BY <2>1, <2>2
<1>8. Debited(t)
    <2> SUFFICES ASSUME NEW w \in Windows, NEW j \in t.ledger[w] PROVE Known(t, j)
        BY DEF Debited
    <2>1. (j = c \/ j \in ledger[w]) /\ j \in JobIds
        BY <1>2, FieldsOfStates DEF Charged, Core, Safe
    <2>2. Known(Core, j)
        BY <2>1, <1>1, <1>5 DEF Debited, Core
    <2> QED BY <2>1, <2>2, <1>7
<1>9. Numbered(t, nextJob)
    BY <1>1, <1>7 DEF Numbered
<1>10. Safe(Core)' /\ Debited(Core)' /\ Numbered(Core, nextJob)'
    BY ZenonT(60), <1>1, <1>2, <1>4, <1>8, <1>9 DEF Safe, Debited, Numbered,
       SeqsOk, PendingOk, LocksOk, RefsOk, KeysOk
<1>11. QueueInv'
    BY <1>1, <1>10 DEF QueueInv
<1>12. \A j \in JobIds : GrantedNow(j) => j = c
    BY <1>4, <1>6 DEF GrantedNow, Waiting, Core
<1> QED BY <1>2, <1>3, <1>4, <1>11, <1>12 DEF c

LEMMA TickKeepsTheQueues ==
    ASSUME QueueInv, Tick
    PROVE  /\ QueueInv' /\ GrantsNothing /\ Install(Ticked)
           /\ \A c \in Scopes : /\ penalty'[c] = Less(penalty[c])
                                /\ penalty'[c] < penalty[c] => penalty'[c] = penalty[c] - 1
<1> DEFINE t == Ticked
<1>1. Safe(Core) /\ phase = "asleep" /\ cands = {}
    BY DEF QueueInv, Tick
<1>2. Safe(t) /\ Gentle(Core, t)
    BY <1>1, TickingIsSafe
<1>3. Install(t)
    BY DEF Tick, Ticked, Install
<1>4. \A w \in Windows : t.ledger[w] \subseteq ledger[w]
    BY DEF Ticked
<1>5. \A c \in Scopes : /\ penalty'[c] = Less(penalty[c]) /\ penalty'[c] \in Nat
                        /\ penalty'[c] < penalty[c] => penalty'[c] = penalty[c] - 1
    <2> SUFFICES ASSUME NEW c \in Scopes
                 PROVE  /\ penalty'[c] = Less(penalty[c]) /\ penalty'[c] \in Nat
                        /\ penalty'[c] < penalty[c] => penalty'[c] = penalty[c] - 1
        OBVIOUS
    <2>1. penalty[c] \in Nat /\ penalty'[c] = Less(penalty[c])
        BY DEF Tick, QueueInv
    <2> DEFINE n == penalty[c]
    <2>2. Less(n) \in Nat /\ Less(n) = IF n = 0 THEN 0 ELSE n - 1
        BY <2>1, LessIsLess
    <2> QED BY <2>1, <2>2
<1>6. Bookkeeping
    <2>1. penalty' = [c \in Scopes |-> Less(penalty[c])]
        BY DEF Tick
    <2>2. penalty' \in [Scopes -> Nat]
        BY <2>1, <1>5
    <2>3. phase' \in {"asleep", "due"} /\ cands' = {}
        BY <1>1 DEF Tick
    <2>4. limits' = limits /\ nextJob' = nextJob
        BY DEF Tick
    <2> QED BY <2>2, <2>3, <2>4 DEF Bookkeeping, QueueInv
<1>7. QueueInv' /\ GrantsNothing
    <2> HIDE DEF t
    <2> QED BY <1>2, <1>3, <1>4, <1>6, GentleStepsKeepTheInvariant
<1> QED BY <1>3, <1>5, <1>7

\* Every step keeps the invariant, and only Grant grants.
LEMMA StepsKeepTheQueues ==
    ASSUME QueueInv, [Next]_vars
    PROVE  QueueInv' /\ (GrantsNothing \/ Grant)
<1>1. ASSUME NEW m \in Metas, NEW d \in NotBefores \cup {NotDelayed}, Enqueue(m, d)
      PROVE  QueueInv' /\ GrantsNothing
    BY <1>1, EnqueueKeepsTheQueues
<1>2. ASSUME NEW j \in JobIds, Cancel(j) \/ Start(j) \/ Complete(j) \/ CompleteNoRequest(j)
      PROVE  QueueInv' /\ GrantsNothing
    BY <1>2, CommandsKeepTheQueues
<1>3. ASSUME NEW c \in Scopes, NEW d \in RetryAfters,
             Penalize(c, d) \/ \E j \in JobIds : CompleteRetryAfter(j, c, d)
      PROVE  QueueInv' /\ GrantsNothing
    BY <1>3, FreezesKeepTheQueues
<1>4. ASSUME NEW new \in LimitSets, SetLimits(new) \/ SetClassLimits(new)
      PROVE  QueueInv' /\ GrantsNothing
    BY <1>4, NewLimitsKeepTheQueues
<1>5. CASE Query
    BY <1>5, QueriesKeepTheQueues
<1>6. CASE BeginPass \/ Rekey \/ Park \/ Pause \/ Sleep \/ EndPass
    BY <1>6, PassesKeepTheQueues
<1>7. CASE Grant
    BY <1>7, GrantKeepsTheQueues
<1>8. CASE Tick
    BY <1>8, TickKeepsTheQueues
<1>9. CASE UNCHANGED vars
    <2>1. Core' = Core /\ job' = job
        BY <1>9 DEF vars, Core
    <2>2. QueueInv'
        BY <1>9, <2>1 DEF vars, QueueInv, Safe, Debited, Numbered,
           SeqsOk, PendingOk, LocksOk, RefsOk, KeysOk
    <2> QED BY <2>1, <2>2 DEF GrantsNothing
<1> QED BY <1>1, <1>2, <1>3, <1>4, <1>5, <1>6, <1>7, <1>8, <1>9 DEF Next, Pass

------------------------------------------------------------------------------
\* Theorems

\* The queues, lanes, reservations and heaps agree in every reachable state:
\* every waiting job of a lane is in its queue, a key names a job that waits or
\* a lane that had it, and a reference parked, blocked or reserving is a lane or
\* a job without one.
THEOREM QueuesAgree == Spec => []QueueInv
<1>1. Init => QueueInv
    BY InitKeepsTheQueues
<1>2. QueueInv /\ [Next]_vars => QueueInv'
    BY StepsKeepTheQueues
<1> QED BY <1>1, <1>2, PTL DEF Spec

\* A Serial or OrderedStart lane is locked by exactly the job that holds it, and
\* is free when no job does: complete, start, cancel, replacements and a pass
\* leave no lock behind and lose none.
THEOREM LocksAreAlwaysHeld == Spec => []LocksAreHeld
<1>1. QueueInv => LocksAreHeld
    <2> SUFFICES ASSUME QueueInv, NEW l \in Lanes \ Bounded
                 PROVE  Occupants(l) = IF lane[l].holder = NoJob THEN {} ELSE {lane[l].holder}
        BY DEF LocksAreHeld
    <2>1. Occupants(l) = Occupying(Core, l)
        BY DEF Occupants, Occupying, Flying, Core
    <2>2. Occupying(Core, l) = IF lane[l].holder = NoJob THEN {} ELSE {lane[l].holder}
        BY DEF QueueInv, Safe, LocksOk, Core
    <2> QED BY <2>1, <2>2
<1> QED BY <1>1, QueuesAgree, PTL

\* Lanes are first in, first out: grant_ready takes the head of a lane, whatever
\* the priorities, delays, replacements and cancels were.
THEOREM LanesAreFifo == Spec => LaneFifo
<1>1. ASSUME QueueInv, [Next]_vars, NEW i \in JobIds, NEW j \in JobIds,
             GrantedNow(j), Waiting(Core, i), i # j,
             job[j].meta.lane # NoLane, job[i].meta.lane = job[j].meta.lane
      PROVE  job[j].seq < job[i].seq
    <2>1. Grant
        <3>1. ~GrantsNothing
            BY <1>1 DEF GrantedNow, GrantsNothing, Waiting, Core
        <3> QED BY <3>1, <1>1, StepsKeepTheQueues
    <2>2. j = Candidate
        BY <2>1, <1>1, GrantKeepsTheQueues
    <2>3. Safe(Core) /\ cands # {} /\ Grantable(Popped) # {}
        BY <2>1, <1>1 DEF QueueInv, Grant, Considering
    <2> QED BY <2>2, <2>3, <1>1, CandidateIsFirst
<1>2. QueueInv /\ [Next]_vars =>
        [\A i, j \in JobIds :
            (/\ GrantedNow(j) /\ Waiting(Core, i) /\ i # j
             /\ job[j].meta.lane # NoLane /\ job[i].meta.lane = job[j].meta.lane)
            => job[j].seq < job[i].seq]_vars
    BY <1>1
<1> QED BY <1>2, QueuesAgree, PTL DEF Spec, LaneFifo

\* A reported freeze keeps all grants of its scope until its deadline, and only
\* time shortens it: complete and penalize merge with the longer one, and the
\* admission of grant_ready looks at the scope and at the whole bot.
THEOREM FreezesAreHonoured == Spec => FreezeHonoured
<1>1. ASSUME QueueInv, [Next]_vars, NEW c \in Scopes, penalty'[c] < penalty[c]
      PROVE  phase = "asleep" /\ penalty'[c] = penalty[c] - 1
    <2>0. penalty[c] \in Nat
        BY <1>1 DEF QueueInv
    <2>1. CASE penalty' = penalty
        <3>1. ~(penalty[c] < penalty[c])
            BY <2>0
        <3> QED BY <2>1, <3>1, <1>1
    <2>2. CASE Tick
        BY <2>2, <1>1, TickKeepsTheQueues DEF Tick
    <2>3. ASSUME NEW e \in Scopes, NEW d \in RetryAfters, penalty' = Penalized(e, d)
          PROVE  FALSE
        <3>1. penalty'[c] >= penalty[c] /\ penalty'[c] \in Nat
            BY <2>3, <1>1, PenaltiesAreNumbers
        <3> QED BY <3>1, <2>0, <1>1
    <2>4. \/ penalty' = penalty \/ Tick
          \/ \E e \in Scopes, d \in RetryAfters : penalty' = Penalized(e, d)
        BY <1>1 DEF Next, Pass, vars, Enqueue, Cancel, Start, Complete, CompleteNoRequest,
           CompleteRetryAfter, Penalize, SetLimits, SetClassLimits, ReplaceLimits, Query,
           BeginPass, Rekey, Park, Pause, Sleep, Grant, EndPass, Considering
    <2> QED BY <2>1, <2>2, <2>3, <2>4
<1>2. ASSUME QueueInv, [Next]_vars, NEW c \in Scopes, penalty[c] > 0, NEW j \in JobIds,
             GrantedNow(j)
      PROVE  c # NoChat /\ c # job[j].meta.chat
    <2>1. Grant
        <3>1. ~GrantsNothing
            BY <1>2 DEF GrantedNow, GrantsNothing, Waiting, Core
        <3> QED BY <3>1, <1>2, StepsKeepTheQueues
    <2>2. j = Candidate /\ Candidate \in JobIds /\ Waiting(Core, Candidate)
        BY <2>1, <1>2, GrantKeepsTheQueues
    <2>3. /\ Safe(Core) /\ cands # {} /\ Grantable(Popped) # {} /\ limits \in LimitSets
          /\ penalty \in [Scopes -> Nat] /\ ~Paused /\ Until(Selected) = 0 /\ Debited(Core)
        BY <2>1, <1>2 DEF QueueInv, Grant, Considering
    <2>4. /\ Safe(Selected) /\ Selected.job = job /\ Selected.ledger = ledger
        BY <2>3, SelectingIsCalm
    <2>5. Selected \in States /\ Debited(Selected)
        BY <2>3, <2>4 DEF Safe, Debited, Known, Core
    <2>6. Meta \in Metas
        BY <2>3, CandidateIsFirst
    <2>7. 0 >= penalty[NoChat] /\ 0 >= penalty[Meta.chat]
        BY <2>3, <2>5, <2>6, UntilIsTyped
    <2>8. penalty[c] \in Nat
        BY <1>2 DEF QueueInv
    <2>9. c # NoChat /\ c # Meta.chat
        BY <2>7, <2>8, <1>2
    <2> QED BY <2>2, <2>9 DEF Meta
<1>3. QueueInv /\ [Next]_vars =>
        [\A c \in Scopes :
            /\ penalty'[c] < penalty[c] => phase = "asleep" /\ penalty'[c] = penalty[c] - 1
            /\ penalty[c] > 0 => \A j \in JobIds :
                GrantedNow(j) => c # NoChat /\ c # job[j].meta.chat]_vars
    BY <1>1, <1>2
<1> QED BY <1>3, QueuesAgree, PTL DEF Spec, FreezeHonoured

=============================================================================
