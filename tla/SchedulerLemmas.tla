-------------------------- MODULE SchedulerLemmas --------------------------
(***************************************************************************)
(* What the operators of OutboundScheduler return and preserve: least and  *)
(* greatest numbers, the first job of a set, pushes into the candidate     *)
(* heap.  The theorems of the scheduler rest on these facts.               *)
(***************************************************************************)
EXTENDS OutboundScheduler, FiniteSetTheorems, SequenceTheorems, WellFoundedInduction,
        TLAPS

------------------------------------------------------------------------------
\* Least and greatest numbers

\* A set of naturals with a member has a least one.
LEMMA LeastExists ==
    ASSUME NEW S \in SUBSET Nat, S # {}
    PROVE  \E x \in S : \A y \in S : x <= y
<1> DEFINE R == {ss \in Nat \X Nat : ss[1] < ss[2]}
<1>1. IsWellFoundedOn(R, Nat)
    BY NatLessThanWellFounded DEF OpToRel
<1>2. PICK x \in S : \A y \in S : <<y, x>> \notin R
    BY <1>1, WFMin
<1>3. \A y \in S : ~(y < x)
    BY <1>2
<1>4. x \in Nat /\ \A y \in S : y \in Nat
    OBVIOUS
<1>5. \A y \in S : x <= y
    BY <1>3, <1>4
<1> QED BY <1>5

\* Min of such a set is its least member.
LEMMA MinIsLeast ==
    ASSUME NEW S \in SUBSET Nat, S # {}
    PROVE  Min(S) \in S /\ \A y \in S : Min(S) <= y
BY LeastExists DEF Min

\* A finite set of naturals with a member has a greatest one.
LEMMA GreatestExists ==
    ASSUME NEW S \in SUBSET Nat, S # {}, IsFiniteSet(S)
    PROVE  \E x \in S : \A y \in S : x >= y
<1> DEFINE Fails(Q) == Q # {} /\ ~\E x \in Q : \A y \in Q : x >= y
           T == {Q \in FiniteSubsetsOf(S) : Fails(Q)}
<1>1. SUFFICES ASSUME T # {} PROVE FALSE
    BY FS_FiniteSubsetsOfFinite DEF FiniteSubsetsOf
<1>2. PICK Q \in T : \A P \in T : <<P, Q>> \notin StrictSubsetOrdering(S)
    <2>1. IsWellFoundedOn(StrictSubsetOrdering(S), FiniteSubsetsOf(S))
        BY FS_StrictSubsetOrderingWellFounded
    <2> HIDE DEF Fails
    <2>2. T \subseteq FiniteSubsetsOf(S)
        OBVIOUS
    <2> HIDE DEF T
    <2> QED BY <1>1, <2>1, <2>2, WFMin
<1>3. Q \in SUBSET S /\ Fails(Q)
    BY DEF FiniteSubsetsOf
<1>4. PICK x \in Q : TRUE
    BY <1>3
<1>5. (Q \ {x}) \in FiniteSubsetsOf(S)
    BY <1>3, FS_Subset DEF FiniteSubsetsOf
<1>6. <<Q \ {x}, Q>> \in StrictSubsetOrdering(S)
    BY <1>3, <1>4 DEF StrictSubsetOrdering
<1>7. ~Fails(Q \ {x})
    BY <1>2, <1>5, <1>6
<1>8. CASE Q \ {x} = {}
    BY <1>3, <1>4, <1>8
<1>9. CASE Q \ {x} # {}
    <2>1. PICK m \in Q \ {x} : \A y \in Q \ {x} : m >= y
        BY <1>7, <1>9
    <2>2. m \in Nat /\ x \in Nat /\ \A y \in Q : y \in Nat
        BY <1>3, <1>4
    <2>3. CASE m >= x
        BY <2>1, <2>2, <2>3, <1>3
    <2>4. CASE x >= m
        <3>1. \A y \in Q : x >= y
            BY <2>1, <2>2, <2>4
        <3> QED BY <3>1, <1>3, <1>4
    <2> QED BY <2>2, <2>3, <2>4
<1> QED BY <1>8, <1>9

\* Max of such a set is its greatest member.
LEMMA MaxIsGreatest ==
    ASSUME NEW S \in SUBSET Nat, S # {}, IsFiniteSet(S)
    PROVE  Max(S) \in S /\ \A y \in S : Max(S) >= y
BY GreatestExists DEF Max

\* Max and Min of two numbers.
LEMMA MaxOfTwo ==
    ASSUME NEW a \in Int, NEW b \in Int
    PROVE  Max({a, b}) = IF a >= b THEN a ELSE b
BY DEF Max

LEMMA MinOfTwo ==
    ASSUME NEW a \in Int, NEW b \in Int
    PROVE  Min({a, b}) = IF a <= b THEN a ELSE b
BY DEF Min

------------------------------------------------------------------------------
\* The states that the methods of SchedulerState pass around

Refs == JobIds \cup Lanes
Known(s, j) == s.job[j].st # "none"

UsedRecords == JobRecords \ {NeverUsed}
LaneRecords == [pending : SUBSET JobIds, holder : JobIds \cup {NoJob}, count : Nat,
                queued : BOOLEAN]
HoldRecords == [on : BOOLEAN, owner : Refs \cup {NoRef}, in : Nat, queue : Seq(Refs),
                stale : Nat]
Keys == [ref : Refs, eff : 0 .. Highest, seq : Nat]
Nodes == [ref : Refs, in : Nat, permanent : BOOLEAN]

States == [job : [JobIds -> JobRecords], lane : [Lanes -> LaneRecords],
           cands : SUBSET Keys, blocked : SUBSET Nodes,
           hold : [Windows -> HoldRecords], ledger : [Windows -> SUBSET JobIds]]

\* A state has the fields of a state.
LEMMA FieldsOfStates ==
    ASSUME NEW s \in States
    PROVE  /\ s.job \in [JobIds -> JobRecords] /\ s.lane \in [Lanes -> LaneRecords]
           /\ s.cands \subseteq Keys /\ s.blocked \subseteq Nodes
           /\ s.hold \in [Windows -> HoldRecords]
           /\ s.ledger \in [Windows -> SUBSET JobIds]
BY DEF States

\* A job that is known has the fields of a job.
LEMMA FieldsOfJobs ==
    ASSUME NEW s \in States, NEW j \in JobIds, Known(s, j)
    PROVE  /\ s.job[j] \in [st : {"waiting", "granted", "started", "done", "cancelled"},
                            meta : Metas, seq : JobIds, age : 0 .. Highest * Quantum,
                            delay : {NotDelayed} \cup Nat, owns : Windows \cup {NoWindow},
                            ago : 0 .. MaxLen, spent : BOOLEAN]
           /\ s.job[j].seq \in Nat /\ s.job[j].age \in Nat /\ s.job[j].meta \in Metas
           /\ s.job[j].seq \in JobIds
<1>1. s.job[j] \in JobRecords
    BY FieldsOfStates
<1>2. s.job[j] # NeverUsed
    BY DEF Known, NeverUsed
<1>3. s.job[j].age \in 0 .. Highest * Quantum /\ s.job[j].seq \in JobIds
    BY <1>1, <1>2 DEF JobRecords
<1>4. Highest * Quantum \in Int
    BY Sizes
<1> QED BY <1>1, <1>2, <1>3, <1>4, Sizes DEF JobRecords, JobIds

LEMMA FieldsOfRequests ==
    ASSUME NEW m \in Metas
    PROVE  /\ m.weight \in Nat \ {0} /\ m.prio \in Nat
           /\ m.chat \in Scopes /\ m.class \in Classes
           /\ m.lane \in Lanes \cup {NoLane}
BY RequestsAreTyped, Sizes

\* The effective priority is a number, so the key of a known job is a key.
LEMMA EffectiveIsTyped ==
    ASSUME NEW s \in States, NEW j \in JobIds, Known(s, j)
    PROVE  Effective(s.job[j]) \in 0 .. Highest
<1>1. s.job[j].age \in Nat /\ s.job[j].meta.prio \in Nat
    BY FieldsOfJobs, FieldsOfRequests
<1>2. s.job[j].age \div Quantum \in Nat
    BY <1>1, Sizes
<1>3. s.job[j].meta.prio + (s.job[j].age \div Quantum) \in Nat
    BY <1>1, <1>2
<1> HIDE <1>1, <1>2
<1> QED BY <1>3, Sizes, MinOfTwo DEF Effective

LEMMA KeyIsTyped ==
    ASSUME NEW s \in States, NEW j \in JobIds, Known(s, j), NEW ref \in Refs
    PROVE  Key(s, ref, j) \in Keys
BY EffectiveIsTyped, FieldsOfJobs DEF Key, Keys

\* First is the one member that comes before all the others.
LEMMA FirstComesFirst ==
    ASSUME NEW s \in States, NEW S \in SUBSET JobIds, S # {}, \A j \in S : Known(s, j)
    PROVE  /\ First(s, S) \in S
           /\ \A i \in S \ {First(s, S)} : Before(s, First(s, S), i)
<1>1. \A j \in S : s.job[j].seq \in Nat /\ j \in Nat
    <2>1. \A j \in S : s.job[j].seq \in Nat
        BY FieldsOfJobs
    <2>2. \A j \in S : j \in Nat
        BY Sizes DEF JobIds
    <2> QED BY <2>1, <2>2
<1> DEFINE Seqs == {s.job[j].seq : j \in S}
<1>2. PICK n \in Seqs : \A m \in Seqs : n <= m
    <2>1. Seqs \in SUBSET Nat /\ Seqs # {}
        BY <1>1
    <2> HIDE DEF Seqs
    <2> QED BY <2>1, LeastExists
<1> DEFINE Oldest == {j \in S : s.job[j].seq = n}
<1>3. PICK f \in Oldest : \A i \in Oldest : f <= i
    <2>1. Oldest \in SUBSET Nat /\ Oldest # {}
        BY <1>1, <1>2
    <2> HIDE DEF Oldest
    <2> QED BY <2>1, LeastExists
<1>4. \A i \in S \ {f} : Before(s, f, i)
    <2> SUFFICES ASSUME NEW i \in S \ {f} PROVE Before(s, f, i)
        OBVIOUS
    <2>1. n <= s.job[i].seq /\ s.job[f].seq = n /\ n \in Nat
        BY <1>1, <1>2, <1>3
    <2>2. CASE s.job[i].seq = n
        BY <2>2, <1>1, <1>3, <2>1 DEF Before
    <2>3. CASE s.job[i].seq # n
        BY <2>1, <2>3, <1>1 DEF Before
    <2> QED BY <2>2, <2>3
<1> QED BY <1>4 DEF First

LEMMA BeforeIsAnOrder ==
    ASSUME NEW s \in States, NEW i \in JobIds, NEW j \in JobIds, Known(s, i), Known(s, j)
    PROVE  /\ ~(Before(s, i, j) /\ Before(s, j, i))
           /\ i # j => Before(s, i, j) \/ Before(s, j, i)
<1>1. s.job[i].seq \in Nat /\ s.job[j].seq \in Nat
    BY FieldsOfJobs
<1>2. i \in Nat /\ j \in Nat
    BY Sizes DEF JobIds
<1> QED BY <1>1, <1>2 DEF Before

LEMMA FirstIsUnique ==
    ASSUME NEW s \in States, NEW S \in SUBSET JobIds, \A j \in S : Known(s, j),
           NEW f \in S, \A i \in S \ {f} : Before(s, f, i)
    PROVE  First(s, S) = f
<1>1. First(s, S) \in S /\ \A i \in S \ {First(s, S)} : Before(s, First(s, S), i)
    BY FirstComesFirst
<1>2. ~(Before(s, f, First(s, S)) /\ Before(s, First(s, S), f))
    BY <1>1, BeforeIsAnOrder
<1> QED BY <1>1, <1>2

------------------------------------------------------------------------------
\* Pushes

HeadOf(s, l) == First(s, Live(s, l))

\* Lane l has a ready head, room for it and no deadline to wait for.
Ready(s, l) ==
    /\ HasCapacity(s, l) /\ ~IsBlocked(s, l) /\ Live(s, l) # {}
    /\ ~(s.job[HeadOf(s, l)].delay > 0)

\* What a push of lane l may do to it: nothing, remove the lane, or drop dead
\* entries and mark the lane as queued.
PushedLane(s, t, l) ==
    \/ t.lane[l] = s.lane[l]
    \/ /\ HasCapacity(s, l) /\ ~IsBlocked(s, l) /\ Live(s, l) = {}
       /\ t.lane[l] = NewLane
    \/ /\ HasCapacity(s, l) /\ ~IsBlocked(s, l) /\ Live(s, l) # {}
       /\ t.lane[l].holder = s.lane[l].holder /\ t.lane[l].count = s.lane[l].count
       /\ Live(s, l) \subseteq t.lane[l].pending
       /\ t.lane[l].pending \subseteq s.lane[l].pending
       /\ s.lane[l].queued => t.lane[l].queued

\* The keys that a push may add.
PushedKey(s, k) ==
    IF k.ref \in Lanes
    THEN Ready(s, k.ref) /\ ~s.lane[k.ref].queued /\ k = Key(s, k.ref, HeadOf(s, k.ref))
    ELSE Waiting(s, k.ref) /\ k = Key(s, k.ref, k.ref)

\* State t is state s after pushes of the references refs.
Pushed(s, t, refs) ==
    /\ t \in States
    /\ t.job = s.job /\ t.blocked = s.blocked /\ t.hold = s.hold /\ t.ledger = s.ledger
    /\ \A l \in Lanes : PushedLane(s, t, l)
    /\ \A l \in Lanes \ refs : t.lane[l] = s.lane[l]
    /\ s.cands \subseteq t.cands
    /\ \A k \in t.cands \ s.cands : k.ref \in refs /\ PushedKey(s, k)
    /\ \A l \in Lanes \cap refs : Ready(s, l) => t.lane[l].queued
    /\ \A l \in Lanes : t.lane[l].queued /\ ~s.lane[l].queued =>
          \E k \in t.cands : k.ref = l
    /\ \A ref \in refs \ Lanes : Waiting(s, ref) => Key(s, ref, ref) \in t.cands

PendingKnown(s) == \A l \in Lanes : \A j \in s.lane[l].pending : Known(s, j)

\* The live jobs of a lane are known jobs, so a lane with one has a head.
LEMMA LiveJobsAreKnown ==
    ASSUME NEW s \in States, NEW l \in Lanes
    PROVE  /\ Live(s, l) \in SUBSET JobIds /\ \A j \in Live(s, l) : Known(s, j)
           /\ Live(s, l) # {} => HeadOf(s, l) \in Live(s, l)
<1>1. s.lane[l].pending \in SUBSET JobIds
    BY FieldsOfStates DEF LaneRecords
<1>2. Live(s, l) \in SUBSET JobIds /\ \A j \in Live(s, l) : Known(s, j)
    BY <1>1 DEF Live, Known, Waiting
<1> QED BY <1>2, FirstComesFirst DEF HeadOf

\* A drained lane has lost dead entries only, and its first entry is its head.
LEMMA DrainedLane ==
    ASSUME NEW s \in States, PendingKnown(s), NEW l \in Lanes, Live(s, l) # {}
    PROVE  LET d == Drain(s, l) IN
           /\ d \in States
           /\ d = [s EXCEPT !.lane[l].pending = d.lane[l].pending]
           /\ d.lane = [s.lane EXCEPT ![l].pending = d.lane[l].pending]
           /\ Live(s, l) \subseteq d.lane[l].pending
           /\ d.lane[l].pending \subseteq s.lane[l].pending
           /\ First(d, d.lane[l].pending) = HeadOf(s, l)
<1> DEFINE d == Drain(s, l)
           D == {j \in s.lane[l].pending :
                    Live(s, l) # {} /\ ~Before(s, j, First(s, Live(s, l)))}
           f == First(s, Live(s, l))
<1>1. s.lane \in [Lanes -> LaneRecords] /\ s.lane[l] \in LaneRecords
    BY FieldsOfStates
<1>2. s.lane[l].pending \in SUBSET JobIds /\ D \in SUBSET JobIds
    BY <1>1 DEF LaneRecords
<1>3. d = [s EXCEPT !.lane[l].pending = D]
    BY DEF Drain
<1>4. s = [job |-> s.job, lane |-> s.lane, cands |-> s.cands, blocked |-> s.blocked,
           hold |-> s.hold, ledger |-> s.ledger]
    BY DEF States
<1> HIDE DEF D
<1>5. [s.lane EXCEPT ![l].pending = D] \in [Lanes -> LaneRecords]
    BY <1>1, <1>2 DEF LaneRecords
<1>6. d.lane = [s.lane EXCEPT ![l].pending = D] /\ d.job = s.job
    BY <1>3, <1>4
<1>7. d \in States
    BY <1>3, <1>5 DEF States
<1>8. d.lane[l].pending = D
    BY <1>1, <1>6 DEF LaneRecords
<1>9. f \in Live(s, l) /\ \A i \in Live(s, l) \ {f} : Before(s, f, i)
    BY LiveJobsAreKnown, FirstComesFirst
<1>10. \A j \in s.lane[l].pending : Known(s, j) /\ j \in JobIds
    BY <1>2 DEF PendingKnown
<1>11. Live(s, l) \subseteq s.lane[l].pending
    BY DEF Live
<1>12. f \in D /\ Live(s, l) \subseteq D
    <2>1. \A i \in Live(s, l) : ~Before(s, i, f)
        BY <1>9, <1>10, <1>11, BeforeIsAnOrder
    <2> QED BY <2>1, <1>9, <1>11 DEF D
<1>13. \A i \in D \ {f} : Before(s, f, i)
    <2> SUFFICES ASSUME NEW i \in D \ {f} PROVE Before(s, f, i)
        OBVIOUS
    <2>1. i \in s.lane[l].pending /\ ~Before(s, i, f)
        BY DEF D
    <2> HIDE DEF f
    <2> QED BY <2>1, <1>9, <1>10, <1>11, BeforeIsAnOrder
<1>14. First(d, D) = f
    <2>1. First(s, D) = f
        <3>1. \A j \in D : Known(s, j)
            BY <1>10 DEF D
        <3> HIDE DEF f
        <3> QED BY <3>1, <1>2, <1>12, <1>13, FirstIsUnique
    <2>2. First(d, D) = First(s, D)
        BY <1>6 DEF First, Before
    <2> QED BY <2>1, <2>2
<1>15. D \subseteq s.lane[l].pending
    BY DEF D
<1> HIDE DEF d
<1> QED BY <1>3, <1>6, <1>7, <1>8, <1>12, <1>14, <1>15 DEF HeadOf, d

\* The states that the pushes build are states.
LEMMA StateWithLane ==
    ASSUME NEW s \in States, NEW l \in Lanes, NEW r \in LaneRecords
    PROVE  /\ [s EXCEPT !.lane[l] = r] \in States
           /\ [s EXCEPT !.lane[l] = r].lane = [s.lane EXCEPT ![l] = r]
           /\ [s EXCEPT !.lane[l] = r].lane[l] = r
           /\ \A m \in Lanes \ {l} : [s EXCEPT !.lane[l] = r].lane[m] = s.lane[m]
<1>1. s.lane \in [Lanes -> LaneRecords]
    BY FieldsOfStates
<1>2. [s.lane EXCEPT ![l] = r] \in [Lanes -> LaneRecords]
    BY <1>1
<1>3. [s EXCEPT !.lane[l] = r] = [s EXCEPT !.lane = [s.lane EXCEPT ![l] = r]]
    BY DEF States
<1>4. [s EXCEPT !.lane[l] = r].lane = [s.lane EXCEPT ![l] = r]
    BY DEF States
<1> QED BY <1>1, <1>2, <1>3, <1>4 DEF States

LEMMA NewLaneIsALane == NewLane \in LaneRecords
BY DEF NewLane, LaneRecords, NoJob

\* A lane without a live job is removed when it is pushed.
LEMMA PushOfDeadLane ==
    ASSUME NEW s \in States, NEW l \in Lanes,
           HasCapacity(s, l), ~IsBlocked(s, l), Live(s, l) = {}
    PROVE  Pushed(s, PushLane(s, l), {l})
<1> DEFINE t == [s EXCEPT !.lane[l] = NewLane]
<1>1. PushLane(s, l) = t
    BY DEF PushLane
<1>2. t \in States /\ t.lane[l] = NewLane /\ \A m \in Lanes \ {l} : t.lane[m] = s.lane[m]
    BY StateWithLane, NewLaneIsALane
<1>3. /\ t.job = s.job /\ t.blocked = s.blocked /\ t.hold = s.hold
      /\ t.ledger = s.ledger /\ t.cands = s.cands
    BY DEF States
<1> HIDE DEF t
<1>4. \A m \in Lanes : PushedLane(s, t, m)
    BY <1>2 DEF PushedLane
<1>5. ~Ready(s, l) /\ ~t.lane[l].queued
    BY <1>2 DEF Ready, NewLane
<1> QED BY <1>1, <1>2, <1>3, <1>4, <1>5 DEF Pushed

\* A lane with a live head is drained; if the head is ready and the lane has
\* no key yet, it gets the key of its head.
LEMMA PushOfLiveLane ==
    ASSUME NEW s \in States, PendingKnown(s), NEW l \in Lanes,
           HasCapacity(s, l), ~IsBlocked(s, l), Live(s, l) # {}
    PROVE  Pushed(s, PushLane(s, l), {l})
<1> DEFINE d == Drain(s, l)
           f == HeadOf(s, l)
           k == Key(s, l, f)
           q == [d EXCEPT !.lane[l].queued = TRUE, !.cands = @ \cup {k}]
<1>1. /\ d \in States
      /\ d = [s EXCEPT !.lane[l].pending = d.lane[l].pending]
      /\ d.lane = [s.lane EXCEPT ![l].pending = d.lane[l].pending]
      /\ Live(s, l) \subseteq d.lane[l].pending
      /\ d.lane[l].pending \subseteq s.lane[l].pending
      /\ First(d, d.lane[l].pending) = f
    BY DrainedLane
<1> HIDE DEF d, f
<1>2. /\ d.job = s.job /\ d.blocked = s.blocked /\ d.hold = s.hold
      /\ d.ledger = s.ledger /\ d.cands = s.cands
    BY <1>1 DEF States
<1>3. s.lane \in [Lanes -> LaneRecords] /\ s.lane[l] \in LaneRecords
    BY FieldsOfStates
<1>4. /\ \A m \in Lanes \ {l} : d.lane[m] = s.lane[m]
      /\ d.lane[l].holder = s.lane[l].holder /\ d.lane[l].count = s.lane[l].count
      /\ d.lane[l].queued = s.lane[l].queued
    BY <1>1, <1>3 DEF LaneRecords
<1>5. PushLane(s, l) = IF s.job[f].delay > 0 \/ s.lane[l].queued THEN d ELSE q
    <2>1. PushLane(s, l) = PushHead(d, l)
        BY DEF PushLane, d
    <2>2. Key(d, l, f) = k
        BY <1>2 DEF Key
    <2> QED BY <2>1, <2>2, <1>1, <1>2, <1>4 DEF PushHead
<1>6. f \in JobIds /\ Known(s, f) /\ f \in Live(s, l)
    BY LiveJobsAreKnown DEF f
<1>7. Pushed(s, d, {l}) \/ (Ready(s, l) /\ ~s.lane[l].queued)
    <2>1. \A m \in Lanes : PushedLane(s, d, m)
        BY <1>1, <1>4 DEF PushedLane
    <2>2. s.lane[l].queued \in BOOLEAN
        BY <1>3 DEF LaneRecords
    <2> QED BY <2>1, <2>2, <1>1, <1>2, <1>4 DEF Pushed
<1>8. CASE s.job[f].delay > 0 \/ s.lane[l].queued
    BY <1>5, <1>7, <1>8 DEF Ready, f
<1>9. CASE ~(s.job[f].delay > 0 \/ s.lane[l].queued)
    <2>1. k \in Keys
        BY <1>6, KeyIsTyped DEF Refs
    <2> HIDE DEF k
    <2>2. d.lane[l] \in LaneRecords /\ d.cands \subseteq Keys
        BY <1>1, FieldsOfStates
    <2> DEFINE r == [d.lane[l] EXCEPT !.queued = TRUE]
    <2>3. r \in LaneRecords /\ r.queued /\ r.pending = d.lane[l].pending
          /\ r.holder = d.lane[l].holder /\ r.count = d.lane[l].count
        BY <2>2 DEF LaneRecords
    <2> HIDE DEF r
    <2> DEFINE e == [d EXCEPT !.lane[l] = r]
    <2>4. e \in States /\ e.lane[l] = r /\ \A m \in Lanes \ {l} : e.lane[m] = d.lane[m]
        BY <1>1, <2>3, StateWithLane
    <2>5. q = [e EXCEPT !.cands = d.cands \cup {k}]
        BY <1>1 DEF States, r
    <2>6. e.job = d.job /\ e.blocked = d.blocked /\ e.hold = d.hold /\ e.ledger = d.ledger
        BY <1>1 DEF States
    <2> HIDE DEF e
    <2>7. /\ q.job = s.job /\ q.blocked = s.blocked /\ q.hold = s.hold
          /\ q.ledger = s.ledger /\ q.cands = s.cands \cup {k} /\ q.lane = e.lane
          /\ q \in States
        BY <2>1, <2>2, <2>4, <2>5, <2>6, <1>2 DEF States
    <2> HIDE DEF q
    <2>8. \A m \in Lanes : PushedLane(s, q, m)
        BY <2>3, <2>4, <2>7, <1>1, <1>4 DEF PushedLane
    <2>9. k.ref = l /\ PushedKey(s, k)
        <3>1. k = Key(s, l, HeadOf(s, l)) /\ k.ref = l
            BY DEF k, Key, f
        <3>2. Ready(s, l) /\ ~s.lane[l].queued
            BY <1>9 DEF Ready, f
        <3> QED BY <3>1, <3>2 DEF PushedKey
    <2>10. \A m \in Lanes \ {l} : q.lane[m] = s.lane[m]
        BY <2>4, <2>7, <1>4
    <2>11. Pushed(s, q, {l})
        BY <2>3, <2>4, <2>7, <2>8, <2>9, <2>10 DEF Pushed
    <2> QED BY <1>5, <1>9, <2>11
<1> QED BY <1>8, <1>9

LEMMA PushLanePushes ==
    ASSUME NEW s \in States, PendingKnown(s), NEW l \in Lanes
    PROVE  Pushed(s, PushLane(s, l), {l})
<1>1. CASE ~HasCapacity(s, l) \/ IsBlocked(s, l)
    BY <1>1 DEF PushLane, Pushed, PushedLane, Ready
<1>2. CASE HasCapacity(s, l) /\ ~IsBlocked(s, l)
    BY <1>2, PushOfDeadLane, PushOfLiveLane
<1> QED BY <1>1, <1>2

LEMMA PushJobPushes ==
    ASSUME NEW s \in States, NEW j \in JobIds \ Lanes
    PROVE  Pushed(s, PushJob(s, j), {j})
<1> DEFINE k == Key(s, j, j)
<1>1. CASE ~Waiting(s, j)
    BY <1>1 DEF PushJob, Pushed, PushedLane
<1>2. CASE Waiting(s, j)
    <2> DEFINE t == [s EXCEPT !.cands = @ \cup {k}]
    <2>1. PushJob(s, j) = t
        BY <1>2 DEF PushJob
    <2>2. k \in Keys /\ k.ref = j
        <3>1. Known(s, j)
            BY <1>2 DEF Known, Waiting
        <3> QED BY <3>1, KeyIsTyped DEF Refs, Key
    <2>3. PushedKey(s, k)
        BY <1>2, <2>2 DEF PushedKey
    <2>7. k = Key(s, j, j)
        OBVIOUS
    <2> HIDE DEF k
    <2>4. /\ t \in States /\ t.job = s.job /\ t.blocked = s.blocked /\ t.hold = s.hold
          /\ t.ledger = s.ledger /\ t.lane = s.lane /\ t.cands = s.cands \cup {k}
        BY <2>2 DEF States
    <2> HIDE DEF t
    <2>5. \A m \in Lanes : PushedLane(s, t, m)
        BY <2>4 DEF PushedLane
    <2>6. Pushed(s, t, {j})
        BY <2>2, <2>3, <2>4, <2>5, <2>7 DEF Pushed
    <2> QED BY <2>1, <2>6
<1> QED BY <1>1, <1>2

\* A set of references is pushed as if one after the other.
LEMMA PushAllPushes ==
    ASSUME NEW s \in States, PendingKnown(s), NEW refs \in SUBSET Refs
    PROVE  Pushed(s, PushAll(s, refs), refs)
<1> DEFINE One(ref) == Push(s, ref)
           lanes == [l \in Lanes |-> IF l \in refs THEN One(l).lane[l] ELSE s.lane[l]]
           more == UNION {One(ref).cands : ref \in refs}
           t == [s EXCEPT !.lane = lanes, !.cands = s.cands \cup more]
<1>1. PushAll(s, refs) = t
    BY DEF PushAll, States
<1>2. ASSUME NEW ref \in refs PROVE Pushed(s, One(ref), {ref})
    <2>1. CASE ref \in Lanes
        BY <2>1, PushLanePushes DEF Push
    <2>2. CASE ref \notin Lanes
        BY <2>2, PushJobPushes DEF Push, Refs
    <2> QED BY <2>1, <2>2
<1> HIDE DEF One
<1>3. \A ref \in refs : One(ref) \in States
    BY <1>2 DEF Pushed
<1>4. lanes \in [Lanes -> LaneRecords]
    <2>1. \A l \in Lanes : s.lane[l] \in LaneRecords
        BY FieldsOfStates
    <2>2. \A ref \in refs : \A l \in Lanes : One(ref).lane[l] \in LaneRecords
        BY <1>3, FieldsOfStates
    <2> QED BY <2>1, <2>2
<1>5. more \subseteq Keys
    BY <1>3, FieldsOfStates
<1>6. /\ t \in States /\ t.job = s.job /\ t.blocked = s.blocked /\ t.hold = s.hold
      /\ t.ledger = s.ledger /\ t.lane = lanes /\ t.cands = s.cands \cup more
    <2> HIDE DEF lanes, more
    <2> QED BY <1>4, <1>5 DEF States
<1> HIDE DEF t
<1>7. \A l \in Lanes : t.lane[l] = IF l \in refs THEN One(l).lane[l] ELSE s.lane[l]
    BY <1>6
<1>8. \A k \in t.cands \ s.cands : \E ref \in refs : k \in One(ref).cands
    BY <1>6
<1>9. \A ref \in refs : One(ref).cands \subseteq t.cands
    BY <1>6
<1>10. s.cands \subseteq t.cands
    BY <1>6
<1> HIDE DEF lanes, more
<1>11. \A l \in Lanes : PushedLane(s, t, l)
    <2> SUFFICES ASSUME NEW l \in Lanes PROVE PushedLane(s, t, l)
        OBVIOUS
    <2>1. CASE l \in refs
        <3>1. PushedLane(s, One(l), l) /\ t.lane[l] = One(l).lane[l]
            BY <2>1, <1>2, <1>7 DEF Pushed
        <3> QED BY <3>1 DEF PushedLane
    <2>2. CASE l \notin refs
        BY <2>2, <1>7 DEF PushedLane
    <2> QED BY <2>1, <2>2
<1>12. \A k \in t.cands \ s.cands : k.ref \in refs /\ PushedKey(s, k)
    <2> SUFFICES ASSUME NEW k \in t.cands, k \notin s.cands
                 PROVE  k.ref \in refs /\ PushedKey(s, k)
        OBVIOUS
    <2>1. PICK ref \in refs : k \in One(ref).cands
        BY <1>8
    <2>2. Pushed(s, One(ref), {ref})
        BY <1>2
    <2> QED BY <2>1, <2>2 DEF Pushed
<1>13. \A l \in Lanes \cap refs : Ready(s, l) => t.lane[l].queued
    BY <1>2, <1>7 DEF Pushed
<1>14. ASSUME NEW l \in Lanes, t.lane[l].queued, ~s.lane[l].queued
       PROVE  \E k \in t.cands : k.ref = l
    <2>1. l \in refs /\ t.lane[l] = One(l).lane[l]
        BY <1>7, <1>14
    <2>2. \E k \in One(l).cands : k.ref = l
        BY <2>1, <1>2, <1>14 DEF Pushed
    <2> QED BY <2>1, <2>2, <1>9
<1>15. \A ref \in refs \ Lanes : Waiting(s, ref) => Key(s, ref, ref) \in t.cands
    BY <1>2, <1>9 DEF Pushed
<1>16. \A l \in Lanes \ refs : t.lane[l] = s.lane[l]
    BY <1>7
<1>17. Pushed(s, t, refs)
    BY <1>6, <1>10, <1>11, <1>12, <1>13, <1>14, <1>15, <1>16 DEF Pushed
<1> QED BY <1>1, <1>17

------------------------------------------------------------------------------
\* What the queues, lanes and heaps agree on

\* A reference is a lane or a job without one.
RefOk(s, ref) ==
    \/ ref \in Lanes
    \/ ref \in JobIds /\ Known(s, ref) /\ s.job[ref].meta.lane = NoLane

\* A sequence number belongs to one lane, and to one waiting job.
SeqsOk(s) ==
    \A i, j \in JobIds : Known(s, i) /\ Known(s, j) /\ s.job[i].seq = s.job[j].seq
        => /\ s.job[i].meta.lane = s.job[j].meta.lane
           /\ Waiting(s, i) /\ Waiting(s, j) => i = j

\* A lane's queue holds jobs of that lane, every waiting one among them.
PendingOk(s) ==
    /\ \A l \in Lanes : \A j \in s.lane[l].pending :
            Known(s, j) /\ s.job[j].meta.lane = l
    /\ \A j \in JobIds : Waiting(s, j) /\ s.job[j].meta.lane # NoLane
            => j \in s.lane[s.job[j].meta.lane].pending

\* The granted jobs of a lane that have not released it.
Occupying(s, l) == {j \in JobIds : s.job[j].st = "granted" /\ s.job[j].meta.lane = l}

\* A lane of one permit counts it, and its holder is the job that has it.  A
\* bounded lane counts no more permits than are out; it may count fewer, as the
\* lane may have been removed since (PermitsAreBounded).
LocksOk(s) ==
    /\ \A l \in Lanes \ Bounded :
        /\ s.lane[l].count = IF s.lane[l].holder = NoJob THEN 0 ELSE 1
        /\ Occupying(s, l) = IF s.lane[l].holder = NoJob THEN {} ELSE {s.lane[l].holder}
    /\ \A l \in Bounded :
        s.lane[l].count = 0 \/ s.lane[l].count <= Cardinality(Occupying(s, l))

LEMMA OccupantsAreFinite ==
    ASSUME NEW s, NEW l
    PROVE  /\ Occupying(s, l) \in SUBSET JobIds /\ IsFiniteSet(Occupying(s, l))
           /\ Cardinality(Occupying(s, l)) \in Nat
<1>1. IsFiniteSet(JobIds)
    BY Sizes, FS_Interval DEF JobIds
<1>2. Occupying(s, l) \in SUBSET JobIds
    BY DEF Occupying
<1> QED BY <1>1, <1>2, FS_Subset, FS_CardinalityType

\* Nodes and holds name references, and what is parked is parked behind a hold.
RefsOk(s) ==
    /\ \A n \in s.blocked : RefOk(s, n.ref)
    /\ \A w \in Windows : /\ \A i \in DOMAIN s.hold[w].queue : RefOk(s, s.hold[w].queue[i])
                          /\ s.hold[w].on => RefOk(s, s.hold[w].owner)
                          /\ s.hold[w].on \/ DOMAIN s.hold[w].queue = {}

\* A lane's key was made for a job of that lane, a job's key is up to date.
KeyOk(s, k) ==
    IF k.ref \in Lanes
    THEN \E j \in JobIds : Known(s, j) /\ s.job[j].meta.lane = k.ref /\ s.job[j].seq = k.seq
    ELSE /\ k.ref \in JobIds /\ Waiting(s, k.ref) /\ s.job[k.ref].meta.lane = NoLane
         /\ k = Key(s, k.ref, k.ref)
KeysOk(s) == \A k \in s.cands : KeyOk(s, k)

Safe(s) ==
    /\ s \in States
    /\ SeqsOk(s) /\ PendingOk(s) /\ LocksOk(s) /\ RefsOk(s) /\ KeysOk(s)

LEMMA SafeStatesKnowTheirPending ==
    ASSUME NEW s, Safe(s)
    PROVE  s \in States /\ PendingKnown(s)
BY DEF Safe, PendingOk, PendingKnown

\* Pushes keep all of that, if they push references only.
LEMMA PushesAreSafe ==
    ASSUME NEW s, Safe(s), NEW refs \in SUBSET Refs, \A ref \in refs : RefOk(s, ref),
           NEW t, Pushed(s, t, refs)
    PROVE  Safe(t)
<1>1. s \in States /\ t \in States /\ t.job = s.job /\ t.blocked = s.blocked
      /\ t.hold = s.hold
    BY DEF Safe, Pushed
<1>2. \A l \in Lanes : PushedLane(s, t, l)
    BY DEF Pushed
<1>3. SeqsOk(t)
    BY <1>1 DEF Safe, SeqsOk, Known, Waiting
<1>4. \A ref : RefOk(s, ref) => RefOk(t, ref)
    BY <1>1 DEF RefOk, Known
<1>5. RefsOk(t)
    BY <1>1, <1>4 DEF Safe, RefsOk
<1>6. \A l \in Lanes : /\ t.lane[l].pending \subseteq s.lane[l].pending
                      /\ Live(s, l) \subseteq t.lane[l].pending
    BY <1>2 DEF PushedLane, NewLane, Live
<1>7. PendingOk(t)
    <2>1. ASSUME NEW j \in JobIds, Waiting(t, j), t.job[j].meta.lane # NoLane
          PROVE  j \in t.lane[t.job[j].meta.lane].pending
        <3>1. Waiting(s, j) /\ s.job[j].meta.lane = t.job[j].meta.lane
            BY <1>1, <2>1 DEF Waiting
        <3>2. j \in Live(s, s.job[j].meta.lane)
            BY <3>1, <2>1 DEF Safe, PendingOk, Live
        <3>3. s.job[j].meta.lane \in Lanes
            <4>1. s.job[j].meta \in Metas
                BY <3>1, <1>1, FieldsOfJobs DEF Known, Waiting
            <4> QED BY <4>1, <3>1, <2>1, FieldsOfRequests
        <3> QED BY <3>1, <3>2, <3>3, <1>6
    <2>2. \A l \in Lanes : \A j \in t.lane[l].pending : Known(t, j) /\ t.job[j].meta.lane = l
        BY <1>1, <1>6 DEF Safe, PendingOk, Known
    <2> QED BY <2>1, <2>2 DEF PendingOk
<1>8. LocksOk(t)
    <2> SUFFICES ASSUME NEW l \in Lanes
                 PROVE  /\ l \notin Bounded => /\ t.lane[l].count = s.lane[l].count
                                               /\ t.lane[l].holder = s.lane[l].holder
                        /\ t.lane[l].count \in {s.lane[l].count, 0}
        <3>1. \A l : Occupying(t, l) = Occupying(s, l)
            BY <1>1 DEF Occupying
        <3> QED BY <3>1, LaneModes DEF Safe, LocksOk
    <2>1. CASE HasCapacity(s, l) /\ t.lane[l] = NewLane
        <3>1. l \notin Bounded => s.lane[l].holder = NoJob /\ s.lane[l].count = 0
            BY <2>1 DEF HasCapacity, Safe, LocksOk
        <3> QED BY <3>1, <2>1 DEF NewLane
    <2>2. CASE ~(HasCapacity(s, l) /\ t.lane[l] = NewLane)
        BY <2>2, <1>2 DEF PushedLane
    <2> QED BY <2>1, <2>2
<1>9. KeysOk(t)
    <2> SUFFICES ASSUME NEW k \in t.cands PROVE KeyOk(t, k)
        BY DEF KeysOk
    <2>1. KeyOk(s, k) => KeyOk(t, k)
        BY <1>1 DEF KeyOk, Known, Waiting, Key
    <2>2. CASE k \in s.cands
        BY <2>1, <2>2 DEF Safe, KeysOk
    <2>3. CASE k \notin s.cands
        <3>1. k.ref \in refs /\ PushedKey(s, k)
            BY <2>3 DEF Pushed
        <3>2. CASE k.ref \in Lanes
            <4> DEFINE l == k.ref
                       h == HeadOf(s, l)
            <4>1. Live(s, l) # {} /\ k = Key(s, l, h)
                BY <3>1, <3>2 DEF PushedKey, Ready
            <4>2. h \in Live(s, l) /\ h \in JobIds /\ Known(s, h)
                BY <4>1, <3>2, <1>1, LiveJobsAreKnown
            <4>3. k.seq = s.job[h].seq /\ s.job[h].meta.lane = l
                <5>1. s.job[h].meta.lane = l
                    BY <4>2, <3>2 DEF Live, Safe, PendingOk
                <5> HIDE DEF h, l
                <5> QED BY <5>1, <4>1 DEF Key
            <4> QED BY <4>2, <4>3, <3>2, <2>1 DEF KeyOk
        <3>3. CASE k.ref \notin Lanes
            BY <3>1, <3>3, <2>1 DEF PushedKey, RefOk, KeyOk
        <3> QED BY <3>2, <3>3
    <2> QED BY <2>2, <2>3
<1> QED BY <1>1, <1>3, <1>5, <1>7, <1>8, <1>9 DEF Safe
------------------------------------------------------------------------------
\* Rate windows

\* Debits that are over use nothing.
LEMMA NothingIsUsed ==
    ASSUME NEW s, NEW w, NEW len, NEW d, {j \in s.ledger[w] : s.job[j].ago + d < len} = {}
    PROVE  Used(s, w, len, d) = 0
<1> DEFINE S == {j \in s.ledger[w] : s.job[j].ago + d < len}
           Step(g) == [t \in SUBSET S |->
                          IF t = {} THEN 0
                          ELSE LET x == CHOOSE y \in t : TRUE
                               IN  s.job[x].meta.weight + g[t \ {x}]]
           g0 == [t \in SUBSET S |-> 0]
<1>1. \A t \in SUBSET S : t = {}
    OBVIOUS
<1>2. g0 = Step(g0)
    BY <1>1
<1>3. \A g : g = Step(g) => g[S] = 0
    BY <1>1
<1>4. (CHOOSE g : g = Step(g))[S] = 0
    BY <1>2, <1>3
<1> QED BY <1>4 DEF Used, Weighed, MapThenSumSet, MapThenFoldSet

\* The lengths of finitely many limits are finitely many numbers.
LEMMA LengthsAreFinite ==
    ASSUME NEW L, IsFiniteSet(L), \A l \in L : l.len \in Nat
    PROVE  LET T == {l.len : l \in L} \cup {0} IN
           /\ T \in SUBSET Nat /\ IsFiniteSet(T) /\ Max(T) \in Nat
           /\ \A l \in L : l.len <= Max(T)
<1> DEFINE S == {l.len : l \in L}
           T == S \cup {0}
           f == [l \in L |-> l.len]
<1>1. f \in Surjection(L, S)
    BY DEF Surjection
<1>2. IsFiniteSet(S)
    BY <1>1, FS_Surjection
<1>3. IsFiniteSet(T)
    BY <1>2, FS_AddElement
<1>4. T \in SUBSET Nat /\ T # {} /\ \A l \in L : l.len \in T
    OBVIOUS
<1> HIDE DEF T
<1>5. Max(T) \in T /\ \A y \in T : Max(T) >= y
    BY <1>3, <1>4, MaxIsGreatest
<1>6. \A y \in T : y \in Nat
    BY <1>4
<1>7. \A l \in L : l.len <= Max(T)
    BY <1>4, <1>5, <1>6
<1> QED BY <1>3, <1>4, <1>5, <1>6, <1>7 DEF T

\* A window set has a longest window, and so have all that can be configured.
LEMMA LongestIsLongest ==
    ASSUME limits \in LimitSets, NEW w \in Windows
    PROVE  /\ IsFiniteSet(limits[w]) /\ Longest(w) \in Nat
           /\ \A l \in limits[w] : /\ l.cap \in Nat /\ l.len \in Nat \ {0}
                                   /\ l.len <= Longest(w)
<1>1. \A l \in limits[w] : l.cap \in Nat /\ l.len \in Nat \ {0}
    BY LimitsAreTyped
<1>2. IsFiniteSet(limits[w])
    <2>1. limits[w] \subseteq UNION {ls[v] : ls \in LimitSets, v \in Windows}
        OBVIOUS
    <2> QED BY <2>1, LimitsAreTyped, FS_Subset
<1>3. \A l \in limits[w] : l.len \in Nat
    BY <1>1
<1> QED BY <1>1, <1>2, <1>3, LengthsAreFinite DEF Longest

LEMMA MaxLenIsLongest ==
    /\ MaxLen \in Nat
    /\ \A ls \in LimitSets : \A w \in Windows : \A l \in ls[w] : l.len <= MaxLen
<1> DEFINE L == UNION {ls[w] : ls \in LimitSets, w \in Windows}
<1>1. IsFiniteSet(L) /\ \A l \in L : l.len \in Nat
    BY LimitsAreTyped
<1>2. \A ls \in LimitSets : \A w \in Windows : \A l \in ls[w] : l \in L
    OBVIOUS
<1> HIDE DEF L
<1>3. LET T == {l.len : l \in L} \cup {0} IN Max(T) \in Nat /\ \A l \in L : l.len <= Max(T)
    BY <1>1, LengthsAreFinite
<1> QED BY <1>2, <1>3 DEF MaxLen, L

LEMMA AgesAreNumbers ==
    ASSUME NEW s \in States, NEW j \in JobIds, Known(s, j)
    PROVE  s.job[j].ago \in Nat /\ s.job[j].delay \in Int /\ s.job[j].meta.weight \in Nat
<1>1. s.job[j].ago \in 0 .. MaxLen
    BY FieldsOfJobs
<1>2. s.job[j].ago \in Nat
    BY <1>1, MaxLenIsLongest
<1>3. s.job[j].delay \in Int
    BY FieldsOfJobs DEF NotDelayed
<1>4. s.job[j].meta.weight \in Nat
    BY FieldsOfJobs, FieldsOfRequests
<1> QED BY <1>2, <1>3, <1>4

\* When every window is over, a weight that a window could ever take fits.
LEMMA EarliestIsTyped ==
    ASSUME limits \in LimitSets, NEW s \in States, NEW w \in Windows, NEW weight \in Nat,
           \A j \in s.ledger[w] : Known(s, j), ~Never(w, weight)
    PROVE  /\ EarliestFor(s, w, weight) \in 0 .. Longest(w)
           /\ CanConsume(s, w, weight, EarliestFor(s, w, weight))
           /\ EarliestFor(s, w, weight) \in Nat
           /\ ~CanConsume(s, w, weight, 0) => EarliestFor(s, w, weight) > 0
<1> DEFINE D == {d \in 0 .. Longest(w) : CanConsume(s, w, weight, d)}
<1>1. /\ Longest(w) \in Nat
      /\ \A l \in limits[w] : l.cap \in Nat /\ l.len \in Nat \ {0} /\ l.len <= Longest(w)
    BY LongestIsLongest
<1>2. CanConsume(s, w, weight, Longest(w))
    <2> SUFFICES ASSUME NEW l \in limits[w]
                 PROVE  Used(s, w, l.len, Longest(w)) + weight <= l.cap
        BY DEF CanConsume
    <2>1. \A j \in s.ledger[w] : s.job[j].ago \in Nat
        BY AgesAreNumbers, FieldsOfStates
    <2>2. {j \in s.ledger[w] : s.job[j].ago + Longest(w) < l.len} = {}
        <3>1. l.len \in Nat /\ l.len <= Longest(w)
            BY <1>1
        <3> QED BY <1>1, <2>1, <3>1
    <2>3. Used(s, w, l.len, Longest(w)) = 0
        BY <2>2, NothingIsUsed
    <2>4. weight <= l.cap
        BY <1>1 DEF Never
    <2> QED BY <2>3, <2>4
<1>3. D \in SUBSET Nat /\ D # {}
    BY <1>1, <1>2
<1>4. EarliestFor(s, w, weight) = Min(D)
    BY DEF EarliestFor
<1>5. Min(D) \in D
    <2> HIDE DEF D
    <2> QED BY <1>3, MinIsLeast
<1>6. Min(D) \in 0 .. Longest(w) /\ CanConsume(s, w, weight, Min(D))
    BY <1>5
<1> HIDE DEF D
<1>7. Min(D) \in Nat
    BY <1>1, <1>6
<1>8. ~CanConsume(s, w, weight, 0) => Min(D) # 0
    BY <1>6
<1> QED BY <1>4, <1>6, <1>7, <1>8

=============================================================================
