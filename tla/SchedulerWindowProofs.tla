----------------------- MODULE SchedulerWindowProofs -----------------------
(***************************************************************************)
(* Theorems about the rate windows of OutboundScheduler: the ledger of a   *)
(* window is exactly the history it covers, and no grant takes a window    *)
(* over its capacity.  Reconfigured limits keep the span of every window,  *)
(* as a longer window knows nothing of what the shorter one forgot.        *)
(***************************************************************************)
EXTENDS SchedulerProofs

------------------------------------------------------------------------------
\* Sums: a fold over a set, and that the order of its members is no matter.
\* W weighs the members of S, and g maps the subsets of S to their sums.

\* The member of a set that a fold takes first.
Foremost(t) == CHOOSE y \in t : TRUE

\* Function g is, on the sets of D, the sum of the weights W.
SumsOn(W, D, g) ==
    \A t \in D : g[t] = IF t = {} THEN 0 ELSE W[Foremost(t)] + g[t \ {Foremost(t)}]
Sums(W, S, g) == SumsOn(W, SUBSET S, g)
Totals(W, S, g) ==
    IsFiniteSet(S) /\ W \in [S -> Nat] /\ g \in [SUBSET S -> Nat] /\ Sums(W, S, g)

Without(t, x) == t \ {x}

LEMMA ForemostIsOne ==
    ASSUME NEW t, t # {}
    PROVE  Foremost(t) \in t
BY DEF Foremost

LEMMA SmallerByOne ==
    ASSUME NEW S, IsFiniteSet(S), NEW t \in SUBSET S, NEW x \in t
    PROVE  /\ Cardinality(t) \in Nat /\ Cardinality(t \ {x}) \in Nat
           /\ Cardinality(t) = Cardinality(t \ {x}) + 1
           /\ t \ {x} \in SUBSET S /\ Cardinality(t) > 0
<1>1. IsFiniteSet(t)
    BY FS_Subset
<1>2. /\ IsFiniteSet(t \ {x}) /\ Cardinality(t \ {x}) = Cardinality(t) - 1
    BY <1>1, FS_RemoveElement
<1>3. Cardinality(t) \in Nat /\ Cardinality(t \ {x}) \in Nat
    BY <1>1, <1>2, FS_CardinalityType
<1> QED BY <1>2, <1>3

\* A finite set of weights has a sum, and so has every part of it.
LEMMA SumsExist ==
    ASSUME NEW S, IsFiniteSet(S), NEW W \in [S -> Nat]
    PROVE  \E g \in [SUBSET S -> Nat] : Sums(W, S, g)
<1> DEFINE Upto(n) == {t \in SUBSET S : Cardinality(t) <= n}
           Has(n) == \E g \in [SUBSET S -> Nat] : SumsOn(W, Upto(n), g)
           Bad == {n \in Nat : ~Has(n)}
<1>1. \A t \in SUBSET S : IsFiniteSet(t) /\ Cardinality(t) \in Nat
    BY FS_Subset, FS_CardinalityType
<1>2. Has(0)
    <2> DEFINE g == [t \in SUBSET S |-> 0]
    <2>1. g \in [SUBSET S -> Nat]
        OBVIOUS
    <2>2. \A t \in Upto(0) : t = {} /\ t \in SUBSET S
        BY <1>1, FS_EmptySet
    <2>3. SumsOn(W, Upto(0), g)
        BY <2>2 DEF Sums, SumsOn
    <2> QED BY <2>1, <2>3
<1>3. ASSUME NEW n \in Nat, n # 0, Has(n - 1) PROVE Has(n)
    <2>1. PICK g \in [SUBSET S -> Nat] : SumsOn(W, Upto(n - 1), g)
        BY <1>3
    <2> DEFINE Next1(t) == IF t = {} THEN 0 ELSE W[Foremost(t)] + g[t \ {Foremost(t)}]
               h == [t \in SUBSET S |-> Next1(t)]
    <2>2. \A t \in SUBSET S : t # {} => Foremost(t) \in t /\ Foremost(t) \in S
                                        /\ t \ {Foremost(t)} \in SUBSET S
        BY ForemostIsOne
    <2>3. \A t \in SUBSET S : Next1(t) \in Nat
        <3> SUFFICES ASSUME NEW t \in SUBSET S, t # {} PROVE Next1(t) \in Nat
            OBVIOUS
        <3>1. W[Foremost(t)] \in Nat /\ g[t \ {Foremost(t)}] \in Nat
            BY <2>2
        <3> QED BY <3>1
    <2>4. h \in [SUBSET S -> Nat] /\ \A t \in SUBSET S : h[t] = Next1(t)
        <3> HIDE DEF Next1
        <3> QED BY <2>3
    <2>5. ASSUME NEW t \in Upto(n)
          PROVE  h[t] = IF t = {} THEN 0 ELSE W[Foremost(t)] + h[t \ {Foremost(t)}]
        <3>1. CASE t = {}
            BY <2>4, <3>1
        <3>2. CASE t # {}
            <4> DEFINE r == t \ {Foremost(t)}
            <4>1. t \in SUBSET S /\ Foremost(t) \in t /\ r \in SUBSET S
                BY <2>2, <3>2
            <4>2. Cardinality(t) = Cardinality(r) + 1 /\ Cardinality(r) \in Nat
                BY <4>1, SmallerByOne
            <4>3. Cardinality(t) <= n
                OBVIOUS
            <4>4. r \in Upto(n - 1)
                <5> HIDE DEF r
                <5> QED BY <4>1, <4>2, <4>3, <1>3
            <4>5. g[r] = h[r]
                <5> HIDE DEF h, Upto, r
                <5> QED BY <2>1, <2>4, <4>1, <4>4 DEF Sums, SumsOn
            <4>6. h[t] = W[Foremost(t)] + g[r]
                <5> HIDE DEF h
                <5> QED BY <2>4, <4>1, <3>2
            <4> QED BY <3>2, <4>5, <4>6
        <3> QED BY <3>1, <3>2
    <2>6. SumsOn(W, Upto(n), h)
        <3> HIDE DEF h, Upto
        <3> QED BY <2>5 DEF Sums, SumsOn
    <2> HIDE DEF h
    <2> QED BY <2>4, <2>6
<1> HIDE DEF Has
<1>4. \A n \in Nat : Has(n)
    <2> SUFFICES ASSUME Bad # {} PROVE FALSE
        OBVIOUS
    <2>1. PICK n \in Bad : \A m \in Bad : n <= m
        <3>1. Bad \in SUBSET Nat
            OBVIOUS
        <3> HIDE DEF Bad
        <3> QED BY <3>1, LeastExists
    <2>2. n \in Nat /\ ~Has(n)
        BY <2>1
    <2>3. n # 0
        BY <2>2, <1>2
    <2>4. n - 1 \in Nat /\ ~(n <= n - 1)
        BY <2>2, <2>3
    <2>5. Has(n - 1)
        BY <2>1, <2>4
    <2> QED BY <2>2, <2>3, <2>5, <1>3
<1>5. Upto(Cardinality(S)) = SUBSET S
    <2>1. \A t \in SUBSET S : Cardinality(t) <= Cardinality(S)
        BY FS_Subset
    <2> QED BY <2>1
<1>6. Has(Cardinality(S))
    BY <1>1, <1>4
<1> QED BY <1>5, <1>6 DEF Has, Sums

\* Sums of the same weights agree.
LEMMA SumsAgree ==
    ASSUME NEW S, NEW T, NEW W, NEW V, NEW g, NEW h, IsFiniteSet(S), S \subseteq T,
           \A x \in S : W[x] = V[x], Sums(W, S, g), Sums(V, T, h)
    PROVE  \A t \in SUBSET S : g[t] = h[t]
<1> DEFINE Bad == {n \in Nat : \E t \in SUBSET S : Cardinality(t) = n /\ g[t] # h[t]}
<1> SUFFICES ASSUME Bad # {} PROVE FALSE
    <2>1. \A t \in SUBSET S : Cardinality(t) \in Nat
        BY FS_Subset, FS_CardinalityType
    <2> QED BY <2>1
<1>1. PICK n \in Bad : \A m \in Bad : n <= m
    <2>1. Bad \in SUBSET Nat
        OBVIOUS
    <2> HIDE DEF Bad
    <2> QED BY <2>1, LeastExists
<1>2. PICK t \in SUBSET S : Cardinality(t) = n /\ g[t] # h[t]
    BY <1>1
<1>3. t \in SUBSET T
    OBVIOUS
<1>4. t # {}
    BY <1>2, <1>3 DEF Sums, SumsOn
<1> DEFINE c == Foremost(t)
           r == t \ {c}
<1>5. c \in t /\ c \in S
    BY <1>4, ForemostIsOne
<1>6. /\ Cardinality(r) \in Nat /\ n = Cardinality(r) + 1 /\ r \in SUBSET S
    BY <1>2, <1>5, SmallerByOne
<1>7. g[t] = W[c] + g[r] /\ h[t] = V[c] + h[r]
    BY <1>3, <1>4 DEF Sums, SumsOn
<1> HIDE DEF r, c
<1>8. Cardinality(r) \notin Bad
    <2> HIDE DEF Bad
    <2>1. ~(n <= Cardinality(r))
        BY <1>6
    <2> QED BY <1>1, <2>1
<1>9. g[r] = h[r]
    BY <1>6, <1>8
<1> QED BY <1>2, <1>5, <1>7, <1>9

\* It does not matter which member is added last.
LEMMA SumsSplit ==
    ASSUME NEW S, NEW W, NEW g, Totals(W, S, g)
    PROVE  \A t \in SUBSET S : \A x \in t : g[t] = W[x] + g[Without(t, x)]
<1> DEFINE Wrong(t, x) == g[t] # W[x] + g[Without(t, x)]
           Bad == {n \in Nat : \E t \in SUBSET S : \E x \in t : Cardinality(t) = n /\ Wrong(t, x)}
<1>0. /\ IsFiniteSet(S) /\ W \in [S -> Nat] /\ g \in [SUBSET S -> Nat]
      /\ \A t \in SUBSET S : Cardinality(t) \in Nat
    BY FS_Subset, FS_CardinalityType DEF Totals
<1> SUFFICES ASSUME Bad # {} PROVE FALSE
    BY <1>0
<1> HIDE DEF Wrong
<1>1. PICK n \in Bad : \A m \in Bad : n <= m
    <2>1. Bad \in SUBSET Nat
        OBVIOUS
    <2> HIDE DEF Bad
    <2> QED BY <2>1, LeastExists
<1>1a. PICK t \in SUBSET S : \E x \in t : Cardinality(t) = n /\ Wrong(t, x)
    BY <1>1
<1>2. PICK x \in t : Cardinality(t) = n /\ Wrong(t, x)
    BY <1>1a
<1> DEFINE c == Foremost(t)
           a == t \ {c}
           b == t \ {x}
           r == a \ {x}
<1>3. c \in t /\ c \in S /\ x \in S
    BY <1>2, ForemostIsOne
<1>4. g[t] = W[c] + g[a]
    BY <1>2 DEF Totals, Sums, SumsOn
<1>5. x # c
    BY <1>2, <1>4 DEF Wrong, Without
<1>6. /\ Cardinality(a) \in Nat /\ n = Cardinality(a) + 1 /\ a \in SUBSET S
    BY <1>0, <1>2, <1>3, SmallerByOne
<1>7. /\ Cardinality(b) \in Nat /\ n = Cardinality(b) + 1 /\ b \in SUBSET S
    BY <1>0, <1>2, <1>3, SmallerByOne
<1>8. x \in a /\ c \in b /\ r = b \ {c} /\ r \in SUBSET S
    BY <1>2, <1>3, <1>5
<1> HIDE DEF a, b, r, c
<1>9. \A u \in SUBSET S : \A y \in u : Cardinality(u) \in Nat /\ n = Cardinality(u) + 1
        => g[u] = W[y] + g[Without(u, y)]
    <2> SUFFICES ASSUME NEW u \in SUBSET S, NEW y \in u, Cardinality(u) \in Nat,
                        n = Cardinality(u) + 1
                 PROVE  ~Wrong(u, y)
        BY DEF Wrong
    <2>1. ~(n <= Cardinality(u))
        OBVIOUS
    <2>2. Cardinality(u) \notin Bad
        <3> HIDE DEF Bad
        <3> QED BY <1>1, <2>1
    <2> QED BY <2>2
<1>10. g[a] = W[x] + g[r] /\ g[b] = W[c] + g[r]
    BY <1>6, <1>7, <1>8, <1>9 DEF r, Without
<1>11. g[r] \in Nat /\ W[x] \in Nat /\ W[c] \in Nat
    BY <1>0, <1>3, <1>8
<1>12. g[t] = W[x] + g[b]
    BY <1>4, <1>10, <1>11
<1> QED BY <1>2, <1>12 DEF Wrong, b, Without

\* What Weighed computes is such a sum.
LEMMA WeighedIsASum ==
    ASSUME NEW S, IsFiniteSet(S), NEW jb, \A j \in S : jb[j].meta.weight \in Nat
    PROVE  LET W == [j \in S |-> jb[j].meta.weight] IN
           \E g \in [SUBSET S -> Nat] : Sums(W, S, g) /\ Weighed(jb, S) = g[S]
<1> DEFINE W == [j \in S |-> jb[j].meta.weight]
           Step(g) == [t \in SUBSET S |->
                          IF t = {} THEN 0
                          ELSE LET x == CHOOSE y \in t : TRUE
                               IN  jb[x].meta.weight + g[t \ {x}]]
           c == CHOOSE g : g = Step(g)
<1>1. W \in [S -> Nat] /\ \A x \in S : W[x] = jb[x].meta.weight
    OBVIOUS
<1>2. \A t \in SUBSET S : t # {} => Foremost(t) \in S
    BY ForemostIsOne
<1>3. PICK g \in [SUBSET S -> Nat] : Sums(W, S, g)
    <2> HIDE DEF W
    <2> QED BY <1>1, SumsExist
<1> HIDE DEF W
<1>4. g = Step(g)
    <2>1. \A t \in SUBSET S : g[t] = IF t = {} THEN 0
                                     ELSE jb[Foremost(t)].meta.weight + g[t \ {Foremost(t)}]
        BY <1>1, <1>2, <1>3 DEF Sums, SumsOn
    <2> QED BY <2>1 DEF Foremost
<1>5. c = Step(c)
    <2> HIDE DEF Step
    <2> QED BY <1>4
<1>6. Weighed(jb, S) = c[S]
    BY DEF Weighed, MapThenSumSet, MapThenFoldSet
<1> HIDE DEF c
<1>7. Sums(W, S, c)
    <2> SUFFICES ASSUME NEW t \in SUBSET S
                 PROVE  c[t] = IF t = {} THEN 0 ELSE W[Foremost(t)] + c[t \ {Foremost(t)}]
        BY DEF Sums, SumsOn
    <2>1. c[t] = IF t = {} THEN 0 ELSE jb[Foremost(t)].meta.weight + c[t \ {Foremost(t)}]
        BY <1>5 DEF Foremost
    <2> QED BY <2>1, <1>1, <1>2
<1>8. \A t \in SUBSET S : c[t] = g[t]
    <2>1. S \subseteq S /\ \A x \in S : W[x] = W[x]
        OBVIOUS
    <2>2. Sums(W, S, g)
        BY <1>3
    <2> QED BY <2>1, <2>2, <1>7, SumsAgree
<1> QED BY <1>3, <1>6, <1>8 DEF W

\* One more member adds its weight.
OneMore(S, T, x) == IsFiniteSet(S) /\ x \notin S /\ T = S \cup {x}
Weights(jc, T) == \A j \in T : jc[j].meta.weight \in Nat
SameWeights(jb, jc, S) == \A j \in S : jb[j].meta.weight = jc[j].meta.weight

LEMMA WeighedOneMore ==
    ASSUME NEW S, NEW T, NEW x, NEW jb, NEW jc,
           OneMore(S, T, x), Weights(jc, T), SameWeights(jb, jc, S)
    PROVE  Weighed(jc, T) = Weighed(jb, S) + jc[x].meta.weight
<1> USE DEF OneMore, Weights, SameWeights
<1> DEFINE W == [j \in S |-> jb[j].meta.weight]
           V == [j \in T |-> jc[j].meta.weight]
<1>1. IsFiniteSet(T)
    BY FS_AddElement
<1>2. \A j \in S : jb[j].meta.weight \in Nat
    OBVIOUS
<1>3. PICK g \in [SUBSET S -> Nat] : Sums(W, S, g) /\ Weighed(jb, S) = g[S]
    BY <1>2, WeighedIsASum
<1>4. PICK h \in [SUBSET T -> Nat] : Sums(V, T, h) /\ Weighed(jc, T) = h[T]
    <2>1. \A j \in T : jc[j].meta.weight \in Nat
        OBVIOUS
    <2> QED BY <1>1, <2>1, WeighedIsASum
<1>5. V \in [T -> Nat] /\ V[x] = jc[x].meta.weight /\ \A j \in S : W[j] = V[j]
    OBVIOUS
<1>6. T \ {x} = S /\ x \in T /\ S \subseteq T
    OBVIOUS
<1> HIDE DEF W, V
<1>7. h[T] = V[x] + h[S]
    <2>1. \A t \in SUBSET T : \A y \in t : h[t] = V[y] + h[Without(t, y)]
        <3>1. IsFiniteSet(T)
            BY <1>1
        <3>2. Sums(V, T, h)
            BY <1>4
        <3>3. V \in [T -> Nat]
            BY <1>5
        <3>4. Totals(V, T, h)
            BY <3>1, <3>2, <3>3 DEF Totals
        <3> QED BY <3>4, SumsSplit
    <2>2. T \in SUBSET T
        OBVIOUS
    <2>3. Without(T, x) = S
        BY <1>6 DEF Without
    <2> QED BY <2>1, <2>2, <2>3, <1>6
<1>8. g[S] = h[S]
    <2>1. \A t \in SUBSET S : g[t] = h[t]
        <3>1. Sums(W, S, g)
            BY <1>3
        <3>2. Sums(V, T, h)
            BY <1>4
        <3>3. S \subseteq T /\ \A y \in S : W[y] = V[y]
            BY <1>5, <1>6
        <3> QED BY <3>1, <3>2, <3>3, SumsAgree
    <2> QED BY <2>1
<1>9. V[x] \in Nat /\ h[S] \in Nat
    BY <1>4, <1>5, <1>6
<1> QED BY <1>3, <1>4, <1>5, <1>7, <1>8, <1>9

------------------------------------------------------------------------------
\* The books

\* The length of the longest window of window set w under limits ls.
Span(ls, w) == Max({l.len : l \in ls[w]} \cup {0})
SpansAreKept == \A a, b \in LimitSets : \A w \in Windows : Span(a, w) = Span(b, w)

\* What the ledger of window set w should hold.
Owed(w) == {j \in JobIds : /\ job[j].st # "none" /\ job[j].spent
                           /\ job[j].ago < Longest(w)
                           /\ w \in Range(WindowsOf(job[j].meta))}

\* The ledger is exact, and a job that waits owes nothing.
BooksInv ==
    /\ DebitsAreExact
    /\ \A j \in JobIds : job[j].st = "waiting" => job[j].ago = 0 /\ ~job[j].spent

LEMMA SpansStay ==
    ASSUME SpansAreKept, limits \in LimitSets, limits' \in LimitSets, NEW w \in Windows
    PROVE  /\ Longest(w)' = Longest(w) /\ Longest(w) \in Nat
           /\ limits[w] = {} <=> Longest(w) = 0
           /\ limits'[w] = {} <=> limits[w] = {}
           /\ \A a \in Nat : a < Longest(w) <=> \E l \in limits[w] : a < l.len
           /\ \A a \in Nat : a < Longest(w) <=> \E l \in limits'[w] : a < l.len
<1>1. ASSUME NEW ls \in LimitSets
      PROVE  /\ Span(ls, w) \in Nat /\ (ls[w] = {} <=> Span(ls, w) = 0)
             /\ \A a \in Nat : a < Span(ls, w) <=> \E l \in ls[w] : a < l.len
    <2> DEFINE T == {l.len : l \in ls[w]} \cup {0}
    <2>1. \A l \in ls[w] : l.len \in Nat \ {0}
        BY LimitsAreTyped
    <2>2. IsFiniteSet(ls[w])
        <3>1. ls[w] \subseteq UNION {x[v] : x \in LimitSets, v \in Windows}
            OBVIOUS
        <3> QED BY <3>1, LimitsAreTyped, FS_Subset
    <2>3. \A l \in ls[w] : l.len \in Nat
        BY <2>1
    <2>4. T \in SUBSET Nat /\ IsFiniteSet(T) /\ T # {}
        BY <2>2, <2>3, LengthsAreFinite
    <2>5. Span(ls, w) \in T /\ \A y \in T : Span(ls, w) >= y
        <3>1. Span(ls, w) = Max(T)
            BY DEF Span
        <3> HIDE DEF T
        <3> QED BY <2>4, <3>1, MaxIsGreatest
    <2>6. Span(ls, w) \in Nat
        BY <2>4, <2>5
    <2>7. \A l \in ls[w] : l.len <= Span(ls, w)
        BY <2>1, <2>5, <2>6
    <2>8. Span(ls, w) # 0 => \E l \in ls[w] : Span(ls, w) = l.len
        BY <2>5
    <2> HIDE DEF T
    <2>9. ls[w] = {} <=> Span(ls, w) = 0
        BY <2>1, <2>5, <2>6, <2>7, <2>8 DEF T
    <2>10. ASSUME NEW a \in Nat, a < Span(ls, w) PROVE \E l \in ls[w] : a < l.len
        BY <2>6, <2>8, <2>10
    <2>11. ASSUME NEW a \in Nat, NEW l \in ls[w], a < l.len PROVE a < Span(ls, w)
        <3>1. l.len \in Nat /\ l.len <= Span(ls, w)
            BY <2>1, <2>7
        <3> QED BY <2>6, <2>11, <3>1
    <2> QED BY <2>6, <2>9, <2>10, <2>11
<1>2. Longest(w) = Span(limits, w) /\ Longest(w)' = Span(limits', w)
    BY DEF Longest, Span
<1>3. Span(limits, w) = Span(limits', w)
    BY DEF SpansAreKept
<1>4. /\ Span(limits, w) \in Nat /\ (limits[w] = {} <=> Span(limits, w) = 0)
      /\ \A a \in Nat : a < Span(limits, w) <=> \E l \in limits[w] : a < l.len
    BY <1>1
<1>5. /\ (limits'[w] = {} <=> Span(limits', w) = 0)
      /\ \A a \in Nat : a < Span(limits', w) <=> \E l \in limits'[w] : a < l.len
    BY <1>1
<1> HIDE DEF Span
<1> QED BY <1>2, <1>3, <1>4, <1>5

LEMMA BooksAreLedgers ==
    DebitsAreExact <=> \A w \in Windows : limits[w] # {} => ledger[w] = Owed(w)
BY DEF DebitsAreExact, Owed
\* What the invariants say of a job and of the limits now and after the step.
LEMMA KnownJobs ==
    ASSUME QueueInv, NEW j \in JobIds, job[j].st # "none"
    PROVE  job[j].ago \in 0 .. MaxLen /\ job[j].ago \in Nat /\ job[j].meta \in Metas
<1>1. Core \in States /\ Known(Core, j) /\ Core.job = job
    BY DEF QueueInv, Safe, Known, Core
<1> QED BY <1>1, AgesAreNumbers, FieldsOfJobs

LEMMA StandingBooksAreKept ==
    ASSUME SpansAreKept, QueueInv, BooksInv, limits' \in LimitSets, BooksStand
    PROVE  BooksInv'
<1>1. \A j \in JobIds : job'[j].st = "waiting" => job'[j].ago = 0 /\ ~job'[j].spent
    BY DEF BooksStand, JobsStand, BooksInv
<1>2. ASSUME NEW w \in Windows, limits'[w] # {}
      PROVE  ledger'[w] = Owed(w)'
    <2>1. limits[w] # {} /\ Longest(w)' = Longest(w)
        BY <1>2, SpansStay DEF QueueInv
    <2>2. ledger[w] = Owed(w)
        BY <2>1, BooksAreLedgers DEF BooksInv
    <2>3. Owed(w)' = Owed(w)
        BY <2>1 DEF Owed, BooksStand, JobsStand
    <2> QED BY <2>2, <2>3 DEF BooksStand
<1> QED BY <1>1, <1>2 DEF BooksInv, DebitsAreExact, Owed

\* complete with NoRequest takes back the debits of its grant, and only those.
LEMMA CreditedBooksAreKept ==
    ASSUME SpansAreKept, QueueInv, BooksInv, limits' \in LimitSets,
           NEW j \in JobIds, BooksCredited(j)
    PROVE  BooksInv'
<1>1. \A i \in JobIds : job'[i].st = "waiting" => job'[i].ago = 0 /\ ~job'[i].spent
    BY DEF BooksCredited, JobsStand, BooksInv
<1>2. ASSUME NEW w \in Windows, limits'[w] # {}
      PROVE  ledger'[w] = Owed(w)'
    <2>1. limits[w] # {} /\ Longest(w)' = Longest(w)
        BY <1>2, SpansStay DEF QueueInv
    <2>2. ledger[w] = Owed(w)
        BY <2>1, BooksAreLedgers DEF BooksInv
    <2>3. Owed(w)' = Owed(w) \ {j}
        BY <2>1 DEF Owed, BooksCredited, JobsStand
    <2>4. ledger'[w] = ledger[w] \ {j}
        BY DEF BooksCredited
    <2> QED BY <2>2, <2>3, <2>4
<1> QED BY <1>1, <1>2 DEF BooksInv, DebitsAreExact, Owed

\* New limits of the same spans take over every debit.
LEMMA CarriedBooksAreKept ==
    ASSUME SpansAreKept, QueueInv, BooksInv, limits' \in LimitSets, BooksCarried
    PROVE  BooksInv'
<1>1. \A j \in JobIds : job'[j].st = "waiting" => job'[j].ago = 0 /\ ~job'[j].spent
    BY DEF BooksCarried, JobsStand, BooksInv
<1>2. ASSUME NEW w \in Windows, limits'[w] # {}
      PROVE  ledger'[w] = Owed(w)'
    <2>1. /\ limits[w] # {} /\ Longest(w)' = Longest(w)
          /\ \A a \in Nat : a < Longest(w) <=> \E l \in limits'[w] : a < l.len
        BY <1>2, SpansStay DEF QueueInv
    <2>2. ledger[w] = Owed(w)
        BY <2>1, BooksAreLedgers DEF BooksInv
    <2>3. Owed(w)' = Owed(w)
        BY <2>1 DEF Owed, BooksCarried, JobsStand
    <2>4. \A j \in Owed(w) : j \in JobIds /\ job[j].ago \in Nat /\ job[j].ago < Longest(w)
        BY KnownJobs DEF Owed
    <2>5. ledger'[w] = {j \in ledger[w] : \E l \in limits'[w] : job[j].ago < l.len}
        BY DEF BooksCarried, Carried
    <2>6. \A j \in Owed(w) : \E l \in limits'[w] : job[j].ago < l.len
        BY <2>1, <2>4
    <2> HIDE DEF Owed
    <2> QED BY <2>2, <2>3, <2>5, <2>6
<1> QED BY <1>1, <1>2 DEF BooksInv, DebitsAreExact, Owed

LEMMA EnqueueKeepsTheBooks ==
    ASSUME SpansAreKept, QueueInv, BooksInv, limits' \in LimitSets,
           NEW m \in Metas, NEW delay \in NotBefores \cup {NotDelayed}, Enqueue(m, delay)
    PROVE  BooksInv'
<1> DEFINE old == Slot(m)
           inherits == old # {} /\ \A i \in old : job[i].delay = NotDelayed
           seq == IF old = {} THEN nextJob ELSE job[Min(old)].seq
           age == IF inherits /\ delay = NotDelayed THEN job[Min(old)].age ELSE 0
           removed == IF old = {} THEN Core ELSE RemoveWaiting(Core, Min(old))
           t == Inserted(removed, nextJob, NewJob(m, seq, age, delay), old)
           n == nextJob
<1>1. n \in JobIds
    BY Sizes DEF Enqueue, QueueInv, JobIds
<1>2. /\ Safe(t) /\ SameBooks(Core, t) /\ Numbered(t, n + 1)
      /\ Waiting(t, n) /\ ~t.job[n].spent /\ t.job[n].ago = 0
      /\ \A i \in JobIds \ {n} : Waiting(t, i) => Waiting(Core, i)
    BY <1>1, EnqueueingIsSafe DEF QueueInv
<1>3. Install(t)
    BY DEF Enqueue
<1> HIDE DEF t
<1>4. job' = t.job /\ ledger' = ledger /\ t.ledger = ledger
    BY <1>2, <1>3, InstalledIs DEF Safe, SameBooks, Core
<1>5. \A i \in JobIds \ {n} : Known(t, i) <=> Known(Core, i)
    <2> SUFFICES ASSUME NEW i \in JobIds, i # n PROVE Known(t, i) <=> Known(Core, i)
        OBVIOUS
    <2>1. i \in Nat /\ n \in Nat
        BY <1>1 DEF JobIds
    <2>2. (Known(t, i) <=> i < n + 1) /\ (Known(Core, i) <=> i < n)
        BY <1>2 DEF Numbered, QueueInv
    <2> QED BY <2>1, <2>2
<1>6. ~Known(Core, n)
    <2>1. ~(n < n)
        BY <1>1 DEF JobIds
    <2> QED BY <2>1, <1>1 DEF Numbered, QueueInv
<1>7. \A i \in JobIds : i # n /\ Known(Core, i) =>
        /\ t.job[i].spent = job[i].spent /\ t.job[i].ago = job[i].ago
        /\ t.job[i].meta = job[i].meta
    BY <1>2 DEF SameBooks, Core
<1>8. \A i \in JobIds : job'[i].st = "waiting" => job'[i].ago = 0 /\ ~job'[i].spent
    <2> SUFFICES ASSUME NEW i \in JobIds, t.job[i].st = "waiting"
                 PROVE  t.job[i].ago = 0 /\ ~t.job[i].spent
        BY <1>4
    <2>1. CASE i = n
        BY <2>1, <1>2
    <2>2. CASE i # n
        <3>1. job[i].st = "waiting" /\ Known(Core, i)
            BY <2>2, <1>2 DEF Waiting, Known, Core
        <3>2. job[i].ago = 0 /\ ~job[i].spent
            BY <3>1 DEF BooksInv
        <3> QED BY <2>2, <3>1, <3>2, <1>7
    <2> QED BY <2>1, <2>2
<1>9. ASSUME NEW w \in Windows, limits'[w] # {}
      PROVE  ledger'[w] = Owed(w)'
    <2>1. limits[w] # {} /\ Longest(w)' = Longest(w)
        BY <1>9, SpansStay DEF QueueInv
    <2>2. ledger[w] = Owed(w)
        BY <2>1, BooksAreLedgers DEF BooksInv
    <2>3. Owed(w)' = {i \in JobIds : /\ Known(t, i) /\ t.job[i].spent
                                     /\ t.job[i].ago < Longest(w)
                                     /\ w \in Range(WindowsOf(t.job[i].meta))}
        BY <1>4, <2>1 DEF Owed, Known
    <2>4. Owed(w) = {i \in JobIds : /\ Known(Core, i) /\ job[i].spent
                                    /\ job[i].ago < Longest(w)
                                    /\ w \in Range(WindowsOf(job[i].meta))}
        BY DEF Owed, Known, Core
    <2>5. Owed(w)' = Owed(w)
        BY <2>3, <2>4, <1>2, <1>5, <1>6, <1>7
    <2> QED BY <2>2, <2>5, <1>4
<1> QED BY <1>8, <1>9 DEF BooksInv, DebitsAreExact, Owed

\* A grant debits its windows, and the granted job owes exactly them.
LEMMA GrantKeepsTheBooks ==
    ASSUME SpansAreKept, QueueInv, BooksInv, limits' \in LimitSets, Grant
    PROVE  BooksInv'
<1> DEFINE c == Candidate
<1>1. /\ c \in JobIds /\ Waiting(Core, c) /\ ledger' = Charged(Core, c)
      /\ job' = [job EXCEPT ![c] = GrantedJob(job[c])]
    BY GrantKeepsTheQueues
<1>2. Core \in States /\ job \in [JobIds -> JobRecords] /\ Core.job = job /\ Core.ledger = ledger
    BY FieldsOfStates DEF QueueInv, Safe, Core
<1> HIDE DEF c
<1>3. Known(Core, c) /\ job[c].st = "waiting" /\ job[c].ago = 0
    BY <1>1, <1>2 DEF Known, Waiting, BooksInv
<1>4. /\ job'[c].st = "granted" /\ job'[c].spent /\ job'[c].ago = 0
      /\ job'[c].meta = job[c].meta
      /\ \A i \in JobIds \ {c} : job'[i] = job[i]
    <2>1. job'[c] = GrantedJob(job[c]) /\ \A i \in JobIds \ {c} : job'[i] = job[i]
        BY <1>1, <1>2
    <2>2. LET r == GrantedJob(Core.job[c]) IN
          /\ r.st = "granted" /\ r.meta = Core.job[c].meta
          /\ r.ago = Core.job[c].ago /\ r.spent = TRUE
        BY <1>1, <1>2, <1>3, GrantedJobs
    <2> QED BY <2>1, <2>2, <1>2, <1>3
<1>5. \A j \in JobIds : job'[j].st = "waiting" => job'[j].ago = 0 /\ ~job'[j].spent
    BY <1>4 DEF BooksInv
<1>6. ASSUME NEW w \in Windows, limits'[w] # {}
      PROVE  ledger'[w] = Owed(w)'
    <2>1. limits[w] # {} /\ Longest(w)' = Longest(w) /\ Longest(w) \in Nat /\ Longest(w) # 0
        BY <1>6, SpansStay DEF QueueInv
    <2>2. ledger[w] = Owed(w)
        BY <2>1, BooksAreLedgers DEF BooksInv
    <2>3. 0 < Longest(w)
        BY <2>1
    <2>4. Owed(w)' = {j \in JobIds : /\ job'[j].st # "none" /\ job'[j].spent
                                     /\ job'[j].ago < Longest(w)
                                     /\ w \in Range(WindowsOf(job'[j].meta))}
        BY <2>1 DEF Owed
    <2>5. \A j \in JobIds : j \in Owed(w)' <=>
            IF j = c THEN w \in Range(WindowsOf(job[c].meta)) ELSE j \in Owed(w)
        BY <2>3, <2>4, <1>4 DEF Owed
    <2>6. c \notin Owed(w)
        BY <1>3 DEF Owed, BooksInv
    <2>7. ledger'[w] = IF w \in Range(WindowsOf(job[c].meta)) THEN ledger[w] \cup {c}
                       ELSE ledger[w]
        BY <1>1, <1>2, <2>1 DEF Charged
    <2>8. Owed(w) \in SUBSET JobIds /\ Owed(w)' \in SUBSET JobIds
        BY <2>4 DEF Owed
    <2> QED BY <2>2, <2>5, <2>6, <2>7, <2>8, <1>1
<1> QED BY <1>5, <1>6 DEF BooksInv, DebitsAreExact, Owed

\* Time drops exactly the debits that the longest window no longer covers.
LEMMA TickKeepsTheBooks ==
    ASSUME SpansAreKept, QueueInv, BooksInv, limits' \in LimitSets, Tick
    PROVE  BooksInv'
<1>1. /\ Core \in States /\ job \in [JobIds -> JobRecords] /\ ledger \in [Windows -> SUBSET JobIds]
    BY FieldsOfStates DEF QueueInv, Safe, Core
<1>2. /\ job' = [j \in JobIds |-> Aged(job[j])]
      /\ ledger' = [w \in Windows |-> {j \in ledger[w] : job'[j].ago < Longest(w)}]
    BY DEF Tick
<1>3. \A j \in JobIds : /\ job'[j].st = job[j].st
                        /\ job[j].st # "none" =>
                              /\ job'[j].meta = job[j].meta /\ job'[j].spent = job[j].spent
                              /\ job'[j].ago = IF job[j].st = "waiting" THEN job[j].ago
                                               ELSE IF job[j].ago = MaxLen THEN MaxLen
                                               ELSE job[j].ago + 1
    BY <1>1, <1>2, AgedJobs
<1>4. \A j \in JobIds : job[j].st # "none" => job[j].ago \in Nat /\ job'[j].ago \in Nat
                                              /\ job'[j].ago >= job[j].ago
    <2> SUFFICES ASSUME NEW j \in JobIds, job[j].st # "none"
                 PROVE  job[j].ago \in Nat /\ job'[j].ago \in Nat /\ job'[j].ago >= job[j].ago
        OBVIOUS
    <2>1. job[j].ago \in Nat
        BY KnownJobs
    <2> QED BY <2>1, <1>3
<1>5. \A j \in JobIds : job'[j].st = "waiting" => job'[j].ago = 0 /\ ~job'[j].spent
    BY <1>3 DEF BooksInv
<1>6. ASSUME NEW w \in Windows, limits'[w] # {}
      PROVE  ledger'[w] = Owed(w)'
    <2>1. limits[w] # {} /\ Longest(w)' = Longest(w) /\ Longest(w) \in Nat
        BY <1>6, SpansStay DEF QueueInv
    <2>2. ledger[w] = Owed(w)
        BY <2>1, BooksAreLedgers DEF BooksInv
    <2>3. Owed(w)' = {j \in JobIds : /\ job'[j].st # "none" /\ job'[j].spent
                                     /\ job'[j].ago < Longest(w)
                                     /\ w \in Range(WindowsOf(job'[j].meta))}
        BY <2>1 DEF Owed
    <2>4. ASSUME NEW j \in JobIds
          PROVE  j \in Owed(w)' <=> j \in Owed(w) /\ job'[j].ago < Longest(w)
        <3>1. CASE job[j].st = "none"
            BY <3>1, <2>3, <1>3 DEF Owed
        <3>2. CASE job[j].st # "none"
            <4>1. job'[j].ago < Longest(w) => job[j].ago < Longest(w)
                BY <3>2, <2>1, <1>4
            <4>2. /\ job'[j].st # "none" /\ job'[j].spent = job[j].spent
                  /\ job'[j].meta = job[j].meta
                BY <3>2, <1>3
            <4> QED BY <3>2, <4>1, <4>2, <2>3 DEF Owed
        <3> QED BY <3>1, <3>2
    <2>5. Owed(w) \in SUBSET JobIds /\ Owed(w)' \in SUBSET JobIds
        BY <2>3 DEF Owed
    <2>6. ledger'[w] = {j \in ledger[w] : job'[j].ago < Longest(w)}
        BY <1>2
    <2> QED BY <2>2, <2>4, <2>5, <2>6
<1> QED BY <1>5, <1>6 DEF BooksInv, DebitsAreExact, Owed

LEMMA InitKeepsTheBooks ==
    ASSUME Init
    PROVE  BooksInv
<1>1. \A j \in JobIds : job[j].st = "none"
    BY DEF Init, NeverUsed
<1>2. \A w \in Windows : ledger[w] = {}
    BY DEF Init
<1> QED BY <1>1, <1>2 DEF BooksInv, DebitsAreExact

\* Every step keeps the books.
LEMMA StepsKeepTheBooks ==
    ASSUME SpansAreKept, QueueInv, BooksInv, [Next]_vars
    PROVE  BooksInv'
<1>1. limits' \in LimitSets
    <2>1. QueueInv'
        BY StepsKeepTheQueues
    <2> QED BY <2>1 DEF QueueInv
<1>2. ASSUME NEW m \in Metas, NEW d \in NotBefores \cup {NotDelayed}, Enqueue(m, d)
      PROVE  BooksInv'
    BY <1>1, <1>2, EnqueueKeepsTheBooks
<1>3. ASSUME BooksStand PROVE BooksInv'
    BY <1>1, <1>3, StandingBooksAreKept
<1>4. ASSUME NEW j \in JobIds, Cancel(j) \/ Start(j) \/ Complete(j) \/ CompleteNoRequest(j)
      PROVE  BooksInv'
    <2>1. BooksStand \/ BooksCredited(j)
        BY <1>4, CommandsKeepTheQueues
    <2> QED BY <2>1, <1>1, <1>3, CreditedBooksAreKept
<1>5. ASSUME NEW c \in Scopes, NEW d \in RetryAfters,
             Penalize(c, d) \/ \E j \in JobIds : CompleteRetryAfter(j, c, d)
      PROVE  BooksInv'
    <2>1. BooksStand
        BY <1>5, FreezesKeepTheQueues
    <2> QED BY <2>1, <1>3
<1>6. ASSUME NEW new \in LimitSets, SetLimits(new) \/ SetClassLimits(new)
      PROVE  BooksInv'
    <2>1. BooksCarried
        BY <1>6, NewLimitsKeepTheQueues
    <2> QED BY <2>1, <1>1, CarriedBooksAreKept
<1>7. CASE Query
    BY <1>7, <1>3, QueriesKeepTheQueues
<1>8. CASE BeginPass \/ Rekey \/ Park \/ Pause \/ Sleep \/ EndPass
    BY <1>8, <1>3, PassesKeepTheQueues
<1>9. CASE Grant
    BY <1>1, <1>9, GrantKeepsTheBooks
<1>10. CASE Tick
    BY <1>1, <1>10, TickKeepsTheBooks
<1>11. CASE UNCHANGED vars
    <2>1. BooksStand
        BY <1>11 DEF vars, BooksStand, JobsStand
    <2> QED BY <2>1, <1>3
<1> QED BY <1>2, <1>4, <1>5, <1>6, <1>7, <1>8, <1>9, <1>10, <1>11 DEF Next, Pass

------------------------------------------------------------------------------
\* A grant fits its windows

\* What the windows of the candidate hold when it is granted, with it.
LEMMA GrantsFit ==
    ASSUME SpansAreKept, QueueInv, BooksInv, limits' \in LimitSets, Grant,
           NEW w \in Range(WindowsOf(job[Candidate].meta)), NEW l \in limits[w]
    PROVE  Weighed(job', {i \in JobIds : /\ job'[i].st # "none" /\ job'[i].spent
                                         /\ job'[i].ago < l.len
                                         /\ w \in Range(WindowsOf(job'[i].meta))}) <= l.cap
<1> DEFINE c == Candidate
           S == {i \in ledger[w] : job[i].ago + 0 < l.len}
           R == {i \in JobIds : /\ job'[i].st # "none" /\ job'[i].spent
                                /\ job'[i].ago < l.len
                                /\ w \in Range(WindowsOf(job'[i].meta))}
<1>1. /\ c \in JobIds /\ Waiting(Core, c)
      /\ job' = [job EXCEPT ![c] = GrantedJob(job[c])]
    BY GrantKeepsTheQueues
<1>2. /\ Core \in States /\ job \in [JobIds -> JobRecords]
      /\ Core.job = job /\ Core.ledger = ledger /\ ledger \in [Windows -> SUBSET JobIds]
    BY FieldsOfStates DEF QueueInv, Safe, Core
<1>3. /\ Safe(Core) /\ cands # {} /\ Grantable(Popped) # {} /\ limits \in LimitSets
      /\ penalty \in [Scopes -> Nat] /\ ~Paused /\ Until(Selected) = 0 /\ Debited(Core)
    BY DEF QueueInv, Grant, Considering
<1>4. Meta \in Metas /\ Meta = job[c].meta /\ Meta.weight \in Nat
    BY <1>3, CandidateIsFirst, FieldsOfRequests DEF Meta
<1>5. /\ Safe(Selected) /\ Selected.job = job /\ Selected.ledger = ledger
    BY <1>3, SelectingIsCalm
<1>6. Short(Selected) = {}
    <2>1. Selected \in States /\ Debited(Selected)
        BY <1>2, <1>3, <1>5 DEF Safe, Debited, Known
    <2>2. \A v \in Short(Selected) :
            /\ 0 >= EarliestFor(Selected, v, Meta.weight)
            /\ EarliestFor(Selected, v, Meta.weight) > 0
        BY <1>3, <1>4, <2>1, UntilIsTyped
    <2>3. \A v \in Short(Selected) : EarliestFor(Selected, v, Meta.weight) \in Nat
        <3> SUFFICES ASSUME NEW v \in Short(Selected)
                     PROVE  EarliestFor(Selected, v, Meta.weight) \in Nat
            OBVIOUS
        <3>1. v \in Windows /\ ~Never(v, Meta.weight)
            BY <1>3, <1>4, WindowsAreWindows DEF Short, Paused
        <3>2. \A j \in Selected.ledger[v] : Known(Selected, j)
            BY <2>1, <3>1 DEF Debited
        <3> QED BY <1>3, <1>4, <2>1, <3>1, <3>2, EarliestIsTyped
    <2>4. \A v \in Short(Selected) : FALSE
        BY <2>2, <2>3
    <2> QED BY <2>4
<1>7. CanConsume(Selected, w, Meta.weight, 0)
    BY <1>4, <1>6 DEF Short
<1>8. Weighed(job, S) + Meta.weight <= l.cap
    BY <1>5, <1>7 DEF CanConsume, Used
<1>9. w \in Windows /\ l.len \in Nat \ {0} /\ l.len <= Longest(w) /\ Longest(w) \in Nat
    <2>1. w \in Windows
        BY <1>4, WindowsAreWindows
    <2> QED BY <2>1, <1>3, LongestIsLongest
<1> HIDE DEF c
<1>10. Known(Core, c) /\ job[c].st = "waiting" /\ job[c].ago = 0 /\ ~job[c].spent
    BY <1>1, <1>2 DEF Known, Waiting, BooksInv
<1>11. /\ job'[c].st = "granted" /\ job'[c].spent /\ job'[c].ago = 0
       /\ job'[c].meta = job[c].meta
       /\ \A i \in JobIds \ {c} : job'[i] = job[i]
    <2>1. job'[c] = GrantedJob(job[c]) /\ \A i \in JobIds \ {c} : job'[i] = job[i]
        BY <1>1, <1>2
    <2>2. LET r == GrantedJob(Core.job[c]) IN
          /\ r.st = "granted" /\ r.meta = Core.job[c].meta
          /\ r.ago = Core.job[c].ago /\ r.spent = TRUE
        BY <1>1, <1>2, <1>10, GrantedJobs
    <2> QED BY <2>1, <2>2, <1>2, <1>10
<1>12. ledger[w] = Owed(w)
    BY <1>9, BooksAreLedgers DEF BooksInv
<1>13. \A i \in JobIds : job[i].st # "none" =>
           /\ job[i].ago \in Nat /\ job[i].ago + 0 = job[i].ago
           /\ job[i].ago < l.len => job[i].ago < Longest(w)
           /\ job[i].meta.weight \in Nat
    <2> SUFFICES ASSUME NEW i \in JobIds, job[i].st # "none"
                 PROVE  /\ job[i].ago \in Nat /\ job[i].ago + 0 = job[i].ago
                        /\ job[i].ago < l.len => job[i].ago < Longest(w)
                        /\ job[i].meta.weight \in Nat
        OBVIOUS
    <2>1. job[i].ago \in Nat /\ job[i].meta \in Metas
        BY KnownJobs
    <2>2. job[i].meta.weight \in Nat
        BY <2>1, FieldsOfRequests
    <2> QED BY <2>1, <2>2, <1>9
<1>14. c \notin S /\ S \in SUBSET JobIds /\ \A i \in S : job[i].st # "none"
    BY <1>9, <1>10, <1>12 DEF Owed
<1>15. R = S \cup {c}
    <2>1. ASSUME NEW i \in JobIds PROVE i \in R <=> i \in S \/ i = c
        <3>1. CASE i = c
            BY <3>1, <1>4, <1>9, <1>11 DEF c
        <3>2. CASE i # c
            <4>1. job'[i] = job[i]
                BY <3>2, <1>11
            <4>2. i \in S <=> /\ job[i].st # "none" /\ job[i].spent /\ job[i].ago < Longest(w)
                              /\ w \in Range(WindowsOf(job[i].meta)) /\ job[i].ago + 0 < l.len
                BY <1>12 DEF Owed
            <4> QED BY <3>2, <4>1, <4>2, <1>13
        <3> QED BY <3>1, <3>2
    <2>2. R \in SUBSET JobIds /\ S \cup {c} \in SUBSET JobIds
        BY <1>1, <1>14
    <2> HIDE DEF R, S
    <2> QED BY <2>1, <2>2
<1>16. IsFiniteSet(S)
    <2>1. IsFiniteSet(JobIds)
        BY Sizes, FS_Interval DEF JobIds
    <2> HIDE DEF S
    <2> QED BY <2>1, <1>14, FS_Subset
<1>17. \A i \in R : job'[i].meta.weight \in Nat
    <2>1. \A i \in S \cup {c} : job'[i].meta.weight \in Nat
        BY <1>4, <1>11, <1>13, <1>14 DEF c
    <2> HIDE DEF R, S
    <2> QED BY <2>1, <1>15
<1>18. \A i \in S : job[i].meta.weight = job'[i].meta.weight
    BY <1>11, <1>14
<1>19. job'[c].meta.weight = Meta.weight
    BY <1>4, <1>11 DEF c
<1> HIDE DEF R, S
<1>20. Weighed(job', R) = Weighed(job, S) + job'[c].meta.weight
    <2>1. OneMore(S, R, c) /\ Weights(job', R) /\ SameWeights(job, job', S)
        BY <1>14, <1>15, <1>16, <1>17, <1>18 DEF OneMore, Weights, SameWeights
    <2> QED BY <2>1, WeighedOneMore
<1>21. Weighed(job', R) <= l.cap
    BY <1>8, <1>19, <1>20
<1> QED BY <1>21 DEF R

------------------------------------------------------------------------------
\* Theorems

\* The ledger of a window set is exactly what the grants of its longest window
\* left there: consume debits each window of the job once, RollingWindow::refund
\* takes back that grant only, prune drops what is over, and a replacement of
\* the limits that keeps the spans loses nothing.
THEOREM DebitsAreAlwaysExact ==
    ASSUME SpansAreKept
    PROVE  Spec => []DebitsAreExact
<1>1. Init => BooksInv
    BY InitKeepsTheBooks
<1>2. QueueInv /\ BooksInv /\ [Next]_vars => BooksInv'
    BY StepsKeepTheBooks
<1>3. BooksInv => DebitsAreExact
    BY DEF BooksInv
<1> QED BY <1>1, <1>2, <1>3, QueuesAgree, PTL DEF Spec

\* No grant of grant_ready takes a window over its capacity, counted over the
\* history of the jobs and not over the ledger that the code keeps.
THEOREM RatesAreRespected ==
    ASSUME SpansAreKept
    PROVE  Spec => RateRespected
<1>1. Init => BooksInv
    BY InitKeepsTheBooks
<1>2. QueueInv /\ BooksInv /\ [Next]_vars => BooksInv'
    BY StepsKeepTheBooks
<1>3. ASSUME QueueInv, BooksInv, [Next]_vars, NEW j \in JobIds, GrantedNow(j),
             NEW w \in Range(WindowsOf(job[j].meta)), NEW l \in limits[w]
      PROVE  Weighed(job', {i \in JobIds : /\ job'[i].st # "none" /\ job'[i].spent
                                           /\ job'[i].ago < l.len
                                           /\ w \in Range(WindowsOf(job'[i].meta))}) <= l.cap
    <2>1. Grant
        <3>1. ~GrantsNothing
            BY <1>3 DEF GrantedNow, GrantsNothing, Waiting, Core
        <3> QED BY <3>1, <1>3, StepsKeepTheQueues
    <2>2. j = Candidate
        BY <2>1, <1>3, GrantKeepsTheQueues
    <2>3. limits' \in LimitSets
        <3>1. QueueInv'
            BY <1>3, StepsKeepTheQueues
        <3> QED BY <3>1 DEF QueueInv
    <2> QED BY <2>1, <2>2, <2>3, <1>3, GrantsFit
<1>4. QueueInv /\ BooksInv /\ [Next]_vars =>
        [\A j \in JobIds : GrantedNow(j) =>
            \A w \in Range(WindowsOf(job[j].meta)) : \A l \in limits[w] :
                Weighed(job', {i \in JobIds : /\ job'[i].st # "none" /\ job'[i].spent
                                              /\ job'[i].ago < l.len
                                              /\ w \in Range(WindowsOf(job'[i].meta))})
                  <= l.cap]_vars
    BY <1>3
<1> QED BY <1>1, <1>2, <1>4, QueuesAgree, PTL DEF Spec, RateRespected

=============================================================================
