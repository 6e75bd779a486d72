---------------------------- MODULE SetInduction ----------------------------
(***************************************************************************)
(* Induction without an operator parameter: the facts of the library's     *)
(* induction theorems that the other proofs need, stated about a set       *)
(* instead of a predicate and derived from the well-foundedness of strict  *)
(* inclusion on finite sets.                                               *)
(***************************************************************************)
EXTENDS Integers, Sequences, FiniteSets, FiniteSetTheorems, WellFoundedInduction, TLAPS

Minimal(A, F) == A \in F /\ \A B \in F : B \subseteq A => B = A

\* A family of subsets of a finite set that holds a member has a minimal one.
LEMMA MinimalSubset ==
    ASSUME NEW S, IsFiniteSet(S), NEW F, F \subseteq SUBSET S, F # {}
    PROVE  \E A : Minimal(A, F)
<1>1. IsWellFoundedOn(StrictSubsetOrdering(S), SUBSET S)
    BY FS_StrictSubsetOrderingWellFounded, FS_FiniteSubsetsOfFinite
<1>2. PICK A \in F : \A B \in F : ~ (<< B, A >> \in StrictSubsetOrdering(S))
    BY <1>1, WFMin
<1>3. ASSUME NEW B \in F, B \subseteq A PROVE B = A
    <2>1. << B, A >> \in (SUBSET S) \X (SUBSET S)
        OBVIOUS
    <2> QED
        BY <1>2, <1>3, <2>1 DEF StrictSubsetOrdering
<1> QED
    BY <1>3 DEF Minimal

\* A finite set of numbers that is not empty has a greatest element.
LEMMA GreatestElement ==
    ASSUME NEW S \in SUBSET Int, IsFiniteSet(S), S # {}
    PROVE  \E m \in S : \A k \in S : k <= m
<1> DEFINE Bounded(A) == \E m \in A : \A k \in A : k <= m
           F == {A \in SUBSET S : A # {} /\ ~ Bounded(A)}
<1>1. CASE F = {}
    <2>1. Bounded(S)
        BY <1>1
    <2> QED
        BY <2>1
<1>2. CASE F # {}
    <2>1. PICK A : Minimal(A, F)
        <3> HIDE DEF F
        <3>1. F \subseteq SUBSET S
            BY DEF F
        <3> QED
            BY <1>2, <3>1, MinimalSubset
    <2>2. A \in SUBSET S /\ A # {} /\ ~ Bounded(A)
        BY <2>1 DEF Minimal
    <2>3. PICK x \in A : TRUE
        BY <2>2
    <2>4. x \in Int /\ A \subseteq Int
        BY <2>2, <2>3
    <2> DEFINE B == A \ {x}
    <2>5. B \notin F
        <3>1. B \subseteq A /\ B # A
            BY <2>3
        <3> HIDE DEF B, F
        <3> QED
            BY <2>1, <3>1 DEF Minimal
    <2>6. CASE B = {}
        <3>1. \A k \in A : k = x
            BY <2>6
        <3> QED
            BY <2>2, <2>3, <2>4, <3>1
    <2>7. CASE B # {}
        <3>1. Bounded(B)
            BY <2>2, <2>5, <2>7
        <3>2. PICK m \in B : \A k \in B : k <= m
            BY <3>1
        <3>3. \A k \in A : k = x \/ k <= m
            BY <3>2
        <3>4. m \in A /\ m \in Int
            BY <2>4, <3>2
        <3>5. Bounded(A)
            <4>1. CASE x <= m
                BY <2>4, <3>3, <3>4, <4>1
            <4>2. CASE ~ (x <= m)
                BY <2>3, <2>4, <3>3, <3>4, <4>2
            <4> QED
                BY <4>1, <4>2
        <3> QED
            BY <2>2, <3>5
    <2> QED
        BY <2>6, <2>7
<1> QED
    BY <1>1, <1>2

\* A set of naturals that is not empty has a least element.
LEMMA LeastElement ==
    ASSUME NEW S \in SUBSET Nat, S # {}
    PROVE  \E m \in S : \A k \in S : m <= k
<1>1. PICK n \in S : TRUE
    OBVIOUS
<1> DEFINE T == {i \in 0 .. n : n - i \in S}
<1>2. IsFiniteSet(T) /\ T \in SUBSET Int
    <2>1. T \in SUBSET (0 .. n) /\ IsFiniteSet(0 .. n)
        BY FS_Interval
    <2> QED
        BY <2>1, FS_Subset
<1>3. 0 \in T
    BY <1>1
<1>4. PICK g \in T : \A k \in T : k <= g
    <2> HIDE DEF T
    <2> QED
        BY <1>2, <1>3, GreatestElement
<1>5. ASSUME NEW k \in S PROVE n - g <= k
    <2>1. CASE k <= n
        <3>1. n - k \in 0 .. n /\ n - (n - k) = k
            BY <2>1
        <3>2. n - k \in T
            BY <1>5, <3>1
        <3> QED
            BY <1>4, <3>2
    <2>2. CASE ~ (k <= n)
        BY <2>2
    <2> QED
        BY <2>1, <2>2
<1>6. n - g \in S
    BY <1>4
<1> QED
    BY <1>5, <1>6

\* A set that holds 0 and with every natural its successor holds the naturals.
LEMMA NaturalsBySuccessor ==
    ASSUME NEW P, 0 \in P, \A n \in Nat : n \in P => n + 1 \in P
    PROVE  Nat \subseteq P
<1> DEFINE S == {n \in Nat : n \notin P}
<1>1. CASE S = {}
    BY <1>1
<1>2. CASE S # {}
    <2>1. PICK m \in S : \A k \in S : m <= k
        <3> HIDE DEF S
        <3>1. S \in SUBSET Nat
            BY DEF S
        <3> QED
            BY <1>2, <3>1, LeastElement
    <2>2. m \in Nat /\ m \notin P /\ m # 0
        BY <2>1
    <2>3. m - 1 \in Nat /\ m - 1 \notin S
        BY <2>1, <2>2
    <2> QED
        BY <2>2, <2>3
<1> QED
    BY <1>1, <1>2

\* A set that holds 0, and with every number of an interval from 0 on the next,
\* holds the interval.
LEMMA UpTheInterval ==
    ASSUME NEW n \in Nat, NEW P, 0 \in P, \A k \in 1 .. n : k - 1 \in P => k \in P
    PROVE  0 .. n \subseteq P
<1> DEFINE Q == {k \in Nat : k <= n => k \in P}
<1>1. 0 \in Q
    OBVIOUS
<1>2. ASSUME NEW k \in Nat, k \in Q PROVE k + 1 \in Q
    <2>1. k + 1 <= n => k \in P /\ k + 1 \in 1 .. n /\ (k + 1) - 1 = k
        BY <1>2
    <2>2. k + 1 <= n => k + 1 \in P
        BY <2>1
    <2> QED
        BY <2>2
<1>3. Nat \subseteq Q
    <2> HIDE DEF Q
    <2> QED
        BY <1>1, <1>2, NaturalsBySuccessor
<1> QED
    BY <1>3

\* The steps lead from the base, in the first set of a family, on to the others.
Leads(n, S, base, Step) ==
    base \in S[0] /\ \A k \in 1 .. n : \A x \in S[k - 1] : Step[k][x] \in S[k]

\* The function that they define by recursion over an interval.
Recursive(f, n, S, base, Step) ==
    /\ f = [k \in 0 .. n |-> f[k]] /\ \A k \in 0 .. n : f[k] \in S[k]
    /\ f[0] = base /\ \A k \in 1 .. n : f[k] = Step[k][f[k - 1]]

\* There is such a function, with its values in the sets of the family.
LEMMA RecursionHasSolution ==
    ASSUME NEW n \in Nat, NEW S, NEW base, NEW Step, Leads(n, S, base, Step)
    PROVE  \E f : Recursive(f, n, S, base, Step)
<1> DEFINE P == {m \in 0 .. n : \E f : Recursive(f, m, S, base, Step)}
<1>1. 0 \in P
    <2> DEFINE f == [k \in 0 .. 0 |-> base]
    <2>1. Recursive(f, 0, S, base, Step)
        BY DEF Leads, Recursive
    <2> HIDE DEF f
    <2> QED
        BY <2>1
<1>2. ASSUME NEW k \in 1 .. n, k - 1 \in P PROVE k \in P
    <2>1. PICK f : Recursive(f, k - 1, S, base, Step)
        BY <1>2
    <2> DEFINE next == Step[k][f[k - 1]]
               g == [j \in 0 .. k |-> IF j = k THEN next ELSE f[j]]
    <2>2. next \in S[k]
        <3>1. f[k - 1] \in S[k - 1]
            BY <2>1 DEF Recursive
        <3> QED
            BY <3>1 DEF Leads
    <2> HIDE DEF next
    <2>3. \A j \in 0 .. k : g[j] = IF j = k THEN next ELSE f[j]
        OBVIOUS
    <2>4. g = [j \in 0 .. k |-> g[j]]
        OBVIOUS
    <2> HIDE DEF g
    <2>5. ASSUME NEW j \in 0 .. k PROVE g[j] \in S[j]
        <3>1. j # k => j \in 0 .. k - 1
            OBVIOUS
        <3> QED
            BY <2>1, <2>2, <2>3, <3>1 DEF Recursive
    <2>6. g[0] = base
        <3>1. 0 \in 0 .. k /\ 0 # k
            OBVIOUS
        <3>2. f[0] = base
            BY <2>1 DEF Recursive
        <3> QED
            BY <2>3, <3>1, <3>2
    <2>7. ASSUME NEW j \in 1 .. k PROVE g[j] = Step[j][g[j - 1]]
        <3>1. j \in 0 .. k /\ j - 1 \in 0 .. k /\ j - 1 # k
            BY <2>7
        <3>2. g[j - 1] = f[j - 1]
            BY <2>3, <3>1
        <3>3. CASE j = k
            BY <2>3, <3>1, <3>2, <3>3 DEF next
        <3>4. CASE j # k
            <4>1. j \in 1 .. k - 1
                BY <3>4
            <4>2. g[j] = f[j] /\ f[j] = Step[j][f[j - 1]]
                BY <2>1, <2>3, <3>1, <3>4, <4>1 DEF Recursive
            <4> QED
                BY <3>2, <4>2
        <3> QED
            BY <3>3, <3>4
    <2>8. Recursive(g, k, S, base, Step)
        BY <2>4, <2>5, <2>6, <2>7 DEF Recursive
    <2> QED
        BY <2>8
<1>3. 0 .. n \subseteq P
    <2> HIDE DEF P
    <2> QED
        BY <1>1, <1>2, UpTheInterval
<1> QED
    BY <1>3

\* What FlattenSeq of SequencesExt makes of n sequences, from one on.
Joined(seqs, n) ==
    LET flatten[i \in 1 .. n] == IF i = 1 THEN seqs[i] ELSE flatten[i - 1] \o seqs[i]
    IN  flatten[n]

\* Sequences joined one by one are in the last set of a family if each joins
\* what is in one set to something in the next.
LEMMA JoinedStepwise ==
    ASSUME NEW seqs, NEW n \in Nat, n # 0, NEW S, seqs[1] \in S[1],
           \A k \in 1 .. n - 1 : \A x \in S[k] : x \o seqs[k + 1] \in S[k + 1]
    PROVE  Joined(seqs, n) \in S[n]
<1> DEFINE Step == [k \in 1 .. n - 1 |-> [x \in S[k] |-> x \o seqs[k + 1]]]
           F == [k \in 0 .. n - 1 |-> S[k + 1]]
           Unfold(f) == [i \in 1 .. n |-> IF i = 1 THEN seqs[i] ELSE f[i - 1] \o seqs[i]]
           flatten == CHOOSE f : f = Unfold(f)
<1>1. n - 1 \in Nat
    OBVIOUS
<1>2. PICK g : Recursive(g, n - 1, F, seqs[1], Step)
    <2>1. /\ F[0] = S[1]
          /\ \A k \in 1 .. n - 1 : F[k - 1] = S[k] /\ F[k] = S[k + 1]
        BY <1>1
    <2>2. ASSUME NEW k \in 1 .. n - 1, NEW x \in F[k - 1] PROVE Step[k][x] \in F[k]
        <3>1. x \in S[k] /\ F[k] = S[k + 1]
            BY <2>1
        <3>2. x \o seqs[k + 1] \in S[k + 1]
            BY <3>1, SMTT(60)
        <3> HIDE DEF F
        <3> QED
            BY <3>1, <3>2
    <2> HIDE DEF Step, F
    <2>3. Leads(n - 1, F, seqs[1], Step)
        BY <2>1, <2>2 DEF Leads
    <2> QED
        BY <1>1, <2>3, RecursionHasSolution
<1>3. /\ g[0] = seqs[1]
      /\ \A k \in 1 .. n - 1 : g[k] = g[k - 1] \o seqs[k + 1]
    <2>1. \A k \in 0 .. n - 1 : g[k] \in F[k]
        BY <1>2 DEF Recursive
    <2>2. ASSUME NEW k \in 1 .. n - 1
          PROVE  Step[k][g[k - 1]] = g[k - 1] \o seqs[k + 1]
        <3>1. k - 1 \in 0 .. n - 1 /\ (k - 1) + 1 = k
            OBVIOUS
        <3>2. g[k - 1] \in S[k]
            BY <2>1, <3>1
        <3> QED
            BY <3>2
    <2> HIDE DEF Step
    <2> QED
        BY <1>2, <2>2 DEF Recursive
<1> DEFINE h == [i \in 1 .. n |-> g[i - 1]]
<1>4. h = Unfold(h)
    <2>1. ASSUME NEW i \in 1 .. n
          PROVE  h[i] = IF i = 1 THEN seqs[i] ELSE h[i - 1] \o seqs[i]
        <3>1. CASE i = 1
            BY <1>3, <3>1
        <3>2. CASE i # 1
            <4>1. i - 1 \in 1 .. n - 1 /\ i - 1 \in 1 .. n /\ (i - 1) + 1 = i
                BY <3>2
            <4>2. g[i - 1] = g[(i - 1) - 1] \o seqs[i]
                BY <1>3, <4>1
            <4>3. h[i] = g[i - 1] /\ h[i - 1] = g[(i - 1) - 1]
                BY <4>1
            <4> QED
                BY <3>2, <4>2, <4>3
        <3> QED
            BY <3>1, <3>2
    <2>2. h = [i \in 1 .. n |-> h[i]]
        OBVIOUS
    <2> HIDE DEF h
    <2> QED
        BY <2>1, <2>2
<1>5. flatten = Unfold(flatten)
    <2> HIDE DEF Unfold
    <2> QED
        BY <1>4
<1>6. Joined(seqs, n) = flatten[n]
    BY DEF Joined
<1> HIDE DEF flatten
<1>7. \A i \in 1 .. n : flatten[i] = IF i = 1 THEN seqs[i] ELSE flatten[i - 1] \o seqs[i]
    BY <1>5
<1> DEFINE P == {k \in 0 .. n - 1 : flatten[k + 1] \in S[k + 1]}
<1>8. 0 \in P
    BY <1>1, <1>7
<1>9. ASSUME NEW k \in 1 .. n - 1, k - 1 \in P PROVE k \in P
    <2>1. flatten[k] \in S[k]
        BY <1>9
    <2>2. k + 1 \in 1 .. n /\ k + 1 # 1 /\ (k + 1) - 1 = k /\ k \in 0 .. n - 1
        OBVIOUS
    <2>3. flatten[k + 1] = flatten[k] \o seqs[k + 1]
        BY <1>7, <2>2
    <2>4. flatten[k + 1] \in S[k + 1]
        BY <2>1, <2>3
    <2> QED
        BY <2>2, <2>4
<1>10. 0 .. n - 1 \subseteq P
    <2> HIDE DEF P
    <2> QED
        BY <1>1, <1>8, <1>9, UpTheInterval
<1>11. n - 1 \in 0 .. n - 1 /\ (n - 1) + 1 = n
    BY <1>1
<1> QED
    BY <1>6, <1>10, <1>11

\* What is closed under concatenation holds sequences joined if it holds each.
LEMMA JoinedInside ==
    ASSUME NEW seqs, NEW n \in Nat, n # 0, NEW G,
           \A k \in 1 .. n : seqs[k] \in G, \A x, y \in G : x \o y \in G
    PROVE  Joined(seqs, n) \in G
<1> DEFINE S == [k \in 1 .. n |-> G]
<1>1. seqs[1] \in S[1] /\ S[n] = G
    OBVIOUS
<1>2. ASSUME NEW k \in 1 .. n - 1, NEW x \in S[k] PROVE x \o seqs[k + 1] \in S[k + 1]
    <2>1. k \in 1 .. n /\ k + 1 \in 1 .. n
        OBVIOUS
    <2>2. x \in G /\ S[k + 1] = G
        BY <2>1
    <2> HIDE DEF S
    <2> QED
        BY <2>1, <2>2
<1> HIDE DEF S
<1> QED
    BY <1>1, <1>2, JoinedStepwise
=============================================================================
