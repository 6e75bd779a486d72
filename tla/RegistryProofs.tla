--------------------------- MODULE RegistryProofs ---------------------------
(***************************************************************************)
(* Theorems about the schema registry: versions are kept, and a table that *)
(* is migrated between aligned schemas, as often as its caller likes, is   *)
(* what a comparison of the schemas by name says.                          *)
(***************************************************************************)
EXTENDS SchemaRegistry, SetInduction, SequenceTheorems

-----------------------------------------------------------------------------
(* Names *)

LEMMA VectorProperties ==
    ASSUME NEW s, IsVector(s)
    PROVE  /\ Len(s) \in Nat /\ DOMAIN s = 1 .. Len(s)
           /\ DOMAIN s \subseteq Nat /\ IsFiniteSet(DOMAIN s) /\ 0 \notin DOMAIN s
<1>1. Len(s) \in Nat /\ DOMAIN s = 1 .. Len(s)
    BY LenProperties DEF IsVector
<1> QED
    BY <1>1, FS_Interval

\* The map from names to the last kind or field that has it.
Names(v, defs) == {Text(v, defs[i].name) : i \in DOMAIN defs} \ {NoName}
Last(v, defs, s, i) ==
    /\ i \in DOMAIN defs /\ Text(v, defs[i].name) = s
    /\ \A j \in DOMAIN defs : Text(v, defs[j].name) = s => j <= i

LEMMA NameMap ==
    ASSUME NEW v, NEW defs, IsVector(defs)
    PROVE  /\ DOMAIN build_name_map(v, defs) = Names(v, defs)
           /\ \A s \in Names(v, defs) : Last(v, defs, s, build_name_map(v, defs)[s])
<1> DEFINE Holders(s) == {i \in DOMAIN defs : Text(v, defs[i].name) = s}
<1>1. build_name_map(v, defs) =
        [s \in Names(v, defs) |-> CHOOSE i \in Holders(s) : \A j \in Holders(s) : j <= i]
    BY DEF build_name_map, Names
<1>2. ASSUME NEW s \in Names(v, defs)
      PROVE  \E i \in Holders(s) : \A j \in Holders(s) : j <= i
    <2>1. Holders(s) \subseteq DOMAIN defs /\ Holders(s) # {}
        BY DEF Names
    <2>2. Holders(s) \in SUBSET Int /\ IsFiniteSet(Holders(s))
        BY <2>1, VectorProperties, FS_Subset
    <2> HIDE DEF Holders
    <2> QED
        BY <2>1, <2>2, GreatestElement
<1>3. ASSUME NEW s \in Names(v, defs)
      PROVE  Last(v, defs, s, build_name_map(v, defs)[s])
    <2> DEFINE i == CHOOSE i \in Holders(s) : \A j \in Holders(s) : j <= i
    <2>1. i \in Holders(s) /\ \A j \in Holders(s) : j <= i
        BY <1>2
    <2>2. build_name_map(v, defs)[s] = i
        BY <1>1
    <2> HIDE DEF i
    <2> QED
        BY <2>1, <2>2 DEF Last
<1> QED
    BY <1>1, <1>3

\* Two names stand for two kinds or fields.
LEMMA NamesDiffer ==
    ASSUME NEW v, NEW defs, IsVector(defs),
           NEW s \in Names(v, defs), NEW t \in Names(v, defs),
           build_name_map(v, defs)[s] = build_name_map(v, defs)[t]
    PROVE  s = t
BY NameMap DEF Last

\* With distinct names, each kind or field is what its name stands for.
LEMMA DistinctNames ==
    ASSUME NEW v, NEW defs, IsVector(defs), Distinct(v, defs), NEW i \in DOMAIN defs
    PROVE  /\ Text(v, defs[i].name) \in Names(v, defs)
           /\ build_name_map(v, defs)[Text(v, defs[i].name)] = i
<1>1. Text(v, defs[i].name) \in Names(v, defs)
    BY DEF Distinct, Names
<1> QED
    BY <1>1, NameMap DEF Distinct, Last

-----------------------------------------------------------------------------
(* Plans *)

At(set, f) == {m \in set : m.field_idx = f}

LEMMA MigrationFields ==
    ASSUME NEW what, NEW kind, NEW field, NEW old, NEW new
    PROVE  LET m == Migration(what, kind, field, old, new)
           IN  /\ m.migration_kind = what /\ m.kind_id = kind
               /\ m.field_idx = field /\ m.old_type = old /\ m.new_type = new
BY DEF Migration

\* The migrations planned for a kind carry its id.
LEMMA OfTheirKind ==
    ASSUME NEW v, NEW w, NEW k, NEW j
    PROVE  /\ \A m \in RemovedFields(v, k, w, j) : m.kind_id = k
           /\ \A m \in AddedFields(v, k, w, j) : m.kind_id = k
           /\ \A m \in ChangedFields(v, k, w, j) : m.kind_id = k
           /\ \A m \in RemovedKind(v, k) : m.kind_id = k
           /\ \A m \in AddedKind(w, k) : m.kind_id = kInvalidKind
BY MigrationFields DEF RemovedFields, AddedFields, ChangedFields, RemovedKind, AddedKind

\* What a plan holds of each sort.
LEMMA PlanHolds ==
    ASSUME NEW v, NEW w, IsVersion(v), IsVersion(w), NEW m
    PROVE  LET from == kind_names(v)
               to == kind_names(w)
               plan == compute_migration(v, w)
           IN  /\ m \in plan.removed <=>
                     \/ \E s \in DOMAIN from \cap DOMAIN to :
                            m \in RemovedFields(v, from[s], w, to[s])
                     \/ \E s \in DOMAIN from \ DOMAIN to : m \in RemovedKind(v, from[s])
               /\ m \in plan.added <=>
                     \/ \E s \in DOMAIN from \cap DOMAIN to :
                            m \in AddedFields(v, from[s], w, to[s])
                     \/ \E s \in DOMAIN to \ DOMAIN from : m \in AddedKind(w, to[s])
               /\ m \in plan.changed <=>
                     \E s \in DOMAIN from \cap DOMAIN to :
                            m \in ChangedFields(v, from[s], w, to[s])
<1> DEFINE from == kind_names(v)
           to == kind_names(w)
           plan == compute_migration(v, w)
           kept == DOMAIN from \cap DOMAIN to
           gone == DOMAIN from \ DOMAIN to
           brand_new == DOMAIN to \ DOMAIN from
           Removed == UNION {RemovedFields(v, from[s], w, to[s]) : s \in kept}
           Gone == UNION {RemovedKind(v, from[s]) : s \in gone}
           Added == UNION {AddedFields(v, from[s], w, to[s]) : s \in kept}
           New == UNION {AddedKind(w, to[s]) : s \in brand_new}
           Changed == UNION {ChangedFields(v, from[s], w, to[s]) : s \in kept}
<1>1. plan.removed = Removed \cup Gone /\ plan.added = Added \cup New /\ plan.changed = Changed
    <2>1. plan = [removed |-> Removed \cup Gone, added |-> Added \cup New, changed |-> Changed]
        BY DEF compute_migration
    <2> HIDE DEF plan, Removed, Gone, Added, New, Changed
    <2> QED
        BY <2>1
<1> HIDE DEF plan, from, to, kept, gone, brand_new
<1>2. /\ m \in Removed <=> \E s \in kept : m \in RemovedFields(v, from[s], w, to[s])
      /\ m \in Gone <=> \E s \in gone : m \in RemovedKind(v, from[s])
      /\ m \in Added <=> \E s \in kept : m \in AddedFields(v, from[s], w, to[s])
      /\ m \in New <=> \E s \in brand_new : m \in AddedKind(w, to[s])
      /\ m \in Changed <=> \E s \in kept : m \in ChangedFields(v, from[s], w, to[s])
    OBVIOUS
<1> HIDE DEF Removed, Gone, Added, New, Changed
<1> QED
    BY <1>1, <1>2 DEF plan, from, to, kept, gone, brand_new

LEMMA KindMap ==
    ASSUME NEW v, IsVersion(v)
    PROVE  /\ DOMAIN kind_names(v) = Names(v, v.kinds)
           /\ \A s \in Names(v, v.kinds) : Last(v, v.kinds, s, kind_names(v)[s])
           /\ \A s, t \in Names(v, v.kinds) :
                kind_names(v)[s] = kind_names(v)[t] => s = t
<1>1. IsVector(v.kinds)
    BY DEF IsVersion
<1> QED
    BY <1>1, NameMap, NamesDiffer DEF kind_names

\* The part of a plan that concerns a kind which has a name of its own: its
\* removals, additions and changes where the name is kept, the removal of all
\* its fields where it is not.
LEMMA PlanOfKind ==
    ASSUME NEW v, NEW w, IsVersion(v), IsVersion(w), Distinct(v, v.kinds),
           NEW k \in DOMAIN v.kinds, NEW f,
           NEW s, s = Text(v, v.kinds[k].name), NEW to, to = kind_names(w),
           NEW plan, plan = compute_migration(v, w)
    PROVE  /\ s \in DOMAIN to =>
                 /\ Concerning(plan.removed, k, f) = At(RemovedFields(v, k, w, to[s]), f)
                 /\ Concerning(plan.added, k, f) = At(AddedFields(v, k, w, to[s]), f)
                 /\ Concerning(plan.changed, k, f) = At(ChangedFields(v, k, w, to[s]), f)
           /\ s \notin DOMAIN to =>
                 /\ Concerning(plan.removed, k, f) = At(RemovedKind(v, k), f)
                 /\ Concerning(plan.added, k, f) = {}
                 /\ Concerning(plan.changed, k, f) = {}
<1> DEFINE from == kind_names(v)
<1>1. s \in DOMAIN from /\ from[s] = k
    BY KindMap, DistinctNames DEF kind_names, IsVersion
<1>2. \A t \in DOMAIN from : from[t] = k => t = s
    BY <1>1, KindMap
<1>3. k # kInvalidKind
    BY VectorProperties DEF kInvalidKind, IsVersion
<1>4. ASSUME NEW m, m.kind_id = k
      PROVE  /\ s \in DOMAIN to =>
                   /\ m \in plan.removed <=> m \in RemovedFields(v, k, w, to[s])
                   /\ m \in plan.added <=> m \in AddedFields(v, k, w, to[s])
                   /\ m \in plan.changed <=> m \in ChangedFields(v, k, w, to[s])
             /\ s \notin DOMAIN to =>
                   /\ m \in plan.removed <=> m \in RemovedKind(v, k)
                   /\ m \notin plan.added
                   /\ m \notin plan.changed
    <2>1. ASSUME NEW t, t \in DOMAIN from
          PROVE  /\ m \in RemovedFields(v, from[t], w, to[t]) => t = s
                 /\ m \in AddedFields(v, from[t], w, to[t]) => t = s
                 /\ m \in ChangedFields(v, from[t], w, to[t]) => t = s
                 /\ m \in RemovedKind(v, from[t]) => t = s
        BY <1>2, <1>4, <2>1, OfTheirKind
    <2>2. \A t : m \notin AddedKind(w, to[t])
        BY <1>3, <1>4, OfTheirKind, ZenonT(60)
    <2> HIDE DEF from
    <2>3. m \in plan.removed <=>
              \/ s \in DOMAIN to /\ m \in RemovedFields(v, k, w, to[s])
              \/ s \notin DOMAIN to /\ m \in RemovedKind(v, k)
        BY <1>1, <2>1, PlanHolds DEF from
    <2>4. m \in plan.added <=> s \in DOMAIN to /\ m \in AddedFields(v, k, w, to[s])
        BY <1>1, <2>1, <2>2, PlanHolds DEF from
    <2>5. m \in plan.changed <=> s \in DOMAIN to /\ m \in ChangedFields(v, k, w, to[s])
        BY <1>1, <2>1, PlanHolds DEF from
    <2> QED
        BY <2>3, <2>4, <2>5
<1>5. /\ \A m \in RemovedFields(v, k, w, to[s]) : m.kind_id = k
      /\ \A m \in AddedFields(v, k, w, to[s]) : m.kind_id = k
      /\ \A m \in ChangedFields(v, k, w, to[s]) : m.kind_id = k
      /\ \A m \in RemovedKind(v, k) : m.kind_id = k
    BY OfTheirKind
<1>6. CASE s \in DOMAIN to
    BY <1>4, <1>5, <1>6 DEF Concerning, At
<1>7. CASE s \notin DOMAIN to
    BY <1>4, <1>5, <1>7 DEF Concerning, At
<1> QED
    BY <1>6, <1>7

\* Nothing in a plan concerns a kind that the old schema has not, but for the
\* new kinds, whose fields are planned for kInvalidKind.
LEMMA PlanOfNoKind ==
    ASSUME NEW v, NEW w, IsVersion(v), IsVersion(w),
           NEW k, k \notin DOMAIN v.kinds, k # kInvalidKind, NEW f
    PROVE  LET plan == compute_migration(v, w)
           IN  /\ Concerning(plan.removed, k, f) = {}
               /\ Concerning(plan.added, k, f) = {}
               /\ Concerning(plan.changed, k, f) = {}
<1> DEFINE from == kind_names(v)
           to == kind_names(w)
           plan == compute_migration(v, w)
<1>1. \A t \in DOMAIN from : from[t] # k
    BY KindMap DEF Last
<1>2. ASSUME NEW m, m.kind_id = k
      PROVE  m \notin plan.removed /\ m \notin plan.added /\ m \notin plan.changed
    <2>1. ASSUME NEW t \in DOMAIN from
          PROVE  /\ m \notin RemovedFields(v, from[t], w, to[t])
                 /\ m \notin AddedFields(v, from[t], w, to[t])
                 /\ m \notin ChangedFields(v, from[t], w, to[t])
                 /\ m \notin RemovedKind(v, from[t])
        <3>1. m.kind_id # from[t]
            BY <1>1, <1>2
        <3> HIDE DEF from, to
        <3> QED
            BY <3>1, OfTheirKind
    <2>2. \A t : m \notin AddedKind(w, to[t])
        BY <1>2, OfTheirKind
    <2> HIDE DEF from, to, plan
    <2> QED
        BY <2>1, <2>2, PlanHolds DEF from, to, plan
<1> HIDE DEF plan
<1> QED
    BY <1>2 DEF Concerning, plan

-----------------------------------------------------------------------------
(* Passes *)

LEMMA PassedOver ==
    ASSUME NEW fields, NEW k, NEW pass, NEW f \in FieldIds, Concerning(pass, k, f) = {}
    PROVE  Passed(fields, k, pass)[f] = fields[f]
BY DEF Passed

LEMMA PassedBy ==
    ASSUME NEW fields, NEW k, NEW pass, NEW f \in FieldIds, Concerning(pass, k, f) # {}
    PROVE  \E m \in Concerning(pass, k, f) :
                Passed(fields, k, pass)[f] = Migrated(fields[f], m)
BY DEF Passed

-----------------------------------------------------------------------------
(* The serialised form *)

\* What the interning of the first i atoms has to be.
Unfold(atoms, g) ==
    [i \in 0 .. Len(atoms) |-> IF i = 0 THEN << >> ELSE intern(g[i - 1], atoms[i])]

\* The pools that interning goes through, up to the m-th atom.
Interning(atoms, m, g) ==
    /\ g \in [0 .. m -> Seq(Seqs!ToSet(atoms))]
    /\ g[0] = << >>
    /\ \A i \in 1 .. m : g[i] = intern(g[i - 1], atoms[i])

LEMMA InternProperties ==
    ASSUME NEW S, NEW pool \in Seq(S), NEW t \in S
    PROVE  intern(pool, t) \in Seq(S)
BY AppendProperties DEF intern

LEMMA InterningGrows ==
    ASSUME NEW atoms, IsVector(atoms), NEW m \in Nat, m + 1 <= Len(atoms),
           NEW g, Interning(atoms, m, g)
    PROVE  \E h : Interning(atoms, m + 1, h)
<1> DEFINE S == Seqs!ToSet(atoms)
           h == [i \in 0 .. m + 1 |-> IF i <= m THEN g[i] ELSE intern(g[m], atoms[m + 1])]
<1>1. m + 1 \in 1 .. Len(atoms) /\ atoms[m + 1] \in S
    BY VectorProperties, ElementOfSeq DEF IsVector
<1>2. /\ g \in [0 .. m -> Seq(S)]
      /\ g[0] = << >>
      /\ \A i \in 1 .. m : g[i] = intern(g[i - 1], atoms[i])
    BY DEF Interning
<1> HIDE DEF S
<1>3. g[m] \in Seq(S) /\ intern(g[m], atoms[m + 1]) \in Seq(S)
    BY <1>1, <1>2, InternProperties
<1>4. h \in [0 .. m + 1 -> Seq(S)]
    BY <1>2, <1>3
<1>5. h[0] = << >>
    BY <1>2
<1>6. ASSUME NEW i \in 1 .. m + 1 PROVE h[i] = intern(h[i - 1], atoms[i])
    <2>1. CASE i <= m
        <3>1. i \in 0 .. m + 1 /\ i - 1 \in 0 .. m + 1 /\ i - 1 <= m /\ i \in 1 .. m
            BY <2>1
        <3>2. h[i] = g[i] /\ h[i - 1] = g[i - 1]
            BY <2>1, <3>1
        <3> HIDE DEF h
        <3> QED
            BY <1>2, <3>1, <3>2
    <2>2. CASE ~ (i <= m)
        <3>1. i = m + 1 /\ i \in 0 .. m + 1 /\ i - 1 \in 0 .. m + 1 /\ i - 1 = m /\ m <= m
            BY <2>2
        <3>2. h[i - 1] = g[m]
            BY <3>1
        <3>3. h[i] = intern(g[m], atoms[m + 1])
            BY <2>2, <3>1
        <3> QED
            BY <3>1, <3>2, <3>3
    <2> QED
        BY <2>1, <2>2
<1> HIDE DEF h
<1>7. Interning(atoms, m + 1, h)
    BY <1>4, <1>5, <1>6 DEF Interning, S
<1> QED
    BY <1>7

LEMMA InterningExists ==
    ASSUME NEW atoms, IsVector(atoms)
    PROVE  \E g : Interning(atoms, Len(atoms), g)
<1> DEFINE P == {m \in Nat : m <= Len(atoms) => \E g : Interning(atoms, m, g)}
<1>1. 0 \in P
    <2> DEFINE g == [i \in 0 .. 0 |-> << >>]
    <2>1. << >> \in Seq(Seqs!ToSet(atoms))
        BY EmptySeq
    <2>2. g \in [0 .. 0 -> Seq(Seqs!ToSet(atoms))] /\ g[0] = << >>
        BY <2>1
    <2> HIDE DEF g
    <2>3. Interning(atoms, 0, g)
        BY <2>2 DEF Interning
    <2> QED
        BY <2>3
<1>2. ASSUME NEW m \in Nat, m \in P PROVE m + 1 \in P
    <2>1. CASE m + 1 <= Len(atoms)
        <3>1. m <= Len(atoms)
            BY <2>1, VectorProperties
        <3>2. PICK g : Interning(atoms, m, g)
            BY <1>2, <3>1
        <3>3. \E h : Interning(atoms, m + 1, h)
            BY <2>1, <3>2, InterningGrows
        <3> QED
            BY <3>3
    <2>2. CASE ~ (m + 1 <= Len(atoms))
        BY <2>2
    <2> QED
        BY <2>1, <2>2
<1>3. Nat \subseteq P
    <2> HIDE DEF P
    <2> QED
        BY <1>1, <1>2, NaturalsBySuccessor
<1> QED
    BY <1>3, VectorProperties

\* The recursive definition of the restored pool has a solution.
LEMMA RestoredPool ==
    ASSUME NEW v, IsVersion(v)
    PROVE  \E g : /\ g = Unfold(v.atoms, g)
                  /\ restored(v) = [v EXCEPT !.atoms = g[Len(v.atoms)]]
<1> DEFINE n == Len(v.atoms)
           pool == CHOOSE g : g = Unfold(v.atoms, g)
<1>1. IsVector(v.atoms) /\ n \in Nat
    BY VectorProperties DEF IsVersion
<1>2. PICK g : Interning(v.atoms, n, g)
    BY <1>1, InterningExists
<1>3. g = Unfold(v.atoms, g)
    <2>1. /\ g = [i \in 0 .. n |-> g[i]]
          /\ g[0] = << >>
          /\ \A i \in 1 .. n : g[i] = intern(g[i - 1], v.atoms[i])
        BY <1>2 DEF Interning
    <2>2. \A i \in 0 .. n : i # 0 => i \in 1 .. n
        BY <1>1
    <2>3. \A i \in 0 .. n :
            g[i] = IF i = 0 THEN << >> ELSE intern(g[i - 1], v.atoms[i])
        BY <2>1, <2>2
    <2> QED
        BY <2>1, <2>3 DEF Unfold
<1>4. pool = Unfold(v.atoms, pool)
    BY <1>3
<1>5. restored(v) = [v EXCEPT !.atoms = pool[n]]
    BY DEF restored, Unfold
<1> QED
    BY <1>4, <1>5

LEMMA PoolStep ==
    ASSUME NEW atoms, IsVector(atoms), NEW g, g = Unfold(atoms, g)
    PROVE  /\ g[0] = << >>
           /\ \A i \in Nat : i + 1 <= Len(atoms) =>
                /\ i + 1 \in 1 .. Len(atoms)
                /\ g[i + 1] = intern(g[i], atoms[i + 1])
<1>1. Len(atoms) \in Nat
    BY VectorProperties
<1>2. g[0] = Unfold(atoms, g)[0]
    OBVIOUS
<1>3. Unfold(atoms, g)[0] = << >>
    BY <1>1 DEF Unfold
<1>4. ASSUME NEW i \in Nat, i + 1 <= Len(atoms)
      PROVE  i + 1 \in 1 .. Len(atoms) /\ g[i + 1] = intern(g[i], atoms[i + 1])
    <2>1. /\ i + 1 \in 0 .. Len(atoms) /\ i + 1 \in 1 .. Len(atoms)
          /\ i + 1 # 0 /\ (i + 1) - 1 = i
        BY <1>1, <1>4
    <2>2. Unfold(atoms, g)[i + 1] = intern(g[(i + 1) - 1], atoms[i + 1])
        BY <2>1 DEF Unfold
    <2>3. g[i + 1] = Unfold(atoms, g)[i + 1]
        OBVIOUS
    <2> QED
        BY <2>1, <2>2, <2>3
<1> QED
    BY <1>2, <1>3, <1>4

\* Every pool on the way holds atoms of the version, and those of an injective
\* pool it holds in their places.
LEMMA PoolIsVector ==
    ASSUME NEW atoms, IsVector(atoms), NEW g, g = Unfold(atoms, g)
    PROVE  g[Len(atoms)] \in Seq(Seqs!ToSet(atoms))
<1> DEFINE S == Seqs!ToSet(atoms)
           P == {i \in Nat : i <= Len(atoms) => g[i] \in Seq(S)}
<1>1. 0 \in P
    BY PoolStep, EmptySeq
<1>2. ASSUME NEW i \in Nat, i \in P PROVE i + 1 \in P
    <2>1. CASE i + 1 <= Len(atoms)
        <3>1. i <= Len(atoms)
            BY <2>1, VectorProperties
        <3>2. g[i] \in Seq(S)
            BY <1>2, <3>1
        <3>3. i + 1 \in 1 .. Len(atoms) /\ g[i + 1] = intern(g[i], atoms[i + 1])
            BY <2>1, PoolStep
        <3>4. atoms[i + 1] \in S
            BY <3>3, ElementOfSeq DEF IsVector
        <3>5. g[i + 1] \in Seq(S)
            <4> HIDE DEF S
            <4> QED
                BY <3>2, <3>3, <3>4, InternProperties
        <3> QED
            BY <3>5
    <2>2. CASE ~ (i + 1 <= Len(atoms))
        BY <2>2
    <2> QED
        BY <2>1, <2>2
<1>3. Nat \subseteq P
    <2> HIDE DEF P
    <2> QED
        BY <1>1, <1>2, NaturalsBySuccessor
<1> QED
    BY <1>3, VectorProperties

InPlace(pool, atoms, i) == Len(pool) = i /\ \A j \in 1 .. i : pool[j] = atoms[j]

LEMMA PoolInPlace ==
    ASSUME NEW atoms, IsVector(atoms), Seqs!IsInjective(atoms),
           NEW g, g = Unfold(atoms, g)
    PROVE  g[Len(atoms)] = atoms
<1> DEFINE S == Seqs!ToSet(atoms)
           P == {i \in Nat : i <= Len(atoms) => g[i] \in Seq(S) /\ InPlace(g[i], atoms, i)}
<1>1. 0 \in P
    <2>1. \A j \in 1 .. 0 : g[0][j] = atoms[j]
        OBVIOUS
    <2>2. g[0] = << >> /\ << >> \in Seq(S) /\ Len(<< >>) = 0
        BY PoolStep, EmptySeq
    <2> QED
        BY <2>1, <2>2 DEF InPlace
<1>2. ASSUME NEW i \in Nat, i \in P PROVE i + 1 \in P
    <2>1. CASE i + 1 <= Len(atoms)
        <3> DEFINE pool == g[i]
                   t == atoms[i + 1]
        <3>1. i <= Len(atoms) /\ Len(atoms) \in Nat
            BY <2>1, VectorProperties
        <3>2. pool \in Seq(S) /\ InPlace(pool, atoms, i)
            BY <1>2, <3>1
        <3>3. i + 1 \in 1 .. Len(atoms) /\ g[i + 1] = intern(pool, t)
            BY <2>1, PoolStep
        <3>4. t \in S
            BY <3>3, ElementOfSeq DEF IsVector
        <3> HIDE DEF S, pool
        <3>5. DOMAIN pool = 1 .. i /\ Len(pool) = i
            BY <3>2, LenProperties DEF InPlace
        <3>6. \A j \in 1 .. i : pool[j] # t
            <4>1. \A j \in 1 .. i : j \in DOMAIN atoms /\ j # i + 1
                BY <3>1, VectorProperties
            <4>2. i + 1 \in DOMAIN atoms
                BY <3>3, VectorProperties
            <4> QED
                BY <3>2, <4>1, <4>2 DEF InPlace, Seqs!IsInjective
        <3>7. g[i + 1] = Append(pool, t)
            BY <3>3, <3>5, <3>6 DEF intern
        <3>8. /\ Append(pool, t) \in Seq(S)
              /\ Len(Append(pool, t)) = i + 1
              /\ \A j \in 1 .. i : Append(pool, t)[j] = pool[j]
              /\ Append(pool, t)[i + 1] = t
            BY <3>2, <3>4, <3>5, AppendProperties
        <3>9. \A j \in 1 .. i + 1 : Append(pool, t)[j] = atoms[j]
            <4>1. \A j \in 1 .. i + 1 : j = i + 1 \/ j \in 1 .. i
                OBVIOUS
            <4> QED
                BY <3>2, <3>8, <4>1 DEF InPlace
        <3> QED
            BY <3>7, <3>8, <3>9, SMTT(60) DEF InPlace
    <2>2. CASE ~ (i + 1 <= Len(atoms))
        BY <2>2
    <2> QED
        BY <2>1, <2>2
<1>3. Nat \subseteq P
    <2> HIDE DEF P
    <2> QED
        BY <1>1, <1>2, NaturalsBySuccessor
<1>4. /\ Len(atoms) \in Nat /\ Len(atoms) <= Len(atoms)
      /\ atoms \in Seq(S)
    BY VectorProperties DEF IsVector
<1>5. g[Len(atoms)] \in Seq(S) /\ InPlace(g[Len(atoms)], atoms, Len(atoms))
    BY <1>3, <1>4
<1> QED
    BY <1>4, <1>5, SeqEqual DEF InPlace

\* A version is read back as a version, and as it was when no atom repeats.
LEMMA RestoredVersion ==
    ASSUME NEW v, IsVersion(v)
    PROVE  /\ IsVersion(restored(v))
           /\ Seqs!IsInjective(v.atoms) => restored(v) = v
<1>1. PICK g : /\ g = Unfold(v.atoms, g)
               /\ restored(v) = [v EXCEPT !.atoms = g[Len(v.atoms)]]
    BY RestoredPool
<1> DEFINE pool == g[Len(v.atoms)]
<1>2. /\ v = [atoms |-> v.atoms, kinds |-> v.kinds]
      /\ IsVector(v.atoms) /\ NoName \notin Seqs!ToSet(v.atoms)
    BY DEF IsVersion
<1>3. restored(v) = [atoms |-> pool, kinds |-> v.kinds]
    BY <1>1, <1>2
<1>4. pool \in Seq(Seqs!ToSet(v.atoms))
    BY <1>1, <1>2, PoolIsVector
<1> HIDE DEF pool
<1>5. Seqs!ToSet(pool) \subseteq Seqs!ToSet(v.atoms)
    <2>1. \A i \in DOMAIN pool : pool[i] \in Seqs!ToSet(v.atoms)
        BY <1>4, LenProperties, ElementOfSeq
    <2> QED
        BY <2>1 DEF Seqs!ToSet
<1>6. IsVector(pool)
    <2>1. pool = [i \in 1 .. Len(pool) |-> pool[i]] /\ Len(pool) \in Nat
          /\ DOMAIN pool = 1 .. Len(pool)
        BY <1>4, LenProperties
    <2>2. \A i \in 1 .. Len(pool) : pool[i] \in Seqs!ToSet(pool)
        BY <2>1 DEF Seqs!ToSet
    <2>3. pool \in Seq(Seqs!ToSet(pool))
        BY <2>1, <2>2
    <2> QED
        BY <2>3 DEF IsVector
<1>7. IsVersion(restored(v))
    <2>1. restored(v).atoms = pool /\ restored(v).kinds = v.kinds
        BY <1>3
    <2>2. NoName \notin Seqs!ToSet(pool)
        BY <1>2, <1>5
    <2> QED
        BY <1>3, <1>6, <2>1, <2>2 DEF IsVersion
<1>8. ASSUME Seqs!IsInjective(v.atoms) PROVE restored(v) = v
    <2>1. pool = v.atoms
        BY <1>1, <1>2, <1>8, PoolInPlace DEF pool
    <2> QED
        BY <1>2, <1>3, <2>1
<1> QED
    BY <1>7, <1>8

-----------------------------------------------------------------------------
(* One field of one node through the three passes *)

\* A pass whose migrations all leave held, and that has some or finds it.
LEMMA PassGives ==
    ASSUME NEW fields, NEW k, NEW pass, NEW f \in FieldIds, NEW held,
           \A m \in Concerning(pass, k, f) : Migrated(fields[f], m) = held,
           Concerning(pass, k, f) = {} => fields[f] = held
    PROVE  Passed(fields, k, pass)[f] = held
<1>1. CASE Concerning(pass, k, f) = {}
    BY <1>1, PassedOver
<1>2. CASE Concerning(pass, k, f) # {}
    BY <1>2, PassedBy
<1> QED
    BY <1>1, <1>2

LEMMA PassesGive ==
    ASSUME NEW fields, NEW k, NEW plan, NEW f \in FieldIds,
           NEW removed, NEW added, NEW changed,
           \A m \in Concerning(plan.removed, k, f) : Migrated(fields[f], m) = removed,
           Concerning(plan.removed, k, f) = {} => fields[f] = removed,
           \A m \in Concerning(plan.added, k, f) : Migrated(removed, m) = added,
           Concerning(plan.added, k, f) = {} => removed = added,
           \A m \in Concerning(plan.changed, k, f) : Migrated(added, m) = changed,
           Concerning(plan.changed, k, f) = {} => added = changed
    PROVE  migrated_fields(fields, k, plan)[f] = changed
<1> DEFINE one == Passed(fields, k, plan.removed)
           two == Passed(one, k, plan.added)
<1>1. one[f] = removed
    BY PassGives
<1> HIDE DEF one
<1>2. two[f] = added
    BY <1>1, PassGives
<1> HIDE DEF two
<1>3. Passed(two, k, plan.changed)[f] = changed
    BY <1>2, PassGives
<1> QED
    BY <1>3 DEF migrated_fields, one, two

LEMMA MigratedEach ==
    ASSUME NEW held, NEW k, NEW f, NEW old, NEW new
    PROVE  /\ Migrated(held, Migration("RemoveField", k, f, old, new)) = {}
           /\ Migrated(held, Migration("AddField", k, f, old, new)) =
                IF held # {} THEN held ELSE {Null}
           /\ Migrated(held, Migration("ChangeType", k, f, old, new)) =
                {Converted(old, new, x) : x \in held}
<1>1. Migrated(held, Migration("RemoveField", k, f, old, new)) = {}
    BY MigrationFields DEF Migrated
<1>2. Migrated(held, Migration("AddField", k, f, old, new)) =
                IF held # {} THEN held ELSE {Null}
    BY MigrationFields DEF Migrated
<1>3. Migrated(held, Migration("ChangeType", k, f, old, new)) =
                {Converted(old, new, x) : x \in held}
    <2> DEFINE m == Migration("ChangeType", k, f, old, new)
    <2>1. m.migration_kind = "ChangeType" /\ m.old_type = old /\ m.new_type = new
        BY MigrationFields
    <2> HIDE DEF m
    <2>2. Migrated(held, m) = {Converted(m.old_type, m.new_type, x) : x \in held}
        BY <2>1 DEF Migrated
    <2>3. Migrated(held, m) = {Converted(old, new, x) : x \in held}
        BY <2>1, <2>2
    <2> QED
        BY <2>3 DEF m
<1> QED
    BY <1>1, <1>2, <1>3

-----------------------------------------------------------------------------
(* Aligned schemas *)

\* Both versions know kind k, by one name.
SameKind(v, w, k) ==
    /\ k \in DOMAIN v.kinds /\ k \in DOMAIN w.kinds
    /\ Text(w, w.kinds[k].name) = Text(v, v.kinds[k].name)

LEMMA KeptKind ==
    ASSUME NEW v, NEW w, IsVersion(v), IsVersion(w), Aligned(v, w),
           NEW k \in DOMAIN v.kinds
    PROVE  LET s == Text(v, v.kinds[k].name)
           IN  /\ s \in DOMAIN kind_names(w) <=> SameKind(v, w, k)
               /\ s \in DOMAIN kind_names(w) =>
                    /\ kind_names(w)[s] = k
                    /\ Agree(field_names(v, k), field_names(w, k))
               /\ Distinct(v, v.kinds[k].fields)
<1> DEFINE s == Text(v, v.kinds[k].name)
           from == kind_names(v)
           to == kind_names(w)
<1>1. s \in DOMAIN from /\ from[s] = k
    BY KindMap, DistinctNames DEF kind_names, IsVersion, Aligned, WellNamed
<1>2. ASSUME s \in DOMAIN to
      PROVE  to[s] = k /\ SameKind(v, w, k) /\ Agree(field_names(v, k), field_names(w, k))
    <2> HIDE DEF s
    <2>1. to[s] = k
        BY <1>1, <1>2 DEF Aligned, Agree
    <2>2. Last(w, w.kinds, s, k)
        BY <1>2, <2>1, KindMap
    <2>3. Agree(field_names(v, from[s]), field_names(w, to[s]))
        BY <1>1, <1>2 DEF Aligned
    <2> QED
        BY <1>1, <2>1, <2>2, <2>3 DEF Last, SameKind, s
<1>3. ASSUME SameKind(v, w, k) PROVE s \in DOMAIN to
    BY <1>3, KindMap, DistinctNames DEF SameKind, kind_names, IsVersion, Aligned, WellNamed
<1> QED
    BY <1>2, <1>3 DEF Aligned, WellNamed

LEMMA FieldMap ==
    ASSUME NEW v, IsVersion(v), NEW k \in DOMAIN v.kinds
    PROVE  LET defs == v.kinds[k].fields
               map == field_names(v, k)
           IN  /\ \A s \in DOMAIN map :
                    map[s] \in DOMAIN defs /\ Text(v, defs[map[s]].name) = s
               /\ \A s, t \in DOMAIN map : map[s] = map[t] => s = t
               /\ Distinct(v, defs) => \A f \in DOMAIN defs : \E s \in DOMAIN map : map[s] = f
               /\ DOMAIN defs \subseteq FieldIds
<1> DEFINE defs == v.kinds[k].fields
           map == field_names(v, k)
<1>1. IsVector(defs) /\ Len(defs) <= MaxFieldsPerKind + 1 /\ map = build_name_map(v, defs)
    BY DEF IsVersion, field_names
<1> HIDE DEF defs, map
<1>2. DOMAIN map = Names(v, defs)
    BY <1>1, NameMap
<1>3. \A s \in DOMAIN map : map[s] \in DOMAIN defs /\ Text(v, defs[map[s]].name) = s
    BY <1>1, NameMap DEF Last
<1>4. \A s, t \in DOMAIN map : map[s] = map[t] => s = t
    BY <1>1, <1>2, NamesDiffer
<1>5. Distinct(v, defs) => \A f \in DOMAIN defs : \E s \in DOMAIN map : map[s] = f
    BY <1>1, <1>2, DistinctNames
<1>6. DOMAIN defs \subseteq FieldIds
    <2>1. MaxFieldsPerKind \in Nat
        BY RegistryAssumption
    <2> QED
        BY <1>1, <2>1, VectorProperties DEF FieldIds
<1> QED
    BY <1>3, <1>4, <1>5, <1>6 DEF defs, map

-----------------------------------------------------------------------------
(* A kind that is kept *)

\* What a plan does to field f of kind k, which both schemas have.
LEMMA PlanAtField ==
    ASSUME NEW v, NEW w, NEW k, NEW f
    PROVE  LET from == field_names(v, k)
               to == field_names(w, k)
               Removing == {s \in DOMAIN from \ DOMAIN to : from[s] = f}
               Adding == {s \in DOMAIN to \ DOMAIN from : to[s] = f}
               Changing == {s \in DOMAIN from \cap DOMAIN to :
                                from[s] = f /\ Field(v, k, f).type # Field(w, k, to[s]).type}
           IN  /\ At(RemovedFields(v, k, w, k), f) =
                    {Migration("RemoveField", k, f, Field(v, k, f).type, "Invalid") :
                        s \in Removing}
               /\ At(AddedFields(v, k, w, k), f) =
                    {Migration("AddField", k, f, "Invalid", Field(w, k, f).type) : s \in Adding}
               /\ At(ChangedFields(v, k, w, k), f) =
                    {Migration("ChangeType", k, f, Field(v, k, f).type, Field(w, k, to[s]).type) :
                        s \in Changing}
<1> DEFINE from == field_names(v, k)
           to == field_names(w, k)
           Removing == {s \in DOMAIN from \ DOMAIN to : from[s] = f}
           Adding == {s \in DOMAIN to \ DOMAIN from : to[s] = f}
           Changing == {s \in DOMAIN from \cap DOMAIN to :
                            from[s] = f /\ Field(v, k, f).type # Field(w, k, to[s]).type}
<1>1. At(RemovedFields(v, k, w, k), f) =
        {Migration("RemoveField", k, f, Field(v, k, f).type, "Invalid") : s \in Removing}
    <2>1. RemovedFields(v, k, w, k) =
            {Migration("RemoveField", k, from[s], Field(v, k, from[s]).type, "Invalid") :
                s \in DOMAIN from \ DOMAIN to}
        BY DEF RemovedFields
    <2> HIDE DEF from, to
    <2> QED
        BY <2>1, MigrationFields DEF At
<1>2. At(AddedFields(v, k, w, k), f) =
        {Migration("AddField", k, f, "Invalid", Field(w, k, f).type) : s \in Adding}
    <2>1. AddedFields(v, k, w, k) =
            {Migration("AddField", k, to[s], "Invalid", Field(w, k, to[s]).type) :
                s \in DOMAIN to \ DOMAIN from}
        BY DEF AddedFields
    <2> HIDE DEF from, to
    <2> QED
        BY <2>1, MigrationFields DEF At
<1>3. At(ChangedFields(v, k, w, k), f) =
        {Migration("ChangeType", k, f, Field(v, k, f).type, Field(w, k, to[s]).type) :
            s \in Changing}
    <2>1. ChangedFields(v, k, w, k) =
            {Migration("ChangeType", k, from[s], Field(v, k, from[s]).type,
                        Field(w, k, to[s]).type) :
                s \in {s \in DOMAIN from \cap DOMAIN to :
                            Field(v, k, from[s]).type # Field(w, k, to[s]).type}}
        BY DEF ChangedFields
    <2> HIDE DEF from, to
    <2> QED
        BY <2>1, MigrationFields DEF At
<1> QED
    BY <1>1, <1>2, <1>3

\* A migration plan moves no field that an aligned schema keeps, clears those it
\* drops before it adds, and gives a new one the null value.
LEMMA KeptField ==
    ASSUME NEW v, NEW w, IsVersion(v), IsVersion(w), Aligned(v, w),
           NEW k, SameKind(v, w, k), NEW f \in FieldIds, NEW fields,
           fields[f] # {} => f \in DOMAIN v.kinds[k].fields
    PROVE  LET from == field_names(v, k)
               to == field_names(w, k)
               old == Field(v, k, f).type
               new == Field(w, k, f).type
               after == migrated_fields(fields, k, compute_migration(v, w))[f]
           IN  /\ \A s \in DOMAIN to : to[s] = f =>
                    /\ s \notin DOMAIN from => after = {Null}
                    /\ s \in DOMAIN from /\ old = new => after = fields[f]
                    /\ s \in DOMAIN from /\ old # new =>
                            after = {Converted(old, new, x) : x \in fields[f]}
               /\ (\A s \in DOMAIN to : to[s] # f) => after = {}
<1> DEFINE from == field_names(v, k)
           to == field_names(w, k)
           old == Field(v, k, f).type
           new == Field(w, k, f).type
           plan == compute_migration(v, w)
           after == migrated_fields(fields, k, plan)[f]
           name == Text(v, v.kinds[k].name)
<1>1. /\ k \in DOMAIN v.kinds /\ k \in DOMAIN w.kinds
      /\ name \in DOMAIN kind_names(w) /\ kind_names(w)[name] = k
      /\ Agree(from, to) /\ Distinct(v, v.kinds[k].fields) /\ Distinct(v, v.kinds)
    BY KeptKind DEF SameKind, Aligned, WellNamed
<1>2. /\ Concerning(plan.removed, k, f) = At(RemovedFields(v, k, w, k), f)
      /\ Concerning(plan.added, k, f) = At(AddedFields(v, k, w, k), f)
      /\ Concerning(plan.changed, k, f) = At(ChangedFields(v, k, w, k), f)
    <2> DEFINE to_kinds == kind_names(w)
    <2>1. name = Text(v, v.kinds[k].name) /\ plan = compute_migration(v, w)
            /\ to_kinds = kind_names(w)
        OBVIOUS
    <2> HIDE DEF name, plan, to_kinds
    <2>2. /\ Concerning(plan.removed, k, f) = At(RemovedFields(v, k, w, to_kinds[name]), f)
          /\ Concerning(plan.added, k, f) = At(AddedFields(v, k, w, to_kinds[name]), f)
          /\ Concerning(plan.changed, k, f) = At(ChangedFields(v, k, w, to_kinds[name]), f)
        <3>1. k \in DOMAIN v.kinds /\ Distinct(v, v.kinds) /\ name \in DOMAIN to_kinds
            BY <1>1, <2>1
        <3> QED
            BY ONLY <2>1, <3>1, IsVersion(v), IsVersion(w), PlanOfKind
    <2>3. to_kinds[name] = k
        BY <1>1, <2>1
    <2> QED
        BY <2>2, <2>3
<1>3. /\ \A s, t \in DOMAIN from : from[s] = from[t] => s = t
      /\ f \in DOMAIN v.kinds[k].fields => \E s \in DOMAIN from : from[s] = f
      /\ \A s, t \in DOMAIN to : to[s] = to[t] => s = t
      /\ \A s \in DOMAIN from \cap DOMAIN to : from[s] = to[s]
    <2> HIDE DEF plan
    <2> QED
        BY <1>1, FieldMap DEF Agree
<1> HIDE DEF from, to, plan
<1> DEFINE Removing == {s \in DOMAIN from \ DOMAIN to : from[s] = f}
           Adding == {s \in DOMAIN to \ DOMAIN from : to[s] = f}
           Changing == {s \in DOMAIN from \cap DOMAIN to :
                            from[s] = f /\ old # Field(w, k, to[s]).type}
<1>4. /\ Concerning(plan.removed, k, f) =
            {Migration("RemoveField", k, f, old, "Invalid") : s \in Removing}
      /\ Concerning(plan.added, k, f) =
            {Migration("AddField", k, f, "Invalid", new) : s \in Adding}
      /\ Concerning(plan.changed, k, f) =
            {Migration("ChangeType", k, f, old, Field(w, k, to[s]).type) : s \in Changing}
    BY <1>2, PlanAtField DEF from, to
<1> HIDE DEF old, new, name
<1>5. /\ \A m \in Concerning(plan.removed, k, f) : \A held : Migrated(held, m) = {}
      /\ Concerning(plan.removed, k, f) = {} <=> Removing = {}
    <2>1. \A held : Migrated(held, Migration("RemoveField", k, f, old, "Invalid")) = {}
        BY MigratedEach
    <2> QED
        BY <1>4, <2>1
<1>6. /\ \A m \in Concerning(plan.added, k, f) : Migrated({}, m) = {Null}
      /\ Concerning(plan.added, k, f) = {} <=> Adding = {}
    <2>1. Migrated({}, Migration("AddField", k, f, "Invalid", new)) = {Null}
        BY MigratedEach
    <2> QED
        BY <1>4, <2>1
<1>7. ASSUME NEW m \in Concerning(plan.changed, k, f)
      PROVE  m = Migration("ChangeType", k, f, old, new)
    <2>1. PICK s \in Changing : m = Migration("ChangeType", k, f, old, Field(w, k, to[s]).type)
        BY <1>4
    <2>2. to[s] = f
        BY <1>3, <2>1
    <2> QED
        BY <2>1, <2>2 DEF new
<1>8. Concerning(plan.changed, k, f) = {} <=> Changing = {}
    BY <1>4
<1>9. ASSUME NEW s \in DOMAIN to, to[s] = f, s \notin DOMAIN from
      PROVE  after = {Null}
    <2>1. \A t \in DOMAIN from \cap DOMAIN to : from[t] # f
        BY <1>3, <1>9
    <2>2. Changing = {} /\ Adding # {}
        BY <1>9, <2>1
    <2>3. Removing = {} => fields[f] = {}
        BY <1>3, <2>1
    <2> HIDE DEF Removing, Adding, Changing
    <2>4. /\ \A m \in Concerning(plan.removed, k, f) : Migrated(fields[f], m) = {}
          /\ Concerning(plan.removed, k, f) = {} => fields[f] = {}
          /\ \A m \in Concerning(plan.added, k, f) : Migrated({}, m) = {Null}
          /\ Concerning(plan.added, k, f) # {}
          /\ Concerning(plan.changed, k, f) = {}
        BY <1>5, <1>6, <1>8, <2>2, <2>3
    <2> DEFINE none == {}
               null == {Null}
    <2>5. /\ \A m \in Concerning(plan.removed, k, f) : Migrated(fields[f], m) = none
          /\ Concerning(plan.removed, k, f) = {} => fields[f] = none
          /\ \A m \in Concerning(plan.added, k, f) : Migrated(none, m) = null
        BY <2>4
    <2> HIDE DEF none, null
    <2>6. after = null
        BY <2>4, <2>5, PassesGive, SMTT(60)
    <2> QED
        BY <2>6 DEF null
<1>10. ASSUME NEW s \in DOMAIN to, to[s] = f, s \in DOMAIN from
       PROVE  /\ old = new => after = fields[f]
              /\ old # new => after = {Converted(old, new, x) : x \in fields[f]}
    <2>1. from[s] = f
        BY <1>3, <1>10
    <2>2. Removing = {} /\ Adding = {}
        BY <1>3, <1>10, <2>1
    <2>3. old = new => Changing = {}
        BY <1>3, <1>10, <2>1 DEF new
    <2>4. old # new => Changing # {}
        BY <1>10, <2>1 DEF new
    <2> HIDE DEF Removing, Adding, Changing
    <2>5. ASSUME old = new PROVE after = fields[f]
        BY <1>5, <1>6, <1>8, <2>2, <2>3, <2>5, PassesGive
    <2>6. ASSUME old # new PROVE after = {Converted(old, new, x) : x \in fields[f]}
        <3> DEFINE converted == {Converted(old, new, x) : x \in fields[f]}
        <3>1. \A m \in Concerning(plan.changed, k, f) : Migrated(fields[f], m) = converted
            BY <1>7, MigratedEach
        <3> HIDE DEF converted
        <3>2. after = converted
            BY <1>5, <1>6, <1>8, <2>2, <2>4, <2>6, <3>1, PassesGive, SMTT(60)
        <3> QED
            BY <3>2 DEF converted
    <2> QED
        BY <2>5, <2>6
<1>11. ASSUME \A s \in DOMAIN to : to[s] # f PROVE after = {}
    <2>1. \A t \in DOMAIN from \cap DOMAIN to : from[t] # f
        BY <1>3, <1>11
    <2>2. Changing = {} /\ Adding = {}
        BY <1>11, <2>1
    <2>3. Removing = {} => fields[f] = {}
        BY <1>3, <2>1
    <2> HIDE DEF Removing, Adding, Changing
    <2>4. /\ \A m \in Concerning(plan.removed, k, f) : Migrated(fields[f], m) = {}
          /\ Concerning(plan.removed, k, f) = {} => fields[f] = {}
          /\ Concerning(plan.added, k, f) = {}
          /\ Concerning(plan.changed, k, f) = {}
        BY <1>5, <1>6, <1>8, <2>2, <2>3
    <2> DEFINE none == {}
    <2>5. /\ \A m \in Concerning(plan.removed, k, f) : Migrated(fields[f], m) = none
          /\ Concerning(plan.removed, k, f) = {} => fields[f] = none
        BY <2>4
    <2> HIDE DEF none
    <2>6. after = none
        BY <2>4, <2>5, PassesGive
    <2> QED
        BY <2>6 DEF none
<1> QED
    BY <1>9, <1>10, <1>11 DEF from, to, plan, old, new

\* A kind that is dropped loses its fields.
LEMMA DroppedKind ==
    ASSUME NEW v, NEW w, IsVersion(v), IsVersion(w), Aligned(v, w),
           NEW k \in DOMAIN v.kinds, ~ SameKind(v, w, k), NEW f \in FieldIds, NEW fields,
           fields[f] # {} => f \in DOMAIN v.kinds[k].fields
    PROVE  migrated_fields(fields, k, compute_migration(v, w))[f] = {}
<1> DEFINE plan == compute_migration(v, w)
<1>1. /\ Concerning(plan.removed, k, f) = At(RemovedKind(v, k), f)
      /\ Concerning(plan.added, k, f) = {} /\ Concerning(plan.changed, k, f) = {}
    BY KeptKind, PlanOfKind, ZenonT(60) DEF Aligned, WellNamed
<1>2. \A m \in At(RemovedKind(v, k), f) : Migrated(fields[f], m) = {}
    BY MigratedEach DEF At, RemovedKind
<1>3. f \in DOMAIN v.kinds[k].fields => At(RemovedKind(v, k), f) # {}
    <2> DEFINE m == Migration("RemoveField", k, f, Field(v, k, f).type, "Invalid")
    <2>1. ASSUME f \in DOMAIN v.kinds[k].fields PROVE m \in RemovedKind(v, k)
        BY <2>1 DEF RemovedKind
    <2>2. m.field_idx = f
        BY MigrationFields
    <2> HIDE DEF m
    <2> QED
        BY <2>1, <2>2 DEF At
<1> DEFINE none == {}
<1>4. /\ \A m \in Concerning(plan.removed, k, f) : Migrated(fields[f], m) = none
      /\ Concerning(plan.removed, k, f) = {} => fields[f] = none
    BY <1>1, <1>2, <1>3
<1> HIDE DEF plan, none
<1>5. migrated_fields(fields, k, plan)[f] = none
    BY <1>1, <1>4, PassesGive
<1> QED
    BY <1>5 DEF plan, none

\* A kind of the new schema that the old one has not finds nothing to migrate.
LEMMA OtherKind ==
    ASSUME NEW v, NEW w, IsVersion(v), IsVersion(w),
           NEW k, k \notin DOMAIN v.kinds, k # kInvalidKind, NEW f \in FieldIds, NEW fields
    PROVE  migrated_fields(fields, k, compute_migration(v, w))[f] = fields[f]
<1> DEFINE plan == compute_migration(v, w)
<1>1. /\ Concerning(plan.removed, k, f) = {}
      /\ Concerning(plan.added, k, f) = {} /\ Concerning(plan.changed, k, f) = {}
    BY PlanOfNoKind
<1> HIDE DEF plan
<1>2. migrated_fields(fields, k, plan)[f] = fields[f]
    BY <1>1, PassesGive
<1> QED
    BY <1>2 DEF plan

-----------------------------------------------------------------------------
(* The inductive invariant *)

\* A node is a record of these four.
IsNode(node) ==
    node = [ kind |-> node.kind, alive |-> node.alive,
             fields |-> node.fields, label |-> node.label ]

\* A live node of a kind holds fields of that kind only.
HeldInside(v, node) ==
    node.alive /\ node.kind # kInvalidKind =>
    \A f \in FieldIds : node.fields[f] # {} =>
        node.kind \in DOMAIN v.kinds /\ f \in DOMAIN v.kinds[node.kind].fields

\* What TableConforms says of a node.
Conforms(v, node) ==
    /\ node.alive /\ node.kind \in DOMAIN v.kinds
    /\ Text(v, v.kinds[node.kind].name) = node.label
    => \A f \in FieldIds : \A x \in node.fields[f] :
        LET defs == v.kinds[node.kind].fields
        IN  /\ f \in DOMAIN defs
            /\ x.type \in {"Invalid", defs[f].type}
            /\ x.of \in {NoName, Text(v, defs[f].name)}

Fits(v, node) == HeldInside(v, node) /\ Conforms(v, node)

\* An id holds one version or none.
VersionsKnown ==
    /\ versions = [id \in VersionIds |-> versions[id]]
    /\ \A id \in VersionIds : \A v \in versions[id] : IsVersion(v) /\ versions[id] = {v}
\* A table is of one version, which is registered.
TableKnown ==
    /\ \A a, b \in current : a = b
    /\ \A id \in current : id \in VersionIds /\ versions[id] # {}
    /\ \A n \in DOMAIN nodes : IsNode(nodes[n])
TableFits ==
    aligned => \A id \in current : \A v \in versions[id] :
        \A n \in DOMAIN nodes : Fits(v, nodes[n])

IInv == aligned \in BOOLEAN /\ VersionsKnown /\ TableKnown /\ TableFits

LEMMA FitsConforms ==
    ASSUME TableFits PROVE TableConforms
BY DEF TableFits, TableConforms, Fits, Conforms

LEMMA NodeUnder ==
    ASSUME NEW v, IsVersion(v), NEW node \in NodesUnder(v)
    PROVE  IsNode(node) /\ Fits(v, node)
<1> DEFINE Defs(k) == IF k = kInvalidKind THEN << >> ELSE v.kinds[k].fields
           Held(k, f) == IF f \in DOMAIN Defs(k)
                         THEN {{}, {Value(Defs(k)[f].type, Text(v, Defs(k)[f].name))}}
                         ELSE {{}}
           Label(k) == IF k = kInvalidKind THEN NoName ELSE Text(v, v.kinds[k].name)
           Under(k) == [ kind : {k}, alive : BOOLEAN,
                         fields : {g \in [FieldIds -> UNION {Held(k, f) : f \in FieldIds}] :
                                        \A f \in FieldIds : g[f] \in Held(k, f)},
                         label : {Label(k)} ]
<1>1. PICK k \in {kInvalidKind} \cup DOMAIN v.kinds : node \in Under(k)
    <2>1. NodesUnder(v) = UNION {Under(k) : k \in {kInvalidKind} \cup DOMAIN v.kinds}
        BY DEF NodesUnder
    <2> HIDE DEF Under
    <2> QED
        BY <2>1
<1>2. /\ IsNode(node) /\ node.kind = k /\ node.label = Label(k)
      /\ \A f \in FieldIds : node.fields[f] \in Held(k, f)
    <2> HIDE DEF Held, Label
    <2> QED
        BY <1>1 DEF IsNode
<1>3. ASSUME k # kInvalidKind
      PROVE  k \in DOMAIN v.kinds /\ Defs(k) = v.kinds[k].fields
    BY <1>1, <1>3
<1>4. ASSUME NEW f \in FieldIds, NEW x \in node.fields[f]
      PROVE  f \in DOMAIN Defs(k) /\ x = Value(Defs(k)[f].type, Text(v, Defs(k)[f].name))
    BY <1>2, <1>4
<1>5. HeldInside(v, node)
    BY <1>2, <1>3, <1>4 DEF HeldInside
<1>6. Conforms(v, node)
    <2> SUFFICES ASSUME node.kind \in DOMAIN v.kinds, NEW f \in FieldIds, NEW x \in node.fields[f]
                 PROVE  LET defs == v.kinds[node.kind].fields
                        IN  /\ f \in DOMAIN defs
                            /\ x.type \in {"Invalid", defs[f].type}
                            /\ x.of \in {NoName, Text(v, defs[f].name)}
        BY DEF Conforms
    <2>1. k # kInvalidKind
        BY <1>2, VectorProperties DEF kInvalidKind, IsVersion
    <2>2. x = Value(v.kinds[k].fields[f].type, Text(v, v.kinds[k].fields[f].name))
          /\ f \in DOMAIN v.kinds[k].fields
        BY <1>3, <1>4, <2>1
    <2>3. x.type = v.kinds[k].fields[f].type /\ x.of = Text(v, v.kinds[k].fields[f].name)
        BY <2>2 DEF Value
    <2> QED
        BY <1>2, <2>2, <2>3
<1> QED
    BY <1>2, <1>5, <1>6 DEF Fits

-----------------------------------------------------------------------------
(* A migrated node *)

MigratedNode(node, plan) ==
    IF ~ node.alive THEN node
    ELSE [node EXCEPT !.fields = migrated_fields(@, node.kind, plan)]

LEMMA MigratedNodeIs ==
    ASSUME NEW node, IsNode(node), NEW plan
    PROVE  LET m == MigratedNode(node, plan)
           IN  /\ IsNode(m) /\ m.kind = node.kind /\ m.label = node.label
               /\ m.alive = node.alive
               /\ ~ node.alive => m = node
               /\ node.alive => m.fields = migrated_fields(node.fields, node.kind, plan)
<1> DEFINE after == migrated_fields(node.fields, node.kind, plan)
           m == MigratedNode(node, plan)
<1>1. CASE node.alive
    <2>1. m = [kind |-> node.kind, alive |-> node.alive, fields |-> after, label |-> node.label]
        <3>1. m = [node EXCEPT !.fields = after]
            BY <1>1 DEF MigratedNode
        <3> HIDE DEF after, m
        <3> QED
            BY <3>1 DEF IsNode
    <2> HIDE DEF m, after
    <2>2. /\ m.kind = node.kind /\ m.alive = node.alive
          /\ m.fields = after /\ m.label = node.label
        BY <2>1
    <2>3. IsNode(m)
        BY <2>1, <2>2 DEF IsNode
    <2> QED
        BY <1>1, <2>2, <2>3 DEF m, after
<1>2. CASE ~ node.alive
    BY <1>2 DEF MigratedNode
<1> QED
    BY <1>1, <1>2

\* Field f of a live node, as MigrationIsByName says it is after a migration.
FieldAfter(v, w, k, f, held) ==
    LET from == field_names(v, k)
        kept == Text(v, v.kinds[k].name) \in DOMAIN kind_names(w)
        to == IF kept THEN field_names(w, k) ELSE << >>
    IN  IF \E s \in DOMAIN to : to[s] = f
        THEN LET s == CHOOSE s \in DOMAIN to : to[s] = f
             IN  IF s \notin DOMAIN from THEN {Null}
                 ELSE IF Field(v, k, f).type = Field(w, k, f).type THEN held
                 ELSE {Converted(Field(v, k, f).type, Field(w, k, f).type, x) : x \in held}
        ELSE {}

LEMMA FieldIsByName ==
    ASSUME NEW v, NEW w, IsVersion(v), IsVersion(w), Aligned(v, w),
           NEW k \in DOMAIN v.kinds, NEW f \in FieldIds, NEW fields,
           fields[f] # {} => f \in DOMAIN v.kinds[k].fields
    PROVE  migrated_fields(fields, k, compute_migration(v, w))[f] =
           FieldAfter(v, w, k, f, fields[f])
<1> DEFINE from == field_names(v, k)
           to == field_names(w, k)
           after == migrated_fields(fields, k, compute_migration(v, w))[f]
           kept == Text(v, v.kinds[k].name) \in DOMAIN kind_names(w)
<1>1. kept <=> SameKind(v, w, k)
    BY KeptKind
<1>2. CASE SameKind(v, w, k)
    <2> DEFINE s == CHOOSE s \in DOMAIN to : to[s] = f
               converted == {Converted(Field(v, k, f).type, Field(w, k, f).type, x) :
                                x \in fields[f]}
    <2>1. /\ \A t \in DOMAIN to : to[t] = f =>
                /\ t \notin DOMAIN from => after = {Null}
                /\ t \in DOMAIN from /\ Field(v, k, f).type = Field(w, k, f).type
                        => after = fields[f]
                /\ t \in DOMAIN from /\ Field(v, k, f).type # Field(w, k, f).type
                        => after = converted
          /\ (\A t \in DOMAIN to : to[t] # f) => after = {}
        BY <1>2, KeptField
    <2>2. FieldAfter(v, w, k, f, fields[f]) =
            IF \E t \in DOMAIN to : to[t] = f
            THEN IF s \notin DOMAIN from THEN {Null}
                 ELSE IF Field(v, k, f).type = Field(w, k, f).type THEN fields[f]
                 ELSE converted
            ELSE {}
        BY <1>1, <1>2 DEF FieldAfter
    <2>3. (\E t \in DOMAIN to : to[t] = f) => s \in DOMAIN to /\ to[s] = f
        OBVIOUS
    <2> HIDE DEF s, converted, to, from, after
    <2>4. after = IF \E t \in DOMAIN to : to[t] = f
                  THEN IF s \notin DOMAIN from THEN {Null}
                       ELSE IF Field(v, k, f).type = Field(w, k, f).type THEN fields[f]
                       ELSE converted
                  ELSE {}
        BY <2>1, <2>3
    <2> QED
        BY <2>2, <2>4 DEF after
<1>3. CASE ~ SameKind(v, w, k)
    <2>1. FieldAfter(v, w, k, f, fields[f]) = {}
        <3>1. \A s \in DOMAIN << >> : FALSE
            OBVIOUS
        <3> QED
            BY <1>1, <1>3, <3>1 DEF FieldAfter
    <2>2. after = {}
        BY <1>3, DroppedKind
    <2> QED
        BY <2>1, <2>2
<1> QED
    BY <1>2, <1>3

\* A value of a field of that type and name, or null.
Reads(x, type, name) == x.type \in {"Invalid", type} /\ x.of \in {NoName, name}

\* Conversions keep the name a value was written under, or forget it.
LEMMA ConvertedFits ==
    ASSUME NEW old, NEW new, NEW x, NEW name, Reads(x, old, name)
    PROVE  Reads(Converted(old, new, x), new, name)
<1>1. \A t, o : Value(t, o).type = t /\ Value(t, o).of = o
    BY DEF Value
<1>2. Null.type = "Invalid" /\ Null.of = NoName
    BY <1>1 DEF Null
<1>3. CASE old = "Int" /\ new = "Float"
    BY <1>1, <1>3 DEF Converted, Reads
<1>4. CASE old = "Float" /\ new = "Int"
    BY <1>1, <1>4 DEF Converted, Reads
<1>5. CASE old = "Atom" /\ new = "Int"
    BY <1>1, <1>5 DEF Converted, Reads
<1>6. CASE /\ ~ (old = "Int" /\ new = "Float")
           /\ ~ (old = "Float" /\ new = "Int")
           /\ ~ (old = "Atom" /\ new = "Int")
    BY <1>2, <1>6 DEF Converted, Reads
<1> QED
    BY <1>3, <1>4, <1>5, <1>6

\* A node that fits the old schema fits the new one after the migration.
LEMMA MigrationFits ==
    ASSUME NEW v, NEW w, IsVersion(v), IsVersion(w), Aligned(v, w),
           NEW node, IsNode(node), Fits(v, node)
    PROVE  Fits(w, MigratedNode(node, compute_migration(v, w)))
<1> DEFINE plan == compute_migration(v, w)
           m == MigratedNode(node, plan)
           k == node.kind
<1>1. /\ m.kind = k /\ m.label = node.label /\ m.alive = node.alive
      /\ node.alive => m.fields = migrated_fields(node.fields, k, plan)
    BY MigratedNodeIs
<1>2. kInvalidKind \notin DOMAIN w.kinds
    BY VectorProperties DEF kInvalidKind, IsVersion
<1>3. HeldInside(v, node) /\ Conforms(v, node)
    BY DEF Fits
<1>4. ASSUME node.alive, k # kInvalidKind, NEW f \in FieldIds, NEW x \in m.fields[f]
      PROVE  /\ k \in DOMAIN w.kinds /\ f \in DOMAIN w.kinds[k].fields
             /\ Text(w, w.kinds[k].name) = node.label =>
                    /\ x.type \in {"Invalid", w.kinds[k].fields[f].type}
                    /\ x.of \in {NoName, Text(w, w.kinds[k].fields[f].name)}
    <2>1. m.fields[f] = migrated_fields(node.fields, k, plan)[f]
        BY <1>1, <1>4
    <2>2. node.fields[f] # {} => k \in DOMAIN v.kinds /\ f \in DOMAIN v.kinds[k].fields
        BY <1>3, <1>4 DEF HeldInside
    <2>3. k \in DOMAIN v.kinds
        <3>1. CASE k \notin DOMAIN v.kinds
            <4>1. m.fields[f] = node.fields[f]
                BY <1>4, <2>1, <3>1, OtherKind
            <4> QED
                BY <1>4, <2>2, <4>1
        <3> QED
            BY <3>1
    <2>4. SameKind(v, w, k)
        <3>1. CASE ~ SameKind(v, w, k)
            <4>1. m.fields[f] = {}
                BY <2>1, <2>2, <2>3, <3>1, DroppedKind
            <4> QED
                BY <1>4, <4>1
        <3> QED
            BY <3>1
    <2> DEFINE from == field_names(v, k)
               to == field_names(w, k)
               old == Field(v, k, f).type
               new == Field(w, k, f).type
               converted == {Converted(old, new, y) : y \in node.fields[f]}
    <2>5. /\ \A s \in DOMAIN to : to[s] = f =>
                /\ s \notin DOMAIN from => m.fields[f] = {Null}
                /\ s \in DOMAIN from /\ old = new => m.fields[f] = node.fields[f]
                /\ s \in DOMAIN from /\ old # new => m.fields[f] = converted
          /\ (\A s \in DOMAIN to : to[s] # f) => m.fields[f] = {}
        BY <2>1, <2>2, <2>4, KeptField
    <2>6. PICK s \in DOMAIN to : to[s] = f
        <3> HIDE DEF to, from, converted, m
        <3> QED
            BY <1>4, <2>5
    <2>7. k \in DOMAIN w.kinds
        BY <2>4 DEF SameKind
    <2>8. f \in DOMAIN w.kinds[k].fields /\ Text(w, w.kinds[k].fields[f].name) = s
        BY <2>6, <2>7, FieldMap
    <2>9. s \in DOMAIN from =>
            from[s] = f /\ f \in DOMAIN v.kinds[k].fields
            /\ Text(v, v.kinds[k].fields[f].name) = s
        <3>1. Agree(from, to)
            BY <2>3, <2>4, KeptKind
        <3>2. s \in DOMAIN from => from[s] = f
            BY <2>6, <3>1 DEF Agree
        <3> QED
            BY <2>3, <3>2, FieldMap
    <2>10. old = v.kinds[k].fields[f].type /\ new = w.kinds[k].fields[f].type
        BY DEF Field
    <2>11. ASSUME Text(w, w.kinds[k].name) = node.label
           PROVE  x.type \in {"Invalid", new} /\ x.of \in {NoName, s}
        <3>1. ASSUME NEW y \in node.fields[f], s \in DOMAIN from
              PROVE  y.type \in {"Invalid", old} /\ y.of \in {NoName, s}
            <4>1. Text(v, v.kinds[k].name) = node.label
                BY <2>4, <2>11 DEF SameKind
            <4> QED
                BY <1>3, <1>4, <2>3, <2>9, <2>10, <3>1, <4>1 DEF Conforms
        <3> HIDE DEF from, to, old, new, m
        <3>2. CASE s \notin DOMAIN from
            <4>1. x = Null
                BY <1>4, <2>5, <2>6, <3>2
            <4> QED
                BY <4>1 DEF Null, Value
        <3>3. CASE s \in DOMAIN from /\ old = new
            <4>1. x \in node.fields[f]
                BY <1>4, <2>5, <2>6, <3>3
            <4> QED
                BY <3>1, <3>3, <4>1
        <3>4. CASE s \in DOMAIN from /\ old # new
            <4>1. PICK y \in node.fields[f] : x = Converted(old, new, y)
                <5>1. x \in converted
                    <6> HIDE DEF converted
                    <6> QED
                        BY <1>4, <2>5, <2>6, <3>4
                <5> QED
                    BY <5>1
            <4>2. Reads(y, old, s)
                BY <3>1, <3>4 DEF Reads
            <4>3. Reads(Converted(old, new, y), new, s)
                BY <4>2, ConvertedFits, SMTT(60)
            <4> QED
                BY <4>1, <4>3 DEF Reads
        <3> QED
            BY <3>2, <3>3, <3>4, SMTT(60)
    <2> QED
        BY <2>7, <2>8, <2>10, <2>11
<1> HIDE DEF m
<1>5. HeldInside(w, m)
    BY <1>1, <1>4, SMTT(60) DEF HeldInside
<1>6. Conforms(w, m)
    BY <1>1, <1>2, <1>4 DEF Conforms
<1> QED
    BY <1>5, <1>6 DEF Fits, m

-----------------------------------------------------------------------------
(* Every step keeps the invariant *)

LEMMA InitIInv == Init => IInv
BY DEF Init, IInv, VersionsKnown, TableKnown, TableFits

LEMMA RegisterKeeps ==
    ASSUME IInv, NEW id \in VersionIds, NEW v \in Versions, register_version(id, v)
    PROVE  IInv'
<1>1. IsVersion(v) /\ versions[id] = {}
    BY RegistryAssumption DEF register_version
<1>2. /\ versions' = [i \in VersionIds |-> IF i = id THEN {v} ELSE versions[i]]
      /\ nodes' = nodes /\ current' = current /\ aligned' = aligned
    BY DEF register_version, IInv, VersionsKnown
<1>3. VersionsKnown'
    BY <1>1, <1>2 DEF IInv, VersionsKnown
<1>4. \A i \in current : i \in VersionIds /\ versions'[i] = versions[i]
    BY <1>1, <1>2 DEF IInv, TableKnown
<1>5. TableKnown'
    BY <1>2, <1>4 DEF IInv, TableKnown
<1>6. TableFits'
    BY <1>2, <1>4 DEF IInv, TableFits
<1> QED
    BY <1>2, <1>3, <1>5, <1>6 DEF IInv

LEMMA LoadKeeps ==
    ASSUME IInv, LoadTable
    PROVE  IInv'
<1>1. PICK id \in VersionIds : \E v \in versions[id] :
            /\ nodes' \in [1 .. NodeCount -> NodesUnder(v)]
            /\ current' = {id}
    BY DEF LoadTable
<1>2. PICK v \in versions[id] :
            /\ nodes' \in [1 .. NodeCount -> NodesUnder(v)]
            /\ current' = {id}
    BY <1>1
<1>3. IsVersion(v) /\ versions[id] = {v}
    BY DEF IInv, VersionsKnown
<1>4. versions' = versions /\ aligned' = aligned
    BY DEF LoadTable
<1>5. \A n \in DOMAIN nodes' : IsNode(nodes'[n]) /\ Fits(v, nodes'[n])
    BY <1>2, <1>3, NodeUnder
<1>6. VersionsKnown'
    BY <1>4 DEF IInv, VersionsKnown
<1>7. TableKnown'
    BY <1>2, <1>3, <1>4, <1>5 DEF TableKnown
<1>8. TableFits'
    BY <1>2, <1>3, <1>4, <1>5 DEF TableFits
<1> QED
    BY <1>4, <1>6, <1>7, <1>8 DEF IInv

\* The nodes that apply_migration leaves, one by one.
LEMMA AppliedNodes ==
    ASSUME NEW table, NEW plan
    PROVE  /\ DOMAIN apply_migration(table, plan) = DOMAIN table
           /\ \A n \in DOMAIN table :
                apply_migration(table, plan)[n] = MigratedNode(table[n], plan)
BY DEF apply_migration, MigratedNode

LEMMA MigrateKeeps ==
    ASSUME IInv, NEW to \in VersionIds, Migrate(to)
    PROVE  IInv'
<1>1. versions' = versions
    BY DEF Migrate
<1>2. VersionsKnown'
    BY <1>1 DEF IInv, VersionsKnown
<1>3. PICK from \in current :
        \/ \E v \in versions[from], w \in versions[to] :
            /\ nodes' = apply_migration(nodes, compute_migration(v, w))
            /\ current' = {to}
            /\ aligned' = (aligned /\ Aligned(v, w))
        \/ UNCHANGED << nodes, current, aligned >>
    BY DEF Migrate
<1>4. CASE UNCHANGED << nodes, current, aligned >>
    BY <1>1, <1>2, <1>4 DEF IInv, TableKnown, TableFits
<1>5. CASE \E v \in versions[from], w \in versions[to] :
            /\ nodes' = apply_migration(nodes, compute_migration(v, w))
            /\ current' = {to}
            /\ aligned' = (aligned /\ Aligned(v, w))
    <2>1. PICK v \in versions[from], w \in versions[to] :
            /\ nodes' = apply_migration(nodes, compute_migration(v, w))
            /\ current' = {to}
            /\ aligned' = (aligned /\ Aligned(v, w))
        BY <1>5
    <2>2. /\ from \in VersionIds /\ IsVersion(v) /\ IsVersion(w)
          /\ versions[to] = {w} /\ versions'[to] = {w}
        BY <1>1 DEF IInv, VersionsKnown, TableKnown
    <2> DEFINE plan == compute_migration(v, w)
    <2>3. /\ DOMAIN nodes' = DOMAIN nodes
          /\ \A n \in DOMAIN nodes : nodes'[n] = MigratedNode(nodes[n], plan)
        BY <2>1, AppliedNodes
    <2> HIDE DEF plan
    <2>4. \A n \in DOMAIN nodes : IsNode(nodes[n]) /\ IsNode(MigratedNode(nodes[n], plan))
        BY MigratedNodeIs DEF IInv, TableKnown
    <2>5. aligned' \in BOOLEAN /\ (aligned' => aligned /\ Aligned(v, w))
        BY <2>1
    <2>6. TableKnown'
        BY <2>1, <2>2, <2>3, <2>4 DEF TableKnown
    <2>7. ASSUME aligned', NEW n \in DOMAIN nodes
          PROVE  Fits(w, MigratedNode(nodes[n], plan))
        <3>1. Aligned(v, w) /\ Fits(v, nodes[n])
            BY <2>5, <2>7 DEF IInv, TableFits
        <3> QED
            BY <2>2, <2>4, <3>1, MigrationFits DEF plan
    <2>8. TableFits'
        BY <2>1, <2>2, <2>3, <2>7 DEF TableFits
    <2> QED
        BY <1>2, <2>5, <2>6, <2>8 DEF IInv
<1> QED
    BY <1>3, <1>4, <1>5

LEMMA RestoreKeeps ==
    ASSUME IInv, Restore
    PROVE  IInv'
<1>1. /\ versions' = [id \in VersionIds |-> {restored(v) : v \in versions[id]}]
      /\ aligned' = (aligned /\ \A id \in current : versions'[id] = versions[id])
      /\ nodes' = nodes /\ current' = current
    BY DEF Restore
<1>2. ASSUME NEW id \in VersionIds, NEW w \in versions'[id]
      PROVE  IsVersion(w) /\ versions'[id] = {w}
    <2>1. versions'[id] = {restored(v) : v \in versions[id]}
        BY <1>1
    <2>2. PICK v \in versions[id] : w = restored(v)
        BY <1>2, <2>1
    <2>3. IsVersion(v) /\ versions[id] = {v}
        BY DEF IInv, VersionsKnown
    <2> QED
        BY <2>1, <2>2, <2>3, RestoredVersion
<1>3. versions' = [id \in VersionIds |-> versions'[id]]
    BY <1>1
<1>4. VersionsKnown'
    BY <1>2, <1>3 DEF VersionsKnown
<1>5. \A id \in current : id \in VersionIds /\ versions'[id] # {}
    <2>1. ASSUME NEW id \in current
          PROVE  id \in VersionIds /\ versions'[id] # {}
        <3>1. id \in VersionIds /\ versions[id] # {}
            BY DEF IInv, TableKnown
        <3>2. versions'[id] = {restored(v) : v \in versions[id]}
            BY <1>1, <3>1
        <3> QED
            BY <3>1, <3>2
    <2> QED
        BY <2>1
<1>6. TableKnown'
    BY <1>1, <1>5 DEF IInv, TableKnown
<1>7. aligned' \in BOOLEAN
      /\ (aligned' => aligned /\ \A id \in current : versions'[id] = versions[id])
    BY <1>1
<1>8. TableFits'
    BY <1>1, <1>7, ZenonT(60) DEF IInv, TableFits
<1> QED
    BY <1>4, <1>6, <1>7, <1>8 DEF IInv

LEMMA StepKeeps == IInv /\ [Next]_vars => IInv'
<1> SUFFICES ASSUME IInv, [Next]_vars PROVE IInv'
    OBVIOUS
<1>1. ASSUME UNCHANGED << versions, nodes, current, aligned >> PROVE IInv'
    BY <1>1 DEF IInv, VersionsKnown, TableKnown, TableFits
<1>2. ASSUME NEW id \in VersionIds, RejectVersion(id) PROVE IInv'
    BY <1>1, <1>2 DEF RejectVersion
<1>3. CASE RejectRestore
    BY <1>1, <1>3 DEF RejectRestore
<1>4. CASE UNCHANGED vars
    BY <1>1, <1>4 DEF vars
<1> QED
    BY <1>2, <1>3, <1>4, RegisterKeeps, LoadKeeps, MigrateKeeps, RestoreKeeps DEF Next

\* In every state the registry's versions are vectors, one to an id, and a live
\* node of a table that was only migrated between aligned schemas holds fields
\* of its kind alone.
THEOREM RegistryInvariant == Spec => []IInv
BY InitIInv, StepKeeps, PTL DEF Spec

\* After any number of aligned migrations the table conforms to the schema it
\* is read with: no field that the schema has not, none of another type than
\* the schema's or null, none under another name.
THEOREM TableStaysConform == Spec => []TableConforms
<1>1. IInv => TableConforms
    BY FitsConforms DEF IInv
<1> QED
    BY <1>1, RegistryInvariant, PTL

\* No call replaces a registered version, and a version whose pool has no string
\* twice is read back, by serialize and deserialize, as what was written.
THEOREM VersionsSurvive == Spec => VersionsAreKept
<1> DEFINE Kept == \A id \in VersionIds : \A v \in versions[id] :
                        Seqs!IsInjective(v.atoms) => versions'[id] = {v}
<1>1. ASSUME IInv, [Next]_vars PROVE Kept
    <2> SUFFICES ASSUME NEW id \in VersionIds, NEW v \in versions[id],
                        Seqs!IsInjective(v.atoms)
                 PROVE  versions'[id] = {v}
        OBVIOUS
    <2>1. IsVersion(v) /\ versions[id] = {v}
        BY <1>1 DEF IInv, VersionsKnown
    <2>2. ASSUME NEW i \in VersionIds, NEW w \in Versions, register_version(i, w)
          PROVE  versions'[id] = {v}
        <3>1. i # id
            BY <2>1, <2>2 DEF register_version
        <3> QED
            BY <1>1, <2>1, <2>2, <3>1 DEF register_version, IInv, VersionsKnown
    <2>3. CASE Restore
        <3>1. versions'[id] = {restored(w) : w \in versions[id]}
            BY <2>3 DEF Restore
        <3>2. restored(v) = v
            BY <2>1, RestoredVersion
        <3> QED
            BY <2>1, <3>1, <3>2
    <2>4. CASE UNCHANGED versions
        BY <2>1, <2>4
    <2>5. ASSUME NEW i \in VersionIds, RejectVersion(i) PROVE UNCHANGED versions
        BY <2>5 DEF RejectVersion
    <2>6. ASSUME NEW i \in VersionIds, Migrate(i) PROVE UNCHANGED versions
        BY <2>6 DEF Migrate
    <2>7. LoadTable \/ RejectRestore \/ UNCHANGED vars => UNCHANGED versions
        BY DEF LoadTable, RejectRestore, vars
    <2> QED
        BY <1>1, <2>2, <2>3, <2>4, <2>5, <2>6, <2>7 DEF Next
<1>2. Spec => [][Kept]_vars
    <2> HIDE DEF Kept
    <2> QED
        BY <1>1, RegistryInvariant, PTL DEF Spec
<1> QED
    BY <1>2 DEF VersionsAreKept

\* A migration between aligned schemas leaves dead nodes alone and gives each
\* field of a live one what its name calls for: the value it had, its conversion
\* or null, and nothing where the new schema has no field.
THEOREM MigrationFollowsNames == Spec => MigrationIsByName
<1> DEFINE NodeByName(v, w, node, after) ==
        /\ ~ node.alive => after = node
        /\ node.alive /\ node.kind \in DOMAIN v.kinds =>
            \A f \in FieldIds :
                after.fields[f] = FieldAfter(v, w, node.kind, f, node.fields[f])
           ByName == \A a \in current, b \in VersionIds :
                     \A v \in versions[a], w \in versions[b] :
                        Migrate(b) /\ aligned' =>
                        \A n \in DOMAIN nodes : NodeByName(v, w, nodes[n], nodes'[n])
<1>1. ASSUME IInv PROVE ByName
    <2> SUFFICES ASSUME NEW a \in current, NEW b \in VersionIds,
                        NEW v \in versions[a], NEW w \in versions[b],
                        Migrate(b), aligned', NEW n \in DOMAIN nodes
                 PROVE  NodeByName(v, w, nodes[n], nodes'[n])
        OBVIOUS
    <2> HIDE DEF NodeByName
    <2>1. /\ a \in VersionIds /\ IsVersion(v) /\ IsVersion(w)
          /\ versions[a] = {v} /\ versions[b] = {w}
          /\ \A from \in current : from = a
          /\ IsNode(nodes[n])
        BY <1>1 DEF IInv, VersionsKnown, TableKnown
    <2>2. /\ nodes' = apply_migration(nodes, compute_migration(v, w))
          /\ aligned' = (aligned /\ Aligned(v, w))
        BY <2>1 DEF Migrate
    <2>3. Aligned(v, w) /\ Fits(v, nodes[n])
        BY <1>1, <2>2 DEF IInv, TableFits
    <2> DEFINE plan == compute_migration(v, w)
               node == nodes[n]
               after == nodes'[n]
    <2>4. after = MigratedNode(node, plan)
        BY <2>2, AppliedNodes
    <2>5. /\ ~ node.alive => after = node
          /\ node.alive => after.fields = migrated_fields(node.fields, node.kind, plan)
        BY <2>1, <2>4, MigratedNodeIs
    <2>6. ASSUME node.alive, node.kind \in DOMAIN v.kinds, NEW f \in FieldIds
          PROVE  after.fields[f] = FieldAfter(v, w, node.kind, f, node.fields[f])
        <3>1. node.kind # kInvalidKind
            BY <2>1, <2>6, VectorProperties DEF kInvalidKind, IsVersion
        <3>2. node.fields[f] # {} => f \in DOMAIN v.kinds[node.kind].fields
            BY <2>3, <2>6, <3>1 DEF Fits, HeldInside
        <3>3. migrated_fields(node.fields, node.kind, plan)[f] =
                FieldAfter(v, w, node.kind, f, node.fields[f])
            BY <2>1, <2>3, <2>6, <3>2, FieldIsByName
        <3> QED
            BY <2>5, <2>6, <3>3
    <2> QED
        BY <2>5, <2>6 DEF NodeByName
<1>2. Spec => [][ByName]_vars
    <2> HIDE DEF ByName
    <2> QED
        BY <1>1, RegistryInvariant, PTL DEF Spec
<1> QED
    BY <1>2 DEF MigrationIsByName, FieldAfter

=============================================================================
