-------------------------- MODULE FieldIndexProofs --------------------------
(***************************************************************************)
(* What the index answers is explained by the nodes that changed after it  *)
(* was built, for every schema, pool and history of calls.                 *)
(***************************************************************************)
EXTENDS QueryEval, SetInduction

Value == Values \cup {MakeValue("Ref", m) : m \in Nat}

Node == [ kind : Kinds \cup {NoKind}, name : Names \cup {NoAtom}, alive : BOOLEAN,
          placeholder : BOOLEAN, fields : [Fields -> SUBSET Value],
          children : SUBSET Nat, refs : SUBSET Nat ]

\* The table is a sequence of nodes, and a field has one value at most.
Typed ==
    /\ nodes \in Seq(Node)
    /\ \A n \in DOMAIN nodes : \A f \in Fields :
          \A v, w \in nodes[n].fields[f] : v = w

\* What the index holds of a node, and what build() would put there.
EntriesFor(n) == {e \in index.entries : e.node = n}
NamesFor(n) == {p \in index.names : p[2] = n}

Mirrored(n) ==
    /\ EntriesFor(n) = IF Indexed(n) THEN EntriesOf(n) ELSE {}
    /\ NamesFor(n) = IF Indexed(n) THEN NamesOf(n) ELSE {}

\* A node that has not changed is in the index as build() found it, and the
\* index holds nothing of a node that is not in the table.
Mirror ==
    /\ \A n \in DOMAIN nodes \ changed : Mirrored(n)
    /\ \A e \in index.entries : e.node \in DOMAIN nodes
    /\ \A p \in index.names : p[2] \in DOMAIN nodes

Counted ==
    changed = {} => /\ index.node_count = Cardinality(Visited)
                    /\ index.entry_count = Cardinality(FieldsSet)

IInv == Typed /\ Mirror /\ Counted

-----------------------------------------------------------------------------
(* The table *)

\* What a call of the machine leaves of a node that the index knows.
Kept(n) ==
    /\ n \in DOMAIN nodes /\ n \notin changed
    /\ nodes'[n].kind = nodes[n].kind /\ nodes'[n].name = nodes[n].name
    /\ nodes'[n].alive = nodes[n].alive
    /\ nodes'[n].placeholder = nodes[n].placeholder
    /\ nodes'[n].fields = nodes[n].fields

\* A slot that is new and not recorded as a change is a placeholder.
Undisturbed ==
    /\ Typed'
    /\ index' = index
    /\ changed \subseteq changed'
    /\ DOMAIN nodes \subseteq DOMAIN nodes'
    /\ \A n \in DOMAIN nodes' \ changed' :
          \/ Kept(n)
          \/ n \notin DOMAIN nodes /\ nodes'[n].placeholder

\* A node the machine makes is a node of the table, without any value.
LEMMA NewNodeTyped ==
    ASSUME NEW kind \in Kinds \cup {NoKind}, NEW name \in Names \cup {NoAtom},
           NEW placeholder \in BOOLEAN
    PROVE  /\ NewNode(kind, name, placeholder) \in Node
           /\ \A f \in Fields : NewNode(kind, name, placeholder).fields[f] = {}
           /\ NewNode(kind, name, placeholder).placeholder = placeholder
BY DEF NewNode, Node

\* Appending a node keeps the table a table.
LEMMA TableAppend ==
    ASSUME NEW table \in Seq(Node), NEW node \in Node
    PROVE  /\ Append(table, node) \in Seq(Node)
           /\ DOMAIN Append(table, node) = DOMAIN table \cup {Len(table) + 1}
           /\ DOMAIN table = 1..Len(table)
           /\ Append(table, node)[Len(table) + 1] = node
           /\ \A n \in DOMAIN table : Append(table, node)[n] = table[n]
OBVIOUS

\* Overwriting a slot with a node keeps the table a table.
LEMMA TableUpdate ==
    ASSUME NEW table \in Seq(Node), NEW n \in DOMAIN table, NEW node \in Node
    PROVE  /\ [table EXCEPT ![n] = node] \in Seq(Node)
           /\ DOMAIN [table EXCEPT ![n] = node] = DOMAIN table
           /\ [table EXCEPT ![n] = node][n] = node
           /\ \A m \in DOMAIN table : m # n => [table EXCEPT ![n] = node][m] = table[m]
OBVIOUS

\* NEW_NODE appends a node and records it as a change.
LEMMA NewNodeEffect ==
    ASSUME Typed, NEW kind \in Kinds, NEW name \in Names \cup {NoAtom},
           NEW_NODE(kind, name)
    PROVE  Undisturbed
<1> DEFINE node == NewNode(kind, name, FALSE)
<1>1. node \in Node /\ \A f \in Fields : node.fields[f] = {}
  BY NewNodeTyped
<1>2. nodes \in Seq(Node)
  BY DEF Typed
<1>3. nodes' = Append(nodes, node)
  BY DEF NEW_NODE
<1> HIDE DEF node
<1>4. /\ nodes' \in Seq(Node)
      /\ DOMAIN nodes' = DOMAIN nodes \cup {Len(nodes) + 1}
      /\ DOMAIN nodes = 1..Len(nodes)
      /\ nodes'[Len(nodes) + 1] = node
      /\ \A n \in DOMAIN nodes : nodes'[n] = nodes[n]
  BY <1>1, <1>2, <1>3, TableAppend
<1>5. Typed'
  BY <1>1, <1>4 DEF Typed
<1>6. changed' = changed \cup {Len(nodes) + 1} /\ index' = index
  BY DEF NEW_NODE
<1> QED
  BY <1>4, <1>5, <1>6 DEF Undisturbed, Kept

\* ADD_CHILD may append a placeholder and touches children and refs only.
LEMMA AddChildEffect ==
    ASSUME Typed, NEW owner \in DOMAIN nodes, NEW name \in Names \cup {NoAtom},
           ADD_CHILD(owner, name)
    PROVE  Undisturbed
<1> DEFINE node == NewNode(NoKind, name, TRUE)
           found == StandsFor(name) # {}
           table == IF found THEN nodes ELSE Append(nodes, node)
           child == IF found THEN CHOOSE n \in StandsFor(name) : TRUE ELSE Len(table)
<1>1. nodes \in Seq(Node)
  BY DEF Typed
<1>2. /\ node \in Node /\ node.placeholder
      /\ \A f \in Fields : node.fields[f] = {}
  BY NewNodeTyped
<1> HIDE DEF node
<1>3. /\ table \in Seq(Node)
      /\ DOMAIN nodes \subseteq DOMAIN table
      /\ \A n \in DOMAIN nodes : table[n] = nodes[n]
      /\ \A n \in DOMAIN table : n \notin DOMAIN nodes => table[n] = node
      /\ child \in DOMAIN table
  <2>1. CASE found
    <3>1. child \in StandsFor(name)
      BY <2>1
    <3> QED
      BY <1>1, <2>1, <3>1 DEF StandsFor
  <2>2. CASE ~ found
    <3>1. table = Append(nodes, node) /\ child = Len(table)
      BY <2>2
    <3>2. Len(table) = Len(nodes) + 1
      BY <1>1, <1>2, <3>1
    <3> HIDE DEF table, child
    <3> QED
      BY <1>1, <1>2, <3>1, <3>2, TableAppend
  <2> QED
    BY <2>1, <2>2
<1>4. nodes' = [table EXCEPT ![owner].children = @ \cup {child},
                             ![child].refs = @ \cup {owner}]
  BY DEF ADD_CHILD, node
<1> HIDE DEF found, table, child
<1>5. owner \in Nat /\ child \in Nat /\ owner \in DOMAIN table
  BY <1>1, <1>3
<1>6. /\ nodes' \in Seq(Node)
      /\ DOMAIN nodes' = DOMAIN table
      /\ \A n \in DOMAIN table :
            /\ nodes'[n].kind = table[n].kind /\ nodes'[n].name = table[n].name
            /\ nodes'[n].alive = table[n].alive
            /\ nodes'[n].placeholder = table[n].placeholder
            /\ nodes'[n].fields = table[n].fields
  <2> DEFINE parent == [table[owner] EXCEPT !.children = @ \cup {child}]
             first == [table EXCEPT ![owner] = parent]
             adopted == [first[child] EXCEPT !.refs = @ \cup {owner}]
  <2>1. table[owner] \in Node
    BY <1>3, <1>5
  <2>2. /\ parent \in Node
        /\ parent.kind = table[owner].kind /\ parent.name = table[owner].name
        /\ parent.alive = table[owner].alive
        /\ parent.placeholder = table[owner].placeholder
        /\ parent.fields = table[owner].fields
    BY <1>5, <2>1 DEF Node
  <2>3. nodes' = [first EXCEPT ![child].refs = @ \cup {owner}]
    BY <1>4
  <2> HIDE DEF parent
  <2>4. /\ first \in Seq(Node)
        /\ DOMAIN first = DOMAIN table
        /\ first[owner] = parent
        /\ \A n \in DOMAIN table : n # owner => first[n] = table[n]
    BY <1>3, <1>5, <2>2, TableUpdate
  <2> HIDE DEF first
  <2>5. first[child] \in Node
    BY <1>3, <2>4
  <2>6. /\ adopted \in Node
        /\ adopted.kind = first[child].kind /\ adopted.name = first[child].name
        /\ adopted.alive = first[child].alive
        /\ adopted.placeholder = first[child].placeholder
        /\ adopted.fields = first[child].fields
    BY <1>5, <2>5 DEF Node
  <2>7. nodes' = [first EXCEPT ![child] = adopted]
    BY <2>3
  <2> HIDE DEF adopted
  <2>8. /\ nodes' \in Seq(Node)
        /\ DOMAIN nodes' = DOMAIN first
        /\ nodes'[child] = adopted
        /\ \A n \in DOMAIN first : n # child => nodes'[n] = first[n]
    BY <1>3, <2>4, <2>6, <2>7, TableUpdate
  <2> QED
    BY <2>2, <2>4, <2>6, <2>8
<1>7. Typed'
  BY <1>2, <1>3, <1>6 DEF Typed
<1>8. changed' = changed /\ index' = index
  BY DEF ADD_CHILD
<1> QED
  BY <1>2, <1>3, <1>6, <1>7, <1>8 DEF Undisturbed, Kept

\* A call that writes one node, records it and leaves the others alone.
LEMMA WriteEffect ==
    ASSUME Typed, NEW n \in DOMAIN nodes, NEW node \in Node,
           \A f \in Fields : \A v, w \in node.fields[f] : v = w,
           nodes' = [nodes EXCEPT ![n] = node],
           changed' = changed \cup {n},
           index' = index
    PROVE  Undisturbed
<1>1. /\ nodes' \in Seq(Node)
      /\ DOMAIN nodes' = DOMAIN nodes
      /\ \A m \in DOMAIN nodes : nodes'[m] = IF m = n THEN node ELSE nodes[m]
  BY DEF Typed
<1>2. Typed'
  BY <1>1 DEF Typed
<1> QED
  BY <1>1, <1>2 DEF Undisturbed, Kept

\* Setting a field to one value keeps a node a node.
LEMMA FieldSet ==
    ASSUME Typed, NEW n \in DOMAIN nodes, NEW f \in Fields, NEW v \in Value,
           NEW more \in SUBSET Nat,
           nodes' = [nodes EXCEPT ![n].fields[f] = {v}, ![n].refs = @ \cup more],
           changed' = changed \cup {n},
           index' = index
    PROVE  Undisturbed
<1> DEFINE node == [nodes[n] EXCEPT !.fields[f] = {v}, !.refs = @ \cup more]
<1>1. nodes[n] \in Node
  BY DEF Typed
<1>2. node \in Node
  BY <1>1 DEF Node
<1>3. \A g \in Fields : node.fields[g] = IF g = f THEN {v} ELSE nodes[n].fields[g]
  BY <1>1 DEF Node
<1>4. nodes' = [nodes EXCEPT ![n] = node]
  BY <1>1 DEF Typed, Node
<1> HIDE DEF node
<1>5. \A g \in Fields : \A x, y \in node.fields[g] : x = y
  BY <1>3 DEF Typed
<1> QED
  BY <1>2, <1>4, <1>5, WriteEffect

\* SET_FIELD gives a field of a live node one value.
LEMMA SetFieldEffect ==
    ASSUME Typed, NEW n \in DOMAIN nodes, NEW f \in Fields, NEW v \in Values,
           SET_FIELD(n, f, v)
    PROVE  Undisturbed
<1>1. Targets(v) \in SUBSET Nat
  BY DEF Targets, Typed
<1> QED
  BY <1>1, FieldSet DEF SET_FIELD, Value

\* LINK_REF gives a field a reference to the node that a name stands for.
LEMMA LinkRefEffect ==
    ASSUME Typed, NEW n \in DOMAIN nodes, NEW f \in Fields, NEW name \in Names,
           LINK_REF(n, f, name)
    PROVE  Undisturbed
<1>1. PICK target \in StandsFor(name) :
          nodes' = [nodes EXCEPT ![n].fields[f] = {MakeValue("Ref", target)},
                                 ![n].refs = @ \cup {target}]
  BY DEF LINK_REF
<1>2. target \in Nat
  BY DEF StandsFor, Typed
<1>3. MakeValue("Ref", target) \in Value /\ {target} \in SUBSET Nat
  BY <1>2 DEF Value
<1> QED
  BY <1>1, <1>3, FieldSet DEF LINK_REF

\* DROP_NODE changes the liveness of one node.
LEMMA DropNodeEffect ==
    ASSUME Typed, NEW n \in DOMAIN nodes, DROP_NODE(n)
    PROVE  Undisturbed
<1> DEFINE node == [nodes[n] EXCEPT !.alive = FALSE]
<1>1. nodes[n] \in Node
  BY DEF Typed
<1>2. node \in Node /\ node.fields = nodes[n].fields
  BY <1>1 DEF Node
<1>3. nodes' = [nodes EXCEPT ![n] = node]
  BY <1>1 DEF DROP_NODE, Typed, Node
<1> HIDE DEF node
<1>4. \A f \in Fields : \A v, w \in node.fields[f] : v = w
  BY <1>2 DEF Typed
<1>5. changed' = changed \cup {n} /\ index' = index
  BY DEF DROP_NODE
<1> QED
  BY <1>2, <1>3, <1>4, <1>5, WriteEffect

\* No call of the machine tells the index, and a node that it changes for the
\* index is recorded.
LEMMA MachineEffect ==
    ASSUME Typed, Machine
    PROVE  Undisturbed
BY NewNodeEffect, AddChildEffect, SetFieldEffect, LinkRefEffect, DropNodeEffect
   DEF Machine

-----------------------------------------------------------------------------
(* Counting *)

\* A filter of a finite set, and of a product of two, is finite.
LEMMA TableFinite ==
    ASSUME Typed
    PROVE  /\ IsFiniteSet(DOMAIN nodes) /\ IsFiniteSet(Visited)
           /\ IsFiniteSet(FieldsSet)
<1>1. DOMAIN nodes = 1..Len(nodes) /\ Len(nodes) \in Nat
  BY DEF Typed
<1>2. IsFiniteSet(DOMAIN nodes)
  BY <1>1, FS_Interval
<1>3. IsFiniteSet(Visited)
  BY <1>2, FS_Subset DEF Visited
<1>4. IsFiniteSet(Visited \X Fields)
  BY <1>3, FS_Product, IndexAssumption
<1>5. IsFiniteSet(FieldsSet)
  BY <1>4, FS_Subset DEF FieldsSet
<1> QED
  BY <1>2, <1>3, <1>5

\* The entries of a node are those of its fields' values.
LEMMA EntryOf ==
    ASSUME NEW n, NEW e
    PROVE  e \in EntriesOf(n)
           <=> \E f \in Fields : \E v \in nodes[n].fields[f] :
                  e = [node |-> n, kind |-> nodes[n].kind, field |-> f, value |-> v]
BY DEF EntriesOf

\* build() makes one entry of every field of an indexed node that has a value.
LEMMA EntriesCounted ==
    ASSUME Typed
    PROVE  LET found == UNION {EntriesOf(n) : n \in Visited}
           IN  /\ IsFiniteSet(found)
               /\ Cardinality(found) = Cardinality(FieldsSet)
<1> DEFINE found == UNION {EntriesOf(n) : n \in Visited}
           EntryAt(p) == [ node |-> p[1], kind |-> nodes[p[1]].kind, field |-> p[2],
                           value |-> CHOOSE v \in nodes[p[1]].fields[p[2]] : TRUE ]
           entry == [p \in FieldsSet |-> EntryAt(p)]
<1>1. \A p \in FieldsSet : /\ p = << p[1], p[2] >>
                           /\ p[1] \in Visited /\ p[2] \in Fields
                           /\ nodes[p[1]].fields[p[2]] # {}
  BY DEF FieldsSet
<1>2. entry \in [FieldsSet -> found]
  <2> SUFFICES ASSUME NEW p \in FieldsSet PROVE EntryAt(p) \in found
    OBVIOUS
  <2>1. (CHOOSE v \in nodes[p[1]].fields[p[2]] : TRUE) \in nodes[p[1]].fields[p[2]]
    BY <1>1
  <2>2. EntryAt(p) \in EntriesOf(p[1])
    BY <1>1, <2>1, EntryOf
  <2> QED
    BY <1>1, <2>2
<1>3. \A p, q \in FieldsSet : entry[p] = entry[q] => p = q
  <2> SUFFICES ASSUME NEW p \in FieldsSet, NEW q \in FieldsSet, EntryAt(p) = EntryAt(q)
               PROVE  p = q
    OBVIOUS
  <2>1. EntryAt(p).node = EntryAt(q).node /\ EntryAt(p).field = EntryAt(q).field
    OBVIOUS
  <2> QED
    BY <1>1, <2>1, SMTT(60)
<1>4. \A e \in found : \E p \in FieldsSet : entry[p] = e
  <2> SUFFICES ASSUME NEW n \in Visited, NEW e \in EntriesOf(n)
               PROVE  \E p \in FieldsSet : entry[p] = e
    OBVIOUS
  <2>1. PICK f \in Fields : \E v \in nodes[n].fields[f] :
           e = [node |-> n, kind |-> nodes[n].kind, field |-> f, value |-> v]
    BY EntryOf
  <2>2. PICK v \in nodes[n].fields[f] :
           e = [node |-> n, kind |-> nodes[n].kind, field |-> f, value |-> v]
    BY <2>1
  <2>3. << n, f >> \in FieldsSet
    BY DEF FieldsSet
  <2>4. (CHOOSE w \in nodes[n].fields[f] : TRUE) = v
    BY DEF Typed, Visited
  <2>5. EntryAt(<< n, f >>) = [ node |-> n, kind |-> nodes[n].kind,
                                field |-> f, value |-> v ]
    BY <2>4
  <2> QED
    BY <2>3, <2>5, <2>2
<1> HIDE DEF found, entry
<1>5. entry \in Bijection(FieldsSet, found)
  BY <1>2, <1>3, <1>4 DEF Bijection, Injection, Surjection, IsInjective
<1>6. ExistsBijection(FieldsSet, found)
  BY <1>5 DEF ExistsBijection
<1>7. IsFiniteSet(found) /\ Cardinality(found) = Cardinality(FieldsSet)
  BY <1>6, TableFinite, FS_Bijection
<1> QED
  BY <1>7 DEF found

-----------------------------------------------------------------------------
(* The invariant *)

\* An empty index mirrors an empty table.
LEMMA InitHolds == Init => IInv
<1> SUFFICES ASSUME Init PROVE IInv
  OBVIOUS
<1>1. nodes = << >> /\ index = EmptyIndex /\ changed = {}
  BY DEF Init
<1>2. DOMAIN nodes = {} /\ Visited = {} /\ FieldsSet = {}
  BY <1>1 DEF Visited, FieldsSet
<1>3. Typed /\ Mirror
  BY <1>1, <1>2 DEF Typed, Mirror, EmptyIndex
<1>4. Counted
  BY <1>1, <1>2, FS_EmptySet DEF Counted, EmptyIndex
<1> QED
  BY <1>3, <1>4 DEF IInv

\* build() makes the index mirror the whole table, whatever it held before.
LEMMA BuildKeeps == IInv /\ build => IInv'
<1> SUFFICES ASSUME IInv, build PROVE IInv'
  OBVIOUS
<1> DEFINE found == UNION {EntriesOf(n) : n \in Visited}
           names == UNION {NamesOf(n) : n \in Visited}
<1>1. nodes' = nodes /\ changed' = {}
  BY DEF build
<1>2. /\ index'.entries = {} \cup found /\ index'.names = {} \cup names
      /\ index'.entry_count = 0 + Cardinality(found)
      /\ index'.node_count = 0 + Cardinality(Visited)
  BY DEF build, clear, EmptyIndex
<1>3. Typed'
  BY <1>1 DEF IInv, Typed
<1>4. \A n \in Visited : /\ \A e \in EntriesOf(n) : e.node = n
                         /\ \A p \in NamesOf(n) : p[2] = n
  BY DEF EntriesOf, NamesOf
<1>5. Mirror'
  <2>1. ASSUME NEW n \in DOMAIN nodes
        PROVE  /\ {e \in found : e.node = n} = IF Indexed(n) THEN EntriesOf(n) ELSE {}
               /\ {p \in names : p[2] = n} = IF Indexed(n) THEN NamesOf(n) ELSE {}
    <3>1. CASE Indexed(n)
      <4>1. n \in Visited
        BY <3>1 DEF Visited
      <4> QED
        BY <1>4, <3>1, <4>1
    <3>2. CASE ~ Indexed(n)
      <4>1. n \notin Visited
        BY <3>2 DEF Visited
      <4> QED
        BY <1>4, <3>2, <4>1
    <3> QED
      BY <3>1, <3>2
  <2>2. \A n \in DOMAIN nodes : Mirrored(n)'
    BY <1>1, <1>2, <2>1
       DEF Mirrored, EntriesFor, NamesFor, Indexed, EntriesOf, NamesOf
  <2>3. \A e \in found : e.node \in DOMAIN nodes
    BY <1>4 DEF Visited
  <2>4. \A p \in names : p[2] \in DOMAIN nodes
    BY <1>4 DEF Visited
  <2> QED
    BY <1>1, <1>2, <2>2, <2>3, <2>4 DEF Mirror
<1>6. Counted'
  <2>1. Visited' = Visited /\ FieldsSet' = FieldsSet
    BY <1>1 DEF Visited, FieldsSet, Indexed
  <2>2. /\ IsFiniteSet(found) /\ Cardinality(found) = Cardinality(FieldsSet)
        /\ IsFiniteSet(Visited)
    BY EntriesCounted, TableFinite DEF IInv
  <2>3. Cardinality(found) \in Nat /\ Cardinality(Visited) \in Nat
    BY <2>2, FS_CardinalityType
  <2> QED
    BY <1>2, <2>1, <2>2, <2>3 DEF Counted
<1> QED
  BY <1>3, <1>5, <1>6 DEF IInv

\* A call that leaves the index undisturbed leaves it a mirror.
LEMMA UndisturbedKeeps == IInv /\ Undisturbed => IInv'
<1> SUFFICES ASSUME IInv, Undisturbed PROVE IInv'
  OBVIOUS
<1>1. index' = index /\ DOMAIN nodes \subseteq DOMAIN nodes' /\ changed \subseteq changed'
  BY DEF Undisturbed
<1>2. ASSUME NEW n \in DOMAIN nodes' \ changed'
      PROVE  Mirrored(n)'
  <2>1. CASE Kept(n)
    <3>1. Mirrored(n)
      BY <2>1 DEF Kept, IInv, Mirror
    <3>2. Indexed(n)' = Indexed(n) /\ EntriesOf(n)' = EntriesOf(n) /\ NamesOf(n)' = NamesOf(n)
      BY <2>1 DEF Kept, Indexed, EntriesOf, NamesOf
    <3> QED
      BY <1>1, <3>1, <3>2 DEF Mirrored, EntriesFor, NamesFor
  <2>2. CASE n \notin DOMAIN nodes /\ nodes'[n].placeholder
    <3>1. EntriesFor(n) = {} /\ NamesFor(n) = {}
      BY <2>2 DEF IInv, Mirror, EntriesFor, NamesFor
    <3>2. ~ Indexed(n)'
      BY <2>2 DEF Indexed
    <3> QED
      BY <1>1, <3>1, <3>2 DEF Mirrored, EntriesFor, NamesFor
  <2> QED
    BY <2>1, <2>2 DEF Undisturbed
<1>3. Mirror'
  BY <1>1, <1>2 DEF IInv, Mirror
<1>4. Counted'
  <2> SUFFICES ASSUME changed' = {}
               PROVE  /\ index'.node_count = Cardinality(Visited')
                      /\ index'.entry_count = Cardinality(FieldsSet')
    BY DEF Counted
  <2>1. changed = {}
    BY <1>1
  <2>2. \A n \in DOMAIN nodes : Kept(n)
    BY <1>1 DEF Undisturbed
  <2>3. \A n \in DOMAIN nodes' : n \notin DOMAIN nodes => nodes'[n].placeholder
    BY DEF Undisturbed, Kept
  <2>4. Visited' = Visited
    BY <1>1, <2>2, <2>3 DEF Visited, Indexed, Kept
  <2>5. \A n \in Visited : nodes'[n].fields = nodes[n].fields
    BY <2>2 DEF Visited, Kept
  <2>6. FieldsSet' = FieldsSet
    BY <2>4, <2>5 DEF FieldsSet
  <2> QED
    BY <1>1, <2>1, <2>4, <2>6 DEF IInv, Counted
<1>5. Typed'
  BY DEF Undisturbed
<1> QED
  BY <1>3, <1>4, <1>5 DEF IInv

\* Every call keeps the invariant.
LEMMA StepKeeps == IInv /\ [Next]_vars => IInv'
<1> SUFFICES ASSUME IInv, [Next]_vars PROVE IInv'
  OBVIOUS
<1>1. CASE build
  BY <1>1, BuildKeeps
<1>2. CASE Machine
  BY <1>2, MachineEffect, UndisturbedKeeps DEF IInv
<1>3. CASE UNCHANGED vars
  BY <1>3 DEF IInv, Typed, Mirror, Mirrored, EntriesFor, NamesFor, Counted, Indexed,
              EntriesOf, NamesOf, Visited, FieldsSet, vars
<1> QED
  BY <1>1, <1>2, <1>3 DEF Next

-----------------------------------------------------------------------------
(* What the lookups answer *)

\* The entries the index holds of a settled node are those of its fields.
LEMMA EntriesOfSettled ==
    ASSUME IInv, NEW n, n \notin changed, NEW e
    PROVE  e \in index.entries /\ e.node = n
           <=> n \in Visited /\ e \in EntriesOf(n)
<1>1. CASE n \in DOMAIN nodes
  BY <1>1 DEF IInv, Mirror, Mirrored, EntriesFor, Visited, EntriesOf
<1>2. CASE n \notin DOMAIN nodes
  BY <1>2 DEF IInv, Mirror, Visited
<1> QED
  BY <1>1, <1>2

\* The nodes with a wanted value in a field, as the index and as the table have them.
Listed(k, f, wanted) == NodesOf({e \in Hits(k, f) : e.value \in wanted})
Holding(k, f, wanted) ==
    {n \in Visited : nodes[n].kind = k /\ nodes[n].fields[f] \cap wanted # {}}

\* A lookup for the entries of a kind and a field that pass a test on the value
\* finds the settled nodes that have such a value.
LEMMA HitsOfSettled ==
    ASSUME IInv, NEW k, NEW f \in Fields, NEW wanted
    PROVE  /\ Settled(Listed(k, f, wanted)) = Settled(Holding(k, f, wanted))
           /\ Settled(NodesOf(Hits(k, f))) =
                 Settled({n \in Visited : nodes[n].kind = k /\ nodes[n].fields[f] # {}})
<1> DEFINE entry(n, v) == [node |-> n, kind |-> nodes[n].kind, field |-> f, value |-> v]
<1>1. ASSUME NEW n, n \notin changed, NEW e \in Hits(k, f), e.node = n
      PROVE  n \in Visited /\ nodes[n].kind = k /\ e.value \in nodes[n].fields[f]
  <2>1. n \in Visited /\ e \in EntriesOf(n)
    BY <1>1, EntriesOfSettled DEF Hits
  <2> QED
    BY <1>1, <2>1 DEF Hits, EntriesOf
<1>2. ASSUME NEW n \in Visited, n \notin changed, nodes[n].kind = k,
             NEW v \in nodes[n].fields[f]
      PROVE  \E e \in Hits(k, f) : e.node = n /\ e.value = v
  <2>1. entry(n, v) \in EntriesOf(n)
    BY DEF EntriesOf
  <2>2. entry(n, v) \in index.entries
    BY <1>2, <2>1, EntriesOfSettled
  <2> QED
    BY <1>2, <2>2 DEF Hits
<1> QED
  BY <1>1, <1>2 DEF Settled, NodesOf, Listed, Holding

\* A name finds the settled nodes that bear it.
LEMMA NamesOfSettled ==
    ASSUME IInv, NEW name \in Names
    PROVE  Settled(lookup_by_name(name)) = Settled({n \in Visited : nodes[n].name = name})
<1>1. ASSUME NEW p \in index.names, p[2] \notin changed
      PROVE  p[2] \in Visited /\ p[1] = nodes[p[2]].name
  <2>1. p[2] \in DOMAIN nodes
    BY DEF IInv, Mirror
  <2>2. Mirrored(p[2]) /\ p \in NamesFor(p[2])
    BY <1>1, <2>1 DEF IInv, Mirror, NamesFor
  <2>3. Indexed(p[2]) /\ p \in NamesOf(p[2])
    BY <2>2 DEF Mirrored
  <2> QED
    BY <2>1, <2>3 DEF NamesOf, Visited
<1>2. ASSUME NEW n \in Visited, n \notin changed, nodes[n].name = name
      PROVE  << name, n >> \in index.names
  <2>1. << name, n >> \in NamesOf(n)
    BY <1>2 DEF NamesOf
  <2>2. NamesFor(n) = NamesOf(n)
    BY <1>2 DEF IInv, Mirror, Mirrored, Visited
  <2> QED
    BY <2>1, <2>2 DEF NamesFor
<1>3. \A n : n \in lookup_by_name(name) <=> \E p \in index.names : p[1] = name /\ n = p[2]
  BY DEF lookup_by_name
<1>4. ASSUME NEW n, n \notin changed
      PROVE  n \in lookup_by_name(name) <=> n \in Visited /\ nodes[n].name = name
  <2>1. ASSUME n \in lookup_by_name(name) PROVE n \in Visited /\ nodes[n].name = name
    BY <1>1, <1>3, <1>4, <2>1
  <2>2. ASSUME n \in Visited, nodes[n].name = name PROVE n \in lookup_by_name(name)
    <3>1. << name, n >> \in index.names
      BY <1>2, <1>4, <2>2
    <3> QED
      BY <1>3, <3>1
  <2> QED
    BY <2>1, <2>2
<1> QED
  BY <1>4 DEF Settled

\* A lookup of value w differs from the table by changed nodes only.
ValueExplained(k, f, w) ==
    Settled(NodesOf({e \in Hits(k, f) : e.value = w})) =
        Settled({n \in Visited : nodes[n].kind = k /\ nodes[n].fields[f] = {w}})

\* The invariant makes every answer explained.
LEMMA AnswersExplained == IInv => IndexExplained
<1> SUFFICES ASSUME IInv PROVE IndexExplained
  OBVIOUS
<1>1. ASSUME NEW k \in Kinds, NEW f \in Fields PROVE HasFieldExplained(k, f)
  <2>1. Settled(lookup_has_field(k, f)) =
           Settled({n \in Visited : nodes[n].kind = k /\ nodes[n].fields[f] # {}})
    BY HitsOfSettled DEF lookup_has_field
  <2> QED
    BY <2>1 DEF HasFieldExplained
<1>2. ASSUME NEW k \in Kinds, NEW f \in Fields, NEW w PROVE ValueExplained(k, f, w)
  <2>1. Listed(k, f, {w}) = NodesOf({e \in Hits(k, f) : e.value = w})
    <3>1. {e \in Hits(k, f) : e.value = w} = {e \in Hits(k, f) : e.value \in {w}}
      OBVIOUS
    <3> QED
      BY <3>1 DEF Listed
  <2>2. \A n \in Visited :
           nodes[n].fields[f] \cap {w} # {} <=> nodes[n].fields[f] = {w}
    <3> SUFFICES ASSUME NEW n \in Visited
                 PROVE  nodes[n].fields[f] \cap {w} # {} <=> nodes[n].fields[f] = {w}
      OBVIOUS
    <3>1. \A u, v \in nodes[n].fields[f] : u = v
      BY DEF IInv, Typed, Visited
    <3> QED
      BY <3>1
  <2>3. Holding(k, f, {w}) =
           {n \in Visited : nodes[n].kind = k /\ nodes[n].fields[f] = {w}}
    BY <2>2 DEF Holding
  <2>4. Settled(Listed(k, f, {w})) = Settled(Holding(k, f, {w}))
    BY HitsOfSettled, ZenonT(60)
  <2> QED
    BY <2>1, <2>3, <2>4 DEF ValueExplained
<1>3. ASSUME NEW k \in Kinds, NEW f \in Fields, NEW i PROVE IntExplained(k, f, i)
  <2>1. ValueExplained(k, f, MakeValue("Int", i))
    BY <1>2
  <2> QED
    BY <2>1 DEF ValueExplained, IntExplained, lookup_int
<1>4. ASSUME NEW k \in Kinds, NEW f \in Fields, NEW a PROVE AtomExplained(k, f, a)
  <2>1. ValueExplained(k, f, MakeValue("Atom", a))
    BY <1>2
  <2> QED
    BY <2>1 DEF ValueExplained, AtomExplained, lookup_atom
<1>5. ASSUME NEW name \in Names PROVE NameExplained(name)
  BY NamesOfSettled DEF NameExplained
<1>6. changed = {} => CountersExact
  BY DEF IInv, Counted, CountersExact
<1> QED
  BY <1>1, <1>3, <1>4, <1>5, <1>6 DEF IndexExplained

\* What a lookup answers differs from what the table holds by nodes that changed
\* after build(), and by no other, whatever the calls before and after it: build()
\* and the lookups of field_index.cpp against the handlers of replay_vm.cpp.
THEOREM IndexCorrect == Spec => []IndexExplained
<1>1. Init => IInv
  BY InitHolds
<1>2. IInv /\ [Next]_vars => IInv'
  BY StepKeeps
<1>3. IInv => IndexExplained
  BY AnswersExplained
<1> QED
  BY <1>1, <1>2, <1>3, PTL DEF Spec

-----------------------------------------------------------------------------
(* What a query finds *)

\* A text of the pool is found at an atom that has it.
LEMMA FindInPool ==
    ASSUME NEW text \in Range(Pool)
    PROVE  /\ find(text) \in DOMAIN Pool /\ find(text) \in Nat \ {NotFound}
           /\ Pool[find(text)] = text
<1> DEFINE hits == {a \in DOMAIN Pool : Pool[a] = text}
<1>1. hits \in SUBSET Nat /\ hits # {}
  BY EvalAssumption DEF Range
<1>2. \E m \in hits : \A a \in hits : m <= a
  BY <1>1, LeastElement
<1>3. Min(hits) \in hits
  BY <1>2 DEF Min
<1>4. find(text) = Min(hits)
  BY <1>1 DEF find
<1>5. find(text) \in hits
  BY <1>3, <1>4
<1> QED
  BY <1>5, EvalAssumption DEF NotFound

\* A name is one field of a kind at most.
LEMMA OneFieldNamed ==
    ASSUME NEW kind, NEW name, NEW f \in FieldNamed(kind, name)
    PROVE  /\ FieldNamed(kind, name) = {f} /\ f \in Fields /\ kind # NoKind
           /\ FieldName[kind][f] = find(name)
<1> DEFINE hits == {g \in Fields : FieldType[kind][g] # "Invalid"
                                   /\ FieldName[kind][g] = find(name)}
<1>1. kind # NoKind /\ hits # {} /\ FieldNamed(kind, name) = {Min(hits)}
  BY DEF FieldNamed
<1>2. hits \in SUBSET Nat
  BY EvalAssumption
<1>3. \E m \in hits : \A a \in hits : m <= a
  BY <1>1, <1>2, LeastElement
<1>4. Min(hits) \in hits
  BY <1>3 DEF Min
<1> QED
  BY <1>1, <1>4

\* The types that a literal can be compared with.
TypesFor(literal) ==
    IF "text" \in DOMAIN literal THEN {"Atom"} ELSE {"Int", "Ref", "Atom"}

\* The literals of the property.
Literals == {[int |-> i] : i \in Data["Int"]} \cup {[text |-> t] : t \in Range(Pool)}

\* A value of such a type is a number, and is compared with one.
LEMMA ComparedNumbers ==
    ASSUME NEW v \in Value, NEW literal \in Literals
    PROVE  \E lhs, rhs \in Int : \A op :
              Compares(v, op, literal) <=>
                  v.type \in TypesFor(literal) /\ apply_cmp(op, lhs, rhs)
<1>1. ASSUME v.type \in {"Int", "Ref", "Atom"} PROVE v.data \in Int
  <2>1. CASE v \in Values
    <3>1. PICK type \in ValueTypes : \E d \in Data[type] : v = MakeValue(type, d)
      BY <2>1 DEF Values
    <3>2. PICK d \in Data[type] : v = MakeValue(type, d)
      BY <3>1
    <3>3. v.type = type /\ v.data = d
      BY <3>2 DEF MakeValue
    <3> QED
      BY <1>1, <3>3, EvalAssumption
  <2>2. CASE v \in {MakeValue("Ref", m) : m \in Nat}
    BY <2>2 DEF MakeValue
  <2> QED
    BY <2>1, <2>2 DEF Value
<1>2. CASE literal \in {[int |-> i] : i \in Data["Int"]}
  <2>1. "text" \notin DOMAIN literal /\ literal.int \in Int
    BY <1>2, EvalAssumption
  <2>2. \A op : Compares(v, op, literal)
                <=> v.type \in TypesFor(literal) /\ apply_cmp(op, v.data, literal.int)
    BY <2>1 DEF Compares, TypesFor
  <2>3. CASE v.type \in TypesFor(literal)
    BY <1>1, <2>1, <2>2, <2>3 DEF TypesFor
  <2>4. CASE v.type \notin TypesFor(literal)
    BY <2>1, <2>2, <2>4
  <2> QED
    BY <2>3, <2>4
<1>3. CASE literal \in {[text |-> t] : t \in Range(Pool)}
  <2>1. "text" \in DOMAIN literal /\ literal.text \in Range(Pool)
    BY <1>3
  <2>2. find(literal.text) \in Int /\ find(literal.text) # NotFound
    BY <2>1, FindInPool
  <2>3. \A op : Compares(v, op, literal)
                <=> v.type \in TypesFor(literal)
                    /\ apply_cmp(op, v.data, find(literal.text))
    BY <2>1, <2>2 DEF Compares, TypesFor
  <2>4. CASE v.type \in TypesFor(literal)
    BY <1>1, <2>1, <2>2, <2>3, <2>4 DEF TypesFor
  <2>5. CASE v.type \notin TypesFor(literal)
    BY <2>2, <2>3, <2>5
  <2> QED
    BY <2>4, <2>5
<1> QED
  BY <1>2, <1>3 DEF Literals

\* The comparisons of one value with a literal: each is the opposite of another,
\* as long as there is something to compare.
LEMMA ComparisonsOfValue ==
    ASSUME NEW v \in Value, NEW literal \in Literals
    PROVE  LET yes(op) == Compares(v, op, literal)
               comparable == v.type \in TypesFor(literal)
           IN  /\ yes("EQ") <=> comparable /\ ~ yes("NEQ")
               /\ yes("LT") <=> comparable /\ ~ yes("GE")
               /\ yes("LE") <=> comparable /\ ~ yes("GT")
               /\ \A op : yes(op) => comparable
               /\ yes("LE") <=> yes("LT") \/ yes("EQ")
<1>1. PICK lhs, rhs \in Int : \A op :
          Compares(v, op, literal) <=>
              v.type \in TypesFor(literal) /\ apply_cmp(op, lhs, rhs)
  BY ComparedNumbers
<1>2. /\ apply_cmp("EQ", lhs, rhs) <=> lhs = rhs
      /\ apply_cmp("NEQ", lhs, rhs) <=> lhs # rhs
      /\ apply_cmp("LT", lhs, rhs) <=> lhs < rhs
      /\ apply_cmp("LE", lhs, rhs) <=> lhs <= rhs
      /\ apply_cmp("GT", lhs, rhs) <=> lhs > rhs
      /\ apply_cmp("GE", lhs, rhs) <=> lhs >= rhs
  BY DEF apply_cmp
<1> HIDE DEF apply_cmp, TypesFor
<1> QED
  BY <1>1, <1>2

\* The values of a node that a comparison with a named field looks at.
LookedAt(n, name) ==
    UNION {nodes[n].fields[f] : f \in FieldNamed(nodes[n].kind, name)}

\* There is one at most.
LEMMA OneLookedAt ==
    ASSUME Typed, NEW n \in DOMAIN nodes, NEW name
    PROVE  /\ LookedAt(n, name) \subseteq Value
           /\ \A v, w \in LookedAt(n, name) : v = w
<1> SUFFICES ASSUME NEW v \in LookedAt(n, name)
             PROVE  v \in Value /\ \A w \in LookedAt(n, name) : v = w
  OBVIOUS
<1>1. PICK f \in FieldNamed(nodes[n].kind, name) : v \in nodes[n].fields[f]
  BY DEF LookedAt
<1>2. FieldNamed(nodes[n].kind, name) = {f} /\ f \in Fields
  BY OneFieldNamed
<1>3. LookedAt(n, name) = nodes[n].fields[f]
  BY <1>2 DEF LookedAt
<1>4. nodes[n] \in Node
  BY DEF Typed
<1>5. nodes[n].fields[f] \subseteq Value
  BY <1>2, <1>4 DEF Node
<1> QED
  BY <1>2, <1>3, <1>5 DEF Typed

\* What a comparison finds: the live nodes with such a value that passes.
LEMMA FoundByComparison ==
    ASSUME NEW name, NEW op, NEW literal
    PROVE  execute_leaf(FieldCmp(name, op, literal)).nodes =
              {n \in DOMAIN nodes : /\ nodes[n].alive
                  /\ \E v \in LookedAt(n, name) : Compares(v, op, literal)}
<1> DEFINE expr == FieldCmp(name, op, literal)
<1>1. /\ expr.kind = "FieldCmp" /\ expr.name = name
      /\ expr.op = op /\ expr.literal = literal
  BY DEF FieldCmp
<1>2. execute_leaf(expr).nodes = {n \in DOMAIN nodes : nodes[n].alive /\ eval_leaf(expr, n)}
  BY DEF execute_leaf, QueryResult
<1> HIDE DEF expr
<1>3. \A n : eval_leaf(expr, n) <=>
          \E f \in FieldNamed(nodes[n].kind, name) : \E v \in nodes[n].fields[f] :
              Compares(v, op, literal)
  BY <1>1 DEF eval_leaf
<1>4. \A n : eval_leaf(expr, n) <=> \E v \in LookedAt(n, name) : Compares(v, op, literal)
  BY <1>3 DEF LookedAt
<1> QED
  BY <1>2, <1>4 DEF expr

\* Comparisons with one field and literal, over the whole table.
LEMMA TablePartition ==
    ASSUME Typed, NEW name, NEW literal \in Literals
    PROVE  LET found(op) == execute_leaf(FieldCmp(name, op, literal)).nodes
               comparable == {n \in DOMAIN nodes : /\ nodes[n].alive
                                 /\ \E v \in LookedAt(n, name) :
                                       v.type \in TypesFor(literal)}
           IN  /\ \A pair \in {<< "EQ", "NEQ" >>, << "LT", "GE" >>, << "LE", "GT" >>} :
                     /\ found(pair[1]) \cup found(pair[2]) = comparable
                     /\ found(pair[1]) \cap found(pair[2]) = {}
               /\ found("LE") = found("LT") \cup found("EQ")
<1> DEFINE found(op) == execute_leaf(FieldCmp(name, op, literal)).nodes
           comparable == {n \in DOMAIN nodes : /\ nodes[n].alive
                             /\ \E v \in LookedAt(n, name) : v.type \in TypesFor(literal)}
           passes(n, op) == \E v \in LookedAt(n, name) : Compares(v, op, literal)
           hasOne(n) == \E v \in LookedAt(n, name) : v.type \in TypesFor(literal)
<1>1. \A op : found(op) = {n \in DOMAIN nodes : nodes[n].alive /\ passes(n, op)}
  BY FoundByComparison
<1>2. ASSUME NEW n \in DOMAIN nodes
      PROVE  /\ passes(n, "EQ") <=> hasOne(n) /\ ~ passes(n, "NEQ")
             /\ passes(n, "LT") <=> hasOne(n) /\ ~ passes(n, "GE")
             /\ passes(n, "LE") <=> hasOne(n) /\ ~ passes(n, "GT")
             /\ \A op : passes(n, op) => hasOne(n)
             /\ passes(n, "LE") <=> passes(n, "LT") \/ passes(n, "EQ")
  <2>1. CASE LookedAt(n, name) = {}
    BY <2>1
  <2>2. ASSUME NEW v \in LookedAt(n, name) PROVE <1>2!2
    <3>1. v \in Value /\ LookedAt(n, name) = {v}
      BY OneLookedAt
    <3>2. hasOne(n) <=> v.type \in TypesFor(literal)
      BY <3>1
    <3>3. \A op : passes(n, op) <=> Compares(v, op, literal)
      BY <3>1
    <3> HIDE DEF hasOne, passes
    <3> QED
      BY <3>1, <3>2, <3>3, ComparisonsOfValue
  <2> QED
    BY <2>1, <2>2
<1> HIDE DEF found, passes, hasOne
<1>3. \A n : n \in comparable <=> n \in DOMAIN nodes /\ nodes[n].alive /\ hasOne(n)
  BY DEF hasOne
<1>4. \A op : \A n : n \in found(op) <=> n \in DOMAIN nodes /\ nodes[n].alive /\ passes(n, op)
  BY <1>1
<1> HIDE DEF comparable
<1>5. ASSUME NEW x, NEW y,
             \A n \in DOMAIN nodes : passes(n, x) <=> hasOne(n) /\ ~ passes(n, y)
      PROVE  found(x) \cup found(y) = comparable /\ found(x) \cap found(y) = {}
  BY <1>2, <1>3, <1>4, <1>5
<1>6. found("EQ") \cup found("NEQ") = comparable /\ found("EQ") \cap found("NEQ") = {}
  BY <1>2, <1>5, SMTT(60)
<1>7. found("LT") \cup found("GE") = comparable /\ found("LT") \cap found("GE") = {}
  BY <1>2, <1>5
<1>8. found("LE") \cup found("GT") = comparable /\ found("LE") \cap found("GT") = {}
  BY <1>2, <1>5
<1>9. found("LE") = found("LT") \cup found("EQ")
  BY <1>2, <1>4
<1> QED
  BY <1>6, <1>7, <1>8, <1>9 DEF found, comparable

\* What the table has to compare, as the property says it.
LEMMA Comparable ==
    ASSUME NEW name, NEW literal
    PROVE  {n \in DOMAIN nodes : /\ nodes[n].alive
               /\ \E f \in FieldNamed(nodes[n].kind, name) :
                     \E v \in nodes[n].fields[f] :
                         v.type \in IF "text" \in DOMAIN literal THEN {"Atom"}
                                    ELSE {"Int", "Ref", "Atom"}}
           = {n \in DOMAIN nodes : /\ nodes[n].alive
                 /\ \E v \in LookedAt(n, name) : v.type \in TypesFor(literal)}
BY DEF LookedAt, TypesFor

\* A comparison and its opposite divide the nodes that have something to compare,
\* whatever the schema, the pool and the calls before: FieldCmp of eval_node and
\* apply_cmp (query_eval.cpp:93-148).
THEOREM ComparisonsDivide == Spec => []ComparisonsPartition
<1>1. Init => IInv
  BY InitHolds
<1>2. IInv /\ [Next]_vars => IInv'
  BY StepKeeps
<1>3. IInv => ComparisonsPartition
  <2> SUFFICES ASSUME Typed, NEW name \in Range(Pool), NEW literal \in Literals
               PROVE  ComparisonsPartition!2!(name, literal)
    BY DEF IInv, ComparisonsPartition, Literals
  <2> QED
    BY TablePartition, Comparable
<1> QED
  BY <1>1, <1>2, <1>3, PTL DEF Spec

-----------------------------------------------------------------------------
(* The index and the query *)

\* A field has values of the type that the node's kind declares for it, and a
\* placeholder has no kind.
Conform ==
    \A n \in DOMAIN nodes :
        /\ nodes[n].placeholder => nodes[n].kind = NoKind
        /\ \A f \in Fields : \A v \in nodes[n].fields[f] : Declares(n, f, v.type)

\* What is left to show of a table with the old nodes' kinds and flags.
Shaped(n) ==
    /\ nodes'[n].placeholder => nodes'[n].kind = NoKind
    /\ \A f \in Fields : \A v \in nodes'[n].fields[f] : Declares(n, f, v.type)'

LEMMA NewNodeConforms ==
    ASSUME Typed, Conform, NEW kind \in Kinds, NEW name \in Names \cup {NoAtom},
           NEW_NODE(kind, name)
    PROVE  Conform'
<1>1. NewNode(kind, name, FALSE) \in Node
  BY NewNodeTyped
<1>2. /\ DOMAIN nodes' = DOMAIN nodes \cup {Len(nodes) + 1}
      /\ \A n \in DOMAIN nodes : nodes'[n] = nodes[n]
      /\ nodes'[Len(nodes) + 1] = NewNode(kind, name, FALSE)
  BY <1>1, TableAppend, ZenonT(60) DEF NEW_NODE, Typed
<1> QED
  BY <1>2 DEF Conform, Declares, NewNode

LEMMA AddChildConforms ==
    ASSUME Typed, Conform, NEW owner \in DOMAIN nodes, NEW name \in Names \cup {NoAtom},
           ADD_CHILD(owner, name)
    PROVE  Conform'
<1> DEFINE found == StandsFor(name) # {}
           table == IF found THEN nodes ELSE Append(nodes, NewNode(NoKind, name, TRUE))
           child == IF found THEN CHOOSE n \in StandsFor(name) : TRUE ELSE Len(table)
<1>1. /\ DOMAIN nodes \subseteq DOMAIN table
      /\ \A n \in DOMAIN nodes : table[n] = nodes[n]
      /\ \A n \in DOMAIN table \ DOMAIN nodes : table[n] = NewNode(NoKind, name, TRUE)
  <2>1. NewNode(NoKind, name, TRUE) \in Node
    BY NewNodeTyped
  <2>2. CASE found
    BY <2>2
  <2>3. CASE ~ found
    <3>1. table = Append(nodes, NewNode(NoKind, name, TRUE))
      BY <2>3
    <3>2. nodes \in Seq(Node)
      BY DEF Typed
    <3>3. /\ DOMAIN table = DOMAIN nodes \cup {Len(nodes) + 1}
          /\ \A n \in DOMAIN nodes : table[n] = nodes[n]
          /\ table[Len(nodes) + 1] = NewNode(NoKind, name, TRUE)
      BY <2>1, <3>1, <3>2, TableAppend, ZenonT(60)
    <3> HIDE DEF table
    <3> QED
      BY <3>3
  <2> QED
    BY <2>2, <2>3
<1>2. nodes' = [table EXCEPT ![owner].children = @ \cup {child},
                             ![child].refs = @ \cup {owner}]
  BY DEF ADD_CHILD
<1>3. \A n \in DOMAIN nodes : nodes[n] \in Node
  BY DEF Typed
<1> HIDE DEF table, child, found
<1>4. /\ DOMAIN nodes' = DOMAIN table
      /\ \A n \in DOMAIN table : /\ nodes'[n].kind = table[n].kind
                                 /\ nodes'[n].placeholder = table[n].placeholder
                                 /\ nodes'[n].fields = table[n].fields
  BY <1>1, <1>2, <1>3, SMTT(60) DEF Node, NewNode
<1> QED
  BY <1>1, <1>4 DEF Conform, Declares, NewNode

\* A field gets a value of its type.
LEMMA WriteConforms ==
    ASSUME Typed, Conform, NEW n \in DOMAIN nodes, NEW f \in Fields, NEW v, NEW more,
           Declares(n, f, v.type),
           nodes' = [nodes EXCEPT ![n].fields[f] = {v}, ![n].refs = @ \cup more]
    PROVE  Conform'
<1>1. \A m \in DOMAIN nodes : nodes[m] \in Node
  BY DEF Typed
<1>2. /\ DOMAIN nodes' = DOMAIN nodes
      /\ \A m \in DOMAIN nodes :
            /\ nodes'[m].kind = nodes[m].kind
            /\ nodes'[m].placeholder = nodes[m].placeholder
            /\ \A g \in Fields : nodes'[m].fields[g] =
                  IF m = n /\ g = f THEN {v} ELSE nodes[m].fields[g]
  BY <1>1 DEF Node
<1> QED
  BY <1>2 DEF Conform, Declares

LEMMA DropNodeConforms ==
    ASSUME Typed, Conform, NEW n \in DOMAIN nodes, DROP_NODE(n)
    PROVE  Conform'
<1>1. \A m \in DOMAIN nodes : nodes[m] \in Node
  BY DEF Typed
<1>2. /\ DOMAIN nodes' = DOMAIN nodes
      /\ \A m \in DOMAIN nodes : /\ nodes'[m].kind = nodes[m].kind
                                 /\ nodes'[m].placeholder = nodes[m].placeholder
                                 /\ nodes'[m].fields = nodes[m].fields
  BY <1>1 DEF Node, DROP_NODE
<1> QED
  BY <1>2 DEF Conform, Declares

\* Every call keeps the table to its schema.
LEMMA StepConforms == Typed /\ Conform /\ [Next]_vars => Conform'
<1> SUFFICES ASSUME Typed, Conform, [Next]_vars PROVE Conform'
  OBVIOUS
<1>1. CASE UNCHANGED nodes
  BY <1>1 DEF Conform, Declares
<1>2. CASE Machine
  <2>1. ASSUME NEW n \in DOMAIN nodes, NEW f \in Fields, NEW v \in Values, SET_FIELD(n, f, v)
        PROVE  Conform'
    BY <2>1, WriteConforms DEF SET_FIELD
  <2>2. ASSUME NEW n \in DOMAIN nodes, NEW f \in Fields, NEW name \in Names,
               LINK_REF(n, f, name)
        PROVE  Conform'
    <3>1. PICK target \in StandsFor(name) :
              nodes' = [nodes EXCEPT ![n].fields[f] = {MakeValue("Ref", target)},
                                     ![n].refs = @ \cup {target}]
      BY <2>2 DEF LINK_REF
    <3>2. Declares(n, f, MakeValue("Ref", target).type)
      BY <2>2 DEF LINK_REF, MakeValue
    <3> QED
      BY <3>1, <3>2, WriteConforms
  <2> QED
    BY <1>2, <2>1, <2>2, NewNodeConforms, AddChildConforms, DropNodeConforms DEF Machine
<1> QED
  BY <1>1, <1>2 DEF Next, build, vars

\* What a leaf other than a comparison finds.
LEMMA FoundByLeaf ==
    ASSUME NEW name
    PROVE  /\ execute_leaf(Leaf("KindMatch", name)).nodes =
                 {n \in DOMAIN nodes : /\ nodes[n].alive /\ nodes[n].kind # NoKind
                                       /\ find(name) # NotFound
                                       /\ KindName[nodes[n].kind] = find(name)}
           /\ execute_leaf(Leaf("HasChild", name)).nodes =
                 {n \in DOMAIN nodes : nodes[n].alive /\ LinksTo(nodes[n].children, name)}
<1>1. \A kind : Leaf(kind, name).kind = kind /\ Leaf(kind, name).name = name
  BY DEF Leaf
<1>2. \A expr : execute_leaf(expr).nodes =
                   {n \in DOMAIN nodes : nodes[n].alive /\ eval_leaf(expr, n)}
  BY DEF execute_leaf, QueryResult
<1>3. \A n : eval_leaf(Leaf("KindMatch", name), n) <=>
                /\ nodes[n].kind # NoKind /\ find(name) # NotFound
                /\ KindName[nodes[n].kind] = find(name)
  BY <1>1 DEF eval_leaf
<1>4. \A n : eval_leaf(Leaf("HasChild", name), n) <=> LinksTo(nodes[n].children, name)
  BY <1>1, ZenonT(60) DEF eval_leaf, LinksTo
<1> QED
  BY <1>2, <1>3, <1>4

\* The nodes with a wanted value in a field, as a lookup of a fresh index finds
\* them and as the query that asks for the kind and the value does.
LEMMA LookupFindsHolding ==
    ASSUME IInv, Fresh, NEW k, NEW f \in Fields, NEW w
    PROVE  NodesOf({e \in Hits(k, f) : e.value = w}) =
              {n \in Visited : nodes[n].kind = k /\ w \in nodes[n].fields[f]}
<1>1. Listed(k, f, {w}) = Holding(k, f, {w})
  <2>1. Settled(Listed(k, f, {w})) = Settled(Holding(k, f, {w}))
    BY HitsOfSettled, ZenonT(60)
  <2>2. \A S : Settled(S) = S
    BY DEF Settled, Fresh
  <2> QED
    BY <2>1, <2>2
<1>2. {e \in Hits(k, f) : e.value = w} = {e \in Hits(k, f) : e.value \in {w}}
  OBVIOUS
<1>3. \A n : nodes[n].fields[f] \cap {w} # {} <=> w \in nodes[n].fields[f]
  OBVIOUS
<1> QED
  BY <1>1, <1>2, <1>3 DEF Listed, Holding

LEMMA AskedFinds ==
    ASSUME Typed, Conform, NEW k \in NamedKinds, NEW f \in NamedFields(k), NEW literal
    PROVE  AskedFor(k, f, literal) =
              {n \in Visited : /\ nodes[n].kind = k
                  /\ \E v \in nodes[n].fields[f] : /\ v.type = FieldType[k][f]
                                                   /\ Compares(v, "EQ", literal)}
<1> DEFINE kindText == Pool[KindName[k]]
           fieldText == Pool[FieldName[k][f]]
           holds(n) == \E v \in nodes[n].fields[f] : /\ v.type = FieldType[k][f]
                                                     /\ Compares(v, "EQ", literal)
<1>1. /\ k \in Kinds /\ find(kindText) = KindName[k] /\ KindName[k] # NotFound
      /\ \A j \in Kinds : KindName[j] = KindName[k] => j = k
  BY EvalAssumption DEF NamedKinds, NotFound
<1>2. f \in Fields /\ FieldNamed(k, fieldText) = {f}
  BY DEF NamedFields
<1>3. ASSUME NEW n \in DOMAIN nodes
      PROVE  n \in AskedFor(k, f, literal) <=> n \in Visited /\ nodes[n].kind = k /\ holds(n)
  <2>1. nodes[n] \in Node
    BY DEF Typed
  <2>2. n \in execute_leaf(Leaf("KindMatch", kindText)).nodes
        <=> nodes[n].alive /\ nodes[n].kind = k
    <3>1. n \in execute_leaf(Leaf("KindMatch", kindText)).nodes
          <=> /\ nodes[n].alive /\ nodes[n].kind # NoKind
              /\ KindName[nodes[n].kind] = KindName[k]
      BY <1>1, FoundByLeaf
    <3> QED
      BY <1>1, <2>1, <3>1, IndexAssumption DEF Node
  <2>3. n \in execute_leaf(FieldCmp(fieldText, "EQ", literal)).nodes
        <=> nodes[n].alive /\ \E v \in LookedAt(n, fieldText) : Compares(v, "EQ", literal)
    BY FoundByComparison
  <2>4. ASSUME nodes[n].kind = k
        PROVE  /\ LookedAt(n, fieldText) = nodes[n].fields[f]
               /\ ~ nodes[n].placeholder
               /\ \A v \in nodes[n].fields[f] : v.type = FieldType[k][f]
    BY <1>1, <1>2, <2>4, IndexAssumption DEF Conform, LookedAt, Declares
  <2>5. n \in Visited <=> nodes[n].alive /\ ~ nodes[n].placeholder
    BY DEF Visited, Indexed
  <2>6. n \in AskedFor(k, f, literal)
        <=> /\ n \in execute_leaf(Leaf("KindMatch", kindText)).nodes
            /\ n \in execute_leaf(FieldCmp(fieldText, "EQ", literal)).nodes
    BY DEF AskedFor
  <2> QED
    BY <2>2, <2>3, <2>4, <2>5, <2>6
<1>4. AskedFor(k, f, literal) \subseteq DOMAIN nodes
  BY FoundByLeaf DEF AskedFor
<1> QED
  BY <1>3, <1>4 DEF Visited

\* A value of the table is its type and what it holds.
LEMMA ValueShape ==
    ASSUME NEW v \in Value, NEW type, NEW data
    PROVE  v = MakeValue(type, data) <=> v.type = type /\ v.data = data
<1>1. \E t, d : v = MakeValue(t, d)
  <2>1. CASE v \in Values
    <3>1. PICK t \in ValueTypes : \E d \in Data[t] : v = MakeValue(t, d)
      BY <2>1 DEF Values
    <3> QED
      BY <3>1
  <2>2. CASE v \in {MakeValue("Ref", m) : m \in Nat}
    BY <2>2
  <2> QED
    BY <2>1, <2>2 DEF Value
<1> QED
  BY <1>1 DEF MakeValue

\* A lookup of a fresh index and the query for the same value agree, if the query's
\* literal is equal to that value only among those of the field's type.
LEMMA AskedIsLookedUp ==
    ASSUME IInv, Conform, Fresh, NEW k \in NamedKinds, NEW f \in NamedFields(k),
           NEW literal, NEW data,
           \A v \in Value : v.type = FieldType[k][f] =>
               (Compares(v, "EQ", literal) <=> v.data = data)
    PROVE  NodesOf({e \in Hits(k, f) : e.value = MakeValue(FieldType[k][f], data)})
           = AskedFor(k, f, literal)
<1> DEFINE w == MakeValue(FieldType[k][f], data)
<1>1. f \in Fields /\ Typed
  BY DEF NamedFields, IInv
<1>2. NodesOf({e \in Hits(k, f) : e.value = w}) =
         {n \in Visited : nodes[n].kind = k /\ w \in nodes[n].fields[f]}
  BY <1>1, LookupFindsHolding, SMTT(60)
<1>3. ASSUME NEW n \in Visited
      PROVE  w \in nodes[n].fields[f]
             <=> \E v \in nodes[n].fields[f] : /\ v.type = FieldType[k][f]
                                               /\ Compares(v, "EQ", literal)
  <2>1. nodes[n] \in Node
    BY <1>1 DEF Typed, Visited
  <2>2. nodes[n].fields[f] \subseteq Value
    BY <1>1, <2>1 DEF Node
  <2>3. \A v \in Value : v = w <=> v.type = FieldType[k][f] /\ v.data = data
    BY ValueShape
  <2> QED
    BY <2>2, <2>3
<1>4. AskedFor(k, f, literal) =
         {n \in Visited : /\ nodes[n].kind = k
             /\ \E v \in nodes[n].fields[f] : /\ v.type = FieldType[k][f]
                                              /\ Compares(v, "EQ", literal)}
  BY <1>1, AskedFinds
<1> QED
  BY <1>2, <1>3, <1>4

LEMMA FieldsAgree == IInv /\ Conform => FieldsAnswered
<1> SUFFICES ASSUME IInv, Conform, Fresh, NEW k \in NamedKinds, NEW f \in NamedFields(k)
             PROVE  FieldsAnswered!2!(k)!(f)
  BY DEF FieldsAnswered
<1>1. ASSUME FieldType[k][f] = "Int", NEW i \in Data["Int"]
      PROVE  lookup_int(k, f, i) = AskedFor(k, f, [int |-> i])
  <2>1. ASSUME NEW v, v.type = "Int"
        PROVE  Compares(v, "EQ", [int |-> i]) <=> v.data = i
    BY <2>1 DEF Compares, apply_cmp
  <2> QED
    BY <1>1, <2>1, AskedIsLookedUp DEF lookup_int
<1>2. ASSUME FieldType[k][f] = "Atom", NEW a \in DOMAIN Pool
      PROVE  lookup_atom(k, f, find(Pool[a])) = AskedFor(k, f, [text |-> Pool[a]])
  <2>1. find(Pool[a]) # NotFound
    BY FindInPool DEF Range
  <2>2. ASSUME NEW v, v.type = "Atom"
        PROVE  Compares(v, "EQ", [text |-> Pool[a]]) <=> v.data = find(Pool[a])
    BY <2>1, <2>2 DEF Compares, apply_cmp
  <2> QED
    BY <1>2, <2>2, AskedIsLookedUp DEF lookup_atom
<1> QED
  BY <1>1, <1>2

LEMMA ChildrenAgree == IInv => ChildrenAnswered
<1> SUFFICES ASSUME IInv, Fresh, NEW a \in Names PROVE ChildrenAnswered!2!(a)
  BY DEF ChildrenAnswered
<1> DEFINE id == find(Pool[a])
           waiting == {m \in DOMAIN nodes :
                          nodes[m].alive /\ nodes[m].placeholder /\ nodes[m].name = id}
<1>1. id \in DOMAIN Pool /\ id # NotFound /\ id # NoAtom
  BY FindInPool, EvalAssumption DEF Range
<1> HIDE DEF id
<1>2. ASSUME NEW m \in DOMAIN nodes, nodes[m].name = id PROVE id \in Names
  <2>1. nodes[m] \in Node
    BY DEF IInv, Typed
  <2> QED
    BY <1>1, <1>2, <2>1 DEF Node
<1>3. lookup_by_name(id) = {n \in Visited : nodes[n].name = id}
  <2>1. CASE id \in Names
    <3>1. Settled(lookup_by_name(id)) = Settled({n \in Visited : nodes[n].name = id})
      BY <2>1, NamesOfSettled
    <3>2. \A S : Settled(S) = S
      BY DEF Settled, Fresh
    <3> QED
      BY <3>1, <3>2
  <2>2. ASSUME id \notin Names, NEW p \in index.names, p[1] = id PROVE FALSE
    <3>1. p[2] \in DOMAIN nodes /\ p[2] \notin changed
      BY DEF IInv, Mirror, Fresh
    <3>2. p \in NamesFor(p[2]) /\ Mirrored(p[2])
      BY <3>1 DEF IInv, Mirror, NamesFor
    <3>3. p \in NamesOf(p[2])
      BY <3>2 DEF Mirrored
    <3> QED
      BY <2>2, <3>3 DEF NamesOf
  <2> QED
    BY <1>2, <2>1, <2>2 DEF lookup_by_name, Visited
<1>4. ASSUME NEW m \in DOMAIN nodes
      PROVE  m \in lookup_by_name(id) \cup waiting <=> nodes[m].alive /\ nodes[m].name = id
  BY <1>3 DEF Visited, Indexed
<1>5. lookup_by_name(id) \cup waiting \subseteq DOMAIN nodes
  BY <1>3 DEF Visited
<1>6. \A ids : LinksTo(ids, Pool[a]) <=> ids \cap (lookup_by_name(id) \cup waiting) # {}
  BY <1>1, <1>4, <1>5 DEF LinksTo, id
<1> QED
  BY <1>6, FoundByLeaf DEF id

\* An index that is not stale answers as the scan does that asks for kind, field
\* and value, and has_child finds what lookup_by_name knows and the placeholders,
\* whatever the schema, the pool and the calls before: field_index.cpp:33-76
\* against query_eval.cpp:79-172.
THEOREM IndexAnswersScan == Spec => [](FieldsAnswered /\ ChildrenAnswered)
<1>1. Init => IInv /\ Conform
  BY InitHolds DEF Init, Conform
<1>2. IInv /\ Conform /\ [Next]_vars => (IInv /\ Conform)'
  BY StepKeeps, StepConforms DEF IInv
<1>3. IInv /\ Conform => FieldsAnswered /\ ChildrenAnswered
  BY FieldsAgree, ChildrenAgree
<1> QED
  BY <1>1, <1>2, <1>3, PTL DEF Spec
=============================================================================
