----------------------------- MODULE DiffProofs -----------------------------
(***************************************************************************)
(* Theorems about the patch that diff_to_journal makes, for every pool,    *)
(* schema, limit and pair of graphs.                                       *)
(*                                                                         *)
(* The machine keeps its types whether its operations come from a journal  *)
(* that is being written or from a patch, a patch holds only whole groups, *)
(* and a machine that runs one is always at a place where that shows.      *)
(*                                                                         *)
(* What a patch creates, names and drops is what the two graphs differ in, *)
(* its drops come last, and a machine that runs one has followed it as far *)
(* as its operations go (Following): at the end the names of the second    *)
(* graph are alive.                                                        *)
(*                                                                         *)
(* Each reader of the serialised form gets what its writer wrote, where    *)
(* the fields of the graphs have the shape of their types (ShapesInv), and *)
(* stops where the writer stopped: a diff is read back as it was written.  *)
(***************************************************************************)
EXTENDS GraphDiff, ReplayVMProofs, SetInduction

-----------------------------------------------------------------------------
(* The machine's steps, wherever its operations come from *)

StoredValues == {v \in SUBSET Nat : IsFiniteSet(v)}

ValuesStored(t) ==
    \A n \in DOMAIN t : \A f \in Fields : t[n].fields[f] \subseteq StoredValues

OpCases ==
    \/ UNCHANGED vars
    \/ Rejection
    \/ \E kind, name : NewNode(kind, name)
    \/ \E n : DropNode(n)
    \/ \E n : \E f \in Fields, v \in StoredValues : SetField(n, f, v)
    \/ \E n \in NodeOperands, f \in Fields : \E name : LinkRef(n, f, name)
    \/ \E name : \E hint \in Nat : BeginGroup(name, hint)
    \/ \E name : AddChild(name)
    \/ EndGroup \/ ResolveChild \/ CloseGroup
    \/ \E label : Snapshot(label)
    \/ \E key, value : SetMeta(key, value)
    \/ Nop

LEMMA StepIsAnOp == TypeOK /\ [Next]_vars => OpCases
<1> SUFFICES ASSUME TypeOK, StepCases PROVE OpCases
    BY StepIsACase
<1>1. SUBSET NodeOperands \subseteq StoredValues
    <2>1. ASSUME NEW v \in SUBSET NodeOperands PROVE v \in StoredValues
        BY NodesFinite, FS_Subset DEF StoredValues
    <2> QED
        BY <2>1
<1>2. 0 .. MaxHint \subseteq Nat
    BY LimitAssumption
<1> QED
    BY <1>1, <1>2, Zenon DEF StepCases, OpCases

\* A record of a journal under construction is an operation of the machine.
LEMMA RecordsAreOps ==
    ASSUME NEW rec \in Records, Execute(rec)
    PROVE  [Next]_vars
<1>1. CASE rec \in NodeRecords
    <2>1. rec.op = "NEW_NODE" /\ rec.kind \in KindOperands /\ rec.name \in AtomOperands
        BY <1>1 DEF NodeRecords, KindOperands, AtomOperands, Names
    <2>2. NewNode(rec.kind, rec.name) \/ RejectNewNode(rec.kind, rec.name)
        BY <2>1 DEF Execute
    <2> QED
        BY <2>1, <2>2, Zenon DEF Next, Run, NodeOp
<1>2. CASE rec \in FieldRecords
    <2>1. /\ rec.op = "SET_FIELD" /\ rec.node \in NodeOperands /\ rec.field \in Fields
          /\ rec.value \in SUBSET NodeOperands
        BY <1>2 DEF FieldRecords
    <2>2. SetField(rec.node, rec.field, rec.value) \/ RejectSetField(rec.node, rec.field)
        BY <2>1 DEF Execute
    <2> QED
        BY <2>1, <2>2, Zenon DEF Next, Run, FieldOp
<1>3. CASE rec \in LinkRecords
    <2>1. /\ rec.op = "LINK_REF" /\ rec.node \in NodeOperands /\ rec.field \in Fields
          /\ rec.name \in AtomOperands
        BY <1>3 DEF LinkRecords, AtomOperands, Names
    <2>2. LinkRef(rec.node, rec.field, rec.name) \/ RejectLinkRef(rec.node, rec.field)
        BY <2>1 DEF Execute
    <2> QED
        BY <2>1, <2>2, Zenon DEF Next, Run, FieldOp
<1>4. CASE rec \in DropRecords
    <2>1. rec.op = "DROP_NODE" /\ rec.node \in NodeOperands
        BY <1>4 DEF DropRecords
    <2>2. DropNode(rec.node) \/ RejectDropNode(rec.node)
        BY <2>1 DEF Execute
    <2> QED
        BY <2>1, <2>2, Zenon DEF Next, Run, NodeOp
<1>5. CASE rec \in [op : {"BEGIN_GROUP"}, name : Atoms, hint : 0..MaxHint]
    <2>1. rec.op = "BEGIN_GROUP" /\ rec.name \in AtomOperands /\ rec.hint \in 0..MaxHint
        BY <1>5 DEF AtomOperands
    <2>2. BeginGroup(rec.name, rec.hint) \/ RejectBeginGroup(rec.name)
        BY <2>1 DEF Execute
    <2> QED
        BY <2>1, <2>2, Zenon DEF Next, Run, GroupOp
<1>6. CASE rec \in [op : {"ADD_CHILD"}, name : Names]
    <2>1. rec.op = "ADD_CHILD" /\ rec.name \in AtomOperands
        BY <1>6 DEF AtomOperands, Names
    <2>2. AddChild(rec.name) \/ RejectAddChild(rec.name)
        BY <2>1 DEF Execute
    <2> QED
        BY <2>1, <2>2, Zenon DEF Next, Run, GroupOp
<1>7. CASE rec = [op |-> "END_GROUP"]
    <2>1. rec.op = "END_GROUP"
        BY <1>7
    <2>2. EndGroup \/ RejectEndGroup
        BY <2>1 DEF Execute
    <2> QED
        BY <2>2 DEF Next, Run, GroupOp
<1>8. CASE rec \in [op : {"SNAPSHOT"}, name : Names]
    <2>1. rec.op = "SNAPSHOT" /\ rec.name \in AtomOperands
        BY <1>8 DEF AtomOperands, Names
    <2>2. Snapshot(rec.name) \/ RejectSnapshot(rec.name)
        BY <2>1 DEF Execute
    <2> QED
        BY <2>1, <2>2, Zenon DEF Next, Run, MarkerOp
<1>9. CASE rec \in [op : {"SET_META"}, key : Atoms, value : Names]
    <2>1. rec.op = "SET_META" /\ rec.key \in AtomOperands /\ rec.value \in AtomOperands
        BY <1>9 DEF AtomOperands, Names
    <2>2. SetMeta(rec.key, rec.value) \/ RejectSetMeta(rec.key, rec.value)
        BY <2>1 DEF Execute
    <2> QED
        BY <2>1, <2>2, Zenon DEF Next, Run, MarkerOp
<1>10. CASE rec = [op |-> "NOP"]
    <2>1. rec.op = "NOP"
        BY <1>10
    <2>2. Nop
        BY <2>1 DEF Execute
    <2> QED
        BY <2>2 DEF Next, Run, MarkerOp
<1> QED
    BY <1>1, <1>2, <1>3, <1>4, <1>5, <1>6, <1>7, <1>8, <1>9, <1>10, SMTT(60)
    DEF Records, GroupRecords, MarkerRecords

\* Where the journal is written, and where END_GROUP goes on, the machine steps.
LEMMA WritingIsAStep == Write \/ Resolve => [Next]_vars
<1>1. ASSUME Write PROVE [Next]_vars
    <2>1. PICK rec \in Records : Execute(rec)
        BY <1>1 DEF Write, Accepted
    <2> QED
        BY <2>1, RecordsAreOps
<1>2. Resolve => [Next]_vars
    BY DEF Resolve, Resolving, Next, Run, GroupOp
<1> QED
    BY <1>1, <1>2

LEMMA OpTyped == TypeOK /\ OpCases => TypeOK'
<1> SUFFICES ASSUME TypeOK, OpCases PROVE TypeOK'
    OBVIOUS
<1>1. CASE UNCHANGED vars
    BY <1>1 DEF vars, TypeOK, InRange
<1>2. CASE Rejection
    BY <1>2, EndTyped DEF Rejection
<1>3. ASSUME NEW kind, NEW name, NewNode(kind, name) PROVE TypeOK'
    BY <1>3, NewNodeTyped
<1>4. ASSUME NEW n, DropNode(n) PROVE TypeOK'
    BY <1>4, DropNodeTyped
<1>5. ASSUME NEW n, NEW f \in Fields, NEW v \in StoredValues, SetField(n, f, v)
      PROVE  TypeOK'
    BY <1>5, SetFieldTyped DEF StoredValues
<1>6. ASSUME NEW n \in NodeOperands, NEW f \in Fields, NEW name, LinkRef(n, f, name)
      PROVE  TypeOK'
    BY <1>6, LinkRefTyped
<1>7. ASSUME NEW name, NEW hint \in Nat, BeginGroup(name, hint) PROVE TypeOK'
    BY <1>7, BeginGroupTyped
<1>8. ASSUME NEW name, AddChild(name) PROVE TypeOK'
    BY <1>8, AddChildTyped
<1>9. EndGroup \/ ResolveChild \/ CloseGroup => TypeOK'
    BY EndGroupTyped, ResolveChildEffect, CloseGroupTyped
<1>10. ASSUME NEW label, Snapshot(label) PROVE TypeOK'
    BY <1>10, SnapshotTyped
<1>11. ASSUME NEW key, NEW value, SetMeta(key, value) PROVE TypeOK'
    BY <1>11, SetMetaTyped
<1>12. Nop => TypeOK'
    BY NopTyped
<1> QED
    BY <1>1, <1>2, <1>3, <1>4, <1>5, <1>6, <1>7, <1>8, <1>9, <1>10, <1>11, <1>12, SMTT(60)
    DEF OpCases

-----------------------------------------------------------------------------
(* What fields hold stays finite *)

LEMMA ValuesInit == Init => ValuesStored(nodes)
<1> SUFFICES ASSUME NEW heap \in HeapImages, nodes = heap PROVE ValuesStored(nodes)
    BY DEF Init, seed
<1>1. PICK k \in 0 .. MaxHeapNodes : heap \in [1 .. k -> HeapNodes]
    BY DEF HeapImages
<1>2. ASSUME NEW n \in DOMAIN heap, NEW f \in Fields, NEW v \in heap[n].fields[f]
      PROVE  v \in StoredValues
    <2>1. heap[n] \in HeapNodes
        BY <1>1
    <2>2. PICK kind \in Kinds : heap[n] \in HeapNodesOf(kind)
        BY <2>1 DEF HeapNodes
    <2>3. PICK nf \in Names \X HeapFields(kind) :
              heap[n] = NewNodeRecord(kind, nf[1], FALSE, nf[2])
        BY <2>2 DEF HeapNodesOf
    <2>4. heap[n].fields = nf[2] /\ nf[2] \in HeapFields(kind)
        BY <2>3 DEF NewNodeRecord
    <2>5. v \in ValuesOf(field_type(kind, f), 0 .. (MaxHeapNodes + 1))
        BY <1>2, <2>4, SMTT(60) DEF HeapFields
    <2>6. v \in SUBSET (0 .. (MaxHeapNodes + 1))
        BY <2>5 DEF ValuesOf
    <2>7. MaxHeapNodes \in Nat
        BY LimitAssumption
    <2>8. IsFiniteSet(0 .. (MaxHeapNodes + 1)) /\ 0 .. (MaxHeapNodes + 1) \subseteq Nat
        <3>1. 0 \in Int /\ MaxHeapNodes + 1 \in Int
            BY <2>7
        <3>2. IsFiniteSet(0 .. (MaxHeapNodes + 1))
            BY <3>1, FS_Interval
        <3> QED
            BY <2>7, <3>2
    <2> DEFINE ids == 0 .. (MaxHeapNodes + 1)
    <2>9. IsFiniteSet(ids) /\ ids \subseteq Nat /\ v \in SUBSET ids
        BY <2>6, <2>8
    <2> HIDE DEF ids
    <2>10. IsFiniteSet(v) /\ v \in SUBSET Nat
        BY <2>9, FS_Subset
    <2> QED
        BY <2>10 DEF StoredValues
<1> QED
    BY <1>2 DEF ValuesStored

\* Fields that are kept, empty or a node of their own with one value more.
LEMMA ValuesKept ==
    ASSUME NEW t, NEW u, ValuesStored(t), DOMAIN t \subseteq DOMAIN u,
           \A n \in DOMAIN t : u[n].fields = t[n].fields,
           \A n \in DOMAIN u \ DOMAIN t : u[n].fields = NoFields
    PROVE  ValuesStored(u)
<1>1. ASSUME NEW n \in DOMAIN u, NEW f \in Fields PROVE u[n].fields[f] \subseteq StoredValues
    <2>1. n \notin DOMAIN t => u[n].fields[f] = {}
        BY DEF NoFields
    <2> QED
        BY <2>1 DEF ValuesStored
<1> QED
    BY <1>1 DEF ValuesStored

LEMMA ValueAdded ==
    ASSUME NEW t \in Seq(NodeRecord), ValuesStored(t), NEW n \in DOMAIN t, NEW f \in Fields,
           NEW v \in StoredValues, NEW ts
    PROVE  ValuesStored([t EXCEPT ![n] = WithField(@, f, v, ts)])
<1> DEFINE u == [t EXCEPT ![n] = WithField(@, f, v, ts)]
<1>1. DOMAIN u = DOMAIN t /\ \A m \in DOMAIN t :
          u[m] = IF m = n THEN WithField(t[n], f, v, ts) ELSE t[m]
    OBVIOUS
<1>2. t[n] \in NodeRecord
    BY ElementOfSeq, LenProperties
<1>3. WithField(t[n], f, v, ts).fields = [t[n].fields EXCEPT ![f] = {v}]
    BY <1>2 DEF WithField, NodeRecord
<1>4. t[n].fields \in [Fields -> SUBSET SUBSET Nat]
    BY <1>2 DEF NodeRecord
<1> HIDE DEF u
<1>5. ASSUME NEW m \in DOMAIN u, NEW g \in Fields PROVE u[m].fields[g] \subseteq StoredValues
    <2>1. CASE m = n
        <3>1. u[m].fields[g] = IF g = f THEN {v} ELSE t[n].fields[g]
            BY <1>1, <1>3, <1>4, <2>1, ZenonT(60)
        <3> QED
            BY <3>1 DEF ValuesStored
    <2>2. CASE m # n
        BY <1>1, <1>5, <2>2 DEF ValuesStored
    <2> QED
        BY <2>1, <2>2
<1> QED
    BY <1>5 DEF ValuesStored, u

LEMMA ValuesOp == TypeOK /\ ValuesStored(nodes) /\ OpCases => ValuesStored(nodes)'
<1> SUFFICES ASSUME TypeOK, ValuesStored(nodes), OpCases PROVE ValuesStored(nodes')
    BY DEF ValuesStored
<1>0. nodes \in Seq(NodeRecord) /\ \A m \in DOMAIN nodes : nodes[m] \in NodeRecord
    BY NodesFinite DEF TypeOK
<1>1. CASE UNCHANGED nodes
    BY <1>1
<1>2. ASSUME NEW kind, NEW name, NewNode(kind, name) PROVE ValuesStored(nodes')
    <2> DEFINE fresh == NewNodeRecord(kind, name, FALSE, NoFields)
    <2>1. fresh \in NodeRecord /\ fresh.fields = NoFields
        BY <1>2, FreshNodeTyped DEF NewNode, KindOperands, NewNodeRecord
    <2>2. nodes' = Append(nodes, fresh)
        BY <1>2 DEF NewNode
    <2> HIDE DEF fresh
    <2>3. /\ DOMAIN nodes' = DOMAIN nodes \cup {Len(nodes) + 1}
          /\ \A m \in DOMAIN nodes : nodes'[m] = nodes[m]
          /\ nodes'[Len(nodes) + 1] = fresh
        BY <1>0, <2>1, <2>2, TableAppend
    <2> QED
        BY <2>1, <2>3, ValuesKept
<1>3. ASSUME NEW n, DropNode(n) PROVE ValuesStored(nodes')
    <2>1. CASE nodes' = [nodes EXCEPT ![n] = Dropped(@)] /\ n \in DOMAIN nodes
        <3>1. Dropped(nodes[n]).fields = nodes[n].fields
            BY <1>0, <2>1 DEF Dropped, NodeRecord
        <3>2. DOMAIN nodes' = DOMAIN nodes /\ \A m \in DOMAIN nodes :
                  nodes'[m] = IF m = n THEN Dropped(nodes[n]) ELSE nodes[m]
            BY <2>1
        <3> QED
            BY <3>1, <3>2, ValuesKept
    <2> QED
        BY <1>1, <1>3, <2>1 DEF DropNode, InRange
<1>4. ASSUME NEW n, NEW f \in Fields, NEW v \in StoredValues, SetField(n, f, v)
      PROVE  ValuesStored(nodes')
    BY <1>0, <1>4, ValueAdded DEF SetField, InRange
<1>5. ASSUME NEW n, NEW f \in Fields, NEW name, LinkRef(n, f, name)
      PROVE  ValuesStored(nodes')
    <2> DEFINE target == find_named(name)
    <2>1. target \in Nat
        BY NodesFinite, SMTT(60) DEF find_named, TypeOK, kInvalidNode
    <2>2. {target} \in StoredValues
        BY <2>1, FS_Singleton DEF StoredValues
    <2>3. CASE nodes' = [nodes EXCEPT ![n] = WithField(@, f, {target}, {target})]
        BY <1>0, <1>5, <2>2, <2>3, ValueAdded DEF LinkRef, InRange
    <2> QED
        BY <1>1, <1>5, <2>3 DEF LinkRef
<1>6. ASSUME ResolveChild PROVE ValuesStored(nodes')
    <2>1. CASE LinkedExisting
        BY <2>1, ValuesKept DEF LinkedExisting, SameButLinks
    <2>2. ASSUME NEW name \in Names, Materialised(name) PROVE ValuesStored(nodes')
        <3>1. NewNodeRecord(NoKind, name, TRUE, NoFields).fields = NoFields
            BY DEF NewNodeRecord
        <3> QED
            BY <2>2, <3>1, ValuesKept DEF Materialised, SameButLinks
    <2> QED
        BY <1>6, <2>1, <2>2, ResolveChildEffect
<1>7. \/ UNCHANGED vars \/ Rejection \/ EndGroup \/ CloseGroup \/ Nop
      \/ \E name : AddChild(name) \/ \E hint \in Nat : BeginGroup(name, hint)
      \/ \E label : Snapshot(label)
      \/ \E key, value : SetMeta(key, value)
      => UNCHANGED nodes
    BY DEF vars, Rejection, End, graph, EndGroup, CloseGroup, Nop, AddChild, BeginGroup,
           Snapshot, SetMeta
<1> QED
    BY <1>1, <1>2, <1>3, <1>4, <1>5, <1>6, <1>7 DEF OpCases

-----------------------------------------------------------------------------
(* The two graphs *)

\* What a machine is restarted from, and what is kept of the first graph.
HeapKept(h) ==
    /\ h.heap \in Seq(NodeRecord) /\ ValuesStored(h.heap) /\ Closed(h.heap)
    /\ h.names \in [Atoms -> 0 .. Len(h.heap)]

GraphKept(g) ==
    /\ g.nodes \in Seq(NodeRecord) /\ ValuesStored(g.nodes) /\ Closed(g.nodes)
    /\ g.name_index \in [Atoms -> 0 .. Len(g.nodes)]

MachineKept(g) ==
    /\ GraphKept(g)
    /\ g.capacity \in Nat /\ g.free_list \in Seq(Nat)
    /\ g.snapshots \in Seq([label : Names, node_count : Nat, alive_count : Nat])
    /\ g.meta \in [Atoms -> SUBSET Names]
    /\ g.stats \in ReplayStats

\* The machine and what is kept of it, whatever phase it is in.
GraphsTyped ==
    /\ TypeOK /\ ValuesStored(nodes)
    /\ phase \in {"before", "after"} => LinksClosed
    /\ phase = "before" => HeapKept(start)
    /\ phase = "after" => MachineKept(before)

LEMMA GraphsInit == DiffInit => GraphsTyped
<1> SUFFICES ASSUME DiffInit PROVE GraphsTyped
    OBVIOUS
<1>1. TypeOK /\ ValuesStored(nodes)
    BY InitTyped, ValuesInit DEF DiffInit
<1>2. start.heap = nodes /\ start.names = name_index /\ phase = "before"
    BY DEF DiffInit
<1>3. LinksClosed /\ Closed(nodes)
    BY LinksInit, LinksClosedMeansClosed DEF DiffInit, Init
<1> QED
    BY <1>1, <1>2, <1>3 DEF GraphsTyped, HeapKept, TypeOK

\* A machine that starts from a heap, or goes on from a graph, is typed.
LEMMA ReseedTyped ==
    ASSUME NEW h, HeapKept(h), Reseed(h.heap, h.names)
    PROVE  TypeOK' /\ ValuesStored(nodes') /\ Closed(nodes')
<1>1. /\ Len(h.heap) \in Nat /\ 0 \in Nat
      /\ << >> \in Seq(GroupFrame) /\ DOMAIN << >> = {} /\ << >> \in Seq(Nat)
      /\ << >> \in Seq([label : Names, node_count : Nat, alive_count : Nat])
    BY LenProperties, EmptySeq DEF HeapKept
<1>2. stats' \in ReplayStats /\ capacity' \in Nat
    BY <1>1 DEF Reseed, ReplayStats
<1>3. meta' \in [Atoms -> SUBSET Names]
    BY DEF Reseed
<1>4. status' \in Codes /\ undefined' \in BOOLEAN
    BY DEF Reseed, Codes
<1> QED
    BY <1>1, <1>2, <1>3, <1>4 DEF Reseed, TypeOK, HeapKept, InRange

LEMMA TakeBeforeTyped ==
    ASSUME GraphsTyped, TakeBefore
    PROVE  GraphsTyped'
<1>0. Closed(nodes)
    BY LinksClosedMeansClosed DEF TakeBefore, Complete, GraphsTyped
<1>1. MachineKept(before)'
    BY <1>0 DEF TakeBefore, GraphsTyped, TypeOK, MachineKept, GraphKept
<1>2. CASE UNCHANGED vars
    <2>1. LinksClosed'
        BY <1>2 DEF LinksClosed, GraphsTyped, TakeBefore, vars, InRange
    <2> QED
        BY <1>1, <1>2, <2>1 DEF GraphsTyped, TakeBefore, vars, TypeOK, InRange
<1>3. CASE Reseed(start.heap, start.names)
    <2>1. TypeOK' /\ ValuesStored(nodes') /\ Closed(nodes')
        BY <1>3, ReseedTyped DEF GraphsTyped, TakeBefore
    <2>2. LinksClosed'
        BY <2>1 DEF Closed, RefsInside, ChildrenRefer, LinksClosed, InRange
    <2> QED
        BY <1>1, <2>1, <2>2 DEF GraphsTyped, TakeBefore
<1> QED
    BY <1>2, <1>3 DEF TakeBefore

LEMMA TakeAfterTyped ==
    ASSUME GraphsTyped, TakeAfter
    PROVE  GraphsTyped' /\ stats'.ops_executed = 0
<1>1. MachineKept(before)
    BY DEF GraphsTyped, TakeAfter
<1>2. stats' \in ReplayStats /\ stats'.ops_executed = 0
    BY <1>1 DEF MachineKept, TakeAfter, ReplayStats
<1>3. frames = << >> /\ closing = << >> /\ frames' = frames /\ closing' = closing
    BY DEF TakeAfter, Complete, Running
<1>4. ValuesStored(nodes')
    BY <1>1 DEF TakeAfter, MachineKept, GraphKept
<1>5. TypeOK'
    BY <1>1, <1>2, <1>3, SMTT(60)
    DEF MachineKept, GraphKept, TakeAfter, GraphsTyped, TypeOK, InRange
<1> QED
    BY <1>2, <1>4, <1>5 DEF GraphsTyped, TakeAfter

-----------------------------------------------------------------------------
(* What the diff of two graphs holds *)

Stored == [type : ValueTypes, value : StoredValues]
FieldChanges == [field_idx : Fields, before : Stored, after : Stored]

\* The changes that node_changes gives, and the operations that ops_of makes.
Changes ==
    [ change : {"Added", "Removed", "Modified", "Unchanged"}, name : Names,
      kind : KindOperands, before_id : Nat, after_id : Nat,
      field_changes : Seq(FieldChanges),
      children_added : Seq(Atoms), children_removed : Seq(Names) ]

PatchOps ==
    [op : {"NEW_NODE"}, kind : KindOperands, name : Names]
    \cup [ op : {"SET_FIELD"}, node : Nat, field : Fields, value : StoredValues,
           type : ValueTypes ]
    \cup [op : {"DROP_NODE"}, node : Nat]
    \cup [op : {"BEGIN_GROUP"}, name : Names, hint : Nat]
    \cup [op : {"ADD_CHILD"}, name : Atoms]
    \cup {[op |-> "END_GROUP"]}

\* A graph as it is kept: a closed table whose fields hold finite values.
Tables == {t \in Seq(NodeRecord) : ValuesStored(t) /\ Closed(t)}

LEMMA TableNodes ==
    ASSUME NEW t \in Tables
    PROVE  /\ DOMAIN t = 1 .. Len(t) /\ Len(t) \in Nat /\ IsFiniteSet(DOMAIN t)
           /\ \A n \in DOMAIN t : t[n] \in NodeRecord
           /\ \A n \in DOMAIN t : t[n].fields \in [Fields -> SUBSET StoredValues]
           /\ \A n \in DOMAIN t : /\ t[n].children \in Seq(DOMAIN t)
                                  /\ IsFiniteSet(DOMAIN t[n].children)
<1>1. t \in Seq(NodeRecord) /\ DOMAIN t = 1 .. Len(t) /\ Len(t) \in Nat
    BY LenProperties DEF Tables
<1>2. IsFiniteSet(DOMAIN t)
    BY <1>1, FS_Interval
<1>3. \A n \in DOMAIN t : t[n] \in NodeRecord
    BY <1>1, ElementOfSeq
<1>4. \A n \in DOMAIN t : t[n].fields \in [Fields -> SUBSET SUBSET Nat]
    BY <1>3 DEF NodeRecord
<1>5. ASSUME NEW n \in DOMAIN t
      PROVE  /\ t[n].children \in Seq(DOMAIN t)
             /\ IsFiniteSet(DOMAIN t[n].children)
    <2>1. t[n].children \in Seq(Nat)
        BY <1>3 DEF NodeRecord
    <2>2. \A k \in DOMAIN t[n].children : t[n].children[k] \in DOMAIN t
        BY DEF Tables, Closed, ChildrenRefer
    <2>3. /\ DOMAIN t[n].children = 1 .. Len(t[n].children)
          /\ Len(t[n].children) \in Nat
        BY <2>1, LenProperties
    <2>4. t[n].children \in [1 .. Len(t[n].children) -> DOMAIN t]
        BY <2>1, <2>2, <2>3, SMTT(60)
    <2>5. IsFiniteSet(1 .. Len(t[n].children))
        BY <2>3, FS_Interval
    <2> QED
        BY <2>3, <2>4, <2>5
<1> QED
    BY <1>1, <1>2, <1>3, <1>4, <1>5 DEF Tables, ValuesStored

\* A set of names of a table is finite, and by_name finds what it looks for.
LEMMA NamedNode ==
    ASSUME NEW t \in Tables, NEW a \in LiveNames(t)
    PROVE  /\ by_name(t, a) \in NamedLive(t) /\ t[by_name(t, a)].name = a
           /\ \A m \in NamedLive(t) : t[m].name = a => by_name(t, a) <= m
<1> DEFINE S == {n \in NamedLive(t) : t[n].name = a}
<1>1. S # {} /\ S \in SUBSET Nat
    BY TableNodes DEF LiveNames, NamedLive
<1>2. PICK n \in S : \A m \in S : n <= m
    <2> HIDE DEF S
    <2> QED
        BY <1>1, LeastElement
<1> QED
    BY <1>2 DEF by_name

LEMMA NamesFinite ==
    ASSUME NEW t \in Tables
    PROVE  IsFiniteSet(LiveNames(t)) /\ LiveNames(t) \subseteq Atoms
<1>1. IsFiniteSet(NamedLive(t)) /\ LiveNames(t) \subseteq Atoms
    <2>1. NamedLive(t) \in SUBSET DOMAIN t
        BY DEF NamedLive
    <2> QED
        BY <2>1, TableNodes, FS_Subset DEF LiveNames, NamedLive
<1> DEFINE f == [n \in NamedLive(t) |-> t[n].name]
<1>2. f \in Surjection(NamedLive(t), LiveNames(t))
    BY DEF Surjection, LiveNames
<1> HIDE DEF f
<1> QED
    BY <1>1, <1>2, FS_Surjection

\* A set put in some order.
LEMMA OrderedSet ==
    ASSUME NEW S, IsFiniteSet(S), NEW s, s \in SetToSeqs(S)
    PROVE  s \in Seq(S) /\ Len(s) = Cardinality(S) /\ DOMAIN s = 1 .. Len(s)
           /\ Len(s) \in Nat
<1>1. Cardinality(S) \in Nat
    BY FS_CardinalityType
<1>2. s \in [1 .. Cardinality(S) -> S]
    BY DEF SetToSeqs
<1> QED
    BY <1>1, <1>2

\* What concatenation does not lead out of holds sequences joined if it holds each.
LEMMA FlattenInside ==
    ASSUME NEW G, << >> \in G, \A x, y \in G : x \o y \in G, NEW n \in Nat,
           NEW seqs, seqs \in [1 .. n -> G]
    PROVE  FlattenSeq(seqs) \in G
<1>1. Len(seqs) = n
    OBVIOUS
<1>2. CASE n = 0
    <2>1. FlattenSeq(seqs) = seqs /\ seqs = << >>
        BY <1>1, <1>2 DEF FlattenSeq
    <2> QED
        BY <2>1
<1>3. CASE n # 0
    <2>1. FlattenSeq(seqs) = Joined(seqs, n)
        BY <1>1, <1>3 DEF FlattenSeq, Joined
    <2> QED
        BY <1>3, <2>1, JoinedInside
<1> QED
    BY <1>2, <1>3

\* The values of a node's fields, and the changes between two nodes' fields.
LEMMA FieldValuesTyped ==
    ASSUME NEW t \in Tables, NEW n \in DOMAIN t
    PROVE  FieldValues(t[n]) \in [Fields -> Stored] /\ NoneSet \in [Fields -> Stored]
<1>1. Unset \in Stored
    BY FS_EmptySet DEF Unset, Stored, StoredValues, ValueTypes
<1>2. t[n] \in NodeRecord /\ t[n].fields \in [Fields -> SUBSET StoredValues]
    BY TableNodes
<1>3. ASSUME NEW f \in Fields PROVE field_type(t[n].kind, f) \in ValueTypes
    BY SchemaAssumption DEF field_type, ValueTypes
<1>4. ASSUME NEW f \in Fields, t[n].fields[f] # {}
      PROVE  (CHOOSE v \in t[n].fields[f] : TRUE) \in StoredValues
    BY <1>2, <1>4
<1> QED
    BY <1>1, <1>3, <1>4 DEF FieldValues, NoneSet, Stored

LEMMA FieldChangesTyped ==
    ASSUME NEW old \in [Fields -> Stored], NEW new \in [Fields -> Stored],
           NEW fcs, fcs \in field_changes(old, new)
    PROVE  fcs \in Seq(FieldChanges)
<1> DEFINE F == {f \in Fields : old[f] # new[f]}
           C == {FieldChange(f, old[f], new[f]) : f \in F}
           g == [f \in F |-> FieldChange(f, old[f], new[f])]
<1>1. IsFiniteSet(F)
    BY FieldsAssumption, FS_Subset
<1>2. g \in Surjection(F, C)
    BY DEF Surjection
<1>3. C \subseteq FieldChanges
    BY DEF FieldChange, FieldChanges
<1>4. fcs \in SetToSeqs(C)
    BY DEF field_changes
<1> HIDE DEF F, C, g
<1>5. IsFiniteSet(C)
    BY <1>1, <1>2, FS_Surjection
<1>6. fcs \in Seq(C)
    BY <1>4, <1>5, OrderedSet
<1> QED
    BY <1>3, <1>6

\* The names of a node's children, and those in one graph only, in some order.
LEMMA ChildNamesTyped ==
    ASSUME NEW t \in Tables, NEW n \in DOMAIN t
    PROVE  ChildNames(t, n) \subseteq Atoms /\ IsFiniteSet(ChildNames(t, n))
<1> DEFINE D == DOMAIN t[n].children
           S == {t[t[n].children[k]].name : k \in D}
           g == [k \in D |-> t[t[n].children[k]].name]
<1>1. \A k \in D : t[n].children[k] \in DOMAIN t
    BY TableNodes
<1>2. S \subseteq Names
    BY <1>1, TableNodes DEF NodeRecord
<1>3. g \in Surjection(D, S) /\ IsFiniteSet(D)
    BY TableNodes DEF Surjection
<1>4. ChildNames(t, n) \in SUBSET S /\ NoAtom \notin ChildNames(t, n)
    BY DEF ChildNames
<1> HIDE DEF D, S, g
<1> QED
    BY <1>2, <1>3, <1>4, FS_Surjection, FS_Subset DEF Names

LEMMA AddedTyped ==
    ASSUME NEW t \in Tables, NEW n \in DOMAIN t, NEW nc \in AddedNode(t, n)
    PROVE  nc \in Changes
<1> DEFINE children == t[n].children
           linked == [ k \in DOMAIN children |->
                         LET cn == t[children[k]].name
                         IN  IF cn = NoAtom THEN << >> ELSE << cn >> ]
<1>1. PICK fcs \in field_changes(NoneSet, FieldValues(t[n])) :
          nc = [ change |-> "Added", name |-> t[n].name, kind |-> t[n].kind,
                 before_id |-> kInvalidNode, after_id |-> n, field_changes |-> fcs,
                 children_added |-> FlattenSeq(linked), children_removed |-> << >> ]
    BY DEF AddedNode
<1>2. fcs \in Seq(FieldChanges)
    BY FieldValuesTyped, FieldChangesTyped
<1>3. children \in Seq(DOMAIN t) /\ t[n] \in NodeRecord /\ n \in Nat
    BY TableNodes
<1>4. linked \in [1 .. Len(children) -> Seq(Atoms)] /\ Len(children) \in Nat
    <2>1. DOMAIN children = 1 .. Len(children) /\ Len(children) \in Nat
        BY <1>3, LenProperties
    <2>2. ASSUME NEW k \in DOMAIN children PROVE linked[k] \in Seq(Atoms)
        <3>1. t[children[k]].name \in Names
            BY <1>3, TableNodes DEF NodeRecord
        <3> QED
            BY <3>1 DEF Names
    <2> QED
        BY <2>1, <2>2
<1>5. /\ << >> \in Seq(Names) /\ << >> \in Seq(Atoms)
      /\ \A x, y \in Seq(Atoms) : x \o y \in Seq(Atoms)
    OBVIOUS
<1> HIDE DEF linked, children
<1>6. FlattenSeq(linked) \in Seq(Atoms)
    BY <1>4, <1>5, FlattenInside
<1> QED
    BY <1>1, <1>2, <1>3, <1>5, <1>6 DEF Changes, NodeRecord, kInvalidNode

LEMMA KeptTyped ==
    ASSUME NEW t \in Tables, NEW m \in DOMAIN t, NEW u \in Tables, NEW n \in DOMAIN u,
           NEW nc \in KeptNode(t, m, u, n)
    PROVE  nc \in Changes
<1> DEFINE more == ChildNames(u, n) \ ChildNames(t, m)
           fewer == ChildNames(t, m) \ ChildNames(u, n)
<1>1. PICK fcs \in field_changes(FieldValues(t[m]), FieldValues(u[n])),
           ca \in SetToSeqs(more), cr \in SetToSeqs(fewer) :
          nc = KeptChange(t[m], m, u[n], n, fcs, ca, cr)
    BY DEF KeptNode
<1>2. fcs \in Seq(FieldChanges)
    BY FieldValuesTyped, FieldChangesTyped
<1>3. more \subseteq Atoms /\ fewer \subseteq Names /\ IsFiniteSet(more) /\ IsFiniteSet(fewer)
    BY ChildNamesTyped, FS_Subset DEF Names
<1> HIDE DEF more, fewer
<1>4. ca \in Seq(Atoms) /\ cr \in Seq(Names)
    <2>1. ca \in Seq(more) /\ cr \in Seq(fewer)
        BY <1>3, OrderedSet
    <2> QED
        BY <1>3, <2>1
<1>5. u[n] \in NodeRecord /\ n \in Nat /\ m \in Nat
    BY TableNodes
<1> QED
    BY <1>1, <1>2, <1>4, <1>5 DEF KeptChange, Changes, NodeRecord

LEMMA ChangesTyped ==
    ASSUME NEW t \in Tables, NEW u \in Tables, NEW a \in LiveNames(t) \cup LiveNames(u),
           NEW nc \in node_changes(t, u, a)
    PROVE  nc \in Changes
<1>1. CASE a \notin LiveNames(t)
    <2>1. by_name(u, a) \in DOMAIN u
        BY <1>1, NamedNode DEF NamedLive
    <2> QED
        BY <1>1, <2>1, AddedTyped DEF node_changes
<1>2. CASE a \in LiveNames(t) /\ a \notin LiveNames(u)
    <2> DEFINE m == by_name(t, a)
    <2>1. m \in DOMAIN t
        BY <1>2, NamedNode DEF NamedLive
    <2>2. nc \in RemovedNode(t, m)
        BY <1>2 DEF node_changes
    <2> HIDE DEF m
    <2>3. t[m] \in NodeRecord /\ m \in Nat
        BY <2>1, TableNodes
    <2>4. << >> \in Seq(FieldChanges) /\ << >> \in Seq(Atoms) /\ << >> \in Seq(Names)
        OBVIOUS
    <2>5. nc = [ change |-> "Removed", name |-> t[m].name, kind |-> t[m].kind,
                 before_id |-> m, after_id |-> 0, field_changes |-> << >>,
                 children_added |-> << >>, children_removed |-> << >> ]
        BY <2>2 DEF RemovedNode, kInvalidNode
    <2>6. t[m].name \in Names /\ t[m].kind \in KindOperands
        BY <2>3 DEF NodeRecord
    <2> QED
        BY <2>3, <2>4, <2>5, <2>6 DEF Changes
<1>3. CASE a \in LiveNames(t) /\ a \in LiveNames(u)
    <2>1. by_name(t, a) \in DOMAIN t /\ by_name(u, a) \in DOMAIN u
        BY <1>3, NamedNode DEF NamedLive
    <2> QED
        BY <1>3, <2>1, KeptTyped DEF node_changes
<1> QED
    BY <1>1, <1>2, <1>3

-----------------------------------------------------------------------------
(* A patch holds only whole groups *)

\* A BEGIN_GROUP reserves a slot for each of the children that follow it, and
\* an END_GROUP follows them.
WholeGroup(p, b) ==
    /\ b + p[b].hint + 1 <= Len(p)
    /\ \A k \in 1 .. p[b].hint : p[b + k].op = "ADD_CHILD"
    /\ p[b + p[b].hint + 1].op = "END_GROUP"

Patches ==
    {p \in Seq(PatchOps) :
        \A b \in DOMAIN p : p[b].op = "BEGIN_GROUP" => WholeGroup(p, b)}

\* The empty patch and a patch of one operation that opens no group.
LEMMA ShortPatches ==
    /\ << >> \in Patches
    /\ \A rec \in PatchOps : rec.op # "BEGIN_GROUP" => << rec >> \in Patches
<1>1. << >> \in Seq(PatchOps)
    OBVIOUS
<1>2. << >> \in Patches
    BY <1>1 DEF Patches
<1>3. ASSUME NEW rec \in PatchOps, rec.op # "BEGIN_GROUP" PROVE << rec >> \in Patches
    <2>1. << rec >> \in Seq(PatchOps)
        OBVIOUS
    <2>2. \A b \in DOMAIN << rec >> : << rec >>[b] = rec
        OBVIOUS
    <2> QED
        BY <1>3, <2>1, <2>2 DEF Patches
<1> QED
    BY <1>2, <1>3

\* Where the elements of two sequences are when one follows the other.
LEMMA BothParts ==
    ASSUME NEW S, NEW p \in Seq(S), NEW q \in Seq(S)
    PROVE  /\ p \o q \in Seq(S) /\ Len(p \o q) = Len(p) + Len(q)
           /\ DOMAIN (p \o q) = 1 .. Len(p) + Len(q)
           /\ \A i \in 1 .. Len(p) : (p \o q)[i] = p[i]
           /\ \A i \in 1 .. Len(q) : (p \o q)[Len(p) + i] = q[i]
<1>1. Len(p) \in Nat /\ Len(q) \in Nat
    BY LenProperties
<1> QED
    BY <1>1

\* A group stays whole where the patch is put behind m other operations.
LEMMA GroupMoved ==
    ASSUME NEW p \in Patches, NEW s \in Seq(PatchOps), NEW m \in Nat,
           m + Len(p) <= Len(s), \A i \in 1 .. Len(p) : s[m + i] = p[i],
           NEW b \in 1 .. Len(p), p[b].op = "BEGIN_GROUP"
    PROVE  WholeGroup(s, m + b)
<1> DEFINE h == p[b].hint
<1>1. Len(p) \in Nat /\ DOMAIN p = 1 .. Len(p) /\ p[b] \in PatchOps /\ Len(s) \in Nat
    BY ElementOfSeq, LenProperties DEF Patches
<1>2. h \in Nat
    BY <1>1 DEF PatchOps
<1>3. /\ b + h + 1 <= Len(p) /\ \A k \in 1 .. h : p[b + k].op = "ADD_CHILD"
      /\ p[b + h + 1].op = "END_GROUP"
    BY <1>1, ZenonT(60) DEF Patches, WholeGroup
<1>4. s[m + b].hint = h
    OBVIOUS
<1> HIDE DEF h
<1>5. (m + b) + h + 1 <= Len(s)
    BY <1>1, <1>2, <1>3
<1>6. ASSUME NEW k \in 1 .. h PROVE s[(m + b) + k].op = "ADD_CHILD"
    <2>1. b + k \in 1 .. Len(p) /\ (m + b) + k = m + (b + k)
        BY <1>1, <1>2, <1>3, SMTT(60)
    <2>2. s[(m + b) + k] = p[b + k]
        BY <2>1
    <2> QED
        BY <1>3, <2>2
<1>7. s[(m + b) + h + 1].op = "END_GROUP"
    <2>1. b + h + 1 \in 1 .. Len(p) /\ (m + b) + h + 1 = m + (b + h + 1)
        BY <1>1, <1>2, <1>3
    <2>2. s[(m + b) + h + 1] = p[b + h + 1]
        BY <2>1, SMTT(60)
    <2> QED
        BY <1>3, <2>2
<1> QED
    BY <1>4, <1>5, <1>6, <1>7 DEF WholeGroup

LEMMA PatchesJoin ==
    ASSUME NEW p \in Patches, NEW q \in Patches
    PROVE  p \o q \in Patches
<1>1. p \in Seq(PatchOps) /\ q \in Seq(PatchOps)
    BY DEF Patches
<1>2. /\ Len(p) \in Nat /\ Len(q) \in Nat
      /\ DOMAIN p = 1 .. Len(p) /\ DOMAIN q = 1 .. Len(q)
    BY <1>1, LenProperties
<1> DEFINE s == p \o q
<1>3. /\ s \in Seq(PatchOps) /\ Len(s) = Len(p) + Len(q)
      /\ DOMAIN s = 1 .. Len(p) + Len(q)
      /\ \A i \in 1 .. Len(p) : s[0 + i] = p[i]
      /\ \A i \in 1 .. Len(q) : s[Len(p) + i] = q[i]
    BY <1>1, <1>2
<1> HIDE DEF s
<1>4. ASSUME NEW b \in DOMAIN s, s[b].op = "BEGIN_GROUP" PROVE WholeGroup(s, b)
    <2>1. CASE b <= Len(p)
        <3>1. b \in 1 .. Len(p) /\ 0 + b = b /\ 0 + Len(p) <= Len(s)
            BY <1>2, <1>3, <2>1
        <3>2. p[b].op = "BEGIN_GROUP"
            BY <1>3, <1>4, <3>1
        <3>3. WholeGroup(s, 0 + b)
            BY <1>3, <3>1, <3>2, GroupMoved
        <3> QED
            BY <3>1, <3>3
    <2>2. CASE ~ (b <= Len(p))
        <3>1. b - Len(p) \in 1 .. Len(q) /\ Len(p) + (b - Len(p)) = b
            BY <1>2, <1>3, <2>2
        <3>2. q[b - Len(p)].op = "BEGIN_GROUP"
            BY <1>3, <1>4, <3>1, SMTT(60)
        <3>3. Len(p) + Len(q) <= Len(s)
            BY <1>2, <1>3
        <3>4. WholeGroup(s, Len(p) + (b - Len(p)))
            BY <1>2, <1>3, <3>1, <3>2, <3>3, GroupMoved
        <3> QED
            BY <3>1, <3>4
    <2> QED
        BY <2>1, <2>2
<1> QED
    BY <1>3, <1>4 DEF Patches, s

LEMMA SetFieldsPatch ==
    ASSUME NEW nc \in Changes
    PROVE  set_fields(nc) \in Patches
<1> DEFINE fcs == nc.field_changes
           Set(fc) == [ op |-> "SET_FIELD", node |-> nc.after_id, field |-> fc.field_idx,
                        value |-> fc.after.value, type |-> fc.after.type ]
           pieces == [ k \in DOMAIN fcs |->
                         LET fc == fcs[k]
                         IN  IF fc.after.type = "Invalid" THEN << >> ELSE << Set(fc) >> ]
<1>1. fcs \in Seq(FieldChanges) /\ nc.after_id \in Nat
    BY DEF Changes
<1>2. << >> \in Patches
    BY ShortPatches
<1>3. ASSUME NEW fc \in FieldChanges PROVE << Set(fc) >> \in Patches
    <2>1. Set(fc) \in PatchOps
        BY <1>1 DEF FieldChanges, Stored, PatchOps
    <2>2. Set(fc).op # "BEGIN_GROUP"
        OBVIOUS
    <2> HIDE DEF Set
    <2> QED
        BY <2>1, <2>2, ShortPatches
<1>4. DOMAIN fcs = 1 .. Len(fcs) /\ Len(fcs) \in Nat /\ \A k \in DOMAIN fcs : fcs[k] \in FieldChanges
    BY <1>1
<1> HIDE DEF Set, fcs
<1>5. pieces \in [1 .. Len(fcs) -> Patches]
    BY <1>2, <1>3, <1>4
<1>6. set_fields(nc) = FlattenSeq(pieces)
    BY DEF set_fields, Set, fcs
<1> HIDE DEF pieces
<1> QED
    BY <1>2, <1>4, <1>5, <1>6, PatchesJoin, FlattenInside

LEMMA Bracketed ==
    ASSUME NEW opening \in Seq(PatchOps), Len(opening) = 1, opening[1].op = "BEGIN_GROUP",
           NEW adds \in Seq(PatchOps), opening[1].hint = Len(adds),
           \A k \in 1 .. Len(adds) : adds[k].op = "ADD_CHILD",
           NEW ending \in Seq(PatchOps), Len(ending) = 1, ending[1].op = "END_GROUP"
    PROVE  opening \o adds \o ending \in Patches
<1> DEFINE h == Len(adds)
           opened == opening \o adds
           s == opened \o ending
<1>1. h \in Nat
    BY LenProperties
<1>2. /\ opened \in Seq(PatchOps) /\ Len(opened) = 1 + h
      /\ \A i \in 1 .. 1 : opened[i] = opening[i]
      /\ \A k \in 1 .. h : opened[1 + k] = adds[k]
    BY BothParts, SMTT(60)
<1> HIDE DEF opened
<1>3. /\ s \in Seq(PatchOps) /\ Len(s) = Len(opened) + 1
      /\ DOMAIN s = 1 .. Len(opened) + 1
      /\ \A i \in 1 .. Len(opened) : s[i] = opened[i]
      /\ \A i \in 1 .. 1 : s[Len(opened) + i] = ending[i]
    <2>1. ASSUME NEW x \in Seq(PatchOps)
          PROVE  /\ x \o ending \in Seq(PatchOps) /\ Len(x \o ending) = Len(x) + 1
                 /\ DOMAIN (x \o ending) = 1 .. Len(x) + 1
                 /\ \A i \in 1 .. Len(x) : (x \o ending)[i] = x[i]
                 /\ \A i \in 1 .. 1 : (x \o ending)[Len(x) + i] = ending[i]
        BY BothParts, SMTT(60)
    <2>2. opened \in Seq(PatchOps)
        BY <1>2
    <2> HIDE DEF s
    <2>3. s = opened \o ending
        BY DEF s
    <2> QED
        BY <2>1, <2>2, <2>3, SMTT(60)
<1> HIDE DEF h, s
<1>4. /\ Len(s) = h + 2 /\ DOMAIN s = 1 .. h + 2 /\ s[h + 2] = ending[1]
      /\ s[1] = opening[1]
    <2>1. 1 + h + 1 = h + 2 /\ 1 \in 1 .. 1 + h
        BY <1>1
    <2> QED
        BY <1>2, <1>3, <2>1
<1>5. ASSUME NEW k \in 1 .. h PROVE s[1 + k].op = "ADD_CHILD"
    <2>1. 1 + k \in 1 .. 1 + h
        BY <1>1
    <2>2. s[1 + k] = adds[k]
        BY <1>2, <1>3, <2>1
    <2> QED
        BY <2>2 DEF h
<1>6. WholeGroup(s, 1)
    <2>1. s[1].hint = h /\ 1 + h + 1 = h + 2
        BY <1>1, <1>4 DEF h
    <2> QED
        BY <1>1, <1>4, <1>5, <2>1 DEF WholeGroup
<1>7. ASSUME NEW b \in DOMAIN s, s[b].op = "BEGIN_GROUP" PROVE b = 1
    <2>1. CASE b \in 2 .. h + 1
        <3>1. b - 1 \in 1 .. h /\ 1 + (b - 1) = b
            BY <1>1, <2>1
        <3> QED
            BY <1>5, <1>7, <3>1
    <2>2. b # h + 2
        BY <1>4, <1>7
    <2> QED
        BY <1>1, <1>4, <2>1, <2>2
<1> QED
    BY <1>3, <1>6, <1>7 DEF Patches, s, opened

LEMMA GroupPatch ==
    ASSUME NEW nc \in Changes
    PROVE  group(nc) \in Patches
<1> DEFINE cs == nc.children_added
           first == [op |-> "BEGIN_GROUP", name |-> nc.name, hint |-> Len(cs)]
           adds == [k \in DOMAIN cs |-> [op |-> "ADD_CHILD", name |-> cs[k]]]
           last == [op |-> "END_GROUP"]
<1>1. cs \in Seq(Atoms) /\ nc.name \in Names /\ Len(cs) \in Nat /\ DOMAIN cs = 1 .. Len(cs)
    BY LenProperties DEF Changes
<1>2. CASE cs = << >>
    <2>1. group(nc) = << >>
        BY <1>2 DEF group
    <2> QED
        BY <2>1, ShortPatches
<1>3. CASE cs # << >>
    <2>1. /\ first \in PatchOps /\ first.op = "BEGIN_GROUP" /\ first.hint = Len(cs)
          /\ last \in PatchOps /\ last.op = "END_GROUP"
        BY <1>1 DEF PatchOps
    <2>2. adds \in Seq(PatchOps) /\ Len(adds) = Len(cs)
          /\ \A k \in 1 .. Len(adds) : adds[k].op = "ADD_CHILD"
        <3>1. ASSUME NEW k \in DOMAIN cs PROVE [op |-> "ADD_CHILD", name |-> cs[k]] \in PatchOps
            <4>1. cs[k] \in Atoms
                BY <1>1
            <4> QED
                BY <4>1 DEF PatchOps
        <3> HIDE DEF cs
        <3> QED
            BY <1>1, <3>1
    <2>3. group(nc) = << first >> \o adds \o << last >>
        BY <1>3 DEF group
    <2> HIDE DEF first, adds, last, cs
    <2>4. /\ << first >> \in Seq(PatchOps) /\ Len(<< first >>) = 1
          /\ << last >> \in Seq(PatchOps) /\ Len(<< last >>) = 1
          /\ << first >>[1] = first /\ << last >>[1] = last
        BY <2>1
    <2> QED
        BY <2>1, <2>2, <2>3, <2>4, Bracketed
<1> QED
    BY <1>2, <1>3

LEMMA OpsOfPatch ==
    ASSUME NEW nc \in Changes
    PROVE  ops_of(nc) \in Patches
<1>1. << [op |-> "DROP_NODE", node |-> nc.before_id] >> \in Patches
    <2> DEFINE rec == [op |-> "DROP_NODE", node |-> nc.before_id]
    <2>1. rec \in PatchOps /\ rec.op # "BEGIN_GROUP"
        BY DEF PatchOps, Changes
    <2> HIDE DEF rec
    <2>2. << rec >> \in Patches
        BY <2>1, ShortPatches
    <2> QED
        BY <2>2 DEF rec
<1>2. << [op |-> "NEW_NODE", kind |-> nc.kind, name |-> nc.name] >> \in Patches
    <2> DEFINE rec == [op |-> "NEW_NODE", kind |-> nc.kind, name |-> nc.name]
    <2>1. rec \in PatchOps /\ rec.op # "BEGIN_GROUP"
        BY DEF PatchOps, Changes
    <2> HIDE DEF rec
    <2>2. << rec >> \in Patches
        BY <2>1, ShortPatches
    <2> QED
        BY <2>2 DEF rec
<1>3. << >> \in Patches
    BY ShortPatches
<1>4. set_fields(nc) \o group(nc) \in Patches
    BY SetFieldsPatch, GroupPatch, PatchesJoin
<1>5. (<< [op |-> "NEW_NODE", kind |-> nc.kind, name |-> nc.name] >> \o set_fields(nc))
          \o group(nc) \in Patches
    BY <1>2, SetFieldsPatch, GroupPatch, PatchesJoin
<1>6. nc.change \in {"Added", "Removed", "Modified", "Unchanged"}
    BY DEF Changes
<1> QED
    BY <1>1, <1>3, <1>4, <1>5, <1>6 DEF ops_of

\* Whatever order the maps are walked in, the journal made from a difference is
\* a patch.
LEMMA DiffIsPatch ==
    ASSUME NEW t \in Tables, NEW u \in Tables, NEW d, d \in diff_node_graphs(t, u)
    PROVE  /\ d \in Seq(Changes) /\ diff_to_journal(d) \in Patches
           /\ \E o \in NameOrders(t, u) :
                /\ Len(d) = Len(o) /\ DOMAIN d = DOMAIN o
                /\ \A i \in DOMAIN o : d[i] \in node_changes(t, u, o[i])
<1>1. PICK o \in NameOrders(t, u) :
          /\ d \in [1 .. Len(o) -> UNION {node_changes(t, u, a) : a \in LiveNames(t) \cup LiveNames(u)}]
          /\ \A i \in DOMAIN o : d[i] \in node_changes(t, u, o[i])
    BY DEF diff_node_graphs
<1>2. PICK kept \in SetToSeqs(LiveNames(u)) :
          \E gone \in SetToSeqs(LiveNames(t) \ LiveNames(u)) : o = kept \o gone
    BY DEF NameOrders
<1>3. PICK gone \in SetToSeqs(LiveNames(t) \ LiveNames(u)) : o = kept \o gone
    BY <1>2
<1>4. kept \in Seq(LiveNames(u)) /\ gone \in Seq(LiveNames(t) \ LiveNames(u))
    <2>1. IsFiniteSet(LiveNames(u)) /\ IsFiniteSet(LiveNames(t) \ LiveNames(u))
        BY NamesFinite, FS_Subset
    <2> QED
        BY <1>2, <1>3, <2>1, OrderedSet
<1>5. o \in Seq(LiveNames(t) \cup LiveNames(u)) /\ Len(o) \in Nat /\ DOMAIN o = 1 .. Len(o)
    BY <1>3, <1>4
<1>6. \A i \in 1 .. Len(o) : d[i] \in Changes
    BY <1>1, <1>5, ChangesTyped
<1>7. DOMAIN d = 1 .. Len(o) /\ Len(d) = Len(o) /\ d \in Seq(Changes)
    BY <1>1, <1>5, <1>6
<1>8. [i \in DOMAIN d |-> ops_of(d[i])] \in [1 .. Len(o) -> Patches]
    BY <1>6, <1>7, OpsOfPatch
<1>9. << >> \in Patches
    BY ShortPatches
<1>10. diff_to_journal(d) \in Patches
    BY <1>5, <1>8, <1>9, PatchesJoin, FlattenInside, SMTT(60) DEF diff_to_journal
<1> QED
    BY <1>1, <1>5, <1>7, <1>10

-----------------------------------------------------------------------------
(* Running a patch *)

\* No group is open; or one is, opened at operation b of the patch, and as many
\* of its children have been named as operations have been run since; or one is
\* being closed, and there is a free slot for each child it still has to link.
Outside == frames = << >> /\ closing = << >>

InsideGroup(b) ==
    LET hint == patch[b].hint
        named == Len(frames[1].deferred)
    IN  /\ patch[b].op = "BEGIN_GROUP"
        /\ named <= hint
        /\ stats.ops_executed = b + named
        /\ Len(nodes) + hint <= capacity
Inside ==
    /\ closing = << >> /\ Len(frames) = 1 /\ frames[1].cached
    /\ \E b \in DOMAIN patch : InsideGroup(b)

ClosingOne ==
    /\ frames = << >> /\ Len(closing) = 1 /\ closing[1].cached
    /\ Len(nodes) + Len(closing[1].deferred) <= capacity

PatchInv ==
    /\ GraphsTyped
    /\ phase = "patching" => /\ patch \in Patches
                             /\ Outside \/ Inside \/ ClosingOne
                             /\ ~ undefined

\* An operation of a patch is one of six.
LEMMA PatchOpCases ==
    ASSUME NEW rec \in PatchOps, Execute(rec)
    PROVE  \/ Rejection
           \/ rec.op = "NEW_NODE" /\ NewNode(rec.kind, rec.name)
           \/ rec.op = "DROP_NODE" /\ DropNode(rec.node)
           \/ /\ rec.op = "SET_FIELD" /\ rec.field \in Fields /\ rec.value \in StoredValues
              /\ SetField(rec.node, rec.field, rec.value)
           \/ rec.op = "BEGIN_GROUP" /\ rec.hint \in Nat /\ BeginGroup(rec.name, rec.hint)
           \/ rec.op = "ADD_CHILD" /\ AddChild(rec.name)
           \/ rec.op = "END_GROUP" /\ EndGroup
<1>1. CASE rec \in [op : {"NEW_NODE"}, kind : KindOperands, name : Names]
    <2>1. /\ rec.op = "NEW_NODE"
          /\ NewNode(rec.kind, rec.name) \/ RejectNewNode(rec.kind, rec.name)
        BY <1>1 DEF Execute
    <2> QED
        BY <2>1, RejectionsEnd, Zenon
<1>2. CASE rec \in [ op : {"SET_FIELD"}, node : Nat, field : Fields, value : StoredValues,
                      type : ValueTypes ]
    <2>1. /\ rec.op = "SET_FIELD" /\ rec.field \in Fields /\ rec.value \in StoredValues
          /\ SetField(rec.node, rec.field, rec.value) \/ RejectSetField(rec.node, rec.field)
        BY <1>2 DEF Execute
    <2> QED
        BY <2>1, RejectionsEnd, Zenon
<1>3. CASE rec \in [op : {"DROP_NODE"}, node : Nat]
    <2>1. rec.op = "DROP_NODE" /\ (DropNode(rec.node) \/ RejectDropNode(rec.node))
        BY <1>3 DEF Execute
    <2> QED
        BY <2>1, RejectionsEnd, Zenon
<1>4. CASE rec \in [op : {"BEGIN_GROUP"}, name : Names, hint : Nat]
    <2>1. /\ rec.op = "BEGIN_GROUP" /\ rec.hint \in Nat
          /\ BeginGroup(rec.name, rec.hint) \/ RejectBeginGroup(rec.name)
        BY <1>4 DEF Execute
    <2> QED
        BY <2>1, RejectionsEnd, Zenon
<1>5. CASE rec \in [op : {"ADD_CHILD"}, name : Atoms]
    <2>1. rec.op = "ADD_CHILD" /\ (AddChild(rec.name) \/ RejectAddChild(rec.name))
        BY <1>5 DEF Execute
    <2> QED
        BY <2>1, RejectionsEnd, Zenon
<1>6. CASE rec = [op |-> "END_GROUP"]
    <2>1. rec.op = "END_GROUP" /\ (EndGroup \/ RejectEndGroup)
        BY <1>6 DEF Execute
    <2> QED
        BY <2>1, RejectionsEnd, Zenon
<1> QED
    BY <1>1, <1>2, <1>3, <1>4, <1>5, <1>6 DEF PatchOps

LEMMA OpOfGroup ==
    ASSUME NEW rec, Execute(rec)
    PROVE  /\ rec.op = "ADD_CHILD" => UNCHANGED graph \/ AddChild(rec.name)
           /\ rec.op = "END_GROUP" => UNCHANGED graph \/ EndGroup
<1>1. Rejection => UNCHANGED graph
    BY DEF Rejection, End
<1> QED
    BY <1>1, RejectionsEnd DEF Execute

LEMMA PatchOpIsAnOp ==
    ASSUME NEW rec \in PatchOps, Execute(rec)
    PROVE  OpCases
BY PatchOpCases, Zenon DEF OpCases

\* The operation to be run next.
LEMMA NextOpTyped ==
    ASSUME TypeOK, patch \in Patches, stats.ops_executed < Len(patch)
    PROVE  /\ stats.ops_executed + 1 \in DOMAIN patch
           /\ Next_op \in PatchOps
<1>1. stats.ops_executed \in Nat
    BY DEF TypeOK, ReplayStats
<1>2. patch \in Seq(PatchOps) /\ Len(patch) \in Nat /\ DOMAIN patch = 1 .. Len(patch)
    BY LenProperties DEF Patches
<1>3. stats.ops_executed + 1 \in 1 .. Len(patch)
    BY <1>1, <1>2
<1> QED
    BY <1>2, <1>3, ElementOfSeq DEF Next_op

\* Outside a group only a BEGIN_GROUP opens one, and it reserves its slots.
LEMMA OutsideStep ==
    ASSUME TypeOK, patch \in Patches, Outside, stats.ops_executed < Len(patch),
           Execute(Next_op), patch' = patch
    PROVE  UNCHANGED graph \/ Outside' \/ Inside'
<1> PICK b : b = stats.ops_executed + 1
    OBVIOUS
<1> PICK rec : rec = Next_op
    OBVIOUS
<1>1. rec \in PatchOps /\ b \in DOMAIN patch /\ rec = patch[b]
    BY NextOpTyped DEF Next_op
<1>2. frames = << >> /\ closing = << >>
    BY DEF Outside
<1>3. ASSUME NEW kind, NEW name, NewNode(kind, name) PROVE Outside'
    <2>1. << >> \in Seq(GroupFrame) /\ FullTable \in BOOLEAN
        BY DEF FullTable
    <2>2. Len(AfterMove(FullTable, << >>)) = Len(<< >>) /\ AfterMove(FullTable, << >>) \in Seq(GroupFrame)
        BY <2>1, StaleFrames
    <2>3. AfterMove(FullTable, << >>) = << >>
        BY <2>2, EmptySeq
    <2> QED
        BY <1>2, <1>3, <2>3 DEF NewNode, Outside
<1>4. \/ \E n : DropNode(n)
      \/ \E n : \E f \in Fields, v \in StoredValues : SetField(n, f, v)
      => Outside'
    BY <1>2 DEF DropNode, SetField, Outside
<1>5. ASSUME rec.op = "BEGIN_GROUP", rec.hint \in Nat, BeginGroup(rec.name, rec.hint)
      PROVE  UNCHANGED graph \/ Inside'
    <2> DEFINE reserved == Len(nodes) + rec.hint
               opened == [ owner_id |-> find_named(rec.name), cached |-> TRUE,
                           reserved |-> reserved, deferred |-> << >> ]
               moved == AfterMove(reserved > capacity, frames)
    <2>1. CASE End("bad_alloc")
        BY <2>1 DEF End
    <2>2. CASE /\ capacity' = reserve(reserved)
               /\ frames' = Append(moved, opened)
               /\ stats' = Executed
               /\ UNCHANGED << nodes, closing >>
        <3>1. Len(nodes) \in Nat /\ reserved \in Nat /\ capacity \in Nat
            BY <1>5, LenProperties DEF TypeOK
        <3>2. reserved <= capacity' /\ capacity' \in Nat
            BY <2>2, <3>1 DEF reserve
        <3>3. moved = << >>
            <4>1. << >> \in Seq(GroupFrame) /\ (reserved > capacity) \in BOOLEAN
                OBVIOUS
            <4>2. Len(moved) = Len(<< >>) /\ moved \in Seq(GroupFrame)
                BY <1>2, <4>1, StaleFrames
            <4> QED
                BY <4>2, EmptySeq
        <3> HIDE DEF moved
        <3>4. Len(frames') = 1 /\ frames'[1] = opened
            BY <2>2, <3>3
        <3>5. opened.cached /\ opened.deferred = << >>
            OBVIOUS
        <3>6. stats'.ops_executed = b /\ b + 0 = b
            BY <2>2, SMTT(60) DEF Executed, TypeOK, ReplayStats
        <3>7. Len(frames'[1].deferred) = 0 /\ patch'[b] = rec /\ nodes' = nodes
            BY <1>1, <2>2, <3>4, <3>5
        <3> HIDE DEF opened
        <3>8. InsideGroup(b)'
            BY <1>5, <3>1, <3>2, <3>6, <3>7 DEF InsideGroup
        <3> QED
            BY <1>1, <1>2, <2>2, <3>4, <3>5, <3>8 DEF Inside
    <2> QED
        BY <1>5, <2>1, <2>2 DEF BeginGroup
<1>6. ~ AddChild(rec.name) /\ ~ EndGroup
    BY <1>2 DEF AddChild, EndGroup
<1>7. Rejection => UNCHANGED graph
    BY DEF Rejection, End
<1> QED
    BY <1>1, <1>3, <1>4, <1>5, <1>6, <1>7, PatchOpCases

\* Inside a group its children are named until all are, and then it is closed.
LEMMA InsideStep ==
    ASSUME TypeOK, patch \in Patches, Inside, stats.ops_executed < Len(patch),
           Execute(Next_op), patch' = patch
    PROVE  UNCHANGED graph \/ Inside' \/ ClosingOne'
<1> PICK b \in DOMAIN patch : InsideGroup(b)
    BY DEF Inside
<1> PICK frame : frame = frames[1]
    OBVIOUS
<1> PICK named : named = Len(frame.deferred)
    OBVIOUS
<1> PICK hint : hint = patch[b].hint
    OBVIOUS
<1> PICK rec : rec = Next_op
    OBVIOUS
<1>1. /\ Len(frames) = 1 /\ frames[1].cached /\ closing = << >>
      /\ frames \in Seq(GroupFrame) /\ frame \in GroupFrame /\ frame.deferred \in Seq(Names)
    <2>1. Len(frames) = 1 /\ frames[1].cached /\ closing = << >> /\ frames \in Seq(GroupFrame)
        BY DEF Inside, TypeOK
    <2>2. frame \in GroupFrame
        <3>1. 1 \in 1 .. Len(frames)
            BY <2>1
        <3> QED
            BY <2>1, <3>1, ElementOfSeq
    <2> QED
        BY <2>1, <2>2 DEF GroupFrame
<1>2. named \in Nat /\ b \in Nat /\ patch[b] \in PatchOps /\ rec \in PatchOps
    <2>1. patch \in Seq(PatchOps) /\ DOMAIN patch = 1 .. Len(patch) /\ Len(patch) \in Nat
        BY LenProperties DEF Patches
    <2> QED
        BY <1>1, <2>1, LenProperties, ElementOfSeq, NextOpTyped
<1>3. /\ patch[b].op = "BEGIN_GROUP" /\ named <= hint
      /\ stats.ops_executed = b + named /\ Len(nodes) + hint <= capacity
    BY DEF InsideGroup
<1>4. hint \in Nat
    BY <1>2, <1>3 DEF PatchOps
<1>5. WholeGroup(patch, b)
    BY <1>3 DEF Patches
<1>6. rec = patch[b + named + 1]
    BY <1>3 DEF Next_op
<1>7. CASE named < hint
    <2>1. named + 1 \in 1 .. hint
        BY <1>2, <1>4, <1>7, SMTT(60)
    <2>2. b + (named + 1) = b + named + 1
        BY <1>2, SMTT(60)
    <2>3. rec.op = "ADD_CHILD"
        BY <1>5, <1>6, <2>1, <2>2 DEF WholeGroup
    <2>4. ASSUME NEW name, AddChild(name) PROVE Inside'
        <3>1. /\ frames' = [frames EXCEPT ![1] = [frame EXCEPT !.deferred = Append(@, name)]]
              /\ name \in Names /\ closing' = closing /\ nodes' = nodes /\ capacity' = capacity
              /\ stats' = Executed
            BY <1>1, <2>4 DEF AddChild
        <3>2. /\ [frame EXCEPT !.deferred = Append(@, name)].deferred = Append(frame.deferred, name)
              /\ [frame EXCEPT !.deferred = Append(@, name)].cached = frame.cached
            BY <1>1 DEF GroupFrame
        <3>3. Len(frames') = 1 /\ 1 \in DOMAIN frames
              /\ frames'[1] = [frame EXCEPT !.deferred = Append(@, name)]
            BY <1>1, <3>1, LenProperties
        <3>4. Len(frames'[1].deferred) = named + 1 /\ frames'[1].cached
            <4>1. Len(Append(frame.deferred, name)) = named + 1
                BY <1>1, <3>1
            <4> QED
                BY <1>1, <3>2, <3>3, <4>1
        <3>5. stats'.ops_executed = b + (named + 1)
            <4>1. stats'.ops_executed = stats.ops_executed + 1
                BY <3>1 DEF Executed, TypeOK, ReplayStats
            <4> QED
                BY <1>2, <1>3, <4>1, SMTT(60)
        <3>6. named + 1 <= hint /\ nodes' = nodes /\ capacity' = capacity
            BY <1>2, <1>4, <1>7, <3>1
        <3>7. InsideGroup(b)'
            BY <1>3, <3>4, <3>5, <3>6 DEF InsideGroup
        <3> QED
            BY <1>1, <3>1, <3>3, <3>4, <3>7 DEF Inside
    <2> QED
        BY <1>2, <2>3, <2>4, OpOfGroup
<1>8. CASE named = hint
    <2>1. rec.op = "END_GROUP"
        BY <1>5, <1>6, <1>8 DEF WholeGroup
    <2>2. ASSUME EndGroup PROVE ClosingOne'
        <3>1. closing' = << frame >> /\ nodes' = nodes /\ capacity' = capacity
            BY <1>1, <2>2 DEF EndGroup
        <3>2. frames' = << >>
            <4>1. frames' = SubSeq(frames, 1, 0)
                BY <1>1, <2>2 DEF EndGroup
            <4> QED
                BY <1>1, <4>1
        <3>3. Len(closing') = 1 /\ closing'[1] = frame
            BY <3>1
        <3> QED
            BY <1>1, <1>3, <1>8, <3>1, <3>2, <3>3 DEF ClosingOne
    <2> QED
        BY <1>2, <2>1, <2>2, OpOfGroup
<1> QED
    BY <1>2, <1>3, <1>4, <1>7, <1>8, SMTT(60)

\* There is a slot for every placeholder, so the table does not move.
LEMMA ClosingStep ==
    ASSUME TypeOK, ClosingOne, Resolving
    PROVE  /\ Outside' \/ ClosingOne'
           /\ undefined' = undefined
<1>1. CASE CloseGroup
    BY <1>1 DEF CloseGroup, ClosingOne, Outside
<1>2. CASE ResolveChild
    <2> PICK t, frame, target : Turn(t, frame, target)
        BY <1>2, ResolveIsATurn
    <2> PICK queue : queue = closing[1].deferred
        OBVIOUS
    <2>1. queue \in Seq(Names) /\ queue # << >> /\ Len(nodes) \in Nat
        <3>1. closing \in Seq(GroupFrame) /\ closing[1] \in GroupFrame
            <4>1. closing \in Seq(GroupFrame) /\ Len(closing) = 1
                BY DEF ClosingOne, TypeOK
            <4>2. 1 \in 1 .. Len(closing)
                BY <4>1
            <4> QED
                BY <4>1, <4>2, ElementOfSeq
        <3> QED
            BY <1>2, <3>1, LenProperties DEF GroupFrame, ResolveChild, TypeOK
    <2>2. Len(queue) \in Nat \ {0} /\ Len(Tail(queue)) = Len(queue) - 1
        BY <2>1, LenProperties, EmptySeq, HeadTailProperties
    <2>3. ~ FullTable
        BY <2>1, <2>2 DEF FullTable, ClosingOne, TypeOK
    <2>4. frame.cached /\ frame.deferred = Tail(queue) /\ closing' = << frame >>
        BY <2>3 DEF Turn, ClosingOne
    <2>5. undefined' = undefined
        BY <2>4 DEF Turn, Attach
    <2>6. frames' = << >> /\ capacity' = capacity
        BY <2>3 DEF Turn, ClosingOne, GrownCapacity, AfterMove
    <2>7. Len(nodes') = Len(t)
        BY AttachEffect DEF Turn, TypeOK
    <2>8. Len(t) \in Nat /\ Len(t) <= Len(nodes) + 1
        <3>1. ASSUME NEW name \in Names,
                     t = Append(nodes, NewNodeRecord(NoKind, name, TRUE, NoFields))
              PROVE  Len(t) = Len(nodes) + 1
            <4>1. NewNodeRecord(NoKind, name, TRUE, NoFields) \in NodeRecord
                BY FreshNodeTyped DEF KindOperands
            <4> QED
                BY <3>1, <4>1, TableAppend DEF TypeOK
        <3>2. t = nodes \/ Len(t) = Len(nodes) + 1
            BY <3>1 DEF Turn
        <3> QED
            BY <2>1, <3>2
    <2>9. Len(closing') = 1 /\ closing'[1] = frame
        BY <2>4
    <2>10. Len(nodes') + Len(closing'[1].deferred) <= capacity'
        <3>1. Len(nodes) + Len(queue) <= capacity /\ capacity \in Nat
            BY DEF ClosingOne, TypeOK
        <3>2. Len(t) + Len(Tail(queue)) <= capacity
            BY <2>1, <2>2, <2>8, <3>1
        <3> QED
            BY <2>4, <2>6, <2>7, <2>9, <3>2
    <2> QED
        BY <2>4, <2>5, <2>6, <2>9, <2>10 DEF ClosingOne
<1> QED
    BY <1>1, <1>2 DEF Resolving

\* The operations of a patch keep the machine where a patch leaves it.
LEMMA PatchStep ==
    ASSUME PatchInv, phase = "patching", Patch
    PROVE  PatchInv'
<1>1. /\ TypeOK /\ ValuesStored(nodes) /\ patch \in Patches /\ ~ undefined
      /\ Outside \/ Inside \/ ClosingOne
    BY DEF PatchInv, GraphsTyped
<1>2. closing = << >> /\ patch' = patch
    BY DEF Patch, Running, diffVars
<1>3. ~ ClosingOne
    <2>1. ~ (Len(<< >>) = 1)
        OBVIOUS
    <2> QED
        BY <1>2, <2>1 DEF ClosingOne
<1>4. CASE UNCHANGED graph /\ status' \in Codes /\ phase' = "patching"
    BY <1>1, <1>2, <1>4
    DEF graph, PatchInv, GraphsTyped, TypeOK, InRange, Outside, Inside, InsideGroup, ClosingOne
<1>5. CASE Finish /\ UNCHANGED diffVars
    <2>1. UNCHANGED graph /\ status' \in Codes
        BY <1>5, RejectionsEnd DEF Rejection, End
    <2> QED
        BY <1>4, <1>5, <2>1 DEF diffVars
<1>6. CASE /\ stats.ops_executed < Len(patch)
           /\ Execute(Next_op)
           /\ UNCHANGED diffVars
    <2>1. Next_op \in PatchOps
        BY <1>1, <1>6, NextOpTyped
    <2>2. OpCases
        BY <1>6, <2>1, PatchOpIsAnOp
    <2>3. TypeOK' /\ ValuesStored(nodes')
        <3>1. ValuesStored(nodes)'
            BY <1>1, <2>2, ValuesOp
        <3> QED
            BY <1>1, <2>2, <3>1, OpTyped DEF ValuesStored
    <2>4. GraphsTyped' /\ patch' \in Patches
        BY <1>1, <1>6, <2>3 DEF GraphsTyped, diffVars
    <2>5. Outside' \/ Inside' \/ ClosingOne' \/ UNCHANGED graph
        BY <1>1, <1>2, <1>3, <1>6, OutsideStep, InsideStep, SMTT(60)
    <2>6. undefined' = undefined
        BY <1>1, <2>1, <1>6, PatchOpCases
        DEF Rejection, End, graph, NewNode, DropNode, SetField, BeginGroup, AddChild, EndGroup
    <2>7. UNCHANGED graph => Outside' \/ Inside' \/ ClosingOne'
        BY <1>1, <1>2 DEF graph, Outside, Inside, InsideGroup, ClosingOne
    <2> QED
        BY <1>1, <2>4, <2>5, <2>6, <2>7 DEF PatchInv
<1>7. CASE phase' = "misread" /\ UNCHANGED vars
    BY <1>1, <1>7 DEF vars, PatchInv, GraphsTyped, TypeOK, InRange
<1> QED
    BY <1>5, <1>6, <1>7 DEF Patch

LEMMA PatchInvInit == DiffInit => PatchInv
BY GraphsInit DEF DiffInit, PatchInv

LEMMA PatchInvStep == PatchInv /\ [DiffNext]_allVars => PatchInv'
<1> SUFFICES ASSUME PatchInv, [DiffNext]_allVars PROVE PatchInv'
    OBVIOUS
<1>1. GraphsTyped /\ TypeOK /\ ValuesStored(nodes)
    BY SMTT(60) DEF PatchInv, GraphsTyped
<1>2. CASE UNCHANGED allVars
    BY <1>1, <1>2
    DEF allVars, vars, diffVars, PatchInv, GraphsTyped, TypeOK, InRange, LinksClosed,
        Outside, Inside, InsideGroup, ClosingOne
<1>3. CASE Write \/ Resolve
    <2>1. [Next]_vars /\ UNCHANGED diffVars
        BY <1>3, WritingIsAStep DEF Write, Resolve
    <2>2. TypeOK' /\ ValuesStored(nodes')
        <3>1. ValuesStored(nodes)'
            BY <1>1, <2>1, StepIsAnOp, ValuesOp
        <3> QED
            BY <1>1, <2>1, <3>1, StepTyped DEF ValuesStored
    <2>3. phase \in {"before", "after"} => LinksClosed'
        BY <1>1, <2>1, LinksStep DEF GraphsTyped
    <2>4. GraphsTyped'
        BY <1>1, <2>1, <2>2, <2>3 DEF GraphsTyped, diffVars
    <2>5. CASE phase = "patching"
        <3>1. Resolving
            BY <1>3, <2>5 DEF Write, Resolve
        <3>2. ClosingOne
            <4>1. closing # << >>
                BY <3>1 DEF Resolving, ResolveChild, CloseGroup
            <4> QED
                BY <2>5, <4>1, SMTT(60) DEF PatchInv, Outside, Inside
        <3> QED
            BY <1>1, <2>1, <2>4, <2>5, <3>1, <3>2, ClosingStep, SMTT(60) DEF PatchInv, diffVars
    <2>6. CASE phase # "patching"
        BY <2>1, <2>4, <2>6 DEF PatchInv, diffVars
    <2> QED
        BY <2>5, <2>6
<1>4. CASE TakeBefore
    BY <1>1, <1>4, TakeBeforeTyped DEF PatchInv, TakeBefore
<1>5. CASE TakeAfter
    <2>1. before.nodes \in Tables /\ nodes \in Tables
        <3>1. ~ undefined /\ LinksClosed /\ MachineKept(before)
            BY <1>1, <1>5 DEF TakeAfter, Complete, GraphsTyped
        <3>2. Closed(nodes)
            BY <3>1, LinksClosedMeansClosed
        <3> QED
            BY <1>1, <3>1, <3>2 DEF Tables, MachineKept, GraphKept, TypeOK
    <2>2. patch' \in Patches
        BY <1>5, <2>1, DiffIsPatch DEF TakeAfter
    <2>3. Outside' /\ ~ undefined'
        BY <1>5 DEF TakeAfter, Complete, Running, Outside
    <2> QED
        BY <1>1, <1>5, <2>2, <2>3, TakeAfterTyped DEF PatchInv
<1>6. CASE Patch
    BY <1>6, PatchStep DEF Patch
<1>7. CASE Over
    BY <1>2, <1>7 DEF Over
<1> QED
    BY <1>2, <1>3, <1>4, <1>5, <1>6, <1>7 DEF DiffNext

\* Whatever two graphs are compared, whatever order the maps are walked in and
\* whatever placeholders a patch creates, no owner pointer of a group goes stale:
\* the hint diff_to_journal writes is what its ADD_CHILDs need.
THEOREM PatchPointersKept == DiffSpec => []PatchKeepsPointers
<1>1. PatchInv => PatchKeepsPointers
    BY DEF PatchInv, PatchKeepsPointers
<1> QED
    BY <1>1, PatchInvInit, PatchInvStep, PTL DEF DiffSpec

-----------------------------------------------------------------------------
(* What the operations of a patch are *)

\* The same family of sets holds sequences flattened from none on.
LEMMA FlattenStepwise ==
    ASSUME NEW n \in Nat, NEW T, NEW seqs \in [1 .. n -> Seq(T)], NEW S, << >> \in S[0],
           \A k \in 1 .. n : \A x \in S[k - 1] : x \o seqs[k] \in S[k]
    PROVE  FlattenSeq(seqs) \in S[n]
<1>1. Len(seqs) = n
    OBVIOUS
<1>2. CASE n = 0
    <2>1. FlattenSeq(seqs) = seqs /\ seqs = << >>
        BY <1>1, <1>2 DEF FlattenSeq
    <2> QED
        BY <1>2, <2>1
<1>3. CASE n # 0
    <2>1. FlattenSeq(seqs) = Joined(seqs, n)
        BY <1>1, <1>3 DEF FlattenSeq, Joined
    <2>2. seqs[1] \in S[1]
        <3>1. 1 \in 1 .. n /\ 1 - 1 = 0
            BY <1>3
        <3>2. << >> \o seqs[1] \in S[1]
            BY <3>1
        <3>3. << >> \o seqs[1] = seqs[1]
            BY <3>1
        <3> QED
            BY <3>2, <3>3
    <2>3. ASSUME NEW k \in 1 .. n - 1, NEW x \in S[k] PROVE x \o seqs[k + 1] \in S[k + 1]
        <3>1. k + 1 \in 1 .. n /\ (k + 1) - 1 = k
            OBVIOUS
        <3>2. \A y \in S[(k + 1) - 1] : y \o seqs[k + 1] \in S[k + 1]
            BY <3>1
        <3> QED
            BY <3>1, <3>2, SMTT(60)
    <2> QED
        BY <1>3, <2>1, <2>2, <2>3, JoinedStepwise
<1> QED
    BY <1>2, <1>3

LEMMA ElementsJoin ==
    ASSUME NEW T, NEW p \in Seq(T), NEW q \in Seq(T)
    PROVE  p \o q \in Seq(T) /\ ToSet(p \o q) = ToSet(p) \cup ToSet(q)
<1>1. /\ p \o q \in Seq(T) /\ Len(p) \in Nat /\ Len(q) \in Nat
      /\ DOMAIN p = 1 .. Len(p) /\ DOMAIN q = 1 .. Len(q)
      /\ DOMAIN (p \o q) = 1 .. Len(p) + Len(q)
      /\ \A i \in 1 .. Len(p) : (p \o q)[i] = p[i]
      /\ \A i \in 1 .. Len(q) : (p \o q)[Len(p) + i] = q[i]
    BY BothParts, LenProperties
<1> DEFINE s == p \o q
<1> HIDE DEF s
<1>2. /\ DOMAIN s = 1 .. Len(p) + Len(q)
      /\ \A i \in 1 .. Len(p) : s[i] = p[i]
      /\ \A i \in 1 .. Len(q) : s[Len(p) + i] = q[i]
    BY <1>1 DEF s
<1>3. ASSUME NEW i \in DOMAIN s PROVE s[i] \in ToSet(p) \cup ToSet(q)
    <2>1. CASE i <= Len(p)
        BY <1>1, <1>2, <2>1 DEF ToSet
    <2>2. CASE ~ (i <= Len(p))
        <3>1. i - Len(p) \in 1 .. Len(q) /\ Len(p) + (i - Len(p)) = i
            BY <1>1, <1>2, <2>2
        <3>2. s[i] = q[i - Len(p)]
            BY <1>2, <3>1
        <3> QED
            BY <1>1, <3>1, <3>2 DEF ToSet
    <2> QED
        BY <2>1, <2>2
<1>4. ASSUME NEW i \in DOMAIN p PROVE p[i] \in ToSet(s)
    <2>1. i \in DOMAIN s /\ s[i] = p[i]
        BY <1>1, <1>2
    <2> QED
        BY <2>1 DEF ToSet
<1>5. ASSUME NEW i \in DOMAIN q PROVE q[i] \in ToSet(s)
    <2>1. Len(p) + i \in DOMAIN s /\ s[Len(p) + i] = q[i]
        BY <1>1, <1>2
    <2> QED
        BY <2>1 DEF ToSet
<1>6. ToSet(s) = ToSet(p) \cup ToSet(q)
    BY <1>3, <1>4, <1>5 DEF ToSet
<1> QED
    BY <1>1, <1>6 DEF s

\* What is in sequences flattened is what is in each of them.
LEMMA ElementsFlattened ==
    ASSUME NEW n \in Nat, NEW T, NEW seqs \in [1 .. n -> Seq(T)]
    PROVE  /\ FlattenSeq(seqs) \in Seq(T)
           /\ ToSet(FlattenSeq(seqs)) = UNION {ToSet(seqs[i]) : i \in 1 .. n}
<1> DEFINE Of(k) == UNION {ToSet(seqs[i]) : i \in 1 .. k}
           S == [k \in 0 .. n |-> {x \in Seq(T) : ToSet(x) = Of(k)}]
<1>1. << >> \in S[0]
    <2>1. << >> \in Seq(T) /\ ToSet(<< >>) = {} /\ 1 .. 0 = {}
        BY DEF ToSet
    <2> QED
        BY <2>1
<1>2. ASSUME NEW k \in 1 .. n, NEW x \in S[k - 1] PROVE x \o seqs[k] \in S[k]
    <2>1. x \in Seq(T) /\ ToSet(x) = Of(k - 1) /\ seqs[k] \in Seq(T)
        OBVIOUS
    <2>2. x \o seqs[k] \in Seq(T) /\ ToSet(x \o seqs[k]) = ToSet(x) \cup ToSet(seqs[k])
        BY <2>1, ElementsJoin
    <2>3. Of(k) = Of(k - 1) \cup ToSet(seqs[k])
        <3>1. 1 .. k = (1 .. k - 1) \cup {k}
            OBVIOUS
        <3> QED
            BY <3>1
    <2> QED
        BY <2>1, <2>2, <2>3, SMTT(60)
<1>3. FlattenSeq(seqs) \in S[n]
    <2> HIDE DEF S
    <2> QED
        BY <1>1, <1>2, FlattenStepwise
<1> QED
    BY <1>3

\* The names that operations of one kind give, and the nodes that are dropped.
Named(P, op) == {rec.name : rec \in {rec \in P : rec.op = op}}
DroppedBy(P) == {rec.node : rec \in {rec \in P : rec.op = "DROP_NODE"}}

OnlyOps(p, ops) == \A rec \in ToSet(p) : rec.op \in ops
NoDrops(p) == \A rec \in ToSet(p) : rec.op # "DROP_NODE"
DropsLast(p) ==
    \A i, j \in DOMAIN p : i < j /\ p[i].op = "DROP_NODE" => p[j].op = "DROP_NODE"

LEMMA DropsStayLast ==
    ASSUME NEW T, NEW p \in Seq(T), NEW q \in Seq(T), DropsLast(p),
           OnlyOps(q, {"DROP_NODE"}) \/ (NoDrops(p) /\ NoDrops(q))
    PROVE  DropsLast(p \o q)
<1> DEFINE s == p \o q
<1>1. /\ Len(p) \in Nat /\ Len(q) \in Nat
      /\ DOMAIN p = 1 .. Len(p) /\ DOMAIN q = 1 .. Len(q)
      /\ DOMAIN s = 1 .. Len(p) + Len(q)
      /\ \A i \in 1 .. Len(p) : s[i] = p[i]
      /\ \A i \in 1 .. Len(q) : s[Len(p) + i] = q[i]
    BY BothParts, LenProperties
<1>2. s \in Seq(T) /\ ToSet(s) = ToSet(p) \cup ToSet(q)
    BY ElementsJoin
<1> HIDE DEF s
<1>3. CASE OnlyOps(q, {"DROP_NODE"})
    <2>1. ASSUME NEW i \in DOMAIN s, NEW j \in DOMAIN s, i < j, s[i].op = "DROP_NODE"
          PROVE  s[j].op = "DROP_NODE"
        <3>1. CASE j <= Len(p)
            <4>1. i \in DOMAIN p /\ j \in DOMAIN p /\ s[i] = p[i] /\ s[j] = p[j]
                BY <1>1, <2>1, <3>1
            <4> QED
                BY <2>1, <4>1 DEF DropsLast
        <3>2. CASE ~ (j <= Len(p))
            <4>1. j - Len(p) \in DOMAIN q /\ Len(p) + (j - Len(p)) = j
                BY <1>1, <3>2
            <4>2. s[j] = q[j - Len(p)]
                BY <1>1, <4>1
            <4>3. q[j - Len(p)] \in ToSet(q)
                BY <4>1 DEF ToSet
            <4> QED
                BY <1>3, <4>2, <4>3 DEF OnlyOps
        <3> QED
            BY <3>1, <3>2
    <2> QED
        BY <2>1 DEF DropsLast, s
<1>4. CASE NoDrops(p) /\ NoDrops(q)
    <2>1. \A i \in DOMAIN s : s[i] \in ToSet(p) \cup ToSet(q)
        BY <1>2 DEF ToSet
    <2>2. \A i \in DOMAIN s : s[i].op # "DROP_NODE"
        BY <1>4, <2>1 DEF NoDrops
    <2> QED
        BY <2>2 DEF DropsLast, s
<1> QED
    BY <1>3, <1>4

\* Where the last of the sequences hold only drops and the first hold none.
LEMMA DropsFlattenedLast ==
    ASSUME NEW n \in Nat, NEW T, NEW seqs \in [1 .. n -> Seq(T)], NEW m \in Nat,
           \A k \in 1 .. n : IF k <= m THEN NoDrops(seqs[k])
                             ELSE OnlyOps(seqs[k], {"DROP_NODE"})
    PROVE  DropsLast(FlattenSeq(seqs))
<1> DEFINE S == [k \in 0 .. n |-> {x \in Seq(T) : DropsLast(x) /\ (k <= m => NoDrops(x))}]
<1>1. << >> \in S[0]
    <2>1. << >> \in Seq(T) /\ ToSet(<< >>) = {} /\ DOMAIN << >> = {}
        BY DEF ToSet
    <2> QED
        BY <2>1 DEF DropsLast, NoDrops
<1>2. ASSUME NEW k \in 1 .. n, NEW x \in S[k - 1] PROVE x \o seqs[k] \in S[k]
    <2>1. /\ x \in Seq(T) /\ DropsLast(x) /\ (k <= m => NoDrops(x)) /\ seqs[k] \in Seq(T)
        OBVIOUS
    <2>2. x \o seqs[k] \in Seq(T) /\ ToSet(x \o seqs[k]) = ToSet(x) \cup ToSet(seqs[k])
        BY <2>1, ElementsJoin
    <2>3. DropsLast(x \o seqs[k])
        BY <2>1, DropsStayLast
    <2>4. k <= m => NoDrops(x \o seqs[k])
        BY <2>1, <2>2 DEF NoDrops
    <2> QED
        BY <2>2, <2>3, <2>4
<1>3. FlattenSeq(seqs) \in S[n]
    <2> HIDE DEF S
    <2> QED
        BY <1>1, <1>2, FlattenStepwise
<1> QED
    BY <1>3

LEMMA SetFieldsOps ==
    ASSUME NEW nc \in Changes
    PROVE  OnlyOps(set_fields(nc), {"SET_FIELD"})
<1> DEFINE fcs == nc.field_changes
           Set(fc) == [ op |-> "SET_FIELD", node |-> nc.after_id, field |-> fc.field_idx,
                        value |-> fc.after.value, type |-> fc.after.type ]
           pieces == [ k \in DOMAIN fcs |->
                         LET fc == fcs[k]
                         IN  IF fc.after.type = "Invalid" THEN << >> ELSE << Set(fc) >> ]
           Sets == {Set(fc) : fc \in FieldChanges}
<1>1. fcs \in Seq(FieldChanges)
    BY DEF Changes
<1>2. DOMAIN fcs = 1 .. Len(fcs) /\ Len(fcs) \in Nat /\ \A k \in DOMAIN fcs : fcs[k] \in FieldChanges
    BY <1>1
<1>3. \A rec \in Sets : rec.op = "SET_FIELD"
    OBVIOUS
<1>4. \A fc \in FieldChanges : Set(fc) \in Sets
    OBVIOUS
<1>5. set_fields(nc) = FlattenSeq(pieces)
    BY DEF set_fields
<1> HIDE DEF Set, fcs, Sets
<1>6. pieces \in [1 .. Len(fcs) -> Seq(Sets)]
    <2>1. \A rec \in Sets : << rec >> \in Seq(Sets)
        OBVIOUS
    <2>2. << >> \in Seq(Sets)
        OBVIOUS
    <2> QED
        BY <1>2, <1>4, <2>1, <2>2
<1> HIDE DEF pieces
<1>7. FlattenSeq(pieces) \in Seq(Sets)
    BY <1>2, <1>6, ElementsFlattened
<1>8. ToSet(FlattenSeq(pieces)) \subseteq Sets
    BY <1>7 DEF ToSet
<1> QED
    BY <1>3, <1>5, <1>8 DEF OnlyOps

LEMMA GroupOps ==
    ASSUME NEW nc \in Changes
    PROVE  /\ OnlyOps(group(nc), {"BEGIN_GROUP", "ADD_CHILD", "END_GROUP"})
           /\ Named(ToSet(group(nc)), "ADD_CHILD") = ToSet(nc.children_added)
<1> DEFINE cs == nc.children_added
           first == [op |-> "BEGIN_GROUP", name |-> nc.name, hint |-> Len(cs)]
           Add(a) == [op |-> "ADD_CHILD", name |-> a]
           adds == [k \in DOMAIN cs |-> Add(cs[k])]
           last == [op |-> "END_GROUP"]
<1>1. cs \in Seq(Atoms) /\ Len(cs) \in Nat /\ DOMAIN cs = 1 .. Len(cs)
    BY LenProperties DEF Changes
<1>2. CASE cs = << >>
    <2>1. ToSet(group(nc)) = {} /\ ToSet(cs) = {}
        BY <1>2 DEF group, ToSet
    <2> QED
        BY <2>1 DEF Named, OnlyOps
<1>3. CASE cs # << >>
    <2>1. group(nc) = << first >> \o adds \o << last >>
        BY <1>3 DEF group
    <2> DEFINE T == {first, last} \cup {Add(a) : a \in Atoms}
    <2>2. << first >> \in Seq(T) /\ << last >> \in Seq(T) /\ adds \in Seq(T)
        <3>1. \A k \in DOMAIN cs : Add(cs[k]) \in T
            BY <1>1
        <3>2. first \in T /\ last \in T
            OBVIOUS
        <3> HIDE DEF T, cs, first, last, Add
        <3> QED
            BY <1>1, <3>1, <3>2
    <2>3. /\ ToSet(adds) = {Add(cs[k]) : k \in DOMAIN cs}
          /\ ToSet(<< first >>) = {first} /\ ToSet(<< last >>) = {last}
        <3> HIDE DEF cs, first, last, Add
        <3> QED
            BY DEF ToSet
    <2>4. first.op = "BEGIN_GROUP" /\ last.op = "END_GROUP"
          /\ \A a : Add(a).op = "ADD_CHILD" /\ Add(a).name = a
        OBVIOUS
    <2> HIDE DEF T, first, last, adds, Add
    <2>5. ToSet(group(nc)) = {first} \cup ToSet(adds) \cup {last}
        <3> PICK opening, ending : opening = << first >> /\ ending = << last >>
            OBVIOUS
        <3>0. \A x, y \in Seq(T) : x \o y \in Seq(T) /\ ToSet(x \o y) = ToSet(x) \cup ToSet(y)
            BY ElementsJoin
        <3>1. opening \o adds \in Seq(T) /\ ToSet(opening \o adds) = {first} \cup ToSet(adds)
            BY <2>2, <2>3, <3>0
        <3>2. ToSet((opening \o adds) \o ending) = ToSet(opening \o adds) \cup ToSet(ending)
            BY <2>2, <3>0, <3>1
        <3> QED
            BY <2>1, <2>3, <3>1, <3>2
    <2>6. Named(ToSet(group(nc)), "ADD_CHILD") = {cs[k] : k \in DOMAIN cs}
        <3>1. ASSUME NEW a \in Named(ToSet(group(nc)), "ADD_CHILD") PROVE \E k \in DOMAIN cs : a = cs[k]
            <4>1. PICK rec \in ToSet(group(nc)) : rec.op = "ADD_CHILD" /\ a = rec.name
                BY <3>1 DEF Named
            <4>2. rec \in ToSet(adds)
                BY <2>4, <2>5, <4>1
            <4> QED
                BY <2>3, <2>4, <4>1, <4>2
        <3>2. ASSUME NEW k \in DOMAIN cs PROVE cs[k] \in Named(ToSet(group(nc)), "ADD_CHILD")
            <4>1. Add(cs[k]) \in ToSet(group(nc))
                BY <2>3, <2>5
            <4> QED
                BY <2>4, <4>1 DEF Named
        <3> HIDE DEF cs
        <3> QED
            BY <3>1, <3>2
    <2>7. OnlyOps(group(nc), {"BEGIN_GROUP", "ADD_CHILD", "END_GROUP"})
        BY <2>3, <2>4, <2>5 DEF OnlyOps
    <2> QED
        BY <2>6, <2>7 DEF ToSet
<1> QED
    BY <1>2, <1>3

\* What the operations made of one change create, name and drop.
LEMMA OpsOfChange ==
    ASSUME NEW nc \in Changes,
           nc.change \in {"Removed", "Unchanged"} => nc.children_added = << >>
    PROVE  LET P == ToSet(ops_of(nc))
           IN  /\ Named(P, "NEW_NODE") = IF nc.change = "Added" THEN {nc.name} ELSE {}
               /\ Named(P, "ADD_CHILD") = ToSet(nc.children_added)
               /\ DroppedBy(P) = IF nc.change = "Removed" THEN {nc.before_id} ELSE {}
               /\ IF nc.change = "Removed" THEN OnlyOps(ops_of(nc), {"DROP_NODE"})
                  ELSE NoDrops(ops_of(nc))
<1> DEFINE P == ToSet(ops_of(nc))
           sets == set_fields(nc)
           links == group(nc)
           fresh == [op |-> "NEW_NODE", kind |-> nc.kind, name |-> nc.name]
           gone == [op |-> "DROP_NODE", node |-> nc.before_id]
<1>1. /\ sets \in Seq(PatchOps) /\ links \in Seq(PatchOps)
      /\ \A rec \in ToSet(sets) : rec.op = "SET_FIELD"
      /\ \A rec \in ToSet(links) : rec.op \in {"BEGIN_GROUP", "ADD_CHILD", "END_GROUP"}
      /\ Named(ToSet(links), "ADD_CHILD") = ToSet(nc.children_added)
    BY SetFieldsPatch, GroupPatch, SetFieldsOps, GroupOps DEF Patches, OnlyOps
<1>2. ToSet(sets \o links) = ToSet(sets) \cup ToSet(links) /\ sets \o links \in Seq(PatchOps)
    BY <1>1, ElementsJoin
<1>3. CASE nc.change = "Removed"
    <2>1. P = {gone}
        BY <1>3 DEF ops_of, ToSet
    <2>2. ToSet(nc.children_added) = {}
        BY <1>3 DEF ToSet
    <2>3. gone.op = "DROP_NODE" /\ gone.node = nc.before_id
        OBVIOUS
    <2> HIDE DEF P, gone
    <2>4. Named(P, "NEW_NODE") = {} /\ Named(P, "ADD_CHILD") = {}
        BY <2>1, <2>3 DEF Named
    <2>5. DroppedBy(P) = {nc.before_id}
        BY <2>1, <2>3 DEF DroppedBy
    <2> QED
        BY <1>3, <2>1, <2>2, <2>3, <2>4, <2>5 DEF OnlyOps, P
<1>4. CASE nc.change = "Unchanged"
    <2>1. P = {} /\ ToSet(nc.children_added) = {}
        BY <1>4 DEF ops_of, ToSet
    <2> QED
        BY <1>4, <2>1 DEF Named, DroppedBy, NoDrops
<1>5. CASE nc.change = "Modified"
    <2>1. P = ToSet(sets) \cup ToSet(links)
        BY <1>2, <1>5 DEF ops_of
    <2>2. Named(P, "ADD_CHILD") = Named(ToSet(links), "ADD_CHILD")
        BY <1>1, <2>1 DEF Named
    <2> HIDE DEF P, sets, links
    <2>3. Named(P, "NEW_NODE") = {} /\ DroppedBy(P) = {} /\ \A rec \in P : rec.op # "DROP_NODE"
        BY <1>1, <2>1 DEF Named, DroppedBy
    <2> QED
        BY <1>1, <1>5, <2>2, <2>3 DEF NoDrops, P
<1>6. CASE nc.change = "Added"
    <2>1. fresh \in PatchOps
        BY DEF PatchOps, Changes
    <2>2. fresh.op = "NEW_NODE" /\ fresh.name = nc.name
        OBVIOUS
    <2>3. P = {fresh} \cup ToSet(sets) \cup ToSet(links)
        <3>1. ops_of(nc) = (<< fresh >> \o sets) \o links
            BY <1>6 DEF ops_of
        <3> HIDE DEF fresh, sets, links
        <3> PICK one : one = << fresh >>
            OBVIOUS
        <3>2. one \in Seq(PatchOps) /\ ToSet(one) = {fresh}
            BY <2>1 DEF ToSet
        <3>0. \A x, y \in Seq(PatchOps) : /\ x \o y \in Seq(PatchOps)
                                          /\ ToSet(x \o y) = ToSet(x) \cup ToSet(y)
            BY ElementsJoin
        <3>3. one \o sets \in Seq(PatchOps) /\ ToSet(one \o sets) = {fresh} \cup ToSet(sets)
            BY <1>1, <3>0, <3>2, ZenonT(60)
        <3>4. ToSet((one \o sets) \o links) = ToSet(one \o sets) \cup ToSet(links)
            BY <1>1, <3>0, <3>3
        <3> QED
            BY <3>1, <3>3, <3>4
    <2> HIDE DEF P, sets, links, fresh
    <2>4. Named(P, "ADD_CHILD") = Named(ToSet(links), "ADD_CHILD")
        BY <1>1, <2>2, <2>3 DEF Named
    <2>5. Named(P, "NEW_NODE") = {nc.name}
        BY <1>1, <2>2, <2>3 DEF Named
    <2>6. DroppedBy(P) = {} /\ \A rec \in P : rec.op # "DROP_NODE"
        BY <1>1, <2>2, <2>3 DEF DroppedBy
    <2> QED
        BY <1>1, <1>6, <2>4, <2>5, <2>6 DEF NoDrops, P
<1>7. nc.change \in {"Added", "Removed", "Modified", "Unchanged"}
    BY DEF Changes
<1> QED
    BY <1>3, <1>4, <1>5, <1>6, <1>7

\* What the change of a name is, by the sides on which the name is alive.
LEMMA ChangeOfName ==
    ASSUME NEW t \in Tables, NEW u \in Tables, NEW a \in LiveNames(t) \cup LiveNames(u),
           NEW nc \in node_changes(t, u, a)
    PROVE  /\ nc.name = a
           /\ nc.change = "Added" <=> a \notin LiveNames(t)
           /\ nc.change = "Removed" <=> a \in LiveNames(t) \ LiveNames(u)
           /\ nc.change = "Removed" => nc.before_id = by_name(t, a)
           /\ nc.change \in {"Removed", "Unchanged"} => nc.children_added = << >>
<1>1. CASE a \notin LiveNames(t)
    <2> PICK n : n = by_name(u, a)
        OBVIOUS
    <2>1. nc \in AddedNode(u, n) /\ u[n].name = a
        BY <1>1, NamedNode DEF node_changes
    <2> DEFINE linked == [ k \in DOMAIN u[n].children |->
                             LET cn == u[u[n].children[k]].name
                             IN  IF cn = NoAtom THEN << >> ELSE << cn >> ]
               ca == FlattenSeq(linked)
    <2>2. nc.change = "Added" /\ nc.name = u[n].name
        <3>1. PICK fcs \in field_changes(NoneSet, FieldValues(u[n])) :
                  nc = [ change |-> "Added", name |-> u[n].name, kind |-> u[n].kind,
                         before_id |-> kInvalidNode, after_id |-> n, field_changes |-> fcs,
                         children_added |-> ca, children_removed |-> << >> ]
            BY <2>1 DEF AddedNode
        <3> HIDE DEF ca
        <3> QED
            BY <3>1, SMTT(60)
    <2> QED
        BY <1>1, <2>1, <2>2
<1>2. CASE a \in LiveNames(t) \ LiveNames(u)
    <2> PICK m : m = by_name(t, a)
        OBVIOUS
    <2>1. nc \in RemovedNode(t, m) /\ t[m].name = a
        BY <1>2, NamedNode DEF node_changes
    <2>2. /\ nc.change = "Removed" /\ nc.name = t[m].name /\ nc.before_id = m
          /\ nc.children_added = << >>
        BY <2>1 DEF RemovedNode
    <2> QED
        BY <1>2, <2>1, <2>2
<1>3. CASE a \in LiveNames(t) /\ a \in LiveNames(u)
    <2> PICK m, n : m = by_name(t, a) /\ n = by_name(u, a)
        OBVIOUS
    <2>1. nc \in KeptNode(t, m, u, n) /\ u[n].name = a
        BY <1>3, NamedNode DEF node_changes
    <2>2. /\ nc.change \in {"Unchanged", "Modified"} /\ nc.name = u[n].name
          /\ nc.change = "Unchanged" => nc.children_added = << >>
        BY <2>1 DEF KeptNode, KeptChange
    <2> QED
        BY <1>3, <2>1, <2>2
<1> QED
    BY <1>1, <1>2, <1>3

\* Every element of a set has its place when the set is put in some order.
LEMMA OrderCovers ==
    ASSUME NEW S, IsFiniteSet(S), NEW s, s \in SetToSeqs(S)
    PROVE  ToSet(s) = S
<1> DEFINE n == Cardinality(S)
<1>1. /\ n \in Nat /\ s \in [1 .. n -> S]
      /\ \A i, j \in 1 .. n : s[i] = s[j] => i = j
    <2>1. n \in Nat
        BY FS_CardinalityType
    <2> QED
        BY <2>1 DEF SetToSeqs
<1>2. s \in Injection(1 .. n, S)
    BY <1>1, Zenon DEF Injection, IsInjective
<1>3. Cardinality(1 .. n) = n
    BY <1>1, FS_Interval
<1>4. s \in Surjection(1 .. n, S)
    BY <1>2, <1>3, FS_Injection
<1> QED
    BY <1>1, <1>4 DEF Surjection, ToSet

\* The names that changes add as children, and what a patch for them does to
\* the names of a graph t to make them those of u.
MoreOf(d) == UNION {ToSet(d[i].children_added) : i \in DOMAIN d}

PatchFor(p, t, u, d) ==
    /\ Named(ToSet(p), "NEW_NODE") = LiveNames(u) \ LiveNames(t)
    /\ Named(ToSet(p), "ADD_CHILD") = MoreOf(d)
    /\ DroppedBy(ToSet(p)) = {by_name(t, a) : a \in LiveNames(t) \ LiveNames(u)}
    /\ DropsLast(p)

LEMMA PatchIsForItsGraphs ==
    ASSUME NEW t \in Tables, NEW u \in Tables, NEW d, d \in diff_node_graphs(t, u)
    PROVE  PatchFor(diff_to_journal(d), t, u, d) /\ MoreOf(d) \subseteq Atoms
<1> PICK o \in NameOrders(t, u) :
        /\ Len(d) = Len(o) /\ DOMAIN d = DOMAIN o
        /\ \A i \in DOMAIN o : d[i] \in node_changes(t, u, o[i])
    BY DiffIsPatch
<1> PICK n : n = Len(d)
    BY Zenon
<1> PICK kept \in SetToSeqs(LiveNames(u)) :
        \E gone \in SetToSeqs(LiveNames(t) \ LiveNames(u)) : o = kept \o gone
    BY ZenonT(60) DEF NameOrders
<1> PICK gone \in SetToSeqs(LiveNames(t) \ LiveNames(u)) : o = kept \o gone
    OBVIOUS
<1> PICK m : m = Len(kept)
    OBVIOUS
<1> DEFINE both == LiveNames(t) \cup LiveNames(u)
<1>1. /\ kept \in Seq(LiveNames(u)) /\ ToSet(kept) = LiveNames(u)
      /\ gone \in Seq(LiveNames(t) \ LiveNames(u))
      /\ ToSet(gone) = LiveNames(t) \ LiveNames(u)
    <2>1. IsFiniteSet(LiveNames(u)) /\ IsFiniteSet(LiveNames(t) \ LiveNames(u))
        BY NamesFinite, FS_Subset
    <2> QED
        BY <2>1, OrderedSet, OrderCovers
<1>2. kept \in Seq(both) /\ gone \in Seq(both)
    BY <1>1
<1>3. d \in Seq(Changes) /\ n \in Nat /\ DOMAIN d = 1 .. n /\ \A i \in 1 .. n : d[i] \in Changes
    BY DiffIsPatch, LenProperties, ElementOfSeq
<1>4. ToSet(o) = both
    BY <1>1, <1>2, ElementsJoin
<1>5. /\ m \in Nat /\ \A i \in 1 .. n : i <= m => o[i] \in LiveNames(u)
      /\ \A i \in 1 .. n : ~ (i <= m) => o[i] \in LiveNames(t) \ LiveNames(u)
    <2>1. /\ Len(kept) \in Nat /\ Len(gone) \in Nat /\ DOMAIN o = 1 .. Len(kept) + Len(gone)
          /\ \A i \in 1 .. Len(kept) : o[i] = kept[i] /\ kept[i] \in LiveNames(u)
          /\ \A i \in 1 .. Len(gone) : /\ o[Len(kept) + i] = gone[i]
                                       /\ gone[i] \in LiveNames(t) \ LiveNames(u)
        BY <1>1, <1>2, BothParts, LenProperties, ElementOfSeq
    <2>2. ASSUME NEW i \in 1 .. n, ~ (i <= m) PROVE o[i] \in LiveNames(t) \ LiveNames(u)
        <3>1. i - m \in 1 .. Len(gone) /\ m + (i - m) = i
            BY <1>3, <2>1, <2>2
        <3> QED
            BY <2>1, <3>1, ZenonT(60)
    <2>3. ASSUME NEW i \in 1 .. n, i <= m PROVE o[i] \in LiveNames(u)
        BY <2>1, <2>3
    <2> QED
        BY <2>1, <2>2, <2>3
<1> DEFINE seqs == [i \in DOMAIN d |-> ops_of(d[i])]
           P == ToSet(diff_to_journal(d))
<1>6. ASSUME NEW i \in 1 .. n
      PROVE  /\ o[i] \in both /\ d[i].name = o[i]
             /\ d[i].change = "Added" <=> o[i] \notin LiveNames(t)
             /\ d[i].change = "Removed" <=> o[i] \in LiveNames(t) \ LiveNames(u)
             /\ d[i].change = "Removed" => d[i].before_id = by_name(t, o[i])
             /\ d[i].change \in {"Removed", "Unchanged"} => d[i].children_added = << >>
    <2>1. o[i] \in both /\ d[i] \in node_changes(t, u, o[i])
        BY <1>3, <1>4 DEF ToSet
    <2> QED
        BY <2>1, ChangeOfName
<1>7. ASSUME NEW i \in 1 .. n
      PROVE  /\ Named(ToSet(seqs[i]), "NEW_NODE") =
                    IF o[i] \notin LiveNames(t) THEN {o[i]} ELSE {}
             /\ Named(ToSet(seqs[i]), "ADD_CHILD") = ToSet(d[i].children_added)
             /\ DroppedBy(ToSet(seqs[i])) =
                    IF o[i] \in LiveNames(t) \ LiveNames(u) THEN {by_name(t, o[i])} ELSE {}
             /\ IF i <= m THEN NoDrops(seqs[i]) ELSE OnlyOps(seqs[i], {"DROP_NODE"})
    <2>1. seqs[i] = ops_of(d[i]) /\ d[i] \in Changes
        BY <1>3
    <2> QED
        BY <1>5, <1>6, <2>1, OpsOfChange, SMTT(60)
<1>8. seqs \in [1 .. n -> Seq(PatchOps)]
    <2>1. \A i \in 1 .. n : ops_of(d[i]) \in Seq(PatchOps)
        BY <1>3, OpsOfPatch DEF Patches
    <2> QED
        BY <1>3, <2>1
<1>9. P = UNION {ToSet(seqs[i]) : i \in 1 .. n} /\ DropsLast(diff_to_journal(d))
    <2>1. diff_to_journal(d) = FlattenSeq(seqs)
        BY DEF diff_to_journal
    <2>2. \A i \in 1 .. n : IF i <= m THEN NoDrops(seqs[i])
                           ELSE OnlyOps(seqs[i], {"DROP_NODE"})
        BY <1>7
    <2> HIDE DEF seqs
    <2>3. ToSet(FlattenSeq(seqs)) = UNION {ToSet(seqs[i]) : i \in 1 .. n}
        <3>1. n \in Nat
            BY <1>3
        <3> QED
            BY <1>8, <3>1, ElementsFlattened
    <2>4. DropsLast(FlattenSeq(seqs))
        BY <1>3, <1>5, <1>8, <2>2, DropsFlattenedLast
    <2> QED
        BY <2>1, <2>3, <2>4
<1> HIDE DEF seqs, P
<1>10. Named(P, "NEW_NODE") = UNION {Named(ToSet(seqs[i]), "NEW_NODE") : i \in 1 .. n}
    BY <1>9 DEF Named
<1>11. Named(P, "ADD_CHILD") = UNION {Named(ToSet(seqs[i]), "ADD_CHILD") : i \in 1 .. n}
    BY <1>9 DEF Named
<1>12. DroppedBy(P) = UNION {DroppedBy(ToSet(seqs[i])) : i \in 1 .. n}
    BY <1>9 DEF DroppedBy
<1>13. \A a \in both : \E i \in 1 .. n : o[i] = a
    BY <1>3, <1>4 DEF ToSet
<1>14. Named(P, "NEW_NODE") = LiveNames(u) \ LiveNames(t)
    <2>1. ASSUME NEW a \in Named(P, "NEW_NODE") PROVE a \in LiveNames(u) \ LiveNames(t)
        <3>1. PICK i \in 1 .. n : a \in Named(ToSet(seqs[i]), "NEW_NODE")
            BY <1>10, <2>1
        <3>2. a = o[i] /\ o[i] \notin LiveNames(t)
            <4>1. Named(ToSet(seqs[i]), "NEW_NODE") =
                      IF o[i] \notin LiveNames(t) THEN {o[i]} ELSE {}
                BY <1>7
            <4> QED
                BY <3>1, <4>1
        <3>3. o[i] \in both
            BY <1>6, SMTT(60)
        <3> QED
            BY <3>2, <3>3
    <2>2. ASSUME NEW a \in LiveNames(u) \ LiveNames(t) PROVE a \in Named(P, "NEW_NODE")
        <3>1. PICK i \in 1 .. n : o[i] = a
            BY <1>13
        <3>2. a \in Named(ToSet(seqs[i]), "NEW_NODE")
            BY <1>7, <3>1
        <3> QED
            BY <1>10, <3>2
    <2> QED
        BY <2>1, <2>2
<1>15. Named(P, "ADD_CHILD") = MoreOf(d)
    <2>1. DOMAIN d = 1 .. n
        BY <1>3
    <2>2. \A i \in 1 .. n : Named(ToSet(seqs[i]), "ADD_CHILD") = ToSet(d[i].children_added)
        BY <1>7
    <2> QED
        BY <1>11, <2>1, <2>2, ZenonT(60) DEF MoreOf
<1>16. DroppedBy(P) = {by_name(t, a) : a \in LiveNames(t) \ LiveNames(u)}
    <2>1. ASSUME NEW x \in DroppedBy(P)
          PROVE  \E a \in LiveNames(t) \ LiveNames(u) : x = by_name(t, a)
        <3>1. PICK i \in 1 .. n : x \in DroppedBy(ToSet(seqs[i]))
            BY <1>12, <2>1
        <3> QED
            BY <1>7, <3>1
    <2>2. ASSUME NEW a \in LiveNames(t) \ LiveNames(u) PROVE by_name(t, a) \in DroppedBy(P)
        <3>1. PICK i \in 1 .. n : o[i] = a
            BY <1>13
        <3>2. by_name(t, a) \in DroppedBy(ToSet(seqs[i]))
            BY <1>7, <3>1
        <3> QED
            BY <1>12, <3>2
    <2> QED
        BY <2>1, <2>2
<1>17. MoreOf(d) \subseteq Atoms
    <2>1. \A i \in 1 .. n : d[i].children_added \in Seq(Atoms)
        BY <1>3 DEF Changes
    <2> QED
        BY <1>3, <2>1 DEF MoreOf, ToSet
<1> QED
    BY <1>9, <1>14, <1>15, <1>16, <1>17 DEF PatchFor, P

-----------------------------------------------------------------------------
(* What operations do to the names of a table *)

SameNames(t, u) ==
    DOMAIN u = DOMAIN t /\ \A m \in DOMAIN t : SameNameAndLife(u[m], t[m])

NameJoins(t, u, n, a) ==
    /\ n \notin DOMAIN t /\ DOMAIN u = DOMAIN t \cup {n}
    /\ \A m \in DOMAIN t : SameNameAndLife(u[m], t[m])
    /\ u[n].name = a /\ u[n].alive

NodeGoes(t, u, n) ==
    /\ n \in DOMAIN t /\ t[n].alive /\ DOMAIN u = DOMAIN t
    /\ \A m \in DOMAIN t : u[m].name = t[m].name
    /\ \A m \in DOMAIN t : u[m].alive = (m # n /\ t[m].alive)

LEMMA NamesRemain ==
    ASSUME NEW t, NEW u, SameNames(t, u)
    PROVE  NamedLive(u) = NamedLive(t) /\ LiveNames(u) = LiveNames(t)
<1>1. NamedLive(u) = NamedLive(t)
    BY DEF SameNames, SameNameAndLife, NamedLive
<1>2. \A n \in NamedLive(t) : u[n].name = t[n].name
    BY DEF SameNames, SameNameAndLife, NamedLive
<1> QED
    BY <1>1, <1>2 DEF LiveNames

LEMMA NamesJoined ==
    ASSUME NEW t, NEW u, NEW n, NEW a \in Atoms, NameJoins(t, u, n, a)
    PROVE  /\ NamedLive(u) = NamedLive(t) \cup {n}
           /\ LiveNames(u) = LiveNames(t) \cup {a}
<1>1. NamedLive(u) = NamedLive(t) \cup {n}
    BY DEF NameJoins, SameNameAndLife, NamedLive
<1>2. u[n].name = a /\ \A m \in NamedLive(t) : u[m].name = t[m].name
    BY DEF NameJoins, SameNameAndLife, NamedLive
<1> QED
    BY <1>1, <1>2 DEF LiveNames

LEMMA NodeGone ==
    ASSUME NEW t, NEW u, NEW n, NodeGoes(t, u, n)
    PROVE  NamedLive(u) = NamedLive(t) \ {n}
BY DEF NodeGoes, NamedLive

\* How far a table t with its name index has followed a patch from b: which
\* nodes of b are left, what the others are called, what the operations named
\* so far have become, and that every name of b is bound until the first drop.
Following(b, want, t, index, made, dropped, pending) ==
    /\ \A n \in NamedLive(b) : /\ n \in DOMAIN t /\ t[n].name = b[n].name
                               /\ t[n].alive <=> n \notin dropped
    /\ \A n \in NamedLive(t) \ NamedLive(b) : t[n].name \in want \ LiveNames(b)
    /\ made \ LiveNames(b) \subseteq LiveNames(t) \cup pending
    /\ dropped = {} => \A a \in LiveNames(b) : index[a] # kInvalidNode
    /\ pending \subseteq want

LEMMA FollowsFirst ==
    ASSUME NEW b, NEW want, NEW index, \A a \in LiveNames(b) : index[a] # kInvalidNode
    PROVE  Following(b, want, b, index, {}, {}, {})
BY DEF Following, NamedLive

LEMMA FollowsSame ==
    ASSUME NEW b, NEW want, NEW t, NEW u, NEW index, NEW made, NEW dropped, NEW pending,
           Following(b, want, t, index, made, dropped, pending),
           NEW more, NEW rest, SameNames(t, u),
           more \subseteq made \cup rest, rest \subseteq want,
           pending \subseteq rest \cup LiveNames(t)
    PROVE  Following(b, want, u, index, more, dropped, rest)
<1>1. NamedLive(u) = NamedLive(t) /\ LiveNames(u) = LiveNames(t) /\ DOMAIN u = DOMAIN t
    BY NamesRemain DEF SameNames
<1>2. \A n \in DOMAIN t : u[n].name = t[n].name /\ u[n].alive = t[n].alive
    BY DEF SameNames, SameNameAndLife
<1>3. ASSUME NEW n \in NamedLive(b)
      PROVE  n \in DOMAIN u /\ u[n].name = b[n].name /\ (u[n].alive <=> n \notin dropped)
    BY <1>1, <1>2 DEF Following
<1>4. ASSUME NEW n \in NamedLive(u) \ NamedLive(b) PROVE u[n].name \in want \ LiveNames(b)
    BY <1>1, <1>2 DEF Following, NamedLive
<1>5. more \ LiveNames(b) \subseteq LiveNames(u) \cup rest
    BY <1>1 DEF Following
<1> QED
    BY <1>3, <1>4, <1>5 DEF Following

LEMMA FollowsJoined ==
    ASSUME NEW b, NEW want, NEW t, NEW u, NEW index, NEW made, NEW dropped, NEW pending,
           Following(b, want, t, index, made, dropped, pending),
           NEW bound, NEW more, NEW rest, NEW n, NEW a, NameJoins(t, u, n, a),
           a \in Atoms, a \in want \ LiveNames(b),
           more \subseteq made \cup {a}, rest \subseteq want, pending \subseteq rest \cup {a},
           \A x \in LiveNames(b) : index[x] # kInvalidNode => bound[x] # kInvalidNode
    PROVE  Following(b, want, u, bound, more, dropped, rest)
<1>1. NamedLive(u) = NamedLive(t) \cup {n} /\ LiveNames(u) = LiveNames(t) \cup {a}
    BY NamesJoined
<1>2. /\ DOMAIN u = DOMAIN t \cup {n} /\ u[n].name = a
      /\ \A m \in DOMAIN t : u[m].name = t[m].name /\ u[m].alive = t[m].alive
    BY DEF NameJoins, SameNameAndLife
<1>3. ASSUME NEW m \in NamedLive(b)
      PROVE  m \in DOMAIN u /\ u[m].name = b[m].name /\ (u[m].alive <=> m \notin dropped)
    BY <1>2 DEF Following
<1>4. ASSUME NEW m \in NamedLive(u) \ NamedLive(b) PROVE u[m].name \in want \ LiveNames(b)
    BY <1>1, <1>2 DEF Following, NamedLive
<1>5. more \ LiveNames(b) \subseteq LiveNames(u) \cup rest
    BY <1>1 DEF Following
<1>6. dropped = {} => \A x \in LiveNames(b) : bound[x] # kInvalidNode
    BY DEF Following
<1> QED
    BY <1>3, <1>4, <1>5, <1>6 DEF Following

LEMMA FollowsDropped ==
    ASSUME NEW b, NEW want, NEW t, NEW u, NEW index, NEW made, NEW dropped, NEW pending,
           Following(b, want, t, index, made, dropped, pending),
           NEW bound, NEW n \in NamedLive(b), NodeGoes(t, u, n)
    PROVE  Following(b, want, u, bound, made, dropped \cup {n}, pending)
<1>1. NamedLive(u) = NamedLive(t) \ {n}
    BY NodeGone
<1>2. /\ DOMAIN u = DOMAIN t
      /\ \A m \in DOMAIN t : u[m].name = t[m].name /\ u[m].alive = (m # n /\ t[m].alive)
    BY DEF NodeGoes
<1>3. ASSUME NEW m \in NamedLive(b)
      PROVE  /\ m \in DOMAIN u /\ u[m].name = b[m].name
             /\ u[m].alive <=> m \notin dropped \cup {n}
    BY <1>2 DEF Following
<1>4. ASSUME NEW m \in NamedLive(u) \ NamedLive(b) PROVE u[m].name \in want \ LiveNames(b)
    BY <1>1, <1>2 DEF Following, NamedLive
<1>5. ASSUME NEW a \in made \ LiveNames(b) PROVE a \in LiveNames(u) \cup pending
    <2>1. CASE a \in LiveNames(t)
        <3>1. PICK m \in NamedLive(t) : t[m].name = a
            BY <2>1 DEF LiveNames
        <3>2. t[n].name = b[n].name /\ b[n].name \in LiveNames(b)
            BY DEF Following, LiveNames
        <3>3. m # n
            BY <3>1, <3>2
        <3>4. m \in NamedLive(u) /\ u[m].name = a
            BY <1>1, <1>2, <3>1, <3>3 DEF NamedLive
        <3> QED
            BY <3>4 DEF LiveNames
    <2> QED
        BY <2>1 DEF Following
<1> QED
    BY <1>3, <1>4, <1>5 DEF Following

\* What the table has become when the patch is at its end.
LEMMA FollowsToTheEnd ==
    ASSUME NEW b \in Tables, NEW u \in Tables, NEW t, NEW index, NEW made, NEW more,
           Following(b, LiveNames(u) \cup more, t, index, made,
                     {by_name(b, a) : a \in LiveNames(b) \ LiveNames(u)}, {}),
           made = (LiveNames(u) \ LiveNames(b)) \cup more, Distinct(b)
    PROVE  LiveNames(t) = LiveNames(u) \cup (more \ LiveNames(b))
<1> DEFINE gone == {by_name(b, a) : a \in LiveNames(b) \ LiveNames(u)}
<1>1. \A n \in NamedLive(b) : /\ n \in DOMAIN t /\ t[n].name = b[n].name
                              /\ t[n].alive <=> n \notin gone
    BY DEF Following
<1>2. \A n \in NamedLive(t) \ NamedLive(b) :
          t[n].name \in (LiveNames(u) \cup more) \ LiveNames(b)
    BY DEF Following
<1>3. made \ LiveNames(b) \subseteq LiveNames(t)
    BY DEF Following
<1>4. \A a \in LiveNames(b) : by_name(b, a) \in NamedLive(b) /\ b[by_name(b, a)].name = a
    BY NamedNode
<1>5. ASSUME NEW n \in NamedLive(b) PROVE n \in gone <=> b[n].name \notin LiveNames(u)
    <2>1. b[n].name \in LiveNames(b)
        BY DEF LiveNames
    <2>2. by_name(b, b[n].name) = n
        BY <1>4, <2>1 DEF Distinct
    <2>3. ASSUME n \in gone PROVE b[n].name \notin LiveNames(u)
        <3>1. PICK a \in LiveNames(b) \ LiveNames(u) : n = by_name(b, a)
            BY <2>3
        <3> QED
            BY <1>4, <3>1
    <2> QED
        BY <2>1, <2>2, <2>3
<1> HIDE DEF gone
<1>6. ASSUME NEW a \in LiveNames(t) PROVE a \in LiveNames(u) \cup (more \ LiveNames(b))
    <2>1. PICK n \in NamedLive(t) : t[n].name = a
        BY DEF LiveNames
    <2>2. CASE n \in NamedLive(b)
        BY <1>1, <1>5, <2>1, <2>2 DEF NamedLive
    <2>3. CASE n \notin NamedLive(b)
        BY <1>2, <2>1, <2>3
    <2> QED
        BY <2>2, <2>3
<1>7. ASSUME NEW a \in LiveNames(u), a \in LiveNames(b) PROVE a \in LiveNames(t)
    <2>1. PICK n \in NamedLive(b) : b[n].name = a
        BY <1>7 DEF LiveNames
    <2>2. t[n].alive /\ t[n].name = a /\ n \in DOMAIN t /\ a \in Atoms
        BY <1>1, <1>5, <1>7, <2>1 DEF NamedLive
    <2>3. n \in NamedLive(t)
        BY <2>2 DEF NamedLive
    <2> QED
        BY <2>2, <2>3 DEF LiveNames
<1> QED
    BY <1>3, <1>6, <1>7

\* Where the name index answers, it answers with a live node of that name.
Answers(t, index) ==
    \A a \in Atoms : index[a] # kInvalidNode =>
        index[a] \in NamedLive(t) /\ t[index[a]].name = a

\* do_drop_node: a name is unbound only if this very node still holds it.
Unbinding(n) ==
    [ a \in Atoms |-> IF a = nodes[n].name /\ name_index[a] = n
                      THEN kInvalidNode ELSE name_index[a] ]

NamesStay == SameNames(nodes, nodes') /\ name_index' = name_index
NameIsAdded(a) ==
    /\ a \in Names /\ NameJoins(nodes, nodes', Len(nodes) + 1, a)
    /\ name_index' = register_name(a, Len(nodes) + 1)
NodeIsDropped(n) == NodeGoes(nodes, nodes', n) /\ name_index' = Unbinding(n)

LEMMA NewNodeNames ==
    ASSUME TypeOK, NEW kind, NEW name, NewNode(kind, name)
    PROVE  NameIsAdded(name)
<1> DEFINE fresh == NewNodeRecord(kind, name, FALSE, NoFields)
<1>1. /\ fresh \in NodeRecord /\ name \in Names
      /\ fresh.name = name /\ fresh.alive
    BY FreshNodeTyped DEF NewNode, KindOperands, NewNodeRecord
<1>2. /\ nodes' = Append(nodes, fresh)
      /\ name_index' = register_name(name, Len(nodes) + 1)
    BY DEF NewNode
<1> HIDE DEF fresh
<1>3. /\ DOMAIN nodes' = DOMAIN nodes \cup {Len(nodes) + 1}
      /\ \A m \in DOMAIN nodes : nodes'[m] = nodes[m]
      /\ nodes'[Len(nodes) + 1] = fresh
    BY <1>1, <1>2, TableAppend DEF TypeOK
<1>4. Len(nodes) + 1 \notin DOMAIN nodes
    BY NodesFinite
<1> QED
    BY <1>1, <1>2, <1>3, <1>4 DEF NameIsAdded, NameJoins, SameNameAndLife

LEMMA DropNodeNames ==
    ASSUME TypeOK, NEW n, DropNode(n)
    PROVE  /\ n \in DOMAIN nodes
           /\ \/ ~ nodes[n].alive /\ NamesStay
              \/ NodeIsDropped(n)
<1>1. n \in DOMAIN nodes /\ nodes[n] \in NodeRecord
    BY NodesFinite DEF DropNode, InRange
<1>2. CASE ~ nodes[n].alive
    BY <1>1, <1>2 DEF DropNode, NamesStay, SameNames, SameNameAndLife
<1>3. CASE nodes[n].alive
    <2>1. /\ nodes' = [nodes EXCEPT ![n] = Dropped(nodes[n])]
          /\ name_index' = Unbinding(n)
        BY <1>3 DEF DropNode, Unbinding
    <2>2. Dropped(nodes[n]).name = nodes[n].name /\ Dropped(nodes[n]).alive = FALSE
        BY <1>1 DEF Dropped, NodeRecord
    <2>3. DOMAIN nodes' = DOMAIN nodes /\ \A m \in DOMAIN nodes :
              nodes'[m] = IF m = n THEN Dropped(nodes[n]) ELSE nodes[m]
        BY <1>1, <2>1
    <2>4. \A m \in DOMAIN nodes : nodes[m].alive \in BOOLEAN
        BY NodesFinite DEF NodeRecord
    <2>5. \A m \in DOMAIN nodes : nodes'[m].name = nodes[m].name
        BY <2>2, <2>3
    <2>6. \A m \in DOMAIN nodes : nodes'[m].alive = (m # n /\ nodes[m].alive)
        BY <2>2, <2>3, <2>4
    <2> QED
        BY <1>1, <1>3, <2>1, <2>3, <2>5, <2>6, SMTT(60) DEF NodeIsDropped, NodeGoes
<1> QED
    BY <1>1, <1>2, <1>3

LEMMA ResolveNames ==
    ASSUME TypeOK, ResolveChild
    PROVE  LET next == Head(closing[1].deferred)
           IN  /\ next \in Names
               /\ \/ find_named(next) # kInvalidNode /\ NamesStay
                  \/ find_named(next) = kInvalidNode /\ NameIsAdded(next)
<1> PICK next : next = Head(closing[1].deferred)
    OBVIOUS
<1>1. /\ next \in Names
      /\ \/ find_named(next) # kInvalidNode /\ LinkedExisting
         \/ Materialised(next)
    BY ResolveNextChild
<1>2. LinkedExisting => NamesStay
    BY DEF LinkedExisting, SameButLinks, NamesStay, SameNames, SameNameAndLife
<1>3. Materialised(next) => find_named(next) = kInvalidNode /\ NameIsAdded(next)
    <2>1. Len(nodes) + 1 \notin DOMAIN nodes
        BY NodesFinite
    <2> QED
        BY <1>1, <2>1
        DEF Materialised, SameButLinks, NameIsAdded, NameJoins, SameNameAndLife, NewNodeRecord
<1> QED
    BY <1>1, <1>2, <1>3

\* The other operations add no node and drop none.
LEMMA OthersKeepNames ==
    ASSUME TypeOK,
           \/ UNCHANGED vars \/ Rejection \/ EndGroup \/ CloseGroup \/ Nop
           \/ \E n : \E f \in Fields, v \in StoredValues : SetField(n, f, v)
           \/ \E n \in NodeOperands, f \in Fields : \E name : LinkRef(n, f, name)
           \/ \E name : \E hint \in Nat : BeginGroup(name, hint)
           \/ \E name : AddChild(name)
           \/ \E label : Snapshot(label)
           \/ \E key, value : SetMeta(key, value)
    PROVE  NamesStay
<1>1. UNCHANGED << nodes, name_index >> => NamesStay
    BY SMTT(60) DEF NamesStay, SameNames, SameNameAndLife
<1>2. \/ UNCHANGED vars \/ Rejection \/ EndGroup \/ CloseGroup \/ Nop
      \/ \E name : \E hint \in Nat : BeginGroup(name, hint)
      \/ \E name : AddChild(name)
      \/ \E label : Snapshot(label)
      \/ \E key, value : SetMeta(key, value)
      => UNCHANGED << nodes, name_index >>
    BY DEF vars, Rejection, End, graph, EndGroup, CloseGroup, Nop, BeginGroup, AddChild,
           Snapshot, SetMeta
<1>3. ASSUME NEW n, NEW f \in Fields, NEW v \in StoredValues, SetField(n, f, v)
      PROVE  NamesStay
    <2>1. n \in DOMAIN nodes /\ name_index' = name_index
          /\ nodes' = [nodes EXCEPT ![n] = WithField(nodes[n], f, v, InTable(v))]
        BY <1>3 DEF SetField, InRange
    <2> QED
        BY <2>1, FieldsKeepNames DEF NamesStay, SameNames
<1>4. ASSUME NEW n, NEW f \in Fields, NEW name, LinkRef(n, f, name) PROVE NamesStay
    <2> DEFINE target == find_named(name)
    <2>1. n \in DOMAIN nodes /\ name_index' = name_index
          /\ \/ UNCHANGED nodes
             \/ nodes' = [nodes EXCEPT ![n] = WithField(nodes[n], f, {target}, {target})]
        BY <1>4 DEF LinkRef, InRange
    <2> QED
        BY <1>1, <2>1, FieldsKeepNames DEF NamesStay, SameNames
<1> QED
    BY <1>1, <1>2, <1>3, <1>4

LEMMA AnswersInit == Init => Answers(nodes, name_index)
<1> SUFFICES ASSUME Init, NEW a \in Atoms, name_index[a] # kInvalidNode
             PROVE  name_index[a] \in NamedLive(nodes) /\ nodes[name_index[a]].name = a
    BY DEF Answers
<1>1. name_index[a] \in DOMAIN nodes
    BY InitTyped, NodesFinite DEF TypeOK, kInvalidNode
<1>2. nodes[name_index[a]].name = a /\ nodes[name_index[a]].alive
    BY NameIndexInit DEF NameIndexIsNewestLive
<1> QED
    BY <1>1, <1>2 DEF NamedLive

LEMMA AnswersOp == TypeOK /\ Answers(nodes, name_index) /\ OpCases => Answers(nodes, name_index)'
<1> SUFFICES ASSUME TypeOK, Answers(nodes, name_index), OpCases
             PROVE  Answers(nodes', name_index')
    BY DEF Answers
<1>1. CASE NamesStay
    <2>1. NamedLive(nodes') = NamedLive(nodes) /\ name_index' = name_index
        BY <1>1, NamesRemain DEF NamesStay
    <2>2. \A n \in NamedLive(nodes) : nodes'[n].name = nodes[n].name
        BY <1>1 DEF NamesStay, SameNames, SameNameAndLife, NamedLive
    <2> QED
        BY <2>1, <2>2 DEF Answers
<1>2. ASSUME NEW a, NameIsAdded(a) PROVE Answers(nodes', name_index')
    <2> PICK n : n = Len(nodes) + 1
        OBVIOUS
    <2>1. /\ DOMAIN nodes' = DOMAIN nodes \cup {n} /\ nodes'[n].name = a /\ nodes'[n].alive
          /\ \A m \in DOMAIN nodes : SameNameAndLife(nodes'[m], nodes[m])
          /\ name_index' = register_name(a, n)
        BY <1>2 DEF NameIsAdded, NameJoins
    <2>2. ASSUME NEW x \in Atoms, name_index'[x] # kInvalidNode
          PROVE  name_index'[x] \in NamedLive(nodes') /\ nodes'[name_index'[x]].name = x
        <3>1. CASE x = a
            <4>1. name_index'[x] = n
                BY <2>1, <3>1 DEF register_name
            <4> QED
                BY <2>1, <3>1, <4>1 DEF NamedLive
        <3>2. CASE x # a
            <4> PICK m : m = name_index[x]
                OBVIOUS
            <4>1. name_index'[x] = m
                BY <2>1, <3>2 DEF register_name
            <4>2. m \in NamedLive(nodes) /\ nodes[m].name = x
                BY <2>2, <4>1 DEF Answers
            <4> QED
                BY <2>1, <4>1, <4>2 DEF NamedLive, SameNameAndLife
        <3> QED
            BY <3>1, <3>2
    <2> QED
        BY <2>2 DEF Answers
<1>3. ASSUME NEW n, NodeIsDropped(n) PROVE Answers(nodes', name_index')
    <2> PICK u : u = nodes'
        OBVIOUS
    <2>1. NamedLive(u) = NamedLive(nodes) \ {n}
        BY <1>3, NodeGone, SMTT(60) DEF NodeIsDropped
    <2>2. ASSUME NEW x \in Atoms, name_index'[x] # kInvalidNode
          PROVE  name_index'[x] \in NamedLive(nodes') /\ nodes'[name_index'[x]].name = x
        <3> PICK m : m = name_index[x]
            OBVIOUS
        <3>1. name_index'[x] = IF x = nodes[n].name /\ m = n THEN kInvalidNode ELSE m
            BY <1>3 DEF NodeIsDropped, Unbinding
        <3>2. name_index'[x] = m /\ m \in NamedLive(nodes) /\ nodes[m].name = x
            BY <2>2, <3>1 DEF Answers
        <3>3. m # n
            BY <2>2, <3>1, <3>2
        <3>4. nodes'[m].name = nodes[m].name
            BY <1>3, <3>2 DEF NodeIsDropped, NodeGoes, NamedLive
        <3> QED
            BY <2>1, <3>2, <3>3, <3>4
    <2> QED
        BY <2>2 DEF Answers
<1>4. ASSUME NEW kind, NEW name, NewNode(kind, name) PROVE \E a : NameIsAdded(a)
    BY <1>4, NewNodeNames
<1>5. ASSUME NEW n, DropNode(n) PROVE NamesStay \/ NodeIsDropped(n)
    BY <1>5, DropNodeNames
<1>6. ResolveChild => NamesStay \/ \E a : NameIsAdded(a)
    BY ResolveNames
<1>7. \/ \E kind, name : NewNode(kind, name)
      \/ \E n : DropNode(n)
      \/ ResolveChild
      \/ NamesStay
    BY OthersKeepNames, Zenon DEF OpCases
<1> QED
    BY <1>1, <1>2, <1>3, <1>4, <1>5, <1>6, <1>7, SMTT(60)

-----------------------------------------------------------------------------
(* A patch that is being run *)

\* The operations that have been run, the names they gave, and the children
\* that are named and not yet linked.
Past == {patch[k] : k \in 1 .. stats.ops_executed}
Given(P) == Named(P, "NEW_NODE") \cup Named(P, "ADD_CHILD")
Waiting(fs) == UNION {ToSet(fs[i].deferred) : i \in DOMAIN fs}
Pending == Waiting(frames) \cup Waiting(closing)
Wanted == LiveNames(after) \cup MoreOf(diff)

FollowsPatch ==
    Following(before.nodes, Wanted, nodes, name_index, Given(Past), DroppedBy(Past), Pending)

\* What a patch is for, and how far the machine has come in it.
NamesPatched ==
    /\ before.nodes \in Tables /\ after \in Tables
    /\ PatchFor(patch, before.nodes, after, diff) /\ MoreOf(diff) \subseteq Atoms
    /\ closing # << >> => /\ stats.ops_executed + 1 \in DOMAIN patch
                          /\ Next_op.op = "END_GROUP"
    /\ Answering => FollowsPatch
    /\ status = "ok" => stats.ops_executed = Len(patch) /\ Outside

NamesInv ==
    /\ PatchInv
    /\ Answers(nodes, name_index)
    /\ phase = "before" => Answers(start.heap, start.names)
    /\ phase = "after" => Answers(before.nodes, before.name_index)
    /\ phase = "patching" => NamesPatched

LEMMA NamesIn ==
    ASSUME NEW P, NEW rec
    PROVE  /\ Given(P \cup {rec}) =
                IF rec.op \in {"NEW_NODE", "ADD_CHILD"} THEN Given(P) \cup {rec.name}
                ELSE Given(P)
           /\ DroppedBy(P \cup {rec}) =
                IF rec.op = "DROP_NODE" THEN DroppedBy(P) \cup {rec.node} ELSE DroppedBy(P)
<1>1. \A op : Named(P \cup {rec}, op) = Named(P, op) \cup Named({rec}, op)
    BY DEF Named
<1>2. Given(P \cup {rec}) = Given(P) \cup Given({rec})
    BY <1>1, SMTT(60) DEF Given
<1>3. Given({rec}) = IF rec.op \in {"NEW_NODE", "ADD_CHILD"} THEN {rec.name} ELSE {}
    BY DEF Given, Named
<1>4. DroppedBy(P \cup {rec}) =
          IF rec.op = "DROP_NODE" THEN DroppedBy(P) \cup {rec.node} ELSE DroppedBy(P)
    BY DEF DroppedBy
<1> QED
    BY <1>2, <1>3, <1>4

\* An operation that has been run joins the others.
LEMMA PastGrows ==
    ASSUME TypeOK, patch' = patch, stats'.ops_executed = stats.ops_executed + 1
    PROVE  Past' = Past \cup {Next_op}
<1> PICK n : n = stats.ops_executed
    OBVIOUS
<1>1. n \in Nat
    BY DEF TypeOK, ReplayStats
<1>2. 1 .. n + 1 = (1 .. n) \cup {n + 1}
    BY <1>1
<1>3. Past' = {patch[k] : k \in 1 .. n + 1}
    BY DEF Past
<1> QED
    BY <1>2, <1>3 DEF Past, Next_op

LEMMA FirstAndRest ==
    ASSUME NEW T, NEW queue \in Seq(T), queue # << >>
    PROVE  /\ Tail(queue) \in Seq(T)
           /\ ToSet(queue) = {Head(queue)} \cup ToSet(Tail(queue))
<1> PICK rest, first : rest = Tail(queue) /\ first = Head(queue)
    OBVIOUS
<1>1. /\ rest \in Seq(T) /\ Len(queue) \in Nat \ {0}
      /\ DOMAIN rest = 1 .. Len(queue) - 1 /\ DOMAIN queue = 1 .. Len(queue)
      /\ \A i \in 1 .. Len(queue) - 1 : rest[i] = queue[i + 1]
      /\ first = queue[1]
    OBVIOUS
<1>2. ASSUME NEW i \in DOMAIN queue, i # 1 PROVE queue[i] \in ToSet(rest)
    <2>1. i - 1 \in 1 .. Len(queue) - 1 /\ (i - 1) + 1 = i
        BY <1>1, <1>2
    <2>2. i - 1 \in DOMAIN rest /\ rest[i - 1] = queue[i]
        BY <1>1, <2>1
    <2> QED
        BY <2>2 DEF ToSet
<1>3. ASSUME NEW i \in DOMAIN rest PROVE rest[i] \in ToSet(queue)
    <2>1. i + 1 \in DOMAIN queue /\ rest[i] = queue[i + 1]
        BY <1>1
    <2> QED
        BY <2>1 DEF ToSet
<1>4. 1 \in DOMAIN queue /\ first \in ToSet(queue)
    BY <1>1 DEF ToSet
<1>5. ToSet(queue) \subseteq {first} \cup ToSet(rest)
    BY <1>1, <1>2 DEF ToSet
<1>6. ToSet(rest) \subseteq ToSet(queue)
    BY <1>3 DEF ToSet
<1> QED
    BY <1>1, <1>4, <1>5, <1>6

\* Moving a table drops no child of an open group.
LEMMA WaitingMoved ==
    ASSUME NEW fs \in Seq(GroupFrame), NEW moved \in BOOLEAN
    PROVE  Waiting(AfterMove(moved, fs)) = Waiting(fs)
BY StaleFrames DEF Waiting

LEMMA WaitingAppended ==
    ASSUME NEW fs \in Seq(GroupFrame), NEW frame \in GroupFrame
    PROVE  /\ Append(fs, frame) \in Seq(GroupFrame)
           /\ Waiting(Append(fs, frame)) = Waiting(fs) \cup ToSet(frame.deferred)
<1>1. /\ Append(fs, frame) \in Seq(GroupFrame)
      /\ DOMAIN Append(fs, frame) = DOMAIN fs \cup {Len(fs) + 1}
      /\ \A i \in DOMAIN fs : Append(fs, frame)[i] = fs[i]
      /\ Append(fs, frame)[Len(fs) + 1] = frame
    BY AppendProperties, LenProperties
<1> PICK gs : gs = Append(fs, frame)
    OBVIOUS
<1>2. /\ DOMAIN gs = DOMAIN fs \cup {Len(fs) + 1}
      /\ \A i \in DOMAIN fs : gs[i].deferred = fs[i].deferred
      /\ gs[Len(fs) + 1].deferred = frame.deferred
    BY <1>1
<1> QED
    BY <1>1, <1>2 DEF Waiting

\* END_GROUP takes the innermost group with the children it waits for.
LEMMA WaitingPopped ==
    ASSUME TypeOK, EndGroup
    PROVE  Waiting(frames') \cup Waiting(closing') = Waiting(frames)
<1>1. /\ frames \in Seq(GroupFrame) /\ Len(frames) \in Nat /\ DOMAIN frames = 1 .. Len(frames)
      /\ Len(frames) # 0
    BY LenProperties, EmptySeq DEF EndGroup, TypeOK
<1> PICK last : last = Len(frames)
    OBVIOUS
<1>2. frames' = SubSeq(frames, 1, last - 1) /\ closing' = << frames[last] >>
    BY DEF EndGroup
<1>3. DOMAIN frames' = 1 .. last - 1 /\ \A i \in 1 .. last - 1 : frames'[i] = frames[i]
    BY <1>1, <1>2
<1>4. DOMAIN closing' = {1} /\ closing'[1] = frames[last]
    BY <1>2
<1>5. DOMAIN frames = (1 .. last - 1) \cup {last}
    BY <1>1
<1> PICK fs, cs : fs = frames' /\ cs = closing'
    OBVIOUS
<1>6. Waiting(cs) = ToSet(frames[last].deferred)
    BY <1>4 DEF Waiting
<1>7. Waiting(frames) = Waiting(fs) \cup ToSet(frames[last].deferred)
    BY <1>3, <1>5 DEF Waiting
<1> QED
    BY <1>6, <1>7

LEMMA WaitingNamed ==
    ASSUME TypeOK, NEW name, AddChild(name)
    PROVE  Waiting(frames') = Waiting(frames) \cup {name}
<1>1. /\ frames \in Seq(GroupFrame) /\ Len(frames) \in DOMAIN frames
      /\ \A i \in DOMAIN frames : frames[i] \in GroupFrame
    BY LenProperties, EmptySeq, ElementOfSeq DEF AddChild, TypeOK
<1> PICK last \in DOMAIN frames : last = Len(frames)
    BY <1>1
<1>2. frames[last].deferred \in Seq(Names) /\ name \in Names
    BY <1>1 DEF GroupFrame, AddChild
<1>3. frames' = [ frames EXCEPT ![last] =
                    [frames[last] EXCEPT !.deferred = Append(frames[last].deferred, name)] ]
    BY DEF AddChild
<1>4. [frames[last] EXCEPT !.deferred = Append(frames[last].deferred, name)].deferred
          = Append(frames[last].deferred, name)
    BY <1>1, SMTT(60) DEF GroupFrame
<1> PICK fs : fs = frames'
    OBVIOUS
<1>5. /\ DOMAIN fs = DOMAIN frames
      /\ \A i \in DOMAIN frames : i # last => fs[i].deferred = frames[i].deferred
      /\ fs[last].deferred = Append(frames[last].deferred, name)
    BY <1>3, <1>4
<1>6. ToSet(Append(frames[last].deferred, name)) = ToSet(frames[last].deferred) \cup {name}
    <2> PICK s \in Seq(Names) : s = frames[last].deferred
        BY <1>2
    <2>1. /\ DOMAIN Append(s, name) = DOMAIN s \cup {Len(s) + 1}
          /\ \A i \in DOMAIN s : Append(s, name)[i] = s[i]
          /\ Append(s, name)[Len(s) + 1] = name
        BY <1>2, AppendProperties, LenProperties
    <2> QED
        BY <2>1 DEF ToSet
<1>7. ToSet(fs[last].deferred) = ToSet(frames[last].deferred) \cup {name}
    BY <1>5, <1>6
<1> QED
    BY <1>5, <1>7, ZenonT(60) DEF Waiting

-----------------------------------------------------------------------------
(* How an operation of a patch follows it *)

\* Where only what is named, kept or awaited changes.
LEMMA StaysFollowing ==
    ASSUME TypeOK, FollowsPatch, UNCHANGED diffVars, NamesStay,
           Given(Past)' \subseteq Given(Past) \cup Pending', Pending' \subseteq Wanted,
           DroppedBy(Past)' = DroppedBy(Past), Pending \subseteq Pending' \cup LiveNames(nodes)
    PROVE  FollowsPatch'
<1> PICK b, want, t, u, index, made, more, dropped, pending, rest :
        /\ b = before.nodes /\ want = Wanted /\ t = nodes /\ u = nodes' /\ index = name_index
        /\ made = Given(Past) /\ more = Given(Past)' /\ dropped = DroppedBy(Past)
        /\ pending = Pending /\ rest = Pending'
    OBVIOUS
<1>1. Following(b, want, u, index, more, dropped, rest)
    BY FollowsSame DEF FollowsPatch, NamesStay
<1>2. before'.nodes = b /\ Wanted' = want /\ name_index' = index
    BY DEF diffVars, Wanted, NamesStay
<1> QED
    BY <1>1, <1>2 DEF FollowsPatch

\* Where a name joins that the graph the patch is for does not have.
LEMMA JoinsFollowing ==
    ASSUME TypeOK, FollowsPatch, UNCHANGED diffVars, NEW a \in Atoms, NameIsAdded(a),
           a \in Wanted \ LiveNames(before.nodes),
           Given(Past)' \subseteq Given(Past) \cup {a}, Pending' \subseteq Wanted,
           DroppedBy(Past)' = DroppedBy(Past), Pending \subseteq Pending' \cup {a}
    PROVE  FollowsPatch'
<1> PICK b, want, t, u, index, bound, made, more, dropped, pending, rest :
        /\ b = before.nodes /\ want = Wanted /\ t = nodes /\ u = nodes' /\ index = name_index
        /\ bound = name_index'
        /\ made = Given(Past) /\ more = Given(Past)' /\ dropped = DroppedBy(Past)
        /\ pending = Pending /\ rest = Pending'
    OBVIOUS
<1> PICK n : n = Len(nodes) + 1
    OBVIOUS
<1>1. n # kInvalidNode
    BY NodesFinite DEF kInvalidNode
<1>2. bound = register_name(a, n) /\ NameJoins(t, u, n, a)
    BY DEF NameIsAdded
<1>3. ASSUME NEW x \in LiveNames(b), index[x] # kInvalidNode PROVE bound[x] # kInvalidNode
    <2>1. x \in Atoms
        BY DEF LiveNames, NamedLive
    <2> QED
        BY <1>1, <1>2, <1>3, <2>1 DEF register_name
<1>4. Following(b, want, u, bound, more, dropped, rest)
    BY <1>2, <1>3, FollowsJoined DEF FollowsPatch
<1>5. before'.nodes = b /\ Wanted' = want
    BY DEF diffVars, Wanted
<1> QED
    BY <1>4, <1>5 DEF FollowsPatch

\* Where a node goes that the patch drops.
LEMMA DropsFollowing ==
    ASSUME TypeOK, FollowsPatch, UNCHANGED diffVars,
           NEW n \in NamedLive(before.nodes), NodeIsDropped(n),
           Given(Past)' = Given(Past), Pending' = Pending,
           DroppedBy(Past)' = DroppedBy(Past) \cup {n}
    PROVE  FollowsPatch'
<1> PICK b, want, t, u, index, bound, made, dropped, pending :
        /\ b = before.nodes /\ want = Wanted /\ t = nodes /\ u = nodes' /\ index = name_index
        /\ bound = name_index'
        /\ made = Given(Past) /\ dropped = DroppedBy(Past) /\ pending = Pending
    OBVIOUS
<1>1. Following(b, want, u, bound, made, dropped \cup {n}, pending)
    BY FollowsDropped DEF FollowsPatch, NodeIsDropped
<1>2. before'.nodes = b /\ Wanted' = want
    BY DEF diffVars, Wanted
<1> QED
    BY <1>1, <1>2 DEF FollowsPatch

\* An operation is one of the patch, and what the patch is for tells its names.
LEMMA OpOfPatch ==
    ASSUME NamesPatched, PatchInv, phase = "patching", stats.ops_executed < Len(patch)
    PROVE  /\ Next_op \in PatchOps /\ Next_op \in ToSet(patch)
           /\ Next_op.op = "NEW_NODE" =>
                Next_op.name \in LiveNames(after) \ LiveNames(before.nodes)
           /\ Next_op.op = "ADD_CHILD" => Next_op.name \in MoreOf(diff)
           /\ Next_op.op = "DROP_NODE" => Next_op.node \in NamedLive(before.nodes)
<1>1. Next_op \in PatchOps /\ stats.ops_executed + 1 \in DOMAIN patch
    BY NextOpTyped DEF PatchInv, GraphsTyped
<1>2. Next_op \in ToSet(patch)
    BY <1>1 DEF Next_op, ToSet
<1>3. Next_op.op = "NEW_NODE" => Next_op.name \in Named(ToSet(patch), "NEW_NODE")
    BY <1>2 DEF Named
<1>4. Next_op.op = "ADD_CHILD" => Next_op.name \in Named(ToSet(patch), "ADD_CHILD")
    BY <1>2 DEF Named
<1>5. Next_op.op = "DROP_NODE" => Next_op.node \in DroppedBy(ToSet(patch))
    BY <1>2 DEF DroppedBy
<1>6. \A a \in LiveNames(before.nodes) : by_name(before.nodes, a) \in NamedLive(before.nodes)
    BY NamedNode DEF NamesPatched
<1>7. DroppedBy(ToSet(patch)) \subseteq NamedLive(before.nodes)
    BY <1>6 DEF NamesPatched, PatchFor
<1> QED
    BY <1>1, <1>2, <1>3, <1>4, <1>5, <1>7, SMTT(60) DEF NamesPatched, PatchFor

\* Run() takes the operations of a patch one by one.
LEMMA PatchFollows ==
    ASSUME NamesPatched, PatchInv, phase = "patching", Answering,
           stats.ops_executed < Len(patch), closing = << >>, Execute(Next_op),
           UNCHANGED diffVars
    PROVE  FollowsPatch'
<1> PICK rec : rec = Next_op
    OBVIOUS
<1>1. /\ TypeOK /\ FollowsPatch /\ patch' = patch /\ frames \in Seq(GroupFrame)
      /\ Pending \subseteq Wanted
    BY DEF PatchInv, GraphsTyped, NamesPatched, TypeOK, diffVars, FollowsPatch, Following
<1>2. Pending = Waiting(frames) /\ Waiting(<< >>) = {}
    BY DEF Pending, Waiting
<1>3. rec \in PatchOps
    BY OpOfPatch, SMTT(60)
<1>4. \/ \E kind, name : NewNode(kind, name)
      \/ \E n : DropNode(n)
      \/ \E n, f, v : SetField(n, f, v)
      \/ \E name : AddChild(name)
      => stats'.ops_executed = stats.ops_executed + 1
    BY <1>1, ZenonT(60) DEF NewNode, DropNode, SetField, AddChild, Executed, TypeOK, ReplayStats
<1>5. CASE stats'.ops_executed = stats.ops_executed
    <2>1. Past' = Past
        BY <1>1, <1>5 DEF Past
    <2> HIDE DEF Past
    <2>2. Given(Past)' = Given(Past) /\ DroppedBy(Past)' = DroppedBy(Past)
        BY <2>1 DEF Given, Named, DroppedBy
    <2>3. NamesStay /\ Pending' = Pending => FollowsPatch'
        BY <1>1, <2>2, StaysFollowing
    <2>4. CASE Rejection
        <3>1. NamesStay
            BY <1>1, <2>4, OthersKeepNames
        <3>2. Pending' = Pending
            BY <2>4 DEF Rejection, End, graph, Pending
        <3> QED
            BY <2>3, <3>1, <3>2
    <2>5. CASE EndGroup
        <3>1. NamesStay
            BY <1>1, <2>5, OthersKeepNames
        <3>2. Pending' = Pending
            BY <1>1, <1>2, <2>5, WaitingPopped DEF Pending
        <3> QED
            BY <2>3, <3>1, <3>2
    <2>6. stats.ops_executed \in Nat
        BY <1>1 DEF TypeOK, ReplayStats
    <2>7. stats' # Executed
        BY <1>1, <1>5, <2>6, SMTT(60) DEF Executed, TypeOK, ReplayStats
    <2>8. ASSUME NEW name, NEW hint, BeginGroup(name, hint) PROVE Rejection
        BY <2>7, <2>8 DEF BeginGroup, Rejection, Codes
    <2>9. stats.ops_executed # stats.ops_executed + 1
        BY <2>6
    <2> QED
        BY <1>3, <1>5, <1>4, <2>4, <2>5, <2>8, <2>9, PatchOpCases
<1>6. CASE stats'.ops_executed = stats.ops_executed + 1
    <2>1. Past' = Past \cup {rec}
        BY <1>1, <1>6, PastGrows
    <2> PICK past : past = Past
        OBVIOUS
    <2>2. Given(Past)' = Given(past \cup {rec}) /\ DroppedBy(Past)' = DroppedBy(past \cup {rec})
        BY <2>1 DEF Given, Named, DroppedBy
    <2>3. /\ Given(Past)' = IF rec.op \in {"NEW_NODE", "ADD_CHILD"} THEN Given(Past) \cup {rec.name}
                            ELSE Given(Past)
          /\ DroppedBy(Past)' = IF rec.op = "DROP_NODE" THEN DroppedBy(Past) \cup {rec.node}
                                ELSE DroppedBy(Past)
        BY <2>2, NamesIn
    <2> HIDE DEF Past
    <2>4. CASE rec.op = "NEW_NODE" /\ NewNode(rec.kind, rec.name)
        <3>1. NameIsAdded(rec.name)
            BY <1>1, <2>4, NewNodeNames
        <3>2. rec.name \in Wanted \ LiveNames(before.nodes) /\ rec.name \in Atoms
            BY <2>4, OpOfPatch DEF Wanted, LiveNames, NamedLive
        <3>3. Pending' = Pending
            <4>1. frames' = AfterMove(FullTable, frames) /\ closing' = closing
                  /\ FullTable \in BOOLEAN
                BY <2>4 DEF NewNode, FullTable
            <4> QED
                BY <1>1, <4>1, WaitingMoved DEF Pending
        <3> QED
            BY <1>1, <2>3, <2>4, <3>1, <3>2, <3>3, JoinsFollowing
    <2>5. CASE rec.op = "DROP_NODE" /\ DropNode(rec.node)
        <3>1. rec.node \in NamedLive(before.nodes)
            BY <2>5, OpOfPatch
        <3>2. Pending' = Pending
            BY <2>5 DEF DropNode, Pending
        <3>3. CASE ~ nodes[rec.node].alive /\ NamesStay
            <4>1. rec.node \in DroppedBy(Past)
                BY <1>1, <3>1, <3>3 DEF FollowsPatch, Following
            <4> QED
                BY <1>1, <2>3, <2>5, <3>2, <3>3, <4>1, StaysFollowing
        <3>4. CASE NodeIsDropped(rec.node)
            BY <1>1, <2>3, <2>5, <3>1, <3>2, <3>4, DropsFollowing
        <3> QED
            BY <1>1, <2>5, <3>3, <3>4, DropNodeNames
    <2>6. CASE /\ rec.op = "SET_FIELD" /\ rec.field \in Fields /\ rec.value \in StoredValues
               /\ SetField(rec.node, rec.field, rec.value)
        <3>1. NamesStay
            BY <1>1, <2>6, OthersKeepNames
        <3>2. Pending' = Pending
            BY <2>6 DEF SetField, Pending
        <3> QED
            BY <1>1, <2>3, <2>6, <3>1, <3>2, StaysFollowing
    <2>7. CASE rec.op = "BEGIN_GROUP" /\ rec.hint \in Nat /\ BeginGroup(rec.name, rec.hint)
        <3>1. NamesStay
            BY <1>1, <2>7, OthersKeepNames
        <3>2. Pending' = Pending
            <4> DEFINE owner == find_named(rec.name)
                       moved == Len(nodes) + rec.hint > capacity
                       opened == [ owner_id |-> owner, cached |-> TRUE,
                                   reserved |-> Len(nodes) + rec.hint, deferred |-> << >> ]
            <4>1. CASE UNCHANGED << frames, closing >>
                BY <4>1 DEF Pending
            <4>2. CASE frames' = Append(AfterMove(moved, frames), opened) /\ closing' = closing
                <5>1. moved \in BOOLEAN /\ AfterMove(moved, frames) \in Seq(GroupFrame)
                      /\ Waiting(AfterMove(moved, frames)) = Waiting(frames)
                    <6>1. moved \in BOOLEAN
                        OBVIOUS
                    <6> HIDE DEF moved
                    <6> QED
                        BY <1>1, <6>1, StaleFrames, WaitingMoved
                <5>2. opened \in GroupFrame /\ opened.deferred = << >>
                    <6>1. owner \in Nat /\ Len(nodes) \in Nat /\ << >> \in Seq(Names)
                        BY <1>1, NodesFinite, SMTT(60) DEF find_named, TypeOK, kInvalidNode
                    <6> HIDE DEF owner
                    <6> QED
                        BY <2>7, <6>1 DEF GroupFrame
                <5>3. ToSet(<< >>) = {}
                    BY DEF ToSet
                <5> HIDE DEF moved, opened
                <5> QED
                    BY <4>2, <5>1, <5>2, <5>3, WaitingAppended DEF Pending
            <4> QED
                BY <2>7, <4>1, <4>2 DEF BeginGroup, End, graph
        <3> QED
            BY <1>1, <2>3, <2>7, <3>1, <3>2, StaysFollowing
    <2>8. CASE rec.op = "ADD_CHILD" /\ AddChild(rec.name)
        <3>1. NamesStay
            BY <1>1, <2>8, OthersKeepNames
        <3>2. Pending' = Pending \cup {rec.name}
            <4>1. closing' = closing
                BY <2>8 DEF AddChild
            <4> QED
                BY <1>1, <2>8, <4>1, WaitingNamed DEF Pending
        <3>3. rec.name \in Wanted
            BY <2>8, OpOfPatch DEF Wanted
        <3> QED
            BY <1>1, <2>3, <2>8, <3>1, <3>2, <3>3, StaysFollowing
    <2>9. Rejection \/ EndGroup => stats'.ops_executed = stats.ops_executed
        BY DEF Rejection, End, graph, EndGroup
    <2>10. stats.ops_executed \in Nat
        BY <1>1 DEF TypeOK, ReplayStats
    <2> QED
        BY <1>3, <1>6, <2>4, <2>5, <2>6, <2>7, <2>8, <2>9, <2>10, PatchOpCases
<1>7. stats'.ops_executed \in {stats.ops_executed, stats.ops_executed + 1}
    <2>1. Rejection \/ EndGroup => stats'.ops_executed = stats.ops_executed
        BY DEF Rejection, End, graph, EndGroup
    <2>2. ASSUME NEW name, NEW hint, BeginGroup(name, hint)
          PROVE  stats'.ops_executed \in {stats.ops_executed, stats.ops_executed + 1}
        BY <1>1, <2>2, SMTT(60) DEF BeginGroup, End, graph, Executed, TypeOK, ReplayStats
    <2> QED
        BY <1>3, <1>4, <2>1, <2>2, PatchOpCases
<1> QED
    BY <1>5, <1>6, <1>7

\* The rest of END_GROUP: no node has been dropped yet, so that a name that is
\* not bound is none of the graph the patch is for.
LEMMA ResolveFollows ==
    ASSUME NamesPatched, PatchInv, phase = "patching", Answering,
           Answers(nodes, name_index), Resolve
    PROVE  FollowsPatch'
<1>1. /\ TypeOK /\ FollowsPatch /\ UNCHANGED diffVars /\ patch' = patch
      /\ Pending \subseteq Wanted /\ DropsLast(patch)
    BY DEF PatchInv, GraphsTyped, NamesPatched, PatchFor, Resolve, diffVars, FollowsPatch, Following
<1>2. stats.ops_executed \in Nat /\ closing # << >>
    BY <1>1 DEF Resolve, Resolving, ResolveChild, CloseGroup, TypeOK, ReplayStats
<1>3. stats.ops_executed + 1 \in DOMAIN patch /\ Next_op.op = "END_GROUP"
    BY <1>2 DEF NamesPatched
<1>4. ClosingOne
    BY <1>2 DEF PatchInv, Outside, Inside
<1>5. /\ DOMAIN closing = {1} /\ frames = << >> /\ closing \in Seq(GroupFrame)
      /\ closing[1].deferred \in Seq(Names)
    <2>1. closing \in Seq(GroupFrame) /\ Len(closing) = 1 /\ frames = << >>
        BY <1>1, <1>4 DEF ClosingOne, TypeOK
    <2>2. DOMAIN closing = {1}
        BY <2>1
    <2>3. closing[1] \in GroupFrame
        BY <2>1, <2>2, ElementOfSeq
    <2> QED
        BY <2>1, <2>2, <2>3 DEF GroupFrame
<1> PICK queue \in Seq(Names) : queue = closing[1].deferred
    BY <1>5
<1>6. Waiting(<< >>) = {} /\ Pending = ToSet(queue)
    BY <1>5 DEF Pending, Waiting
<1>7. CASE CloseGroup
    <2>1. NamesStay
        BY <1>1, <1>7, OthersKeepNames
    <2>2. frames' = << >> /\ closing' = << >> /\ queue = << >>
        BY <1>5, <1>7 DEF CloseGroup
    <2>3. Pending' = {} /\ Pending = {}
        BY <1>6, <2>2 DEF Pending, ToSet
    <2>4. stats'.ops_executed = stats.ops_executed + 1
        BY <1>1, <1>7 DEF CloseGroup, Executed, TypeOK, ReplayStats
    <2> PICK past : past = Past
        OBVIOUS
    <2>5. Past' = past \cup {Next_op}
        BY <1>1, <2>4, PastGrows
    <2>6. Given(Past)' = Given(past \cup {Next_op}) /\ DroppedBy(Past)' = DroppedBy(past \cup {Next_op})
        BY <2>5 DEF Given, Named, DroppedBy
    <2>7. Given(Past)' = Given(past) /\ DroppedBy(Past)' = DroppedBy(past)
        BY <1>3, <2>6, NamesIn
    <2> QED
        BY <1>1, <2>1, <2>3, <2>7, StaysFollowing
<1>8. CASE ResolveChild
    <2> PICK t, frame, target : Turn(t, frame, target)
        BY <1>1, <1>8, ResolveIsATurn
    <2> PICK next : next = Head(queue)
        OBVIOUS
    <2>1. queue # << >> /\ Tail(queue) \in Seq(Names) /\ ToSet(queue) = {next} \cup ToSet(Tail(queue))
        <3>1. queue # << >>
            BY <1>8 DEF ResolveChild
        <3> QED
            BY <3>1, FirstAndRest
    <2>2. Pending' = ToSet(Tail(queue))
        <3>1. closing' = << frame >> /\ frame.deferred = Tail(queue)
            BY DEF Turn
        <3>2. frames' = << >>
            <4>1. << >> \in Seq(GroupFrame) /\ FullTable \in BOOLEAN
                BY DEF FullTable
            <4>2. Len(AfterMove(FullTable, << >>)) = Len(<< >>)
                  /\ AfterMove(FullTable, << >>) \in Seq(GroupFrame)
                BY <4>1, StaleFrames
            <4>3. AfterMove(FullTable, << >>) = << >>
                BY <4>2, EmptySeq
            <4> QED
                BY <1>5, <4>3 DEF Turn
        <3>3. DOMAIN closing' = {1} /\ closing'[1] = frame
            BY <3>1
        <3> QED
            BY <1>6, <3>1, <3>2, <3>3 DEF Pending, Waiting
    <2>3. next \in Wanted /\ next \in Atoms /\ Pending' \subseteq Wanted
        <3>1. Wanted \subseteq Atoms
            BY DEF Wanted, NamesPatched, LiveNames, NamedLive
        <3> QED
            BY <1>1, <1>6, <2>1, <2>2, <3>1
    <2>4. Past' = Past
        <3>1. stats'.ops_executed = stats.ops_executed
            BY <1>1, <1>8 DEF ResolveChild, TypeOK, ReplayStats
        <3> QED
            BY <1>1, <3>1, SMTT(60) DEF Past
    <2> PICK past : past = Past
        OBVIOUS
    <2>5. Given(Past)' = Given(past) /\ DroppedBy(Past)' = DroppedBy(past)
        BY <2>4 DEF Given, Named, DroppedBy
    <2>6. CASE find_named(next) # kInvalidNode /\ NamesStay
        <3>1. next \in LiveNames(nodes)
            BY <2>3, <2>6 DEF find_named, Answers, LiveNames
        <3> QED
            BY <1>1, <1>6, <2>1, <2>2, <2>3, <2>5, <2>6, <3>1, StaysFollowing
    <2>7. CASE find_named(next) = kInvalidNode /\ NameIsAdded(next)
        <3>1. DroppedBy(Past) = {}
            <4>1. ASSUME NEW rec \in Past PROVE rec.op # "DROP_NODE"
                <5>1. PICK k \in 1 .. stats.ops_executed : rec = patch[k]
                    BY DEF Past
                <5>2. patch \in Seq(PatchOps)
                    BY DEF PatchInv, Patches
                <5>3. k \in DOMAIN patch /\ k < stats.ops_executed + 1
                    BY <1>2, <1>3, <5>2
                <5> QED
                    BY <1>1, <1>3, <5>1, <5>3 DEF DropsLast, Next_op
            <4> QED
                BY <4>1 DEF DroppedBy
        <3>2. next \notin LiveNames(before.nodes)
            BY <1>1, <2>3, <2>7, <3>1 DEF FollowsPatch, Following, find_named
        <3> QED
            BY <1>1, <1>6, <2>1, <2>2, <2>3, <2>5, <2>7, <3>2, JoinsFollowing, SMTT(60)
    <2> QED
        BY <1>1, <1>8, <2>6, <2>7, ResolveNames
<1> QED
    BY <1>7, <1>8 DEF Resolve, Resolving

-----------------------------------------------------------------------------
(* Every step *)

\* Only the end of the journal is an end without an error.
LEMMA PatchEnds ==
    ASSUME NamesInv, phase = "patching", Patch, phase' = "patching"
    PROVE  NamesPatched'
<1>1. /\ TypeOK /\ PatchInv /\ NamesPatched /\ UNCHANGED diffVars /\ PatchInv'
      /\ closing = << >> /\ status = "running"
    BY PatchStep DEF NamesInv, PatchInv, GraphsTyped, Patch, Running, diffVars
<1>2. /\ before'.nodes = before.nodes /\ after' = after /\ patch' = patch /\ diff' = diff
      /\ Answering' = Answering
    BY <1>1 DEF diffVars, Answering
<1>3. CASE stats.ops_executed = Len(patch) /\ Finish
    <2>1. UNCHANGED graph /\ (status' = "ok" => Outside)
        BY <1>1, <1>3 DEF Finish, End, graph, Outside
    <2>2. Past' = Past /\ Pending' = Pending /\ Wanted' = Wanted
        BY <1>2, <2>1 DEF graph, Past, Pending, Wanted
    <2>3. Answering' => FollowsPatch'
        BY <1>1, <1>2, <2>1, <2>2, SMTT(60) DEF NamesPatched, FollowsPatch, graph
    <2>4. status' = "ok" => stats'.ops_executed = Len(patch') /\ Outside'
        BY <1>2, <1>3, <2>1 DEF graph, Outside
    <2>5. closing' = << >>
        BY <1>1, <2>1 DEF graph
    <2> QED
        BY <1>1, <1>2, <2>3, <2>4, <2>5, SMTT(60) DEF NamesPatched
<1>4. CASE stats.ops_executed < Len(patch) /\ Execute(Next_op)
    <2>1. Answering' => FollowsPatch'
        BY <1>1, <1>2, <1>4, PatchFollows, SMTT(60)
    <2>2. status' # "ok"
        BY <1>1, <1>4
        DEF Execute, NewNode, RejectNewNode, SetField, RejectSetField, LinkRef, RejectLinkRef,
            DropNode, RejectDropNode, BeginGroup, RejectBeginGroup, AddChild, RejectAddChild,
            EndGroup, RejectEndGroup, Snapshot, RejectSnapshot, SetMeta, RejectSetMeta, Nop,
            End
    <2>3. closing' # << >> =>
              stats'.ops_executed + 1 \in DOMAIN patch' /\ Next_op'.op = "END_GROUP"
        <3>1. Next_op \in PatchOps /\ stats.ops_executed + 1 \in DOMAIN patch
            BY <1>1, <1>4, NextOpTyped DEF PatchInv
        <3>2. EndGroup => UNCHANGED << stats, patch >>
            BY <1>2 DEF EndGroup
        <3>3. Next_op.op # "END_GROUP" => closing' = << >>
            BY <1>1, <3>1, <1>4, PatchOpCases
            DEF Rejection, End, graph, NewNode, DropNode, SetField, BeginGroup, AddChild
        <3>4. Next_op.op = "END_GROUP" => UNCHANGED << stats, patch >> \/ closing' = << >>
            BY <1>1, <1>4, <3>2, OpOfGroup DEF graph
        <3> QED
            BY <3>1, <3>3, <3>4 DEF Next_op
    <2> QED
        BY <1>1, <1>2, <2>1, <2>2, <2>3 DEF NamesPatched
<1> QED
    BY <1>3, <1>4 DEF Patch

LEMMA ResolveKeepsNames ==
    ASSUME NamesInv, phase = "patching", Resolve
    PROVE  NamesPatched'
<1>1. /\ TypeOK /\ PatchInv /\ NamesPatched /\ UNCHANGED diffVars /\ status = "running"
    BY DEF NamesInv, PatchInv, GraphsTyped, Resolve, Resolving, ResolveChild, CloseGroup
<1>2. /\ before'.nodes = before.nodes /\ after' = after /\ patch' = patch /\ diff' = diff
      /\ Answering' = Answering
    BY <1>1 DEF diffVars, Answering
<1>3. Answering' => FollowsPatch'
    BY <1>1, <1>2, ResolveFollows DEF NamesInv
<1>4. closing # << >>
    BY DEF Resolve, Resolving, ResolveChild, CloseGroup
<1>5. status' # "ok"
    BY <1>1 DEF Resolve, Resolving, ResolveChild, CloseGroup, Attach
<1>6. closing' # << >> =>
          stats'.ops_executed + 1 \in DOMAIN patch' /\ Next_op'.op = "END_GROUP"
    <2>1. CASE CloseGroup
        BY <2>1 DEF CloseGroup
    <2>2. CASE ResolveChild
        <3>1. stats'.ops_executed = stats.ops_executed
            BY <1>1, <2>2 DEF ResolveChild, TypeOK, ReplayStats
        <3> QED
            BY <1>1, <1>2, <1>4, <3>1 DEF NamesPatched, Next_op
    <2> QED
        BY <2>1, <2>2 DEF Resolve, Resolving
<1> QED
    BY <1>1, <1>2, <1>3, <1>5, <1>6 DEF NamesPatched

\* A patch begins with the graph it is for.
LEMMA TakeAfterNames ==
    ASSUME NamesInv, TakeAfter
    PROVE  NamesPatched' /\ Answers(nodes, name_index)'
<1>1. /\ GraphsTyped /\ TypeOK /\ phase = "after"
      /\ Answers(before.nodes, before.name_index)
    BY DEF NamesInv, PatchInv, GraphsTyped, TakeAfter
<1> PICK b, u, index : b = before.nodes /\ u = nodes /\ index = before.name_index
    OBVIOUS
<1>2. b \in Tables /\ u \in Tables
    <2>1. ~ undefined /\ LinksClosed /\ MachineKept(before)
        BY <1>1 DEF TakeAfter, Complete, GraphsTyped
    <2>2. Closed(nodes)
        BY <2>1, LinksClosedMeansClosed
    <2> QED
        BY <1>1, <2>1, <2>2 DEF Tables, MachineKept, GraphKept, GraphsTyped, TypeOK
<1>3. /\ before'.nodes = b /\ before'.name_index = index /\ after' = u
      /\ nodes' = b /\ name_index' = index
      /\ diff' \in diff_node_graphs(b, u) /\ patch' = diff_to_journal(diff')
      /\ frames' = << >> /\ closing' = << >> /\ status' = "running"
    BY DEF TakeAfter, Complete, Running
<1>4. PatchFor(patch', b, u, diff') /\ MoreOf(diff') \subseteq Atoms
    BY <1>2, <1>3, PatchIsForItsGraphs
<1>5. stats'.ops_executed = 0
    BY <1>1, TakeAfterTyped
<1>6. ASSUME Answering' PROVE FollowsPatch'
    <2>1. \A n \in NamedLive(b) : index[b[n].name] = n
        BY <1>3, <1>6 DEF Answering
    <2>2. \A n \in NamedLive(b) : n # kInvalidNode
        <3>1. b \in Seq(NodeRecord)
            BY <1>2 DEF Tables
        <3>2. DOMAIN b \subseteq Nat \ {0}
            BY <3>1
        <3> QED
            BY <3>2 DEF NamedLive, kInvalidNode
    <2>3. \A a \in LiveNames(b) : index[a] # kInvalidNode
        BY <2>1, <2>2 DEF LiveNames
    <2>4. Following(b, Wanted', b, index, {}, {}, {})
        BY <2>3, FollowsFirst
    <2>5. Past' = {} /\ Pending' = {}
        BY <1>3, <1>5 DEF Past, Pending, Waiting
    <2>6. Given(Past)' = {} /\ DroppedBy(Past)' = {}
        BY <2>5 DEF Given, Named, DroppedBy
    <2> QED
        BY <1>3, <2>4, <2>5, <2>6 DEF FollowsPatch
<1> QED
    BY <1>1, <1>2, <1>3, <1>4, <1>6 DEF NamesPatched, Answers

LEMMA NamesInvInit == DiffInit => NamesInv
<1> SUFFICES ASSUME DiffInit PROVE NamesInv
    OBVIOUS
<1>1. PatchInv /\ Answers(nodes, name_index)
    BY PatchInvInit, AnswersInit DEF DiffInit
<1>2. phase = "before" /\ start.heap = nodes /\ start.names = name_index
    BY DEF DiffInit
<1> QED
    BY <1>1, <1>2 DEF NamesInv

LEMMA NamesInvStep == NamesInv /\ [DiffNext]_allVars => NamesInv'
<1> SUFFICES ASSUME NamesInv, [DiffNext]_allVars PROVE NamesInv'
    OBVIOUS
<1>1. PatchInv /\ PatchInv' /\ TypeOK /\ Answers(nodes, name_index)
    BY PatchInvStep DEF NamesInv, PatchInv, GraphsTyped
<1>2. ASSUME UNCHANGED allVars PROVE NamesInv'
    <2>1. UNCHANGED << nodes, name_index, phase, start, before, after, diff, patch, stats,
                       frames, closing, status >>
        BY <1>2 DEF allVars, vars, diffVars
    <2>2. /\ Past' = Past /\ Pending' = Pending /\ Wanted' = Wanted
          /\ Answering' = Answering /\ Outside' = Outside
        BY <2>1 DEF Past, Pending, Wanted, Answering, Outside
    <2>3. FollowsPatch' = FollowsPatch
        BY <2>1, <2>2 DEF FollowsPatch
    <2>4. NamesPatched => NamesPatched'
        BY <2>1, <2>2, <2>3, SMTT(60) DEF NamesPatched, Next_op
    <2> QED
        BY <1>1, <2>1, <2>4 DEF NamesInv, Answers
<1>3. CASE Write \/ Resolve
    <2>1. [Next]_vars /\ UNCHANGED diffVars
        BY <1>3, WritingIsAStep DEF Write, Resolve
    <2>2. Answers(nodes, name_index)'
        BY <1>1, <2>1, StepIsAnOp, AnswersOp
    <2>3. phase = "patching" => NamesPatched'
        BY <1>3, ResolveKeepsNames DEF Write
    <2> QED
        BY <1>1, <2>1, <2>2, <2>3 DEF NamesInv, diffVars, Answers
<1>4. CASE TakeBefore
    <2>1. /\ phase = "before" /\ phase' = "after" /\ Answers(start.heap, start.names)
          /\ before'.nodes = nodes /\ before'.name_index = name_index
        BY <1>4 DEF TakeBefore, NamesInv
    <2>2. \/ nodes' = nodes /\ name_index' = name_index
          \/ nodes' = start.heap /\ name_index' = start.names
        BY <1>4 DEF TakeBefore, vars, Reseed
    <2> QED
        BY <1>1, <2>1, <2>2 DEF NamesInv, Answers
<1>5. CASE TakeAfter
    BY <1>1, <1>5, TakeAfterNames DEF NamesInv, TakeAfter
<1>6. CASE Patch
    <2>1. CASE phase' = "misread"
        <3>1. nodes' = nodes /\ name_index' = name_index
            BY <1>6, <2>1 DEF Patch, vars, diffVars
        <3> QED
            BY <1>1, <2>1, <3>1 DEF NamesInv, Answers
    <2>2. CASE phase' # "misread"
        <3>1. phase = "patching" /\ phase' = "patching"
            BY <1>6, <2>2 DEF Patch, diffVars
        <3>2. NamesPatched'
            BY <1>6, <3>1, PatchEnds
        <3>3. OpCases
            <4>1. CASE Finish
                BY <4>1, RejectionsEnd DEF OpCases
            <4>2. CASE stats.ops_executed < Len(patch) /\ Execute(Next_op)
                BY <1>1, <3>1, <4>2, NextOpTyped, PatchOpIsAnOp DEF PatchInv
            <4> QED
                BY <1>6, <2>2, <4>1, <4>2 DEF Patch
        <3>4. Answers(nodes, name_index)'
            BY <1>1, <3>3, AnswersOp
        <3> QED
            BY <1>1, <3>1, <3>2, <3>4 DEF NamesInv
    <2> QED
        BY <2>1, <2>2
<1>7. CASE Over
    BY <1>2, <1>7 DEF Over
<1> QED
    BY <1>2, <1>3, <1>4, <1>5, <1>6, <1>7 DEF DiffNext

\* Whatever two graphs are compared, whatever order the maps are walked in and
\* wherever the fields of a patch land, a patch that replays on a graph whose
\* name index answers leaves alive the names of `after' and, beside them, only
\* the children it names that neither side had alive.
THEOREM PatchLeavesItsNames == DiffSpec => []PatchLeavesNames
<1>1. NamesInv => PatchLeavesNames
    <2> SUFFICES ASSUME NamesInv, Patched, status = "ok", Answering
                 PROVE  LiveNames(nodes) =
                            LiveNames(after) \cup (MoreOf(diff) \ LiveNames(before.nodes))
        BY DEF PatchLeavesNames, MoreOf
    <2>1. /\ NamesPatched /\ FollowsPatch /\ Outside /\ patch \in Patches
          /\ stats.ops_executed = Len(patch)
        BY DEF NamesInv, PatchInv, NamesPatched, Patched
    <2>2. Past = ToSet(patch)
        <3>1. DOMAIN patch = 1 .. Len(patch)
            BY <2>1, LenProperties DEF Patches
        <3> QED
            BY <2>1, <3>1 DEF Past, ToSet
    <2>3. Pending = {}
        BY <2>1 DEF Outside, Pending, Waiting
    <2>4. /\ Given(Past) = (LiveNames(after) \ LiveNames(before.nodes)) \cup MoreOf(diff)
          /\ DroppedBy(Past) = {by_name(before.nodes, a) :
                                    a \in LiveNames(before.nodes) \ LiveNames(after)}
        BY <2>1, <2>2 DEF NamesPatched, PatchFor, Given
    <2>5. Distinct(before.nodes)
        BY DEF Answering
    <2> PICK b, u, made, more :
            b = before.nodes /\ u = after /\ made = Given(Past) /\ more = MoreOf(diff)
        OBVIOUS
    <2>6. Following(b, LiveNames(u) \cup more, nodes, name_index, made,
                    {by_name(b, a) : a \in LiveNames(b) \ LiveNames(u)}, {})
        BY <2>1, <2>3, <2>4 DEF FollowsPatch, Wanted
    <2>7. b \in Tables /\ u \in Tables /\ made = (LiveNames(u) \ LiveNames(b)) \cup more
        BY <2>1, <2>4 DEF NamesPatched
    <2> QED
        BY <2>5, <2>6, <2>7, FollowsToTheEnd
<1> QED
    BY <1>1, NamesInvInit, NamesInvStep, PTL DEF DiffSpec

-----------------------------------------------------------------------------
(* Reading back what was written *)

\* What the stream holds: counts, ids and indices, names, kinds and the bytes
\* that tell changes and types apart.
Cells ==
    Nat \cup Fields \cup Names \cup KindOperands \cup ValueTypes
        \cup {"payload", "Added", "Removed", "Modified", "Unchanged"}

\* A cell, what follows it, and what follows that.
LEMMA FirstCell ==
    ASSUME NEW T, NEW c \in T, NEW b \in Seq(T), NEW r \in Seq(T)
    PROVE  /\ (<< c >> \o b) \o r \in Seq(T)
           /\ Head((<< c >> \o b) \o r) = c
           /\ Tail((<< c >> \o b) \o r) = b \o r
<1> DEFINE x == b \o r
<1>1. x \in Seq(T) /\ << c >> \in Seq(T)
    BY ConcatProperties
<1>2. (<< c >> \o b) \o r = << c >> \o x
    BY <1>1, ConcatAssociative, SMTT(60)
<1> HIDE DEF x
<1>3. /\ << c >> \o x \in Seq(T) /\ Head(<< c >> \o x) = c
      /\ Tail(<< c >> \o x) = x
    BY <1>1, SMTT(60)
<1> QED
    BY <1>2, <1>3 DEF x

LEMMA FirstOfCells ==
    \A c \in Cells : \A b, r \in Seq(Cells) :
        /\ Head((<< c >> \o b) \o r) = c
        /\ Tail((<< c >> \o b) \o r) = b \o r
BY FirstCell, SMTT(60)

\* Sequences joined in either order.
JoinEitherWay(x, c, d) == (x \o c) \o d = x \o (c \o d)

LEMMA SequencesJoin == \A T : \A x, c, d \in Seq(T) : JoinEitherWay(x, c, d)
BY ConcatAssociative DEF JoinEitherWay

LEMMA CellsJoin ==
    /\ \A x, c \in Seq(Cells) : x \o c \in Seq(Cells)
    /\ \A x, c, d \in Seq(Cells) : JoinEitherWay(x, c, d)
BY ConcatProperties, SequencesJoin

\* Where each sequence of a flattened list ends, the others are left.
Leaves(T, seqs, k, x, r, rests) ==
    /\ rests \in [0 .. k -> Seq(T)] /\ rests[0] = x \o r /\ rests[k] = r
    /\ \A j \in 1 .. k : rests[j - 1] = seqs[j] \o rests[j]

LEMMA LeavesOneMore ==
    ASSUME NEW T, NEW n \in Nat, NEW seqs \in [1 .. n -> Seq(T)], NEW k \in 1 .. n,
           NEW x \in Seq(T), NEW r \in Seq(T), NEW rests,
           Leaves(T, seqs, k - 1, x, seqs[k] \o r, rests)
    PROVE  \E more : Leaves(T, seqs, k, x \o seqs[k], r, more)
<1> DEFINE more == [j \in 0 .. k |-> IF j = k THEN r ELSE rests[j]]
<1>1. seqs[k] \in Seq(T) /\ k - 1 \in 0 .. k /\ 0 \in 0 .. k /\ k \in 0 .. k /\ 0 # k
    OBVIOUS
<1>2. \A j \in 0 .. k : more[j] = IF j = k THEN r ELSE rests[j]
    OBVIOUS
<1>3. more \in [0 .. k -> Seq(T)]
    <2>1. \A j \in 0 .. k : j # k => j \in 0 .. k - 1
        OBVIOUS
    <2>2. \A j \in 0 .. k : j # k => rests[j] \in Seq(T)
        BY <2>1 DEF Leaves
    <2> QED
        BY <2>2
<1> HIDE DEF more
<1>4. more[0] = (x \o seqs[k]) \o r
    <2>1. rests[0] = x \o (seqs[k] \o r)
        BY DEF Leaves
    <2>2. (x \o seqs[k]) \o r = x \o (seqs[k] \o r)
        <3>1. x \in Seq(T) /\ seqs[k] \in Seq(T) /\ r \in Seq(T)
            BY <1>1
        <3>2. JoinEitherWay(x, seqs[k], r)
            BY ONLY <3>1, SequencesJoin, ZenonT(60)
        <3> QED
            BY ONLY <3>2 DEF JoinEitherWay
    <2>3. more[0] = rests[0]
        BY <1>1, <1>2
    <2> QED
        BY <2>1, <2>2, <2>3
<1>5. ASSUME NEW j \in 1 .. k PROVE more[j - 1] = seqs[j] \o more[j]
    <2>1. j \in 0 .. k /\ j - 1 \in 0 .. k /\ j - 1 # k
        BY <1>5
    <2>2. more[j - 1] = rests[j - 1]
        BY <1>2, <2>1
    <2>3. CASE j = k
        <3>1. more[j] = r /\ rests[k - 1] = seqs[k] \o r
            BY <1>2, <2>1, <2>3, SMTT(60) DEF Leaves
        <3> QED
            BY <2>2, <2>3, <3>1
    <2>4. CASE j # k
        <3>1. j \in 1 .. k - 1 /\ more[j] = rests[j]
            BY <1>2, <2>1, <2>4
        <3>2. rests[j - 1] = seqs[j] \o rests[j]
            BY <3>1 DEF Leaves
        <3> QED
            BY <2>2, <3>1, <3>2
    <2> QED
        BY <2>3, <2>4
<1>6. more[k] = r
    BY <1>1, <1>2
<1>7. Leaves(T, seqs, k, x \o seqs[k], r, more)
    BY <1>3, <1>4, <1>5, <1>6 DEF Leaves
<1> QED
    BY <1>7

LEMMA RestsOfFlattened ==
    ASSUME NEW T, NEW n \in Nat, NEW seqs \in [1 .. n -> Seq(T)], NEW r \in Seq(T)
    PROVE  /\ FlattenSeq(seqs) \in Seq(T)
           /\ \E rests : Leaves(T, seqs, n, FlattenSeq(seqs), r, rests)
<1> DEFINE Good(k) == {x \in Seq(T) : \A s \in Seq(T) : \E rests : Leaves(T, seqs, k, x, s, rests)}
           S == [k \in 0 .. n |-> Good(k)]
<1>1. << >> \in S[0]
    <2>1. ASSUME NEW s \in Seq(T) PROVE \E rests : Leaves(T, seqs, 0, << >>, s, rests)
        <3> DEFINE rests == [k \in 0 .. 0 |-> s]
        <3>1. << >> \o s = s
            BY ConcatEmptySeq
        <3>2. rests[0] = s /\ rests \in [0 .. 0 -> Seq(T)] /\ 1 .. 0 = {}
            OBVIOUS
        <3> HIDE DEF rests
        <3>3. Leaves(T, seqs, 0, << >>, s, rests)
            BY <3>1, <3>2 DEF Leaves
        <3> QED
            BY <3>3
    <2>2. << >> \in Good(0)
        BY <2>1
    <2> HIDE DEF Good
    <2> QED
        BY <2>2
<1>2. ASSUME NEW k \in 1 .. n, NEW x \in S[k - 1] PROVE x \o seqs[k] \in S[k]
    <2>1. S[k - 1] = Good(k - 1) /\ S[k] = Good(k)
        <3> HIDE DEF Good
        <3> QED
            OBVIOUS
    <2> HIDE DEF S
    <2>2. /\ x \in Seq(T) /\ seqs[k] \in Seq(T) /\ x \o seqs[k] \in Seq(T)
          /\ \A s \in Seq(T) : \E rests : Leaves(T, seqs, k - 1, x, s, rests)
        BY <1>2, <2>1, ConcatProperties
    <2>3. ASSUME NEW s \in Seq(T) PROVE \E rests : Leaves(T, seqs, k, x \o seqs[k], s, rests)
        <3>1. seqs[k] \o s \in Seq(T)
            BY <2>2, ConcatProperties
        <3> QED
            BY <2>2, <3>1, LeavesOneMore
    <2> QED
        BY <2>1, <2>2, <2>3
<1>3. FlattenSeq(seqs) \in S[n]
    <2> HIDE DEF S
    <2> QED
        BY <1>1, <1>2, FlattenStepwise
<1>4. S[n] = Good(n)
    <2> HIDE DEF Good
    <2> QED
        OBVIOUS
<1> HIDE DEF S
<1> QED
    BY <1>3, <1>4

\* The prefixes of a sequence.
LEMMA PrefixGrows ==
    ASSUME NEW T, NEW s \in Seq(T), NEW k \in 1 .. Len(s)
    PROVE  Append(SubSeq(s, 1, k - 1), s[k]) = SubSeq(s, 1, k)
<1>1. /\ Len(s) \in Nat /\ \A i \in 1 .. Len(s) : s[i] \in T
      /\ 1 \in Int /\ k - 1 \in Int /\ 1 \in 1 .. Len(s) /\ k \in 1 .. Len(s)
    BY LenProperties
<1>2. \A i \in 1 .. k - 1 : s[i] \in T
    BY <1>1
<1>3. SubSeq(s, 1, k - 1) \in Seq(T)
    BY <1>1, <1>2, SubSeqProperties
<1>4. SubSeq(s, 1, k) = SubSeq(s, 1, k - 1) \o << s[k] >>
    BY <1>1, SubSeqRecursiveSecond
<1> QED
    BY <1>1, <1>3, <1>4, AppendIsConcat

\* A list of items is read one item at a time, each from what the others left.
Listed(list, items, rests) ==
    /\ list[0] = [got |-> << >>, rest |-> rests[0]]
    /\ \A k \in 1 .. Len(items) :
            list[k - 1].rest = rests[k - 1] =>
                list[k] = [got |-> Append(list[k - 1].got, items[k]), rest |-> rests[k]]

LEMMA ListedAll ==
    ASSUME NEW T, NEW items \in Seq(T), NEW rests, NEW list, Listed(list, items, rests)
    PROVE  list[Len(items)] = [got |-> items, rest |-> rests[Len(items)]]
<1> DEFINE n == Len(items)
           P == {k \in 0 .. n : list[k] = [got |-> SubSeq(items, 1, k), rest |-> rests[k]]}
<1>1. n \in Nat /\ n = Len(items) /\ 0 \in 0 .. n /\ n \in 0 .. n
    BY LenProperties
<1> HIDE DEF n
<1>2. 0 \in P
    <2>1. SubSeq(items, 1, 0) = << >>
        BY SubSeqEmpty
    <2> QED
        BY <1>1, <2>1 DEF Listed
<1>3. ASSUME NEW k \in 1 .. n, k - 1 \in P PROVE k \in P
    <2>1. list[k - 1] = [got |-> SubSeq(items, 1, k - 1), rest |-> rests[k - 1]]
        BY <1>3
    <2>2. list[k] = [got |-> Append(SubSeq(items, 1, k - 1), items[k]), rest |-> rests[k]]
        <3>1. list[k - 1].got = SubSeq(items, 1, k - 1) /\ list[k - 1].rest = rests[k - 1]
            BY <2>1
        <3> QED
            BY <1>1, <3>1 DEF Listed
    <2>3. Append(SubSeq(items, 1, k - 1), items[k]) = SubSeq(items, 1, k)
        BY <1>1, PrefixGrows
    <2>4. k \in 0 .. n
        OBVIOUS
    <2> QED
        BY <2>2, <2>3, <2>4
<1>4. 0 .. n \subseteq P
    <2> HIDE DEF P
    <2> QED
        BY <1>1, <1>2, <1>3, UpTheInterval
<1>5. list[n] = [got |-> SubSeq(items, 1, n), rest |-> rests[n]]
    BY <1>1, <1>4
<1>6. SubSeq(items, 1, n) = items
    BY <1>1, SubSeqFull
<1> QED
    BY <1>1, <1>5, <1>6

LEMMA CellListRead ==
    ASSUME NEW T, NEW items \in Seq(T), NEW rests, NEW s,
           Head(s) = Len(items), Tail(s) = rests[0],
           \A k \in 1 .. Len(items) :
                read_cell(rests[k - 1]) = [got |-> items[k], rest |-> rests[k]]
    PROVE  read_list(read_cell, s) = [got |-> items, rest |-> rests[Len(items)]]
<1> DEFINE n == Len(items)
           Unfold(f) ==
               [ k \in 0 .. Head(s) |->
                   IF k = 0 THEN [got |-> << >>, rest |-> Tail(s)]
                   ELSE LET fewer == f[k - 1]
                            one == read_cell(fewer.rest)
                        IN  [got |-> Append(fewer.got, one.got), rest |-> one.rest] ]
           first == CHOOSE f : f = Unfold(f)
           h == [k \in 0 .. n |-> [got |-> SubSeq(items, 1, k), rest |-> rests[k]]]
<1>1. n \in Nat /\ n = Len(items) /\ 0 \in 0 .. n /\ n \in 0 .. n
    BY SMTT(60)
<1> HIDE DEF n
<1>2. h = Unfold(h)
    <2>1. ASSUME NEW k \in 0 .. n
          PROVE  h[k] = IF k = 0 THEN [got |-> << >>, rest |-> Tail(s)]
                        ELSE LET fewer == h[k - 1]
                                 one == read_cell(fewer.rest)
                             IN  [got |-> Append(fewer.got, one.got), rest |-> one.rest]
        <3>1. CASE k = 0
            <4>1. SubSeq(items, 1, 0) = << >>
                BY SubSeqEmpty
            <4>2. h[0] = [got |-> SubSeq(items, 1, 0), rest |-> rests[0]]
                BY <1>1
            <4> HIDE DEF h
            <4> QED
                BY <3>1, <4>1, <4>2
        <3>2. CASE k # 0
            <4>1. k \in 1 .. n /\ k - 1 \in 0 .. n
                BY <1>1, <3>2
            <4>2. h[k - 1] = [got |-> SubSeq(items, 1, k - 1), rest |-> rests[k - 1]]
                BY <4>1
            <4>3. Append(SubSeq(items, 1, k - 1), items[k]) = SubSeq(items, 1, k)
                BY <1>1, <4>1, PrefixGrows
            <4>4. read_cell(rests[k - 1]) = [got |-> items[k], rest |-> rests[k]]
                BY <1>1, <4>1
            <4>5. h[k] = [got |-> SubSeq(items, 1, k), rest |-> rests[k]]
                OBVIOUS
            <4> HIDE DEF h
            <4>6. h[k - 1].got = SubSeq(items, 1, k - 1) /\ h[k - 1].rest = rests[k - 1]
                BY <4>2
            <4> DEFINE prior == h[k - 1]
                       one == read_cell(prior.rest)
            <4>7. one.got = items[k] /\ one.rest = rests[k]
                BY <4>4, <4>6
            <4>8. Append(prior.got, one.got) = SubSeq(items, 1, k)
                BY <4>3, <4>6, <4>7, SMTT(60)
            <4> HIDE DEF prior, one
            <4>9. h[k] = [got |-> Append(prior.got, one.got), rest |-> one.rest]
                BY <4>5, <4>7, <4>8
            <4> QED
                BY <3>2, <4>9 DEF prior, one
        <3> QED
            BY <3>1, <3>2
    <2>2. h = [k \in 0 .. Head(s) |-> h[k]]
        BY <1>1
    <2> HIDE DEF h
    <2> QED
        BY <1>1, <2>1, <2>2
<1>3. first = Unfold(first)
    <2> HIDE DEF Unfold, h
    <2> QED
        BY <1>2
<1>4. read_list(read_cell, s) = first[n]
    BY <1>1, ZenonT(60) DEF read_list
<1> HIDE DEF first, h
<1>5. \A k \in 0 .. n :
          first[k] = IF k = 0 THEN [got |-> << >>, rest |-> Tail(s)]
                     ELSE LET fewer == first[k - 1]
                              one == read_cell(fewer.rest)
                          IN  [got |-> Append(fewer.got, one.got), rest |-> one.rest]
    BY <1>1, <1>3, ZenonT(60)
<1>6. Listed(first, items, rests)
    <2>1. first[0] = [got |-> << >>, rest |-> rests[0]]
        BY <1>1, <1>5
    <2>2. ASSUME NEW k \in 1 .. n, first[k - 1].rest = rests[k - 1]
          PROVE  first[k] = [got |-> Append(first[k - 1].got, items[k]), rest |-> rests[k]]
        <3>1. k \in 0 .. n /\ k # 0
            BY <1>1
        <3>2. read_cell(first[k - 1].rest) = [got |-> items[k], rest |-> rests[k]]
            BY <1>1, <2>2
        <3>3. first[k] = LET fewer == first[k - 1]
                             one == read_cell(fewer.rest)
                         IN  [got |-> Append(fewer.got, one.got), rest |-> one.rest]
            BY <1>5, <3>1
        <3> QED
            BY <3>2, <3>3
    <2> QED
        BY <1>1, <2>1, <2>2 DEF Listed
<1> QED
    BY <1>1, <1>4, <1>6, ListedAll

LEMMA FieldListRead ==
    ASSUME NEW T, NEW items \in Seq(T), NEW rests, NEW s,
           Head(s) = Len(items), Tail(s) = rests[0],
           \A k \in 1 .. Len(items) :
                read_field_change(rests[k - 1]) = [got |-> items[k], rest |-> rests[k]]
    PROVE  read_list(read_field_change, s) = [got |-> items, rest |-> rests[Len(items)]]
<1> DEFINE n == Len(items)
           Unfold(f) ==
               [ k \in 0 .. Head(s) |->
                   IF k = 0 THEN [got |-> << >>, rest |-> Tail(s)]
                   ELSE LET fewer == f[k - 1]
                            one == read_field_change(fewer.rest)
                        IN  [got |-> Append(fewer.got, one.got), rest |-> one.rest] ]
           first == CHOOSE f : f = Unfold(f)
           h == [k \in 0 .. n |-> [got |-> SubSeq(items, 1, k), rest |-> rests[k]]]
<1>1. n \in Nat /\ n = Len(items) /\ 0 \in 0 .. n /\ n \in 0 .. n
    OBVIOUS
<1> HIDE DEF n
<1>2. h = Unfold(h)
    <2>1. ASSUME NEW k \in 0 .. n
          PROVE  h[k] = IF k = 0 THEN [got |-> << >>, rest |-> Tail(s)]
                        ELSE LET fewer == h[k - 1]
                                 one == read_field_change(fewer.rest)
                             IN  [got |-> Append(fewer.got, one.got), rest |-> one.rest]
        <3>1. CASE k = 0
            <4>1. SubSeq(items, 1, 0) = << >>
                BY SubSeqEmpty
            <4>2. h[0] = [got |-> SubSeq(items, 1, 0), rest |-> rests[0]]
                BY <1>1
            <4> HIDE DEF h
            <4> QED
                BY <3>1, <4>1, <4>2
        <3>2. CASE k # 0
            <4>1. k \in 1 .. n /\ k - 1 \in 0 .. n
                BY <1>1, <3>2
            <4>2. h[k - 1] = [got |-> SubSeq(items, 1, k - 1), rest |-> rests[k - 1]]
                BY <4>1
            <4>3. Append(SubSeq(items, 1, k - 1), items[k]) = SubSeq(items, 1, k)
                BY <1>1, <4>1, PrefixGrows
            <4>4. read_field_change(rests[k - 1]) = [got |-> items[k], rest |-> rests[k]]
                BY <1>1, <4>1
            <4>5. h[k] = [got |-> SubSeq(items, 1, k), rest |-> rests[k]]
                OBVIOUS
            <4> HIDE DEF h
            <4>6. h[k - 1].got = SubSeq(items, 1, k - 1) /\ h[k - 1].rest = rests[k - 1]
                BY <4>2
            <4> DEFINE prior == h[k - 1]
                       one == read_field_change(prior.rest)
            <4>7. one.got = items[k] /\ one.rest = rests[k]
                BY <4>4, <4>6
            <4>8. Append(prior.got, one.got) = SubSeq(items, 1, k)
                BY <4>3, <4>6, <4>7, SMTT(60)
            <4> HIDE DEF prior, one
            <4>9. h[k] = [got |-> Append(prior.got, one.got), rest |-> one.rest]
                BY <4>5, <4>7, <4>8
            <4> QED
                BY <3>2, <4>9 DEF prior, one
        <3> QED
            BY <3>1, <3>2
    <2>2. h = [k \in 0 .. Head(s) |-> h[k]]
        BY <1>1
    <2> HIDE DEF h
    <2> QED
        BY <1>1, <2>1, <2>2
<1>3. first = Unfold(first)
    <2> HIDE DEF Unfold, h
    <2> QED
        BY <1>2
<1>4. read_list(read_field_change, s) = first[n]
    BY <1>1, ZenonT(60) DEF read_list
<1> HIDE DEF first, h
<1>5. \A k \in 0 .. n :
          first[k] = IF k = 0 THEN [got |-> << >>, rest |-> Tail(s)]
                     ELSE LET fewer == first[k - 1]
                              one == read_field_change(fewer.rest)
                          IN  [got |-> Append(fewer.got, one.got), rest |-> one.rest]
    BY <1>1, <1>3, ZenonT(60)
<1>6. Listed(first, items, rests)
    <2>1. first[0] = [got |-> << >>, rest |-> rests[0]]
        BY <1>1, <1>5
    <2>2. ASSUME NEW k \in 1 .. n, first[k - 1].rest = rests[k - 1]
          PROVE  first[k] = [got |-> Append(first[k - 1].got, items[k]), rest |-> rests[k]]
        <3>1. k \in 0 .. n /\ k # 0
            BY <1>1
        <3>2. read_field_change(first[k - 1].rest) = [got |-> items[k], rest |-> rests[k]]
            BY <1>1, <2>2
        <3>3. first[k] = LET fewer == first[k - 1]
                             one == read_field_change(fewer.rest)
                         IN  [got |-> Append(fewer.got, one.got), rest |-> one.rest]
            BY <1>5, <3>1
        <3> QED
            BY <3>2, <3>3
    <2> QED
        BY <1>1, <2>1, <2>2 DEF Listed
<1> QED
    BY <1>1, <1>4, <1>6, ListedAll

LEMMA ChangeListRead ==
    ASSUME NEW T, NEW items \in Seq(T), NEW rests, NEW s,
           Head(s) = Len(items), Tail(s) = rests[0],
           \A k \in 1 .. Len(items) :
                read_change(rests[k - 1]) = [got |-> items[k], rest |-> rests[k]]
    PROVE  read_list(read_change, s) = [got |-> items, rest |-> rests[Len(items)]]
<1> DEFINE n == Len(items)
           Unfold(f) ==
               [ k \in 0 .. Head(s) |->
                   IF k = 0 THEN [got |-> << >>, rest |-> Tail(s)]
                   ELSE LET fewer == f[k - 1]
                            one == read_change(fewer.rest)
                        IN  [got |-> Append(fewer.got, one.got), rest |-> one.rest] ]
           first == CHOOSE f : f = Unfold(f)
           h == [k \in 0 .. n |-> [got |-> SubSeq(items, 1, k), rest |-> rests[k]]]
<1>1. n \in Nat /\ n = Len(items) /\ 0 \in 0 .. n /\ n \in 0 .. n
    OBVIOUS
<1> HIDE DEF n
<1>2. h = Unfold(h)
    <2>1. ASSUME NEW k \in 0 .. n
          PROVE  h[k] = IF k = 0 THEN [got |-> << >>, rest |-> Tail(s)]
                        ELSE LET fewer == h[k - 1]
                                 one == read_change(fewer.rest)
                             IN  [got |-> Append(fewer.got, one.got), rest |-> one.rest]
        <3>1. CASE k = 0
            <4>1. SubSeq(items, 1, 0) = << >>
                BY SubSeqEmpty
            <4>2. h[0] = [got |-> SubSeq(items, 1, 0), rest |-> rests[0]]
                BY <1>1
            <4> HIDE DEF h
            <4> QED
                BY <3>1, <4>1, <4>2
        <3>2. CASE k # 0
            <4>1. k \in 1 .. n /\ k - 1 \in 0 .. n
                BY <1>1, <3>2
            <4>2. h[k - 1] = [got |-> SubSeq(items, 1, k - 1), rest |-> rests[k - 1]]
                BY <4>1
            <4>3. Append(SubSeq(items, 1, k - 1), items[k]) = SubSeq(items, 1, k)
                BY <1>1, <4>1, PrefixGrows
            <4>4. read_change(rests[k - 1]) = [got |-> items[k], rest |-> rests[k]]
                BY <1>1, <4>1
            <4>5. h[k] = [got |-> SubSeq(items, 1, k), rest |-> rests[k]]
                OBVIOUS
            <4> HIDE DEF h
            <4>6. h[k - 1].got = SubSeq(items, 1, k - 1) /\ h[k - 1].rest = rests[k - 1]
                BY <4>2
            <4> DEFINE prior == h[k - 1]
                       one == read_change(prior.rest)
            <4>7. one.got = items[k] /\ one.rest = rests[k]
                BY <4>4, <4>6
            <4>8. Append(prior.got, one.got) = SubSeq(items, 1, k)
                BY <4>3, <4>6, <4>7, SMTT(60)
            <4> HIDE DEF prior, one
            <4>9. h[k] = [got |-> Append(prior.got, one.got), rest |-> one.rest]
                BY <4>5, <4>7, <4>8
            <4> QED
                BY <3>2, <4>9 DEF prior, one
        <3> QED
            BY <3>1, <3>2
    <2>2. h = [k \in 0 .. Head(s) |-> h[k]]
        BY <1>1
    <2> HIDE DEF h
    <2> QED
        BY <1>1, <2>1, <2>2
<1>3. first = Unfold(first)
    <2> HIDE DEF Unfold, h
    <2> QED
        BY <1>2
<1>4. read_list(read_change, s) = first[n]
    BY <1>1, ZenonT(60) DEF read_list
<1> HIDE DEF first, h
<1>5. \A k \in 0 .. n :
          first[k] = IF k = 0 THEN [got |-> << >>, rest |-> Tail(s)]
                     ELSE LET fewer == first[k - 1]
                              one == read_change(fewer.rest)
                          IN  [got |-> Append(fewer.got, one.got), rest |-> one.rest]
    BY <1>1, <1>3, ZenonT(60)
<1>6. Listed(first, items, rests)
    <2>1. first[0] = [got |-> << >>, rest |-> rests[0]]
        BY <1>1, <1>5
    <2>2. ASSUME NEW k \in 1 .. n, first[k - 1].rest = rests[k - 1]
          PROVE  first[k] = [got |-> Append(first[k - 1].got, items[k]), rest |-> rests[k]]
        <3>1. k \in 0 .. n /\ k # 0
            BY <1>1
        <3>2. read_change(first[k - 1].rest) = [got |-> items[k], rest |-> rests[k]]
            BY <1>1, <2>2
        <3>3. first[k] = LET fewer == first[k - 1]
                             one == read_change(fewer.rest)
                         IN  [got |-> Append(fewer.got, one.got), rest |-> one.rest]
            BY <1>5, <3>1
        <3> QED
            BY <3>2, <3>3
    <2> QED
        BY <1>1, <2>1, <2>2 DEF Listed
<1> QED
    BY <1>1, <1>4, <1>6, ListedAll

\* A list of plain cells behind its length.
LEMMA ReadCells ==
    ASSUME NEW c \in Seq(Cells), NEW r \in Seq(Cells)
    PROVE  /\ (<< Len(c) >> \o c) \o r \in Seq(Cells)
           /\ read_list(read_cell, (<< Len(c) >> \o c) \o r) = [got |-> c, rest |-> r]
<1> DEFINE s == (<< Len(c) >> \o c) \o r
           n == Len(c)
           rests == [k \in 0 .. n |-> SubSeq(c, k + 1, n) \o r]
<1>1. n \in Nat /\ n = Len(c) /\ Len(c) \in Cells /\ 0 \in 0 .. n /\ n \in 0 .. n
    BY LenProperties DEF Cells
<1>2. s \in Seq(Cells) /\ Head(s) = n /\ Tail(s) = c \o r
    BY <1>1, FirstCell, SMTT(60)
<1>3. rests[0] = c \o r /\ rests[n] = r
    <2>1. SubSeq(c, 1, n) = c /\ SubSeq(c, n + 1, n) = << >> /\ << >> \o r = r
        BY <1>1, SubSeqFull, SubSeqEmpty, ConcatEmptySeq
    <2>2. rests[0] = SubSeq(c, 0 + 1, n) \o r /\ rests[n] = SubSeq(c, n + 1, n) \o r
        BY <1>1
    <2>3. 0 + 1 = 1
        OBVIOUS
    <2> HIDE DEF rests
    <2> QED
        BY <2>1, <2>2, <2>3
<1>4. ASSUME NEW k \in 1 .. Len(c)
      PROVE  read_cell(rests[k - 1]) = [got |-> c[k], rest |-> rests[k]]
    <2> DEFINE left == SubSeq(c, k + 1, n)
    <2>1. k \in 0 .. n /\ k - 1 \in 0 .. n /\ (k - 1) + 1 = k /\ n \in k .. Len(c)
        BY <1>1
    <2>2. c[k] \in Cells /\ left \in Seq(Cells)
        <3>1. \A i \in 1 .. Len(c) : c[i] \in Cells
            BY LenProperties
        <3>2. k + 1 \in Int /\ n \in Int /\ \A i \in k + 1 .. n : c[i] \in Cells
            BY <1>1, <3>1
        <3> QED
            BY <3>1, <3>2, SubSeqProperties
    <2>3. SubSeq(c, k, n) = << c[k] >> \o left
        BY <2>1, SubSeqRecursiveFirst
    <2>4. rests[k - 1] = (<< c[k] >> \o left) \o r /\ rests[k] = left \o r
        BY <2>1, <2>3
    <2> HIDE DEF left, rests
    <2>5. /\ Head((<< c[k] >> \o left) \o r) = c[k]
          /\ Tail((<< c[k] >> \o left) \o r) = left \o r
        BY ONLY <2>2, r \in Seq(Cells), FirstOfCells, Zenon
    <2> QED
        BY <2>4, <2>5 DEF read_cell
<1> HIDE DEF s, rests, n
<1>5. read_list(read_cell, s) = [got |-> c, rest |-> rests[Len(c)]]
    BY <1>1, <1>2, <1>3, <1>4, CellListRead
<1> QED
    BY <1>1, <1>2, <1>3, <1>5 DEF s

\* The values that fields hold have the shape of their types.
Shaped(v) == IF v.type = "Invalid" THEN v.value = {} ELSE IsValue(v.type, v.value)
ShapedChange(fc) == Shaped(fc.before) /\ Shaped(fc.after)
ShapedChanges ==
    {nc \in Changes :
        \A k \in DOMAIN nc.field_changes : ShapedChange(nc.field_changes[k])}

LEMMA OneOrder ==
    ASSUME NEW S, IsFiniteSet(S)
    PROVE  /\ SetToSeq(S) \in Seq(S) /\ Len(SetToSeq(S)) = Cardinality(S)
           /\ ToSet(SetToSeq(S)) = S
<1> DEFINE n == Cardinality(S)
           Injects(f) == \A a, b \in DOMAIN f : f[a] = f[b] => a = b
<1>1. n \in Nat /\ ExistsBijection(1 .. n, S)
    BY FS_CardinalityType
<1> HIDE DEF n
<1>2. PICK g \in [1 .. n -> S] : Injects(g)
    <2>1. PICK g : g \in Bijection(1 .. n, S)
        BY <1>1 DEF ExistsBijection
    <2>2. g \in [1 .. n -> S] /\ \A a, b \in 1 .. n : g[a] = g[b] => a = b
        BY <2>1 DEF Bijection, Injection, IsInjective
    <2> QED
        BY <2>2
<1>3. SetToSeq(S) = CHOOSE f \in [1 .. n -> S] : Injects(f)
    BY DEF SetToSeq, IsInjective, n
<1>4. SetToSeq(S) \in [1 .. n -> S] /\ Injects(SetToSeq(S))
    <2> HIDE DEF Injects
    <2> QED
        BY <1>2, <1>3
<1>5. SetToSeq(S) \in SetToSeqs(S)
    BY <1>1, <1>4 DEF SetToSeqs, n
<1> QED
    BY <1>5, OrderedSet, OrderCovers

LEMMA ReadValue ==
    ASSUME NEW v \in Stored, Shaped(v), NEW r \in Seq(Cells)
    PROVE  /\ write_value(v) \in Seq(Cells) /\ write_value(v) \o r \in Seq(Cells)
           /\ read_value(write_value(v) \o r) = [got |-> v, rest |-> r]
<1>1. /\ v.type \in ValueTypes /\ v.value \in SUBSET Nat /\ IsFiniteSet(v.value)
      /\ v = [type |-> v.type, value |-> v.value] /\ v.type \in Cells
    BY DEF Stored, StoredValues, Cells
<1>2. ASSUME NEW b \in Seq(Cells), write_value(v) = << v.type >> \o b
      PROVE  /\ write_value(v) \in Seq(Cells) /\ write_value(v) \o r \in Seq(Cells)
             /\ Head(write_value(v) \o r) = v.type /\ Tail(write_value(v) \o r) = b \o r
    <2>1. << v.type >> \in Seq(Cells)
        BY <1>1
    <2> QED
        BY <1>1, <1>2, <2>1, FirstCell, ConcatProperties, SMTT(60)
<1>3. CASE v.type = "Invalid"
    <2>1. write_value(v) = << v.type >> \o << >> /\ << >> \in Seq(Cells) /\ << >> \o r = r
        BY <1>3, ConcatEmptySeq DEF write_value
    <2>2. v.value = {}
        BY <1>3 DEF Shaped
    <2> QED
        BY <1>1, <1>2, <1>3, <2>1, <2>2 DEF read_value
<1>4. CASE v.type = "Scalar"
    <2>1. write_value(v) = << v.type >> \o << "payload" >> /\ << "payload" >> \in Seq(Cells)
        BY <1>4 DEF write_value, Cells
    <2>2. v.value = {}
        BY <1>4 DEF Shaped, IsValue
    <2>3. Tail(<< "payload" >> \o r) = r
        <3>1. "payload" \in Cells /\ << >> \in Seq(Cells)
            BY DEF Cells
        <3>2. << "payload" >> \o << >> = << "payload" >> /\ << >> \o r = r
            BY <2>1, ConcatEmptySeq, SMTT(60)
        <3> QED
            BY <3>1, <3>2, FirstCell
    <2> QED
        BY <1>1, <1>2, <1>4, <2>1, <2>2, <2>3 DEF read_value
<1>5. CASE v.type = "Ref"
    <2>1. PICK id \in v.value : v.value = {id}
        BY <1>5 DEF Shaped, IsValue
    <2> DEFINE b == SetToSeq(v.value)
               s == write_value(v) \o r
    <2>2. b = << id >> /\ id \in Cells /\ << id >> \in Seq(Cells)
        <3>1. Cardinality({id}) = 1
            BY FS_Singleton
        <3>2. b \in Seq({id}) /\ Len(b) = 1
            BY <1>1, <2>1, <3>1, OneOrder
        <3>3. id \in Cells
            BY <1>1, <2>1 DEF Cells
        <3> HIDE DEF b
        <3>4. b \in [1 .. 1 -> {id}]
            BY <3>2, LenProperties
        <3>5. b = << id >>
            BY <3>2, <3>4, SMTT(60)
        <3> QED
            BY <3>3, <3>5
    <2>3. write_value(v) = << v.type >> \o << id >>
        BY <1>5, <2>2 DEF write_value
    <2>4. s \in Seq(Cells) /\ Head(s) = v.type /\ Tail(s) = << id >> \o r
        BY <1>2, <2>2, <2>3
    <2>5. Head(<< id >> \o r) = id /\ Tail(<< id >> \o r) = r
        <3>1. << >> \in Seq(Cells) /\ << id >> \o << >> = << id >> /\ << >> \o r = r
            BY <2>2, ConcatEmptySeq
        <3> QED
            BY <2>2, <3>1, FirstCell
    <2>6. s[2] = id
        <3>1. s = (<< v.type >> \o << id >>) \o r /\ << v.type >> \in Seq(Cells)
            BY <1>1, <2>3
        <3> QED
            BY <2>2, <3>1, SMTT(60)
    <2> HIDE DEF s, b
    <2>7. read_value(s) = [got |-> [type |-> Head(s), value |-> {s[2]}], rest |-> Tail(Tail(s))]
        BY <1>5, <2>4 DEF read_value
    <2> QED
        BY <1>1, <1>2, <2>1, <2>2, <2>3, <2>4, <2>5, <2>6, <2>7 DEF s
<1>6. CASE v.type = "List"
    <2> DEFINE c == SetToSeq(v.value)
               b == << Cardinality(v.value) >> \o c
               s == write_value(v) \o r
    <2>1. c \in Seq(Cells) /\ Len(c) = Cardinality(v.value) /\ ToSet(c) = v.value
        <3>1. c \in Seq(v.value) /\ v.value \subseteq Cells
            BY <1>1, OneOrder DEF Cells
        <3> QED
            BY <1>1, <3>1, OneOrder
    <2>2. b \in Seq(Cells)
        <3>1. << Cardinality(v.value) >> \in Seq(Cells)
            BY <1>1, FS_CardinalityType DEF Cells
        <3> QED
            BY <2>1, <3>1, ConcatProperties
    <2>3. write_value(v) = << v.type >> \o b
        <3>1. write_value(v) = << v.type >> \o (<< Cardinality(v.value) >> \o SetToSeq(v.value))
            BY <1>6, SMTT(60) DEF write_value
        <3> QED
            BY <3>1
    <2>4. s \in Seq(Cells) /\ Head(s) = v.type /\ Tail(s) = b \o r
        BY <1>2, <2>2, <2>3
    <2>5. read_list(read_cell, Tail(s)) = [got |-> c, rest |-> r]
        <3>1. b = << Len(c) >> \o c
            BY <2>1
        <3> QED
            BY <2>1, <2>4, <3>1, ReadCells
    <2> HIDE DEF s, b, c
    <2>6. read_value(s) = [got |-> [type |-> Head(s), value |-> ToSet(c)], rest |-> r]
        BY <1>6, <2>4, <2>5 DEF read_value
    <2> QED
        BY <1>1, <1>2, <2>1, <2>2, <2>3, <2>4, <2>6 DEF s
<1> QED
    BY <1>1, <1>3, <1>4, <1>5, <1>6 DEF ValueTypes

\* A change of a field and a change of a node, each behind what follows it.
LEMMA ReadFieldChange ==
    ASSUME NEW fc \in FieldChanges, ShapedChange(fc), NEW r \in Seq(Cells)
    PROVE  LET cells == << fc.field_idx >> \o write_value(fc.before) \o write_value(fc.after)
           IN  /\ cells \in Seq(Cells)
               /\ read_field_change(cells \o r) = [got |-> fc, rest |-> r]
<1> DEFINE x == write_value(fc.before)
           y == write_value(fc.after)
           s == ((<< fc.field_idx >> \o x) \o y) \o r
<1>1. /\ fc.field_idx \in Fields /\ fc.before \in Stored /\ fc.after \in Stored
      /\ fc = [field_idx |-> fc.field_idx, before |-> fc.before, after |-> fc.after]
      /\ fc.field_idx \in Cells /\ << fc.field_idx >> \in Seq(Cells)
    BY DEF FieldChanges, Cells
<1>2. Shaped(fc.before) /\ Shaped(fc.after)
    BY DEF ShapedChange
<1>3. /\ y \in Seq(Cells) /\ y \o r \in Seq(Cells)
      /\ read_value(y \o r) = [got |-> fc.after, rest |-> r]
    BY <1>1, <1>2, ReadValue
<1>4. /\ x \in Seq(Cells)
      /\ read_value(x \o (y \o r)) = [got |-> fc.before, rest |-> y \o r]
    BY <1>1, <1>2, <1>3, ReadValue
<1> HIDE DEF x, y
<1>5. << fc.field_idx >> \o x \in Seq(Cells) /\ (<< fc.field_idx >> \o x) \o y \in Seq(Cells)
    BY <1>1, <1>3, <1>4, ConcatProperties
<1>6. s = (<< fc.field_idx >> \o x) \o (y \o r)
    <2> DEFINE z == << fc.field_idx >> \o x
    <2> HIDE DEF z
    <2>1. z \in Seq(Cells) /\ y \in Seq(Cells) /\ r \in Seq(Cells)
        BY <1>3, <1>5 DEF z
    <2>2. JoinEitherWay(z, y, r)
        BY ONLY <2>1, CellsJoin, ZenonT(60)
    <2> QED
        BY <2>2, SMTT(60) DEF JoinEitherWay, z
<1> HIDE DEF s
<1>7. Head(s) = fc.field_idx /\ Tail(s) = x \o (y \o r)
    BY ONLY <1>1, <1>3, <1>4, <1>6, FirstOfCells, ZenonT(60)
<1>8. read_field_change(s) = [got |-> FieldChange(fc.field_idx, fc.before, fc.after), rest |-> r]
    <2> DEFINE old == read_value(Tail(s))
               new == read_value(old.rest)
    <2>1. old.got = fc.before /\ old.rest = y \o r
        <3>1. old = [got |-> fc.before, rest |-> y \o r]
            BY <1>4, <1>7, Zenon
        <3> HIDE DEF old
        <3> QED
            BY <3>1
    <2>2. new.got = fc.after /\ new.rest = r
        <3>1. new = [got |-> fc.after, rest |-> r]
            BY <1>3, <2>1, Zenon
        <3> HIDE DEF new
        <3> QED
            BY <3>1
    <2>3. read_field_change(s) =
              [got |-> FieldChange(Head(s), old.got, new.got), rest |-> new.rest]
        BY DEF read_field_change
    <2> HIDE DEF old, new
    <2> QED
        BY <1>7, <2>1, <2>2, <2>3
<1> QED
    BY <1>1, <1>5, <1>8 DEF FieldChange, s, x, y

\* Six cells, then the rest.
FiveThen(six, x, s) ==
    /\ \A i \in 1 .. 5 : s[i] = six[i]
    /\ SubSeq(s, 6, Len(s)) = << six[6] >> \o x

LEMMA AfterFive ==
    ASSUME NEW T, NEW six \in Seq(T), Len(six) = 6, NEW x \in Seq(T)
    PROVE  FiveThen(six, x, six \o x)
<1> DEFINE five == SubSeq(six, 1, 5)
           t == << six[6] >> \o x
           s == six \o x
<1>0. six \in [1 .. 6 -> T]
    BY LenProperties
<1>1. six[6] \in T /\ << six[6] >> \in Seq(T) /\ Len(<< six[6] >>) = 1
    BY <1>0
<1>2. five \in Seq(T) /\ Len(five) = 5
    <2>1. 1 \in Int /\ 5 \in Int /\ \A i \in 1 .. 5 : six[i] \in T
        BY <1>0
    <2> QED
        BY ONLY <2>1, SubSeqProperties
<1>3. six = five \o << six[6] >>
    <2>1. SubSeq(six, 1, 6) = SubSeq(six, 1, 6 - 1) \o << six[6] >>
        BY SubSeqRecursiveSecond
    <2>2. SubSeq(six, 1, 6) = six
        BY SubSeqFull
    <2> QED
        BY <2>1, <2>2
<1> HIDE DEF five
<1>4. t \in Seq(T) /\ Len(t) = 1 + Len(x) /\ Len(x) \in Nat
    BY <1>1, ConcatProperties, LenProperties
<1>5. s = five \o t
    <2>1. five \in Seq(T) /\ << six[6] >> \in Seq(T) /\ x \in Seq(T)
        BY <1>1, <1>2
    <2>2. JoinEitherWay(five, << six[6] >>, x)
        BY ONLY <2>1, SequencesJoin, ZenonT(60)
    <2> QED
        BY <1>3, <2>2 DEF JoinEitherWay
<1> HIDE DEF t
<1>6. Len(s) = 6 + Len(x) /\ \A i \in 1 .. 6 : s[i] = six[i]
    <2>1. /\ Len(six \o x) = Len(six) + Len(x)
          /\ \A i \in 1 .. Len(six) : (six \o x)[i] = six[i]
        BY ONLY six \in Seq(T), x \in Seq(T), BothParts
    <2> QED
        BY <2>1
<1> HIDE DEF s
<1>7. SubSeq(s, 6, Len(s)) = t
    <2>1. /\ 6 \in Len(five) + 1 .. Len(five) + Len(t)
          /\ Len(s) \in Len(five) + 1 .. Len(five) + Len(t)
        BY <1>2, <1>4, <1>6
    <2>2. SubSeq(five \o t, 6, Len(s)) = SubSeq(t, 6 - Len(five), Len(s) - Len(five))
        <3>1. five \in Seq(T) /\ t \in Seq(T)
            BY <1>2, <1>4
        <3> QED
            BY ONLY <2>1, <3>1, SubSeqOfConcat2, SMTT(60)
    <2>3. 6 - Len(five) = 1 /\ Len(s) - Len(five) = Len(t)
        BY <1>2, <1>4, <1>6
    <2>4. SubSeq(t, 1, Len(t)) = t
        BY <1>4, SubSeqFull
    <2> QED
        BY <1>5, <2>2, <2>3, <2>4
<1>8. \A i \in 1 .. 5 : s[i] = six[i]
    BY <1>6
<1> QED
    BY <1>7, <1>8 DEF FiveThen, s, t

LEMMA FiveCells ==
    \A six, x \in Seq(Cells) : Len(six) = 6 => FiveThen(six, x, six \o x)
BY AfterFive

LEMMA ReadChange ==
    ASSUME NEW nc \in ShapedChanges, NEW r \in Seq(Cells)
    PROVE  /\ write_change(nc) \in Seq(Cells)
           /\ read_change(write_change(nc) \o r) = [got |-> nc, rest |-> r]
<1> DEFINE fcs == nc.field_changes
           n == Len(fcs)
           ca == nc.children_added
           cr == nc.children_removed
           six == << nc.change, nc.name, nc.before_id, nc.after_id, nc.kind, n >>
           one(k) == << fcs[k].field_idx >> \o write_value(fcs[k].before)
                                           \o write_value(fcs[k].after)
           seqs == [k \in 1 .. n |-> one(k)]
           all == FlattenSeq(seqs)
           fewer == (<< Len(cr) >> \o cr) \o r
           more == (<< Len(ca) >> \o ca) \o fewer
           s == write_change(nc) \o r
<1>1. /\ nc \in Changes /\ fcs \in Seq(FieldChanges)
      /\ \A k \in 1 .. n : fcs[k] \in FieldChanges /\ ShapedChange(fcs[k])
      /\ n \in Nat /\ DOMAIN fcs = 1 .. n
    <2>1. nc \in Changes /\ \A k \in DOMAIN fcs : ShapedChange(fcs[k])
        BY DEF ShapedChanges
    <2>2. fcs \in Seq(FieldChanges)
        BY <2>1 DEF Changes
    <2>3. n \in Nat /\ DOMAIN fcs = 1 .. n /\ \A k \in 1 .. n : fcs[k] \in FieldChanges
        BY <2>2, LenProperties
    <2> QED
        BY <2>1, <2>2, <2>3
<1>2. /\ nc.change \in Cells /\ nc.name \in Cells /\ nc.before_id \in Cells
      /\ nc.after_id \in Cells /\ nc.kind \in Cells /\ n \in Cells
      /\ ca \in Seq(Cells) /\ cr \in Seq(Cells)
    <2>1. /\ nc.change \in {"Added", "Removed", "Modified", "Unchanged"}
          /\ nc.name \in Names /\ nc.before_id \in Nat /\ nc.after_id \in Nat
          /\ nc.kind \in KindOperands /\ ca \in Seq(Atoms) /\ cr \in Seq(Names)
        BY <1>1 DEF Changes
    <2>2. Atoms \subseteq Cells /\ Names \subseteq Cells
        BY DEF Names, Cells
    <2>3. ca \in Seq(Cells) /\ cr \in Seq(Cells)
        BY <2>1, <2>2, SeqMonotonic
    <2> QED
        BY <1>1, <2>1, <2>3 DEF Cells
<1>3. /\ fewer \in Seq(Cells) /\ more \in Seq(Cells)
      /\ read_list(read_cell, fewer) = [got |-> cr, rest |-> r]
      /\ read_list(read_cell, more) = [got |-> ca, rest |-> fewer]
    <2>1. fewer \in Seq(Cells) /\ read_list(read_cell, fewer) = [got |-> cr, rest |-> r]
        BY <1>2, ReadCells
    <2> HIDE DEF fewer
    <2> QED
        BY <1>2, <2>1, ReadCells
<1> HIDE DEF fewer, more
<1>4. seqs \in [1 .. n -> Seq(Cells)]
    <2>1. \A k \in 1 .. n : one(k) \in Seq(Cells)
        BY <1>1, ReadFieldChange, EmptySeq
    <2> HIDE DEF one
    <2> QED
        BY <2>1
<1>5. PICK rests : Leaves(Cells, seqs, n, all, more, rests)
    BY <1>1, <1>3, <1>4, RestsOfFlattened
<1>6. all \in Seq(Cells)
    BY <1>1, <1>3, <1>4, RestsOfFlattened
<1>7. ASSUME NEW k \in 1 .. n
      PROVE  read_field_change(rests[k - 1]) = [got |-> fcs[k], rest |-> rests[k]]
    <2>1. rests[k - 1] = one(k) \o rests[k] /\ rests[k] \in Seq(Cells)
        <3>1. k \in 0 .. n
            BY <1>1, SMTT(60)
        <3>2. seqs[k] = one(k)
            BY SMTT(60)
        <3> HIDE DEF one, seqs, all
        <3>3. rests[k - 1] = seqs[k] \o rests[k] /\ rests[k] \in Seq(Cells)
            BY <1>5, <3>1 DEF Leaves
        <3> QED
            BY <3>2, <3>3
    <2>2. fcs[k] \in FieldChanges /\ ShapedChange(fcs[k])
        BY <1>1
    <2>3. read_field_change(one(k) \o rests[k]) = [got |-> fcs[k], rest |-> rests[k]]
        BY <2>1, <2>2, ReadFieldChange
    <2> HIDE DEF one
    <2> QED
        BY <2>1, <2>3
<1>8. write_change(nc) \in Seq(Cells) /\ s = six \o (all \o more)
    <2> DEFINE lca == << Len(ca) >>
               lcr == << Len(cr) >>
    <2>1. six \in Seq(Cells) /\ lca \in Seq(Cells) /\ lcr \in Seq(Cells)
        <3>1. Len(ca) \in Nat /\ Len(cr) \in Nat
            <4>1. ca \in Seq(Cells) /\ cr \in Seq(Cells)
                BY <1>2
            <4> QED
                BY ONLY <4>1, LenProperties
        <3> QED
            BY <1>2, <3>1, SMTT(60) DEF Cells
    <2>2. write_change(nc) = ((((six \o all) \o lca) \o ca) \o lcr) \o cr
        <3>1. seqs = [k \in DOMAIN nc.field_changes |->
                        LET fc == nc.field_changes[k]
                        IN  << fc.field_idx >> \o write_value(fc.before) \o write_value(fc.after)]
            BY <1>1
        <3> QED
            BY <3>1, ZenonT(60) DEF write_change
    <2> DEFINE x == six \o all
               y == (x \o lca) \o ca
    <2>3. x \in Seq(Cells)
        BY ONLY <1>6, <2>1, CellsJoin, ZenonT(60)
    <2>4. y \in Seq(Cells)
        <3> HIDE DEF x, lca, six
        <3>1. x \o lca \in Seq(Cells)
            BY ONLY <2>1, <2>3, CellsJoin, ZenonT(60)
        <3> QED
            BY ONLY <1>2, <3>1, CellsJoin, ZenonT(60)
    <2>5. write_change(nc) = (y \o lcr) \o cr
        BY <2>2
    <2> HIDE DEF x, y, lca, lcr, six, all, ca, cr
    <2>6. (y \o lcr) \o cr \in Seq(Cells)
        BY <1>2, <2>1, <2>4, ConcatProperties
    <2>7. ((y \o lcr) \o cr) \o r = y \o fewer
        <3>1. y \in Seq(Cells) /\ lcr \in Seq(Cells) /\ cr \in Seq(Cells) /\ r \in Seq(Cells)
            BY <1>2, <2>1, <2>4
        <3>2. lcr \o cr \in Seq(Cells)
            BY ONLY <3>1, CellsJoin, ZenonT(60)
        <3>3. JoinEitherWay(y, lcr, cr) /\ JoinEitherWay(y, lcr \o cr, r)
            BY ONLY <3>1, <3>2, CellsJoin, ZenonT(60)
        <3> QED
            BY <3>3, ZenonT(60) DEF JoinEitherWay, fewer, lcr
    <2>8. y \o fewer = x \o more
        <3>1. /\ x \in Seq(Cells) /\ lca \in Seq(Cells) /\ ca \in Seq(Cells)
              /\ fewer \in Seq(Cells)
            BY <1>2, <1>3, <2>1, <2>3
        <3>2. lca \o ca \in Seq(Cells)
            BY ONLY <3>1, CellsJoin, ZenonT(60)
        <3>3. JoinEitherWay(x, lca, ca) /\ JoinEitherWay(x, lca \o ca, fewer)
            BY ONLY <3>1, <3>2, CellsJoin, ZenonT(60)
        <3> QED
            BY <3>3, ZenonT(60) DEF JoinEitherWay, y, more, lca
    <2>9. x \o more = six \o (all \o more)
        <3>1. six \in Seq(Cells) /\ all \in Seq(Cells) /\ more \in Seq(Cells)
            BY <1>3, <1>6, <2>1
        <3>2. JoinEitherWay(six, all, more)
            BY ONLY <3>1, CellsJoin, ZenonT(60)
        <3> QED
            BY <3>2, ZenonT(60) DEF JoinEitherWay, x
    <2> QED
        BY <2>5, <2>6, <2>7, <2>8, <2>9
<1>9. /\ s[1] = nc.change /\ s[2] = nc.name /\ s[3] = nc.before_id /\ s[4] = nc.after_id
      /\ s[5] = nc.kind /\ SubSeq(s, 6, Len(s)) = << n >> \o (all \o more)
    <2> DEFINE x == all \o more
    <2>1. x \in Seq(Cells) /\ six \in Seq(Cells) /\ Len(six) = 6
        BY <1>2, <1>3, <1>6, ConcatProperties
    <2>2. s = six \o x
        BY <1>8
    <2>3. /\ six[1] = nc.change /\ six[2] = nc.name /\ six[3] = nc.before_id
          /\ six[4] = nc.after_id /\ six[5] = nc.kind /\ six[6] = n
        OBVIOUS
    <2> HIDE DEF all, s, n, six, x
    <2>4. FiveThen(six, x, six \o x)
        BY ONLY <2>1, FiveCells, ZenonT(60)
    <2>5. /\ s[1] = six[1] /\ s[2] = six[2] /\ s[3] = six[3] /\ s[4] = six[4] /\ s[5] = six[5]
          /\ SubSeq(s, 6, Len(s)) = << six[6] >> \o x
        <3>1. FiveThen(six, x, s)
            BY ONLY <2>2, <2>4
        <3>2. 1 \in 1 .. 5 /\ 2 \in 1 .. 5 /\ 3 \in 1 .. 5 /\ 4 \in 1 .. 5 /\ 5 \in 1 .. 5
            OBVIOUS
        <3> QED
            BY ONLY <3>1, <3>2, ZenonT(60) DEF FiveThen
    <2>6. SubSeq(s, 6, Len(s)) = << n >> \o x
        BY ONLY <2>3, <2>5, ZenonT(60)
    <2>7. /\ s[1] = nc.change /\ s[2] = nc.name /\ s[3] = nc.before_id
          /\ s[4] = nc.after_id /\ s[5] = nc.kind
        BY ONLY <2>3, <2>5, ZenonT(60)
    <2> QED
        BY ONLY <2>6, <2>7 DEF x
<1>10. read_list(read_field_change, << n >> \o (all \o more)) = [got |-> fcs, rest |-> more]
    <2> DEFINE x == all \o more
    <2>1. x \in Seq(Cells) /\ rests[0] = x /\ rests[n] = more
        BY <1>3, <1>5, <1>6, ConcatProperties DEF Leaves
    <2> HIDE DEF x
    <2>2. Head(<< n >> \o x) = n /\ Tail(<< n >> \o x) = x
        BY <1>2, <2>1, SMTT(60)
    <2> HIDE DEF seqs, all
    <2>3. read_list(read_field_change, << n >> \o x) = [got |-> fcs, rest |-> rests[Len(fcs)]]
        BY <1>1, <1>7, <2>1, <2>2, FieldListRead, ZenonT(60)
    <2>4. rests[Len(fcs)] = more
        BY ONLY <2>1 DEF n
    <2> QED
        BY ONLY <2>3, <2>4, ZenonT(60) DEF x
<1> HIDE DEF seqs, all, s
<1>11. read_change(s) =
          [ got |-> [ change |-> nc.change, name |-> nc.name, before_id |-> nc.before_id,
                      after_id |-> nc.after_id, kind |-> nc.kind, field_changes |-> fcs,
                      children_added |-> ca, children_removed |-> cr ],
            rest |-> r ]
    <2> DEFINE fields == read_list(read_field_change, SubSeq(s, 6, Len(s)))
               added == read_list(read_cell, fields.rest)
               removed == read_list(read_cell, added.rest)
    <2>1. fields = [got |-> fcs, rest |-> more]
        BY <1>9, <1>10, Zenon
    <2>2. added = [got |-> ca, rest |-> fewer]
        <3>1. fields.rest = more
            <4> HIDE DEF fields
            <4> QED
                BY <2>1
        <3> HIDE DEF fields
        <3> QED
            BY <1>3, <3>1, Zenon
    <2>3. removed = [got |-> cr, rest |-> r]
        <3>1. added.rest = fewer
            <4> HIDE DEF added
            <4> QED
                BY <2>2
        <3> HIDE DEF added
        <3> QED
            BY <1>3, <3>1, Zenon
    <2>4. read_change(s) =
              [ got |-> [ change |-> s[1], name |-> s[2], before_id |-> s[3],
                          after_id |-> s[4], kind |-> s[5], field_changes |-> fields.got,
                          children_added |-> added.got, children_removed |-> removed.got ],
                rest |-> removed.rest ]
        BY DEF read_change
    <2> HIDE DEF fields, added, removed
    <2> QED
        BY <1>9, <2>1, <2>2, <2>3, <2>4
<1>12. nc = [ change |-> nc.change, name |-> nc.name, before_id |-> nc.before_id,
              after_id |-> nc.after_id, kind |-> nc.kind, field_changes |-> fcs,
              children_added |-> ca, children_removed |-> cr ]
    BY <1>1 DEF Changes
<1> QED
    BY <1>8, <1>11, <1>12 DEF s

LEMMA ReadDiff ==
    ASSUME NEW d \in Seq(ShapedChanges)
    PROVE  deserialize_diff(serialize_diff(d)) = [got |-> d, rest |-> << >>]
<1> DEFINE n == Len(d)
           seqs == [i \in 1 .. n |-> write_change(d[i])]
           all == FlattenSeq(seqs)
           s == serialize_diff(d)
<1>1. n \in Nat /\ DOMAIN d = 1 .. n /\ << >> \in Seq(Cells)
      /\ \A i \in 1 .. n : d[i] \in ShapedChanges
    BY LenProperties
<1>2. seqs \in [1 .. n -> Seq(Cells)]
    BY <1>1, ReadChange
<1>3. s = << n >> \o all
    <2>1. seqs = [i \in DOMAIN d |-> write_change(d[i])]
        BY <1>1
    <2> QED
        BY <2>1 DEF serialize_diff
<1>4. /\ all \in Seq(Cells)
      /\ \E rests : Leaves(Cells, seqs, n, all, << >>, rests)
    <2> HIDE DEF seqs, n
    <2> QED
        BY <1>1, <1>2, RestsOfFlattened
<1>5. PICK rests : Leaves(Cells, seqs, n, all, << >>, rests)
    BY <1>4
<1>6. ASSUME NEW k \in 1 .. n
      PROVE  read_change(rests[k - 1]) = [got |-> d[k], rest |-> rests[k]]
    <2>1. seqs[k] = write_change(d[k]) /\ k \in 0 .. n /\ d[k] \in ShapedChanges
        BY <1>1
    <2> HIDE DEF seqs, all, n
    <2>2. rests[k - 1] = seqs[k] \o rests[k] /\ rests[k] \in Seq(Cells)
        BY <1>5, <2>1 DEF Leaves
    <2> QED
        BY <2>1, <2>2, ReadChange
<1> HIDE DEF seqs
<1>7. rests[0] = all /\ rests[n] = << >>
    <2>1. all \o << >> = all
        BY <1>4, ConcatEmptySeq
    <2> HIDE DEF all, n
    <2> QED
        BY <1>5, <2>1 DEF Leaves
<1> HIDE DEF all, s
<1>8. Head(s) = n /\ Tail(s) = rests[0]
    BY <1>1, <1>3, <1>4, <1>7, SMTT(60)
<1>9. read_list(read_change, s) = [got |-> d, rest |-> rests[Len(d)]]
    BY <1>1, <1>6, <1>8, ChangeListRead
<1> QED
    BY <1>7, <1>9 DEF deserialize_diff, s

-----------------------------------------------------------------------------
(* What fields hold has the shape of their types *)

NodesShaped(t) ==
    \A n \in DOMAIN t : \A f \in Fields :
        \A v \in t[n].fields[f] : IsValue(field_type(t[n].kind, f), v)

LEMMA ShapesInit == Init => NodesShaped(nodes)
<1> SUFFICES ASSUME NEW heap \in HeapImages, nodes = heap PROVE NodesShaped(nodes)
    BY DEF Init, seed
<1>1. PICK k \in 0 .. MaxHeapNodes : heap \in [1 .. k -> HeapNodes]
    BY DEF HeapImages
<1>2. ASSUME NEW n \in DOMAIN heap, NEW f \in Fields, NEW v \in heap[n].fields[f]
      PROVE  IsValue(field_type(heap[n].kind, f), v)
    <2>1. heap[n] \in HeapNodes
        BY <1>1
    <2>2. PICK kind \in Kinds : heap[n] \in HeapNodesOf(kind)
        BY <2>1 DEF HeapNodes
    <2>3. PICK nf \in Names \X HeapFields(kind) :
              heap[n] = NewNodeRecord(kind, nf[1], FALSE, nf[2])
        BY <2>2 DEF HeapNodesOf
    <2>4. heap[n].kind = kind /\ heap[n].fields = nf[2] /\ nf[2] \in HeapFields(kind)
        BY <2>3 DEF NewNodeRecord
    <2>5. v \in ValuesOf(field_type(kind, f), 0 .. (MaxHeapNodes + 1))
        BY <1>2, <2>4, SMTT(60) DEF HeapFields
    <2> QED
        BY <2>4, <2>5 DEF ValuesOf
<1> QED
    BY <1>2 DEF NodesShaped

\* Kinds and fields that are kept, empty or those of one node with a value more.
LEMMA ShapesKept ==
    ASSUME NEW t, NEW u, NodesShaped(t), DOMAIN t \subseteq DOMAIN u,
           \A n \in DOMAIN t : u[n].kind = t[n].kind /\ u[n].fields = t[n].fields,
           \A n \in DOMAIN u \ DOMAIN t : u[n].fields = NoFields
    PROVE  NodesShaped(u)
<1>1. ASSUME NEW n \in DOMAIN u, NEW f \in Fields, NEW v \in u[n].fields[f]
      PROVE  IsValue(field_type(u[n].kind, f), v)
    <2>1. n \in DOMAIN t
        BY <1>1 DEF NoFields
    <2> QED
        BY <1>1, <2>1 DEF NodesShaped
<1> QED
    BY <1>1 DEF NodesShaped

LEMMA ShapeAdded ==
    ASSUME NEW t \in Seq(NodeRecord), NodesShaped(t), NEW n \in DOMAIN t, NEW f \in Fields,
           NEW v, IsValue(field_type(t[n].kind, f), v), NEW ts
    PROVE  NodesShaped([t EXCEPT ![n] = WithField(@, f, v, ts)])
<1> DEFINE u == [t EXCEPT ![n] = WithField(@, f, v, ts)]
<1>1. DOMAIN u = DOMAIN t /\ \A m \in DOMAIN t :
          u[m] = IF m = n THEN WithField(t[n], f, v, ts) ELSE t[m]
    OBVIOUS
<1>2. t[n] \in NodeRecord
    BY ElementOfSeq, LenProperties
<1>3. /\ WithField(t[n], f, v, ts).fields = [t[n].fields EXCEPT ![f] = {v}]
      /\ WithField(t[n], f, v, ts).kind = t[n].kind
    BY <1>2 DEF WithField, NodeRecord
<1>4. t[n].fields \in [Fields -> SUBSET SUBSET Nat]
    BY <1>2 DEF NodeRecord
<1> HIDE DEF u
<1>5. ASSUME NEW m \in DOMAIN u, NEW g \in Fields, NEW w \in u[m].fields[g]
      PROVE  IsValue(field_type(u[m].kind, g), w)
    <2>1. CASE m = n
        <3>1. u[m].fields[g] = IF g = f THEN {v} ELSE t[n].fields[g]
            BY <1>1, <1>3, <1>4, <2>1, ZenonT(60)
        <3>2. u[m].kind = t[n].kind
            BY <1>1, <1>3, <2>1
        <3>3. (w = v /\ g = f) \/ w \in t[n].fields[g]
            BY <1>5, <3>1
        <3> QED
            BY <3>2, <3>3 DEF NodesShaped
    <2>2. CASE m # n
        BY <1>1, <1>5, <2>2 DEF NodesShaped
    <2> QED
        BY <2>1, <2>2
<1> QED
    BY <1>5 DEF NodesShaped, u

LEMMA ShapesOp == TypeOK /\ NodesShaped(nodes) /\ OpCases => NodesShaped(nodes)'
<1> SUFFICES ASSUME TypeOK, NodesShaped(nodes), OpCases PROVE NodesShaped(nodes')
    BY DEF NodesShaped
<1>0. nodes \in Seq(NodeRecord) /\ \A m \in DOMAIN nodes : nodes[m] \in NodeRecord
    BY NodesFinite DEF TypeOK
<1>1. CASE UNCHANGED nodes
    BY <1>1
<1>2. ASSUME NEW kind, NEW name, NewNode(kind, name) PROVE NodesShaped(nodes')
    <2> DEFINE fresh == NewNodeRecord(kind, name, FALSE, NoFields)
    <2>1. fresh \in NodeRecord /\ fresh.fields = NoFields
        BY <1>2, FreshNodeTyped DEF NewNode, KindOperands, NewNodeRecord
    <2>2. nodes' = Append(nodes, fresh)
        BY <1>2 DEF NewNode
    <2> HIDE DEF fresh
    <2>3. /\ DOMAIN nodes' = DOMAIN nodes \cup {Len(nodes) + 1}
          /\ \A m \in DOMAIN nodes : nodes'[m] = nodes[m]
          /\ nodes'[Len(nodes) + 1] = fresh
        BY <1>0, <2>1, <2>2, TableAppend
    <2> QED
        BY <2>1, <2>3, ShapesKept
<1>3. ASSUME NEW n, DropNode(n) PROVE NodesShaped(nodes')
    <2>1. CASE nodes' = [nodes EXCEPT ![n] = Dropped(@)] /\ n \in DOMAIN nodes
        <3>1. /\ Dropped(nodes[n]).fields = nodes[n].fields
              /\ Dropped(nodes[n]).kind = nodes[n].kind
            BY <1>0, <2>1 DEF Dropped, NodeRecord
        <3>2. DOMAIN nodes' = DOMAIN nodes /\ \A m \in DOMAIN nodes :
                  nodes'[m] = IF m = n THEN Dropped(nodes[n]) ELSE nodes[m]
            BY <2>1
        <3> QED
            BY <3>1, <3>2, ShapesKept
    <2> QED
        BY <1>1, <1>3, <2>1 DEF DropNode, InRange
<1>4. ASSUME NEW n, NEW f \in Fields, NEW v \in StoredValues, SetField(n, f, v)
      PROVE  NodesShaped(nodes')
    BY <1>0, <1>4, ShapeAdded DEF SetField, InRange
<1>5. ASSUME NEW n, NEW f \in Fields, NEW name, LinkRef(n, f, name)
      PROVE  NodesShaped(nodes')
    <2> DEFINE target == find_named(name)
    <2>1. IsValue(field_type(nodes[n].kind, f), {target})
        BY <1>5 DEF LinkRef, IsValue
    <2>2. CASE nodes' = [nodes EXCEPT ![n] = WithField(@, f, {target}, {target})]
        BY <1>0, <1>5, <2>1, <2>2, ShapeAdded DEF LinkRef, InRange
    <2> QED
        BY <1>1, <1>5, <2>2 DEF LinkRef
<1>6. ASSUME ResolveChild PROVE NodesShaped(nodes')
    <2>1. CASE LinkedExisting
        BY <2>1, ShapesKept DEF LinkedExisting, SameButLinks
    <2>2. ASSUME NEW name \in Names, Materialised(name) PROVE NodesShaped(nodes')
        <3>1. NewNodeRecord(NoKind, name, TRUE, NoFields).fields = NoFields
            BY DEF NewNodeRecord
        <3> QED
            BY <2>2, <3>1, ShapesKept DEF Materialised, SameButLinks
    <2> QED
        BY <1>6, <2>1, <2>2, ResolveChildEffect
<1>7. \/ UNCHANGED vars \/ Rejection \/ EndGroup \/ CloseGroup \/ Nop
      \/ \E name : AddChild(name) \/ \E hint \in Nat : BeginGroup(name, hint)
      \/ \E label : Snapshot(label)
      \/ \E key, value : SetMeta(key, value)
      => UNCHANGED nodes
    BY DEF vars, Rejection, End, graph, EndGroup, CloseGroup, Nop, AddChild, BeginGroup,
           Snapshot, SetMeta
<1> QED
    BY <1>1, <1>2, <1>3, <1>4, <1>5, <1>6, <1>7 DEF OpCases

\* The values of a node's fields, and the changes between two nodes' fields.
ShapedTables == {t \in Tables : NodesShaped(t)}
ShapedSets == {s \in [Fields -> Stored] : \A f \in Fields : Shaped(s[f])}

LEMMA FieldValuesShaped ==
    ASSUME NEW t \in ShapedTables, NEW n \in DOMAIN t
    PROVE  FieldValues(t[n]) \in ShapedSets /\ NoneSet \in ShapedSets
<1>1. t \in Tables /\ NodesShaped(t)
    BY DEF ShapedTables
<1>2. FieldValues(t[n]) \in [Fields -> Stored] /\ NoneSet \in [Fields -> Stored]
    BY <1>1, FieldValuesTyped
<1>3. Shaped(Unset)
    BY DEF Shaped, Unset
<1>4. ASSUME NEW f \in Fields PROVE Shaped(FieldValues(t[n])[f])
    <2>1. CASE t[n].fields[f] = {}
        BY <1>3, <2>1 DEF FieldValues
    <2>2. CASE t[n].fields[f] # {}
        <3> DEFINE v == CHOOSE v \in t[n].fields[f] : TRUE
                   ft == field_type(t[n].kind, f)
        <3>1. v \in t[n].fields[f]
            BY <2>2
        <3>2. FieldValues(t[n])[f] = [type |-> ft, value |-> v]
            BY <2>2 DEF FieldValues
        <3>3. IsValue(ft, v)
            BY <1>1, <3>1 DEF NodesShaped
        <3> HIDE DEF v, ft
        <3>4. ft # "Invalid"
            BY <3>3 DEF IsValue
        <3> QED
            BY <3>2, <3>3, <3>4 DEF Shaped
    <2> QED
        BY <2>1, <2>2
<1> QED
    BY <1>2, <1>3, <1>4 DEF ShapedSets, NoneSet

LEMMA FieldChangesShaped ==
    ASSUME NEW old \in ShapedSets, NEW new \in ShapedSets,
           NEW fcs, fcs \in field_changes(old, new)
    PROVE  \A k \in DOMAIN fcs : ShapedChange(fcs[k])
<1> DEFINE F == {f \in Fields : old[f] # new[f]}
           C == {FieldChange(f, old[f], new[f]) : f \in F}
           g == [f \in F |-> FieldChange(f, old[f], new[f])]
<1>1. IsFiniteSet(F)
    BY FieldsAssumption, FS_Subset
<1>2. g \in Surjection(F, C)
    BY DEF Surjection
<1>3. \A fc \in C : ShapedChange(fc)
    BY DEF FieldChange, ShapedChange, ShapedSets
<1>4. fcs \in SetToSeqs(C)
    BY DEF field_changes
<1> HIDE DEF F, C, g
<1>5. IsFiniteSet(C)
    BY <1>1, <1>2, FS_Surjection
<1>6. fcs \in Seq(C) /\ DOMAIN fcs = 1 .. Len(fcs)
    BY <1>4, <1>5, OrderedSet
<1>7. \A k \in DOMAIN fcs : fcs[k] \in C
    BY <1>6, LenProperties
<1> QED
    BY <1>3, <1>7

LEMMA ChangesShaped ==
    ASSUME NEW t \in ShapedTables, NEW u \in ShapedTables,
           NEW a \in LiveNames(t) \cup LiveNames(u), NEW nc \in node_changes(t, u, a)
    PROVE  nc \in ShapedChanges
<1>1. t \in Tables /\ u \in Tables /\ nc \in Changes
    BY ChangesTyped DEF ShapedTables
<1> DEFINE m == by_name(t, a)
           n == by_name(u, a)
<1>2. a \in LiveNames(t) => m \in DOMAIN t
    BY <1>1, NamedNode DEF NamedLive
<1>3. a \in LiveNames(u) => n \in DOMAIN u
    BY <1>1, NamedNode DEF NamedLive
<1> SUFFICES \A k \in DOMAIN nc.field_changes : ShapedChange(nc.field_changes[k])
    BY <1>1, SMTT(60) DEF ShapedChanges
<1>4. CASE a \notin LiveNames(t)
    <2>1. nc \in AddedNode(u, n) /\ n \in DOMAIN u
        BY <1>3, <1>4 DEF node_changes
    <2> HIDE DEF n
    <2> DEFINE linked == [ k \in DOMAIN u[n].children |->
                             LET cn == u[u[n].children[k]].name
                             IN  IF cn = NoAtom THEN << >> ELSE << cn >> ]
    <2>2. PICK fcs \in field_changes(NoneSet, FieldValues(u[n])) :
              nc = [ change |-> "Added", name |-> u[n].name, kind |-> u[n].kind,
                     before_id |-> kInvalidNode, after_id |-> n, field_changes |-> fcs,
                     children_added |-> FlattenSeq(linked), children_removed |-> << >> ]
        BY <2>1, SMTT(60) DEF AddedNode
    <2>3. nc.field_changes = fcs
        BY <2>2
    <2> QED
        BY <2>1, <2>2, <2>3, FieldValuesShaped, FieldChangesShaped
<1>5. CASE a \in LiveNames(t) /\ a \notin LiveNames(u)
    <2>1. nc.field_changes = << >>
        BY <1>5 DEF node_changes, RemovedNode
    <2> QED
        BY <2>1
<1>6. CASE a \in LiveNames(t) /\ a \in LiveNames(u)
    <2>1. nc \in KeptNode(t, m, u, n) /\ m \in DOMAIN t /\ n \in DOMAIN u
        BY <1>2, <1>3, <1>6 DEF node_changes
    <2> HIDE DEF m, n
    <2>2. PICK fcs \in field_changes(FieldValues(t[m]), FieldValues(u[n])) :
              nc.field_changes = fcs
        BY <2>1 DEF KeptNode, KeptChange
    <2> QED
        BY <2>1, <2>2, FieldValuesShaped, FieldChangesShaped
<1> QED
    BY <1>4, <1>5, <1>6

LEMMA DiffShaped ==
    ASSUME NEW t \in ShapedTables, NEW u \in ShapedTables, NEW d,
           d \in diff_node_graphs(t, u)
    PROVE  d \in Seq(ShapedChanges)
<1>1. t \in Tables /\ u \in Tables
    BY DEF ShapedTables
<1>2. PICK o \in NameOrders(t, u) :
          /\ Len(d) = Len(o) /\ DOMAIN d = DOMAIN o
          /\ \A i \in DOMAIN o : d[i] \in node_changes(t, u, o[i])
    BY <1>1, DiffIsPatch
<1>3. d \in Seq(Changes)
    BY <1>1, DiffIsPatch
<1>4. \A i \in DOMAIN o : o[i] \in LiveNames(t) \cup LiveNames(u)
    <2>1. PICK kept \in SetToSeqs(LiveNames(u)),
               gone \in SetToSeqs(LiveNames(t) \ LiveNames(u)) : o = kept \o gone
        BY DEF NameOrders
    <2>2. IsFiniteSet(LiveNames(u)) /\ IsFiniteSet(LiveNames(t) \ LiveNames(u))
        BY <1>1, NamesFinite, FS_Subset
    <2>3. kept \in Seq(LiveNames(u)) /\ gone \in Seq(LiveNames(t) \ LiveNames(u))
        BY <2>1, <2>2, OrderedSet
    <2>4. o \in Seq(LiveNames(t) \cup LiveNames(u))
        BY <2>1, <2>3
    <2> QED
        BY <2>4
<1>5. \A i \in DOMAIN d : d[i] \in ShapedChanges
    BY <1>2, <1>4, ChangesShaped
<1>6. DOMAIN d = 1 .. Len(d) /\ Len(d) \in Nat /\ d = [i \in 1 .. Len(d) |-> d[i]]
    BY <1>3, LenProperties
<1>7. d \in [1 .. Len(d) -> ShapedChanges]
    BY <1>5, <1>6
<1> QED
    BY <1>6, <1>7

-----------------------------------------------------------------------------
(* A diff that is made reads back *)

ReadsBack(d) == deserialize_diff(serialize_diff(d)) = [got |-> d, rest |-> << >>]

\* Whatever the machine holds, or will take up again, is shaped until the two
\* graphs are compared.
ShapesInv ==
    /\ PatchInv
    /\ phase \in {"before", "after"} => NodesShaped(nodes)
    /\ phase = "before" => NodesShaped(start.heap)
    /\ phase = "after" => NodesShaped(before.nodes)
    /\ phase = "patching" => ReadsBack(diff)

LEMMA ShapesInvInit == DiffInit => ShapesInv
<1> SUFFICES ASSUME DiffInit PROVE ShapesInv
    OBVIOUS
<1>1. PatchInv /\ NodesShaped(nodes)
    BY PatchInvInit, ShapesInit DEF DiffInit
<1>2. phase = "before" /\ start.heap = nodes
    BY DEF DiffInit
<1> QED
    BY <1>1, <1>2 DEF ShapesInv

LEMMA ShapesInvStep == ShapesInv /\ [DiffNext]_allVars => ShapesInv'
<1> SUFFICES ASSUME ShapesInv, [DiffNext]_allVars PROVE ShapesInv'
    OBVIOUS
<1>1. PatchInv /\ PatchInv' /\ GraphsTyped /\ TypeOK
    BY PatchInvStep DEF ShapesInv, PatchInv, GraphsTyped
<1>2. CASE UNCHANGED allVars
    BY <1>1, <1>2 DEF allVars, vars, diffVars, ShapesInv, NodesShaped, ReadsBack
<1>3. CASE Write \/ Resolve
    <2>1. [Next]_vars /\ UNCHANGED diffVars
        BY <1>3, WritingIsAStep DEF Write, Resolve
    <2>2. NodesShaped(nodes) => NodesShaped(nodes)'
        BY <1>1, <2>1, StepIsAnOp, ShapesOp
    <2> QED
        BY <1>1, <2>1, <2>2 DEF ShapesInv, diffVars, NodesShaped, ReadsBack
<1>4. CASE TakeBefore
    <2>1. /\ phase = "before" /\ phase' = "after" /\ before'.nodes = nodes
          /\ nodes' = nodes \/ nodes' = start.heap
        BY <1>4 DEF TakeBefore, vars, Reseed
    <2> QED
        BY <1>1, <2>1 DEF ShapesInv, NodesShaped
<1>5. CASE TakeAfter
    <2>1. /\ phase = "after" /\ phase' = "patching"
          /\ diff' \in diff_node_graphs(before.nodes, nodes)
        BY <1>5 DEF TakeAfter
    <2>2. before.nodes \in Tables /\ nodes \in Tables
        <3>1. ~ undefined /\ LinksClosed /\ MachineKept(before)
            BY <1>1, <1>5 DEF TakeAfter, Complete, GraphsTyped
        <3>2. Closed(nodes)
            BY <3>1, LinksClosedMeansClosed
        <3> QED
            BY <1>1, <3>1, <3>2 DEF Tables, MachineKept, GraphKept, GraphsTyped, TypeOK
    <2>3. before.nodes \in ShapedTables /\ nodes \in ShapedTables
        BY <2>1, <2>2 DEF ShapesInv, ShapedTables
    <2>4. ReadsBack(diff')
        BY <2>1, <2>3, DiffShaped, ReadDiff DEF ReadsBack
    <2> QED
        BY <1>1, <2>1, <2>4 DEF ShapesInv, ReadsBack
<1>6. CASE Patch
    <2>1. phase = "patching" /\ phase' \in {"patching", "misread"} /\ diff' = diff
        BY <1>6 DEF Patch, diffVars
    <2> QED
        BY <1>1, <2>1 DEF ShapesInv, ReadsBack
<1>7. CASE Over
    BY <1>2, <1>7 DEF Over
<1> QED
    BY <1>2, <1>3, <1>4, <1>5, <1>6, <1>7 DEF DiffNext

\* Whatever two graphs are compared and in whatever order the maps are walked,
\* deserialize_diff gets from the stream of serialize_diff the diff that was
\* written, with its optional values and both lists of children, and leaves
\* nothing of the stream unread.
THEOREM DiffReadsBack == DiffSpec => []RoundTrip
<1>1. ShapesInv => RoundTrip
    BY DEF ShapesInv, ReadsBack, RoundTrip
<1> QED
    BY <1>1, ShapesInvInit, ShapesInvStep, PTL DEF DiffSpec

=============================================================================
