--------------------------- MODULE ReplayVMProofs ---------------------------
(***************************************************************************)
(* Theorems about the replay machine, for every pool, schema, limit and    *)
(* journal.                                                                *)
(*                                                                         *)
(* Types and the name index come first, then the graph the machine builds. *)
(* Slots: every operation keeps the slots of the table, appends one or     *)
(* drops one, and the counters, the free list and the generations tell     *)
(* which.  Open groups: what BEGIN_GROUP reserves stays reserved, and an   *)
(* owner pointer is lost only where the code gives it up.  Links: those    *)
(* written when a group closes leave a closed graph, and are all counted.  *)
(***************************************************************************)
EXTENDS ReplayVM, TLAPS, FiniteSetTheorems, SequenceTheorems

-----------------------------------------------------------------------------
(* Values and records *)

LEMMA ValuesAreIds ==
    ASSUME NEW vt, NEW T \in SUBSET Nat, NEW v \in ValuesOf(vt, T)
    PROVE  v \in SUBSET Nat
BY DEF ValuesOf

LEMMA HeapNodesTyped == HeapNodes \subseteq NodeRecord
<1> SUFFICES ASSUME NEW node \in HeapNodes PROVE node \in NodeRecord
    OBVIOUS
<1> PICK kind \in Kinds : node \in HeapNodesOf(kind)
    BY DEF HeapNodes
<1> PICK nf \in Names \X HeapFields(kind) :
                    node = NewNodeRecord(kind, nf[1], FALSE, nf[2])
    BY DEF HeapNodesOf
<1>1. 0 .. (MaxHeapNodes + 1) \in SUBSET Nat
    BY LimitAssumption
<1>2. nf[2] \in [Fields -> SUBSET SUBSET Nat]
    <2> DEFINE Values(f) == ValuesOf(field_type(kind, f), 0 .. (MaxHeapNodes + 1))
               Stored(f) == {{}} \cup {{v} : v \in Values(f)}
    <2>1. nf[2] \in [Fields -> UNION {Stored(f) : f \in Fields}]
        BY DEF HeapFields
    <2>2. \A f \in Fields : nf[2][f] \in Stored(f)
        BY DEF HeapFields
    <2>3. ASSUME NEW f \in Fields PROVE nf[2][f] \in SUBSET SUBSET Nat
        <3>1. Values(f) \subseteq SUBSET Nat
            BY <1>1 DEF ValuesOf
        <3> HIDE DEF Values
        <3> QED
            BY <2>2, <3>1
    <2> HIDE DEF Stored
    <2> QED
        BY <2>1, <2>3
<1> QED
    BY <1>2 DEF NewNodeRecord, NodeRecord, KindOperands, Names

LEMMA HeapImagesTyped ==
    ASSUME NEW heap \in HeapImages
    PROVE  heap \in Seq(NodeRecord)
<1>1. PICK n \in 0..MaxHeapNodes : heap \in [1..n -> HeapNodes]
    BY DEF HeapImages
<1>2. heap \in [1..n -> NodeRecord]
    BY <1>1, HeapNodesTyped
<1> QED
    BY <1>1, <1>2, SeqDef, LimitAssumption

LEMMA FreshNodeTyped ==
    ASSUME NEW kind \in KindOperands, NEW name \in Names, NEW p \in BOOLEAN
    PROVE  NewNodeRecord(kind, name, p, NoFields) \in NodeRecord
BY DEF NewNodeRecord, NodeRecord, NoFields

LEMMA InitTyped == Init => TypeOK
<1> SUFFICES ASSUME Init PROVE TypeOK
    OBVIOUS
<1>1. PICK heap \in HeapImages : seed(heap)
    BY DEF Init
<1>2. nodes \in Seq(NodeRecord) /\ Len(nodes) \in Nat
    BY <1>1, HeapImagesTyped, LenProperties DEF seed
<1>3. capacity \in Nat /\ name_index \in [Atoms -> 0..Len(nodes)] /\ stats \in ReplayStats
    BY <1>1, <1>2 DEF seed, ReplayStats
<1>4. << >> \in Seq(GroupFrame) /\ << >> \in Seq(Nat)
        /\ << >> \in Seq([label : Names, node_count : Nat, alive_count : Nat])
    BY EmptySeq
<1>5. meta \in [Atoms -> SUBSET Names] /\ status \in Codes /\ undefined \in BOOLEAN
    BY DEF Init, Codes
<1>6. DOMAIN frames = {} /\ DOMAIN closing = {}
    BY DEF Init
<1> QED
    BY <1>2, <1>3, <1>4, <1>5, <1>6 DEF Init, TypeOK

-----------------------------------------------------------------------------
(* Updates of one node, of the table and of the open groups *)

LEMMA RecordUpdates ==
    ASSUME NEW node \in NodeRecord
    PROVE  /\ \A f \in Fields : \A v, ts \in SUBSET Nat :
                    WithField(node, f, v, ts) \in NodeRecord
           /\ Dropped(node) \in NodeRecord
           /\ \A id \in Nat : WithChild(node, id) \in NodeRecord
           /\ \A id \in Nat : WithRef(node, id) \in NodeRecord
<1>1. ASSUME NEW f \in Fields, NEW v \in SUBSET Nat, NEW ts \in SUBSET Nat
      PROVE  WithField(node, f, v, ts) \in NodeRecord
    BY ZenonT(60) DEF WithField, NodeRecord
<1>2. Dropped(node) \in NodeRecord
    <2>1. node.generation + 1 \in Nat
        BY DEF NodeRecord
    <2>2. Dropped(node) = [node EXCEPT !.alive = FALSE, !.generation = node.generation + 1]
        BY DEF Dropped
    <2> DEFINE g == node.generation + 1
    <2> HIDE DEF g
    <2>3. ASSUME g \in Nat PROVE [node EXCEPT !.alive = FALSE, !.generation = g] \in NodeRecord
        BY <2>3 DEF NodeRecord
    <2> QED
        BY <2>1, <2>2, <2>3 DEF g
<1>3. ASSUME NEW id \in Nat PROVE WithChild(node, id) \in NodeRecord
    <2>1. Append(node.children, id) \in Seq(Nat)
        BY AppendProperties DEF NodeRecord
    <2>2. ASSUME NEW cs \in Seq(Nat) PROVE [node EXCEPT !.children = cs] \in NodeRecord
        BY DEF NodeRecord
    <2> QED
        BY <2>1, <2>2 DEF WithChild
<1>4. ASSUME NEW id \in Nat PROVE WithRef(node, id) \in NodeRecord
    BY DEF WithRef, NodeRecord
<1> QED
    BY <1>1, <1>2, <1>3, <1>4

LEMMA TableUpdate ==
    ASSUME NEW t \in Seq(NodeRecord), NEW n \in DOMAIN t, NEW node \in NodeRecord
    PROVE  /\ [t EXCEPT ![n] = node] \in Seq(NodeRecord)
           /\ Len([t EXCEPT ![n] = node]) = Len(t)
           /\ DOMAIN [t EXCEPT ![n] = node] = DOMAIN t
BY ExceptSeq, LenProperties

LEMMA TableAppend ==
    ASSUME NEW t \in Seq(NodeRecord), NEW node \in NodeRecord
    PROVE  /\ Append(t, node) \in Seq(NodeRecord)
           /\ Len(Append(t, node)) = Len(t) + 1
           /\ DOMAIN Append(t, node) = DOMAIN t \cup {Len(t) + 1}
           /\ \A n \in DOMAIN t : Append(t, node)[n] = t[n]
           /\ Append(t, node)[Len(t) + 1] = node
BY AppendProperties, LenProperties

LEMMA StaleFrames ==
    ASSUME NEW fs \in Seq(GroupFrame), NEW moved \in BOOLEAN
    PROVE  /\ AfterMove(moved, fs) \in Seq(GroupFrame)
           /\ DOMAIN AfterMove(moved, fs) = DOMAIN fs
           /\ Len(AfterMove(moved, fs)) = Len(fs)
           /\ \A i \in DOMAIN fs :
                /\ AfterMove(moved, fs)[i].owner_id = fs[i].owner_id
                /\ AfterMove(moved, fs)[i].reserved = fs[i].reserved
                /\ AfterMove(moved, fs)[i].deferred = fs[i].deferred
<1>1. /\ Stale(fs) \in [1 .. Len(fs) -> GroupFrame]
      /\ Len(fs) \in Nat /\ DOMAIN fs = 1 .. Len(fs)
    <2>1. Len(fs) \in Nat /\ DOMAIN fs = 1 .. Len(fs)
        BY LenProperties
    <2>2. ASSUME NEW i \in 1 .. Len(fs)
          PROVE  [fs[i] EXCEPT !.cached = FALSE] \in GroupFrame
        <3>1. fs[i] \in GroupFrame
            BY <2>1, ElementOfSeq
        <3> QED
            BY <3>1 DEF GroupFrame
    <2> QED
        BY <2>1, <2>2 DEF Stale
<1>2. Stale(fs) \in Seq(GroupFrame) /\ DOMAIN Stale(fs) = DOMAIN fs /\ Len(Stale(fs)) = Len(fs)
    <2>1. Stale(fs) \in Seq(GroupFrame)
        BY <1>1, SeqDef
    <2> QED
        BY <1>1, <2>1, LenProperties
<1>3. \A i \in DOMAIN fs :
                /\ Stale(fs)[i].owner_id = fs[i].owner_id
                /\ Stale(fs)[i].reserved = fs[i].reserved
                /\ Stale(fs)[i].deferred = fs[i].deferred
    BY <1>1 DEF Stale, GroupFrame
<1>4. CASE moved
    <2>1. AfterMove(moved, fs) = Stale(fs)
        BY <1>4 DEF AfterMove
    <2> QED
        BY <1>2, <1>3, <2>1
<1>5. CASE ~ moved
    <2>1. AfterMove(moved, fs) = fs
        BY <1>5 DEF AfterMove
    <2> QED
        BY <2>1
<1> QED
    BY <1>4, <1>5

LEMMA CountersStayNaturals ==
    ASSUME NEW st \in ReplayStats, NEW k \in Nat
    PROVE  /\ [st EXCEPT !.ops_executed = @ + 1] \in ReplayStats
           /\ [st EXCEPT !.nodes_created = @ + 1] \in ReplayStats
           /\ [st EXCEPT !.nodes_dropped = @ + 1] \in ReplayStats
           /\ [st EXCEPT !.unresolved_refs = @ + k] \in ReplayStats
           /\ [st EXCEPT !.children_linked = @ + 1] \in ReplayStats
           /\ [st EXCEPT !.placeholders = @ + 1] \in ReplayStats
           /\ [st EXCEPT !.children_linked = @ + 1, !.placeholders = @ + 1] \in ReplayStats
<1>1. /\ st.ops_executed + 1 \in Nat /\ st.nodes_created + 1 \in Nat
      /\ st.nodes_dropped + 1 \in Nat /\ st.unresolved_refs + k \in Nat
      /\ st.children_linked + 1 \in Nat /\ st.placeholders + 1 \in Nat
    BY DEF ReplayStats
<1>2. ASSUME NEW m \in Nat
      PROVE  /\ [st EXCEPT !.ops_executed = m] \in ReplayStats
             /\ [st EXCEPT !.nodes_created = m] \in ReplayStats
             /\ [st EXCEPT !.nodes_dropped = m] \in ReplayStats
             /\ [st EXCEPT !.unresolved_refs = m] \in ReplayStats
             /\ [st EXCEPT !.children_linked = m] \in ReplayStats
             /\ [st EXCEPT !.placeholders = m] \in ReplayStats
    BY DEF ReplayStats
<1>3. [st EXCEPT !.children_linked = @ + 1, !.placeholders = @ + 1] \in ReplayStats
    BY <1>1 DEF ReplayStats
<1> QED
    BY <1>1, <1>2, <1>3

LEMMA FoundNamed ==
    ASSUME TypeOK, NEW name \in Names, find_named(name) # kInvalidNode
    PROVE  find_named(name) \in DOMAIN nodes
<1>1. name \in Atoms /\ find_named(name) = name_index[name]
    BY DEF find_named
<1>2. name_index[name] \in 0 .. Len(nodes)
    BY <1>1 DEF TypeOK
<1> QED
    BY <1>1, <1>2, LenProperties DEF TypeOK, kInvalidNode

LEMMA ExecutedTyped == TypeOK => Executed \in ReplayStats
BY CountersStayNaturals, 0 \in Nat DEF TypeOK, Executed

LEMMA NodesFinite ==
    ASSUME TypeOK
    PROVE  /\ Len(nodes) \in Nat
           /\ DOMAIN nodes = 1 .. Len(nodes)
           /\ \A n \in DOMAIN nodes : nodes[n] \in NodeRecord
           /\ NodeOperands \subseteq Nat
           /\ IsFiniteSet(NodeOperands)
<1>1. nodes \in Seq(NodeRecord)
    BY DEF TypeOK
<1>2. Len(nodes) \in Nat /\ DOMAIN nodes = 1 .. Len(nodes)
    BY <1>1, LenProperties
<1>3. \A n \in DOMAIN nodes : nodes[n] \in NodeRecord
    BY <1>1, <1>2, ElementOfSeq
<1>4. NodeOperands \subseteq Nat /\ IsFiniteSet(NodeOperands)
    BY <1>2, FS_Interval DEF NodeOperands
<1> QED
    BY <1>1, <1>2, <1>3, <1>4

-----------------------------------------------------------------------------
(* Every operation preserves the types *)

LEMMA EndTyped ==
    ASSUME TypeOK, NEW code \in Codes, End(code)
    PROVE  TypeOK'
BY DEF TypeOK, End, graph, InRange

LEMMA NewNodeTyped ==
    ASSUME TypeOK, NEW kind, NEW name, NewNode(kind, name)
    PROVE  TypeOK'
<1> DEFINE fresh == NewNodeRecord(kind, name, FALSE, NoFields)
<1>1. fresh \in NodeRecord
    BY FreshNodeTyped DEF NewNode, KindOperands
<1>2. /\ nodes' \in Seq(NodeRecord)
      /\ Len(nodes') = Len(nodes) + 1
      /\ DOMAIN nodes \subseteq DOMAIN nodes'
    BY <1>1, TableAppend, ZenonT(60) DEF NewNode, TypeOK
<1>3. capacity' \in Nat
    BY DEF NewNode, TypeOK, GrownCapacity
<1>4. name_index' \in [Atoms -> 0 .. Len(nodes')]
    BY <1>2, NodesFinite DEF NewNode, TypeOK, register_name
<1>5. /\ frames' \in Seq(GroupFrame)
      /\ (\A i \in DOMAIN frames : InRange(frames[i].owner_id))'
    <2>1. FullTable \in BOOLEAN /\ frames \in Seq(GroupFrame)
        BY DEF FullTable, TypeOK
    <2>2. frames' = AfterMove(FullTable, frames)
        BY DEF NewNode
    <2>3. \A i \in DOMAIN frames : frames[i].owner_id \in DOMAIN nodes'
        BY <1>2, SMTT(60) DEF TypeOK, InRange
    <2> QED
        BY <2>1, <2>2, <2>3, StaleFrames DEF InRange
<1>6. stats' \in ReplayStats
    BY ExecutedTyped, CountersStayNaturals, 0 \in Nat, ZenonT(60) DEF NewNode
<1> QED
    BY <1>2, <1>3, <1>4, <1>5, <1>6 DEF NewNode, TypeOK, InRange

LEMMA SetFieldTyped ==
    ASSUME TypeOK, NEW n, NEW f \in Fields,
           NEW v \in SUBSET Nat, IsFiniteSet(v), SetField(n, f, v)
    PROVE  TypeOK'
<1>1. n \in DOMAIN nodes /\ nodes[n] \in NodeRecord
    BY NodesFinite DEF SetField, InRange
<1>2. v \in SUBSET Nat /\ InTable(v) \in SUBSET Nat
    BY DEF InTable
<1>3. WithField(nodes[n], f, v, InTable(v)) \in NodeRecord
    BY <1>1, <1>2, RecordUpdates
<1>4. /\ nodes' \in Seq(NodeRecord)
      /\ Len(nodes') = Len(nodes)
      /\ DOMAIN nodes' = DOMAIN nodes
    BY <1>1, <1>3, TableUpdate DEF SetField, TypeOK
<1>5. Cardinality(v \ InTable(v)) \in Nat
    BY FS_Subset, FS_CardinalityType
<1>6. stats' \in ReplayStats
    BY <1>5, ExecutedTyped, CountersStayNaturals DEF SetField
<1> QED
    BY <1>4, <1>6 DEF SetField, TypeOK, InRange

LEMMA LinkRefTyped ==
    ASSUME TypeOK, NEW src \in NodeOperands, NEW f \in Fields, NEW name,
           LinkRef(src, f, name)
    PROVE  TypeOK'
<1> DEFINE target == find_named(name)
<1>1. src \in DOMAIN nodes /\ nodes[src] \in NodeRecord
    BY NodesFinite DEF LinkRef, InRange
<1>2. target \in Nat
    BY NodesFinite, SMTT(60) DEF find_named, TypeOK, kInvalidNode
<1>3. stats' \in ReplayStats
    BY ExecutedTyped, CountersStayNaturals, 1 \in Nat, ZenonT(60) DEF LinkRef
<1>4. CASE UNCHANGED nodes
    BY <1>3, <1>4 DEF LinkRef, TypeOK, InRange
<1>5. CASE nodes' = [nodes EXCEPT ![src] = WithField(@, f, {target}, {target})]
    <2>1. WithField(nodes[src], f, {target}, {target}) \in NodeRecord
        BY <1>1, <1>2, RecordUpdates
    <2>2. /\ nodes' \in Seq(NodeRecord)
          /\ Len(nodes') = Len(nodes)
          /\ DOMAIN nodes' = DOMAIN nodes
        BY <1>1, <1>5, <2>1, TableUpdate DEF TypeOK
    <2> QED
        BY <1>3, <2>2 DEF LinkRef, TypeOK, InRange
<1> QED
    BY <1>4, <1>5 DEF LinkRef

LEMMA DropNodeTyped ==
    ASSUME TypeOK, NEW n, DropNode(n)
    PROVE  TypeOK'
<1>1. n \in DOMAIN nodes /\ nodes[n] \in NodeRecord /\ n \in Nat
    BY NodesFinite DEF DropNode, InRange
<1>2. stats' \in ReplayStats
    BY ExecutedTyped, CountersStayNaturals, 0 \in Nat, ZenonT(60) DEF DropNode
<1>3. CASE ~ nodes[n].alive
    BY <1>2, <1>3, SMTT(60) DEF DropNode, TypeOK, InRange
<1>4. CASE nodes[n].alive
    <2>1. nodes' = [nodes EXCEPT ![n] = Dropped(@)] /\ free_list' = Append(free_list, n)
        BY <1>4 DEF DropNode
    <2>2. Dropped(nodes[n]) \in NodeRecord
        BY <1>1, RecordUpdates
    <2>3. /\ nodes' \in Seq(NodeRecord)
          /\ Len(nodes') = Len(nodes)
          /\ DOMAIN nodes' = DOMAIN nodes
        BY <1>1, <2>1, <2>2, TableUpdate DEF TypeOK
    <2>4. free_list' \in Seq(Nat)
        BY <1>1, <2>1, AppendProperties DEF TypeOK
    <2>5. name_index' \in [Atoms -> 0 .. Len(nodes')]
        <3>1. name_index' = [a \in Atoms |->
                    IF a = nodes[n].name /\ name_index[a] = n
                    THEN kInvalidNode ELSE name_index[a]]
            BY <1>4 DEF DropNode
        <3>2. 0 \in 0 .. Len(nodes)
            BY NodesFinite
        <3> QED
            BY <2>3, <3>1, <3>2 DEF TypeOK, kInvalidNode
    <2> QED
        BY <1>2, <2>3, <2>4, <2>5, SMTT(60) DEF DropNode, TypeOK, InRange
<1> QED
    BY <1>3, <1>4

LEMMA NopTyped ==
    ASSUME TypeOK, Nop
    PROVE  TypeOK'
BY ExecutedTyped DEF Nop, TypeOK, InRange

LEMMA BeginGroupTyped ==
    ASSUME TypeOK, NEW name, NEW hint \in Nat, BeginGroup(name, hint)
    PROVE  TypeOK'
<1> DEFINE owner == find_named(name)
           reserved == Len(nodes) + hint
           frame == [ owner_id |-> owner, cached |-> TRUE,
                      reserved |-> reserved, deferred |-> << >> ]
           kept == AfterMove(reserved > capacity, frames)
<1>1. reserved \in Nat
    BY NodesFinite
<1>2. owner \in Nat /\ owner \in DOMAIN nodes
    BY NodesFinite DEF BeginGroup, Live, find_named, TypeOK, kInvalidNode
<1>3. CASE End("bad_alloc")
    BY <1>3, EndTyped DEF Codes
<1>4. CASE /\ capacity' = reserve(reserved)
           /\ frames' = Append(kept, frame)
           /\ stats' = Executed
           /\ UNCHANGED << nodes, name_index, closing, free_list, snapshots,
                           meta, status, undefined >>
    <2>1. frame \in GroupFrame
        BY <1>1, <1>2, EmptySeq DEF GroupFrame
    <2>2. /\ kept \in Seq(GroupFrame)
          /\ DOMAIN kept = DOMAIN frames
          /\ \A i \in DOMAIN kept : kept[i].owner_id \in DOMAIN nodes
        <3>1. /\ frames \in Seq(GroupFrame)
              /\ \A i \in DOMAIN frames : frames[i].owner_id \in DOMAIN nodes
            BY DEF TypeOK, InRange
        <3>2. ASSUME NEW moved \in BOOLEAN
              PROVE  /\ AfterMove(moved, frames) \in Seq(GroupFrame)
                     /\ DOMAIN AfterMove(moved, frames) = DOMAIN frames
                     /\ \A i \in DOMAIN frames :
                            AfterMove(moved, frames)[i].owner_id \in DOMAIN nodes
            BY <3>1, StaleFrames
        <3>3. (reserved > capacity) \in BOOLEAN
            OBVIOUS
        <3>4. /\ AfterMove(reserved > capacity, frames) \in Seq(GroupFrame)
              /\ DOMAIN AfterMove(reserved > capacity, frames) = DOMAIN frames
              /\ \A i \in DOMAIN frames :
                    AfterMove(reserved > capacity, frames)[i].owner_id \in DOMAIN nodes
            BY <3>2, <3>3, Zenon
        <3> QED
            BY <3>4
    <2> HIDE DEF frame, kept, owner, reserved
    <2>3. /\ frames' \in Seq(GroupFrame)
          /\ DOMAIN frames' = DOMAIN kept \cup {Len(kept) + 1}
          /\ \A i \in DOMAIN kept : frames'[i] = kept[i]
          /\ frames'[Len(kept) + 1] = frame
        BY <1>4, <2>1, <2>2, AppendProperties, LenProperties
    <2>4. frame.owner_id \in DOMAIN nodes
        BY <1>2 DEF frame
    <2>5. \A i \in DOMAIN frames' : frames'[i].owner_id \in DOMAIN nodes
        BY <2>2, <2>3, <2>4
    <2>6. capacity' \in Nat
        BY <1>1, <1>4 DEF TypeOK, reserve
    <2> QED
        BY <1>4, <2>3, <2>5, <2>6, ExecutedTyped DEF TypeOK, InRange
<1> QED
    BY <1>3, <1>4 DEF BeginGroup

LEMMA AddChildTyped ==
    ASSUME TypeOK, NEW name, AddChild(name)
    PROVE  TypeOK'
<1> DEFINE last == Len(frames)
           names == Append(frames[last].deferred, name)
           grown == [frames[last] EXCEPT !.deferred = names]
<1>1. /\ frames \in Seq(GroupFrame) /\ last \in DOMAIN frames
      /\ frames[last] \in GroupFrame
    BY LenProperties, EmptySeq, ElementOfSeq DEF AddChild, TypeOK
<1>2. names \in Seq(Names)
    BY <1>1, AppendProperties DEF AddChild, GroupFrame
<1>3. frames' = [frames EXCEPT ![last] = grown]
    BY DEF AddChild
<1> HIDE DEF names
<1>4. grown \in GroupFrame /\ grown.owner_id = frames[last].owner_id
    BY <1>1, <1>2 DEF GroupFrame
<1> HIDE DEF grown, last
<1>5. /\ frames' \in Seq(GroupFrame)
      /\ DOMAIN frames' = DOMAIN frames
      /\ \A i \in DOMAIN frames : frames'[i].owner_id = frames[i].owner_id
    BY <1>1, <1>3, <1>4, ExceptSeq
<1> QED
    BY <1>5, ExecutedTyped DEF AddChild, TypeOK, InRange

LEMMA EndGroupTyped ==
    ASSUME TypeOK, EndGroup
    PROVE  TypeOK'
<1>1. /\ frames \in Seq(GroupFrame) /\ Len(frames) \in DOMAIN frames
      /\ frames[Len(frames)] \in GroupFrame
      /\ Len(frames) \in Nat /\ DOMAIN frames = 1 .. Len(frames)
    BY LenProperties, EmptySeq, ElementOfSeq DEF EndGroup, TypeOK
<1>2. /\ frames' \in Seq(GroupFrame)
      /\ DOMAIN frames' \subseteq DOMAIN frames
      /\ \A i \in DOMAIN frames' : frames'[i] = frames[i]
    <2>1. frames' = SubSeq(frames, 1, Len(frames) - 1)
        BY DEF EndGroup
    <2>2. /\ frames' \in Seq(GroupFrame)
          /\ Len(frames') = Len(frames) - 1
          /\ \A i \in 1 .. Len(frames) - 1 : frames'[i] = frames[i]
        BY <1>1, <2>1, SubSeqProperties
    <2>3. DOMAIN frames' = 1 .. Len(frames) - 1
        BY <2>2, LenProperties
    <2> QED
        BY <1>1, <2>2, <2>3
<1>3. /\ closing' \in Seq(GroupFrame)
      /\ \A i \in DOMAIN closing' : closing'[i] = frames[Len(frames)]
    BY <1>1 DEF EndGroup
<1> QED
    BY <1>1, <1>2, <1>3 DEF EndGroup, TypeOK, InRange

LEMMA CloseGroupTyped ==
    ASSUME TypeOK, CloseGroup
    PROVE  TypeOK'
<1>1. closing' = << >> /\ << >> \in Seq(GroupFrame) /\ DOMAIN << >> = {}
    BY EmptySeq DEF CloseGroup
<1> QED
    BY <1>1, ExecutedTyped DEF CloseGroup, TypeOK, InRange

LEMMA SnapshotTyped ==
    ASSUME TypeOK, NEW label, Snapshot(label)
    PROVE  TypeOK'
<1>1. IsFiniteSet(DOMAIN nodes)
    BY NodesFinite, FS_Interval
<1>2. Alive \in SUBSET DOMAIN nodes
    BY DEF Alive
<1>3. Cardinality(Alive) \in Nat
    BY <1>1, <1>2, FS_Subset, FS_CardinalityType
<1>4. Marker(label) \in [label : Names, node_count : Nat, alive_count : Nat]
    BY <1>3, NodesFinite DEF Snapshot, Marker
<1>5. snapshots' = Append(snapshots, Marker(label))
    BY DEF Snapshot
<1>6. snapshots' \in Seq([label : Names, node_count : Nat, alive_count : Nat])
    BY <1>4, <1>5, AppendProperties DEF TypeOK
<1> QED
    BY <1>6, ExecutedTyped DEF Snapshot, TypeOK, InRange

LEMMA SetMetaTyped ==
    ASSUME TypeOK, NEW key, NEW value, SetMeta(key, value)
    PROVE  TypeOK'
<1>1. meta' \in [Atoms -> SUBSET Names]
    BY DEF SetMeta, TypeOK
<1> QED
    BY <1>1, ExecutedTyped DEF SetMeta, TypeOK, InRange

\* Node m is node n but for the links it has gained.
SameButLinks(m, n) ==
    /\ m.kind = n.kind /\ m.name = n.name /\ m.alive = n.alive
    /\ m.placeholder = n.placeholder /\ m.generation = n.generation
    /\ m.fields = n.fields
    /\ n.refs \subseteq m.refs
    /\ Len(n.children) <= Len(m.children)

LEMMA LengthsAreNaturals ==
    ASSUME NEW t \in Seq(NodeRecord)
    PROVE  \A m \in DOMAIN t : Len(t[m].children) \in Nat
<1>1. \A m \in DOMAIN t : t[m] \in NodeRecord
    BY LenProperties, ElementOfSeq
<1>2. \A node \in NodeRecord : node.children \in Seq(Nat)
    BY DEF NodeRecord
<1> QED
    BY <1>1, <1>2, LenProperties

LEMMA SameAsItself ==
    ASSUME NEW t \in Seq(NodeRecord)
    PROVE  \A m \in DOMAIN t : SameButLinks(t[m], t[m])
BY LengthsAreNaturals DEF SameButLinks

LEMMA LinksAddUp ==
    ASSUME NEW a, NEW b, NEW c, SameButLinks(a, b), SameButLinks(b, c),
           Len(a.children) \in Nat, Len(b.children) \in Nat, Len(c.children) \in Nat
    PROVE  SameButLinks(a, c)
<1>1. /\ Len(b.children) <= Len(a.children) /\ Len(c.children) <= Len(b.children)
      /\ b.refs \subseteq a.refs /\ c.refs \subseteq b.refs
    BY DEF SameButLinks
<1>2. Len(c.children) <= Len(a.children) /\ c.refs \subseteq a.refs
    BY ONLY <1>1, Len(a.children) \in Nat, Len(b.children) \in Nat, Len(c.children) \in Nat
<1> QED
    BY <1>2 DEF SameButLinks

LEMMA LinkKeepsRest ==
    ASSUME NEW node \in NodeRecord, NEW id \in Nat
    PROVE  /\ WithChild(node, id) \in NodeRecord
           /\ WithRef(node, id) \in NodeRecord
           /\ SameButLinks(WithChild(node, id), node)
           /\ SameButLinks(WithRef(node, id), node)
<1>1. WithChild(node, id) \in NodeRecord /\ WithRef(node, id) \in NodeRecord
    BY RecordUpdates
<1>2. node.children \in Seq(Nat) /\ Len(node.children) \in Nat
    BY LenProperties DEF NodeRecord
<1>3. SameButLinks(WithChild(node, id), node)
    <2>1. Len(Append(node.children, id)) = Len(node.children) + 1
        BY <1>2, AppendProperties
    <2>2. WithChild(node, id).children = Append(node.children, id)
        BY DEF WithChild, NodeRecord
    <2>3. Len(node.children) <= Len(WithChild(node, id).children)
        BY <1>2, <2>1, <2>2
    <2> QED
        BY <2>3 DEF SameButLinks, WithChild, NodeRecord
<1>4. SameButLinks(WithRef(node, id), node)
    BY <1>2 DEF SameButLinks, WithRef, NodeRecord
<1> QED
    BY <1>1, <1>3, <1>4

LEMMA LinkTable ==
    ASSUME NEW t \in Seq(NodeRecord), NEW n \in DOMAIN t, NEW node \in NodeRecord,
           SameButLinks(node, t[n])
    PROVE  /\ [t EXCEPT ![n] = node] \in Seq(NodeRecord)
           /\ Len([t EXCEPT ![n] = node]) = Len(t)
           /\ DOMAIN [t EXCEPT ![n] = node] = DOMAIN t
           /\ \A m \in DOMAIN t : SameButLinks([t EXCEPT ![n] = node][m], t[m])
<1>1. \A m \in DOMAIN t : SameButLinks(t[m], t[m])
    BY SameAsItself
<1>2. \A m \in DOMAIN t : [t EXCEPT ![n] = node][m] = IF m = n THEN node ELSE t[m]
    BY LenProperties
<1> QED
    BY <1>1, <1>2, TableUpdate

LEMMA AttachEffect ==
    ASSUME NEW t \in Seq(NodeRecord), NEW frame \in GroupFrame,
           NEW target \in DOMAIN t, frame.owner_id \in DOMAIN t,
           status \in Codes, undefined \in BOOLEAN,
           Attach(t, frame, target)
    PROVE  /\ nodes' \in Seq(NodeRecord)
           /\ Len(nodes') = Len(t)
           /\ DOMAIN nodes' = DOMAIN t
           /\ \A m \in DOMAIN t : SameButLinks(nodes'[m], t[m])
           /\ status' \in Codes /\ undefined' \in BOOLEAN
<1> DEFINE owner == frame.owner_id
           linked == [t EXCEPT ![owner] = WithChild(t[owner], target)]
<1>1. DOMAIN t \subseteq Nat /\ \A m \in DOMAIN t : t[m] \in NodeRecord
    BY LenProperties, ElementOfSeq
<1>2. status' \in Codes /\ undefined' \in BOOLEAN
    BY DEF Attach, Codes
<1>3. ASSUME NEW u \in Seq(NodeRecord), DOMAIN u = DOMAIN t, Len(u) = Len(t),
             \A m \in DOMAIN t : SameButLinks(u[m], t[m]),
             NEW id \in Nat, nodes' = [u EXCEPT ![target] = WithRef(u[target], id)]
      PROVE  /\ nodes' \in Seq(NodeRecord)
             /\ Len(nodes') = Len(t)
             /\ DOMAIN nodes' = DOMAIN t
             /\ \A m \in DOMAIN t : SameButLinks(nodes'[m], t[m])
    <2>1. u[target] \in NodeRecord
        BY <1>3, ElementOfSeq, LenProperties
    <2>2. /\ WithRef(u[target], id) \in NodeRecord
          /\ SameButLinks(WithRef(u[target], id), u[target])
        BY <2>1, LinkKeepsRest
    <2>3. /\ nodes' \in Seq(NodeRecord)
          /\ Len(nodes') = Len(u)
          /\ DOMAIN nodes' = DOMAIN u
          /\ \A m \in DOMAIN u : SameButLinks(nodes'[m], u[m])
        BY <1>3, <2>2, LinkTable, SMTT(60)
    <2>4. \A m \in DOMAIN t : /\ Len(nodes'[m].children) \in Nat
                               /\ Len(u[m].children) \in Nat
                               /\ Len(t[m].children) \in Nat
        BY <1>3, <2>3, LengthsAreNaturals, SMTT(60)
    <2>5. \A m \in DOMAIN t : SameButLinks(nodes'[m], u[m]) /\ SameButLinks(u[m], t[m])
        BY <1>3, <2>3
    <2>6. \A m \in DOMAIN t : SameButLinks(nodes'[m], t[m])
        BY ONLY <2>4, <2>5, LinksAddUp
    <2> QED
        BY <1>3, <2>3, <2>6
<1>4. \A m \in DOMAIN t : SameButLinks(t[m], t[m])
    BY SameAsItself
<1>5. CASE frame.cached
    <2>1. nodes' = [linked EXCEPT ![target] = WithRef(linked[target], owner)]
        BY <1>5 DEF Attach
    <2>2. /\ WithChild(t[owner], target) \in NodeRecord
          /\ SameButLinks(WithChild(t[owner], target), t[owner])
        BY <1>1, LinkKeepsRest
    <2>3. /\ linked \in Seq(NodeRecord)
          /\ Len(linked) = Len(t)
          /\ DOMAIN linked = DOMAIN t
          /\ \A m \in DOMAIN t : SameButLinks(linked[m], t[m])
        BY <2>2, LinkTable
    <2>4. owner \in Nat
        BY <1>1
    <2> HIDE DEF linked, owner
    <2>5. /\ nodes' \in Seq(NodeRecord)
          /\ Len(nodes') = Len(t)
          /\ DOMAIN nodes' = DOMAIN t
          /\ \A m \in DOMAIN t : SameButLinks(nodes'[m], t[m])
        BY <1>3, <2>1, <2>3, <2>4
    <2> QED
        BY <1>2, <2>5
<1>6. CASE ~ frame.cached
    <2>1. CASE nodes' = t
        BY <1>2, <1>4, <2>1
    <2>2. CASE \E id \in {owner, kInvalidNode} :
                    nodes' = [t EXCEPT ![target] = WithRef(@, id)]
        <3>1. PICK id \in {owner, kInvalidNode} :
                    nodes' = [t EXCEPT ![target] = WithRef(t[target], id)]
            BY <2>2
        <3>2. id \in Nat
            BY <1>1 DEF kInvalidNode
        <3> HIDE DEF owner
        <3> QED
            BY <1>2, <1>3, <1>4, <3>1, <3>2
    <2> QED
        BY <1>6, <2>1, <2>2 DEF Attach
<1> QED
    BY <1>5, <1>6

\* What one turn of resolve_frame does to the table: it links nodes that are
\* there, or appends a placeholder for a name that nobody holds.
LinkedExisting ==
    /\ DOMAIN nodes' = DOMAIN nodes
    /\ \A m \in DOMAIN nodes : SameButLinks(nodes'[m], nodes[m])
    /\ name_index' = name_index
    /\ stats' = [stats EXCEPT !.children_linked = @ + 1]
Materialised(name) ==
    /\ find_named(name) = kInvalidNode
    /\ DOMAIN nodes' = DOMAIN nodes \cup {Len(nodes) + 1}
    /\ \A m \in DOMAIN nodes : SameButLinks(nodes'[m], nodes[m])
    /\ SameButLinks(nodes'[Len(nodes) + 1],
                    NewNodeRecord(NoKind, name, TRUE, NoFields))
    /\ name_index' = register_name(name, Len(nodes) + 1)
    /\ stats' = [stats EXCEPT !.children_linked = @ + 1, !.placeholders = @ + 1]

LEMMA ResolveNextChild ==
    ASSUME TypeOK, ResolveChild
    PROVE  LET next == Head(closing[1].deferred)
           IN  /\ TypeOK' /\ next \in Names
               /\ \/ find_named(next) # kInvalidNode /\ LinkedExisting
                  \/ Materialised(next)
<1> DEFINE frame  == closing[1]
           name   == Head(frame.deferred)
           target == find_named(name)
           rest   == [frame EXCEPT !.deferred = Tail(frame.deferred)]
           fresh  == NewNodeRecord(NoKind, name, TRUE, NoFields)
           grown  == Append(nodes, fresh)
<1>1. /\ closing \in Seq(GroupFrame) /\ closing # << >>
      /\ 1 \in DOMAIN closing /\ frame \in GroupFrame
    BY LenProperties, EmptySeq, ElementOfSeq DEF ResolveChild, TypeOK
<1>2. /\ frame.deferred \in Seq(Names) /\ frame.deferred # << >>
      /\ frame.owner_id \in DOMAIN nodes
    BY <1>1 DEF ResolveChild, GroupFrame, TypeOK, InRange
<1>3. name \in Names /\ Tail(frame.deferred) \in Seq(Names)
    BY <1>2, HeadTailProperties
<1>4. rest \in GroupFrame /\ rest.owner_id = frame.owner_id
    BY <1>1, <1>3 DEF GroupFrame
<1>5. << rest >> \in Seq(GroupFrame) /\ DOMAIN << rest >> = {1}
    BY <1>4
<1>6. stats \in ReplayStats /\ status \in Codes /\ undefined \in BOOLEAN
    BY DEF TypeOK
<1>7. CASE /\ target # kInvalidNode
           /\ Attach(nodes, rest, target)
           /\ closing' = << rest >>
           /\ stats' = [stats EXCEPT !.children_linked = @ + 1]
           /\ UNCHANGED << capacity, name_index, frames >>
    <2>1. target \in DOMAIN nodes
        BY <1>3, <1>7, FoundNamed
    <2>2. rest.owner_id \in DOMAIN nodes
        BY <1>2, <1>4
    <2> HIDE DEF target, rest
    <2>3. /\ nodes' \in Seq(NodeRecord)
          /\ Len(nodes') = Len(nodes)
          /\ DOMAIN nodes' = DOMAIN nodes
          /\ \A m \in DOMAIN nodes : SameButLinks(nodes'[m], nodes[m])
          /\ status' \in Codes /\ undefined' \in BOOLEAN
        BY <1>4, <1>6, <1>7, <2>1, <2>2, AttachEffect DEF TypeOK
    <2>4. stats' \in ReplayStats
        BY <1>6, <1>7, CountersStayNaturals, 0 \in Nat, ZenonT(60)
    <2>5. /\ closing' \in Seq(GroupFrame)
          /\ \A i \in DOMAIN closing' : closing'[i].owner_id \in DOMAIN nodes'
        BY <1>5, <1>7, <2>2, <2>3
    <2>6. LinkedExisting
        BY <1>7, <2>3, SMTT(60) DEF LinkedExisting
    <2>7. TypeOK'
        BY <1>7, <2>3, <2>4, <2>5, SMTT(60) DEF ResolveChild, TypeOK, InRange
    <2> QED
        BY <1>3, <1>7, <2>6, <2>7 DEF target
<1>8. CASE /\ target = kInvalidNode
           /\ closing' = AfterMove(FullTable, << rest >>)
           /\ Attach(grown, closing'[1], Len(nodes) + 1)
           /\ capacity' = GrownCapacity
           /\ frames' = AfterMove(FullTable, frames)
           /\ name_index' = register_name(name, Len(nodes) + 1)
           /\ stats' = [stats EXCEPT !.children_linked = @ + 1,
                                     !.placeholders = @ + 1]
    <2>1. fresh \in NodeRecord
        BY <1>3, FreshNodeTyped DEF KindOperands
    <2>2. /\ grown \in Seq(NodeRecord)
          /\ Len(grown) = Len(nodes) + 1
          /\ DOMAIN grown = DOMAIN nodes \cup {Len(nodes) + 1}
          /\ \A m \in DOMAIN nodes : grown[m] = nodes[m]
          /\ grown[Len(nodes) + 1] = fresh
        BY <2>1, TableAppend DEF TypeOK
    <2>3. FullTable \in BOOLEAN /\ frames \in Seq(GroupFrame)
        BY DEF FullTable, TypeOK
    <2>4. /\ closing' \in Seq(GroupFrame)
          /\ DOMAIN closing' = {1}
          /\ closing'[1].owner_id = frame.owner_id
        <3>1. closing' = AfterMove(FullTable, << rest >>)
            BY <1>8
        <3>2. << rest >>[1] = rest
            OBVIOUS
        <3> DEFINE one == << rest >>
        <3>3. one \in Seq(GroupFrame) /\ DOMAIN one = {1}
                /\ one[1].owner_id = frame.owner_id
            BY <1>4, <1>5, <3>2
        <3> HIDE DEF one, rest
        <3>4. closing' = AfterMove(FullTable, one)
            BY <3>1 DEF one
        <3>5. 1 \in DOMAIN one
            BY <3>3
        <3> HIDE DEF frame
        <3> QED
            BY <2>3, <3>3, <3>4, <3>5, StaleFrames
    <2>5. closing'[1] \in GroupFrame /\ closing'[1].owner_id \in DOMAIN grown
        <3>1. 1 \in DOMAIN closing' /\ closing' \in Seq(GroupFrame)
            BY <2>4
        <3>2. closing'[1] \in GroupFrame
            BY <3>1, ElementOfSeq, LenProperties
        <3> QED
            BY <1>2, <2>2, <2>4, <3>2
    <2>6. /\ frames' \in Seq(GroupFrame)
          /\ \A i \in DOMAIN frames' : frames'[i].owner_id \in DOMAIN nodes
        <3>1. frames' = AfterMove(FullTable, frames)
            BY ONLY <1>8
        <3>2. \A i \in DOMAIN frames : frames[i].owner_id \in DOMAIN nodes
            BY ONLY TypeOK DEF TypeOK, InRange
        <3> QED
            BY ONLY <2>3, <3>1, <3>2, StaleFrames
    <2>7. capacity' \in Nat
        BY <1>8 DEF TypeOK, GrownCapacity
    <2>8. name_index' \in [Atoms -> 0 .. (Len(nodes) + 1)]
        BY <1>8, NodesFinite, SMTT(60) DEF TypeOK, register_name
    <2>9. stats' \in ReplayStats
        <3>1. stats' = [stats EXCEPT !.children_linked = @ + 1, !.placeholders = @ + 1]
            BY ONLY <1>8
        <3> QED
            BY ONLY <1>6, <3>1, CountersStayNaturals, 0 \in Nat, ZenonT(60)
    <2> HIDE DEF fresh, grown, name
    <2>10. /\ nodes' \in Seq(NodeRecord)
           /\ Len(nodes') = Len(grown)
           /\ DOMAIN nodes' = DOMAIN grown
           /\ \A m \in DOMAIN grown : SameButLinks(nodes'[m], grown[m])
           /\ status' \in Codes /\ undefined' \in BOOLEAN
        BY <1>6, <1>8, <2>2, <2>5, AttachEffect
    <2>11. Materialised(name)
        BY <1>8, <2>2, <2>10 DEF Materialised, fresh
    <2>12. TypeOK'
        BY <2>2, <2>4, <2>5, <2>6, <2>7, <2>8, <2>9, <2>10
        DEF ResolveChild, TypeOK, InRange
    <2> QED
        BY <1>3, <2>11, <2>12 DEF name
<1> QED
    BY <1>7, <1>8 DEF ResolveChild

LEMMA ResolveChildEffect ==
    ASSUME TypeOK, ResolveChild
    PROVE  /\ TypeOK'
           /\ LinkedExisting \/ \E name \in Names : Materialised(name)
BY ResolveNextChild

\* The error returns leave everything but the status as it is.
Rejection == \E code \in Codes : End(code)

LEMMA RejectionsEnd ==
    /\ \A kind, name : RejectNewNode(kind, name) => Rejection
    /\ \A n, f : RejectSetField(n, f) \/ RejectLinkRef(n, f) => Rejection
    /\ \A n : RejectDropNode(n) => Rejection
    /\ \A name : RejectBeginGroup(name) \/ RejectAddChild(name) => Rejection
    /\ RejectEndGroup => Rejection
    /\ \A label : RejectSnapshot(label) => Rejection
    /\ \A key, value : RejectSetMeta(key, value) => Rejection
    /\ \A code \in DecodeErrors : RejectBytes(code) => Rejection
    /\ Finish => Rejection
<1>1. /\ \A kind, name : RejectNewNode(kind, name) => Rejection
      /\ \A n, f : RejectSetField(n, f) => Rejection
    BY DEF RejectNewNode, RejectSetField, Rejection, Codes, DecodeErrors
<1>2. /\ \A n, f : RejectLinkRef(n, f) => Rejection
      /\ \A n : RejectDropNode(n) => Rejection
    BY DEF RejectLinkRef, RejectDropNode, Rejection, Codes, DecodeErrors
<1>3. ASSUME NEW name, RejectBeginGroup(name) PROVE Rejection
    <2>1. /\ "GroupOverflow" \in Codes /\ "UnresolvedRef" \in Codes
          /\ "InvariantViolation" \in Codes
        BY DEF Codes
    <2>2. End("GroupOverflow") \/ End("UnresolvedRef") \/ End("InvariantViolation")
        BY <1>3 DEF RejectBeginGroup
    <2> QED
        BY <2>1, <2>2 DEF Rejection
<1>4. /\ \A name : RejectAddChild(name) => Rejection
      /\ RejectEndGroup => Rejection
    BY DEF RejectAddChild, RejectEndGroup, Rejection, Codes, DecodeErrors
<1>5. /\ \A label : RejectSnapshot(label) => Rejection
      /\ \A key, value : RejectSetMeta(key, value) => Rejection
    BY DEF RejectSnapshot, RejectSetMeta, Rejection, Codes, DecodeErrors
<1>6. /\ \A code \in DecodeErrors : RejectBytes(code) => Rejection
      /\ Finish => Rejection
    BY DEF RejectBytes, Finish, Rejection, Codes
<1> QED
    BY <1>1, <1>2, <1>3, <1>4, <1>5, <1>6

\* A step is one of eleven operations, an error return, or leaves all alone.
StepCases ==
    \/ UNCHANGED vars
    \/ Rejection
    \/ \E kind, name : NewNode(kind, name)
    \/ \E n \in NodeOperands : DropNode(n)
    \/ \E n \in NodeOperands, f \in Fields, v \in SUBSET NodeOperands :
            SetField(n, f, v)
    \/ \E n \in NodeOperands, f \in Fields : \E name : LinkRef(n, f, name)
    \/ \E name : \E hint \in 0..MaxHint : BeginGroup(name, hint)
    \/ \E name : AddChild(name)
    \/ EndGroup \/ ResolveChild \/ CloseGroup
    \/ \E label : Snapshot(label)
    \/ \E key, value : SetMeta(key, value)
    \/ Nop

LEMMA StepIsACase == [Next]_vars => StepCases
<1>1. NodeOp => StepCases
    BY RejectionsEnd, Zenon DEF NodeOp, StepCases
<1>2. FieldOp => StepCases
    BY RejectionsEnd, Zenon DEF FieldOp, StepCases
<1>3. GroupOp => StepCases
    BY RejectionsEnd, Zenon DEF GroupOp, StepCases
<1>4. MarkerOp => StepCases
    BY RejectionsEnd, Zenon DEF MarkerOp, StepCases
<1>5. Run => StepCases
    BY <1>1, <1>2, <1>3, <1>4, RejectionsEnd, Zenon DEF Run, StepCases
<1>6. Returned \/ UNCHANGED vars => StepCases
    BY DEF Returned, StepCases
<1> QED
    BY <1>5, <1>6 DEF Next

LEMMA StepTyped == TypeOK /\ [Next]_vars => TypeOK'
<1> SUFFICES ASSUME TypeOK, StepCases PROVE TypeOK'
    BY StepIsACase
<1>1. CASE UNCHANGED vars
    BY <1>1 DEF vars, TypeOK, InRange
<1>2. CASE Rejection
    BY <1>2, EndTyped DEF Rejection
<1>3. ASSUME NEW kind, NEW name, NewNode(kind, name) PROVE TypeOK'
    BY <1>3, NewNodeTyped
<1>4. ASSUME NEW n \in NodeOperands, DropNode(n) PROVE TypeOK'
    BY <1>4, DropNodeTyped
<1>5. ASSUME NEW n \in NodeOperands, NEW f \in Fields,
             NEW v \in SUBSET NodeOperands, SetField(n, f, v)
      PROVE  TypeOK'
    <2>1. v \in SUBSET Nat /\ IsFiniteSet(v)
        BY NodesFinite, FS_Subset
    <2> QED
        BY <1>5, <2>1, SetFieldTyped
<1>6. ASSUME NEW n \in NodeOperands, NEW f \in Fields, NEW name,
             LinkRef(n, f, name)
      PROVE  TypeOK'
    BY <1>6, LinkRefTyped
<1>7. ASSUME NEW name, NEW hint \in 0..MaxHint, BeginGroup(name, hint)
      PROVE  TypeOK'
    <2>1. hint \in Nat
        BY LimitAssumption
    <2> QED
        BY <1>7, <2>1, BeginGroupTyped
<1>8. ASSUME NEW name, AddChild(name) PROVE TypeOK'
    BY <1>8, AddChildTyped
<1>9. CASE EndGroup
    BY <1>9, EndGroupTyped
<1>10. CASE ResolveChild
    BY <1>10, ResolveChildEffect
<1>11. CASE CloseGroup
    BY <1>11, CloseGroupTyped
<1>12. ASSUME NEW label, Snapshot(label) PROVE TypeOK'
    BY <1>12, SnapshotTyped
<1>13. ASSUME NEW key, NEW value, SetMeta(key, value) PROVE TypeOK'
    BY <1>13, SetMetaTyped
<1>14. CASE Nop
    BY <1>14, NopTyped
<1> QED
    BY <1>1, <1>2, <1>3, <1>4, <1>5, <1>6, <1>7, <1>8, <1>9, <1>10, <1>11,
       <1>12, <1>13, <1>14 DEF StepCases

\* Whatever heap and journal it is given, every variable of the machine keeps
\* its declared type, every bound name designates a slot of the node table and
\* so does the owner of every open group (the indexing run() never bounds-checks).
THEOREM TypeCorrect == Spec => []TypeOK
BY InitTyped, StepTyped, PTL DEF Spec

-----------------------------------------------------------------------------
(* The name index *)

\* Node m carries the name and the liveness of node n.
SameNameAndLife(m, n) == m.name = n.name /\ m.alive = n.alive

LEMMA HeapNodesFresh ==
    \A node \in HeapNodes :
        /\ node.alive /\ node.generation = 0 /\ ~ node.placeholder
        /\ node.kind \in Kinds /\ node.refs = {} /\ node.children = << >>
<1> SUFFICES ASSUME NEW kind \in Kinds, NEW node \in HeapNodesOf(kind)
             PROVE  /\ node.alive /\ node.generation = 0 /\ ~ node.placeholder
                    /\ node.kind \in Kinds /\ node.refs = {}
                    /\ node.children = << >>
    BY DEF HeapNodes
<1> PICK nf \in Names \X HeapFields(kind) :
                    node = NewNodeRecord(kind, nf[1], FALSE, nf[2])
    BY DEF HeapNodesOf
<1> QED
    BY DEF NewNodeRecord

LEMMA NameIndexInit == Init => NameIndexIsNewestLive
<1> SUFFICES ASSUME Init, NEW a \in Atoms
             PROVE  /\ name_index[a] # kInvalidNode =>
                            nodes[name_index[a]].name = a /\ nodes[name_index[a]].alive
                    /\ \A n \in DOMAIN nodes :
                        /\ nodes[n].name = a
                        /\ \A m \in DOMAIN nodes : m > n => nodes[m].name # a
                        => name_index[a] = IF nodes[n].alive THEN n ELSE kInvalidNode
    BY DEF NameIndexIsNewestLive
<1>1. PICK heap \in HeapImages : seed(heap)
    BY DEF Init
<1>2. PICK k \in 0..MaxHeapNodes : heap \in [1..k -> HeapNodes]
    BY DEF HeapImages
<1>3. nodes = heap /\ DOMAIN nodes = 1..k /\ SeededIndex(nodes, name_index)
    BY <1>1, <1>2 DEF seed
<1>4. \A n \in DOMAIN nodes : nodes[n].alive
    BY <1>2, <1>3, HeapNodesFresh
<1> DEFINE named == {i \in DOMAIN nodes : nodes[i].name = a}
<1>5. \/ name_index[a] = kInvalidNode /\ named = {}
      \/ name_index[a] \in named /\ \A i \in named : i <= name_index[a]
    BY <1>3 DEF SeededIndex
<1>6. CASE name_index[a] = kInvalidNode /\ named = {}
    BY <1>6
<1>7. CASE name_index[a] \in named /\ \A i \in named : i <= name_index[a]
    <2>1. name_index[a] \in DOMAIN nodes /\ nodes[name_index[a]].name = a
        BY <1>7
    <2>2. ASSUME NEW n \in DOMAIN nodes, nodes[n].name = a,
                 \A m \in DOMAIN nodes : m > n => nodes[m].name # a
          PROVE  name_index[a] = n
        <3>1. n <= name_index[a] /\ ~ (name_index[a] > n)
            BY <1>7, <2>1, <2>2
        <3>2. n \in Int /\ name_index[a] \in Int
            BY <1>3, <2>1
        <3> QED
            BY <3>1, <3>2
    <2> QED
        BY <1>4, <2>1, <2>2
<1> QED
    BY <1>5, <1>6, <1>7

LEMMA NamesKept ==
    ASSUME TypeOK, NameIndexIsNewestLive,
           DOMAIN nodes' = DOMAIN nodes,
           \A m \in DOMAIN nodes : SameNameAndLife(nodes'[m], nodes[m]),
           name_index' = name_index
    PROVE  NameIndexIsNewestLive'
<1>1. \A a \in Atoms : name_index[a] # kInvalidNode => name_index[a] \in DOMAIN nodes
    BY NodesFinite DEF TypeOK, kInvalidNode
<1> QED
    BY <1>1 DEF NameIndexIsNewestLive, SameNameAndLife

LEMMA NameAdded ==
    ASSUME TypeOK, NameIndexIsNewestLive, NEW name \in Names,
           DOMAIN nodes' = DOMAIN nodes \cup {Len(nodes) + 1},
           \A m \in DOMAIN nodes : SameNameAndLife(nodes'[m], nodes[m]),
           nodes'[Len(nodes) + 1].name = name, nodes'[Len(nodes) + 1].alive,
           name_index' = register_name(name, Len(nodes) + 1)
    PROVE  NameIndexIsNewestLive'
<1> DEFINE new == Len(nodes) + 1
<1>1. /\ Len(nodes) \in Nat /\ DOMAIN nodes = 1 .. Len(nodes)
      /\ new \in DOMAIN nodes' /\ DOMAIN nodes' = 1 .. new
    BY NodesFinite
<1> SUFFICES ASSUME NEW a \in Atoms
             PROVE  /\ name_index'[a] # kInvalidNode =>
                            /\ nodes'[name_index'[a]].name = a
                            /\ nodes'[name_index'[a]].alive
                    /\ \A n \in DOMAIN nodes' :
                        /\ nodes'[n].name = a
                        /\ \A m \in DOMAIN nodes' : m > n => nodes'[m].name # a
                        => name_index'[a] = IF nodes'[n].alive THEN n ELSE kInvalidNode
    BY DEF NameIndexIsNewestLive
<1>2. CASE a = name
    <2>1. name_index'[a] = new
        BY <1>2 DEF register_name
    <2>2. ASSUME NEW n \in DOMAIN nodes',
                 \A m \in DOMAIN nodes' : m > n => nodes'[m].name # a
          PROVE  n = new
        BY <1>1, <1>2, <2>2
    <2> HIDE DEF new
    <2> QED
        BY <1>2, <2>1, <2>2 DEF new
<1>3. CASE a # name
    <2>1. name_index'[a] = name_index[a]
        BY <1>3 DEF register_name
    <2>2. name_index[a] # kInvalidNode => name_index[a] \in DOMAIN nodes
        BY NodesFinite DEF TypeOK, kInvalidNode
    <2>3. name_index[a] # kInvalidNode =>
                nodes[name_index[a]].name = a /\ nodes[name_index[a]].alive
        BY DEF NameIndexIsNewestLive
    <2>4. ASSUME NEW n \in DOMAIN nodes', nodes'[n].name = a,
                 \A m \in DOMAIN nodes' : m > n => nodes'[m].name # a
          PROVE  name_index'[a] = IF nodes'[n].alive THEN n ELSE kInvalidNode
        <3>1. n \in DOMAIN nodes /\ nodes[n].name = a
            BY <1>3, <2>4 DEF SameNameAndLife
        <3>2. \A m \in DOMAIN nodes : m > n => nodes[m].name # a
            BY <2>4 DEF SameNameAndLife
        <3>3. name_index[a] = IF nodes[n].alive THEN n ELSE kInvalidNode
            BY <3>1, <3>2 DEF NameIndexIsNewestLive
        <3> QED
            BY <2>1, <3>1, <3>3 DEF SameNameAndLife
    <2> QED
        BY <2>1, <2>2, <2>3, <2>4 DEF SameNameAndLife
<1> QED
    BY <1>2, <1>3

LEMMA NameDropped ==
    ASSUME TypeOK, NameIndexIsNewestLive, NEW n \in NodeOperands, DropNode(n)
    PROVE  NameIndexIsNewestLive'
<1>1. n \in DOMAIN nodes /\ nodes[n] \in NodeRecord
    BY NodesFinite DEF DropNode, InRange
<1>2. CASE ~ nodes[n].alive
    BY <1>2 DEF DropNode, NameIndexIsNewestLive
<1>3. CASE nodes[n].alive
    <2>1. /\ nodes' = [nodes EXCEPT ![n] = Dropped(nodes[n])]
          /\ name_index' = [a \in Atoms |->
                    IF a = nodes[n].name /\ name_index[a] = n
                    THEN kInvalidNode ELSE name_index[a]]
        BY <1>3 DEF DropNode
    <2>2. Dropped(nodes[n]).name = nodes[n].name /\ ~ Dropped(nodes[n]).alive
        BY <1>1 DEF Dropped, NodeRecord
    <2>3. /\ DOMAIN nodes' = DOMAIN nodes
          /\ \A m \in DOMAIN nodes : nodes'[m].name = nodes[m].name
          /\ \A m \in DOMAIN nodes : m # n => nodes'[m].alive = nodes[m].alive
          /\ ~ nodes'[n].alive
        BY <1>1, <2>1, <2>2
    <2> SUFFICES ASSUME NEW a \in Atoms
                 PROVE  /\ name_index'[a] # kInvalidNode =>
                                /\ nodes'[name_index'[a]].name = a
                                /\ nodes'[name_index'[a]].alive
                        /\ \A k \in DOMAIN nodes' :
                            /\ nodes'[k].name = a
                            /\ \A m \in DOMAIN nodes' : m > k => nodes'[m].name # a
                            => name_index'[a] = IF nodes'[k].alive THEN k ELSE kInvalidNode
        BY DEF NameIndexIsNewestLive
    <2>4. name_index[a] # kInvalidNode =>
                /\ name_index[a] \in DOMAIN nodes
                /\ nodes[name_index[a]].name = a /\ nodes[name_index[a]].alive
        BY NodesFinite DEF TypeOK, kInvalidNode, NameIndexIsNewestLive
    <2>5. name_index'[a] = IF a = nodes[n].name /\ name_index[a] = n
                           THEN kInvalidNode ELSE name_index[a]
        BY <2>1
    <2>6. name_index'[a] # kInvalidNode =>
                nodes'[name_index'[a]].name = a /\ nodes'[name_index'[a]].alive
        <3>1. name_index'[a] # kInvalidNode => name_index'[a] = name_index[a]
            BY <2>5
        <3>2. name_index'[a] # kInvalidNode => name_index[a] # n
            BY <2>4, <2>5
        <3> QED
            BY <2>3, <2>4, <3>1, <3>2
    <2>7. ASSUME NEW k \in DOMAIN nodes', nodes'[k].name = a,
                 \A m \in DOMAIN nodes' : m > k => nodes'[m].name # a
          PROVE  name_index'[a] = IF nodes'[k].alive THEN k ELSE kInvalidNode
        <3>1. name_index[a] = IF nodes[k].alive THEN k ELSE kInvalidNode
            BY <2>3, <2>7 DEF NameIndexIsNewestLive
        <3>2. k \in DOMAIN nodes /\ nodes[k].name = a /\ k # kInvalidNode
            BY <2>3, <2>7, NodesFinite DEF kInvalidNode
        <3>3. CASE k = n
            BY <1>3, <2>3, <2>5, <3>1, <3>2, <3>3
        <3>4. CASE k # n
            BY <1>1, <2>3, <2>5, <3>1, <3>2, <3>4
        <3> QED
            BY <3>3, <3>4
    <2> QED
        BY <2>6, <2>7
<1> QED
    BY <1>2, <1>3

LEMMA FieldsKeepNames ==
    ASSUME TypeOK, NEW n \in DOMAIN nodes, NEW f \in Fields, NEW v, NEW ts,
           nodes' = [nodes EXCEPT ![n] = WithField(nodes[n], f, v, ts)]
    PROVE  /\ DOMAIN nodes' = DOMAIN nodes
           /\ \A m \in DOMAIN nodes : SameNameAndLife(nodes'[m], nodes[m])
<1>1. nodes[n] \in NodeRecord
    BY NodesFinite
<1>2. SameNameAndLife(WithField(nodes[n], f, v, ts), nodes[n])
    BY <1>1 DEF WithField, NodeRecord, SameNameAndLife
<1>3. DOMAIN nodes' = DOMAIN nodes
    OBVIOUS
<1>4. \A m \in DOMAIN nodes :
            nodes'[m] = IF m = n THEN WithField(nodes[n], f, v, ts) ELSE nodes[m]
    OBVIOUS
<1> QED
    BY <1>2, <1>3, <1>4 DEF SameNameAndLife

LEMMA NameIndexStep ==
    TypeOK /\ NameIndexIsNewestLive /\ [Next]_vars => NameIndexIsNewestLive'
<1> SUFFICES ASSUME TypeOK, NameIndexIsNewestLive, StepCases
             PROVE  NameIndexIsNewestLive'
    BY StepIsACase
<1>1. ASSUME UNCHANGED << nodes, name_index >> PROVE NameIndexIsNewestLive'
    BY <1>1 DEF NameIndexIsNewestLive
<1>2. CASE UNCHANGED vars
    BY <1>1, <1>2 DEF vars
<1>3. CASE Rejection
    BY <1>1, <1>3 DEF Rejection, End, graph
<1>4. ASSUME NEW kind, NEW name, NewNode(kind, name)
      PROVE  NameIndexIsNewestLive'
    <2> DEFINE fresh == NewNodeRecord(kind, name, FALSE, NoFields)
    <2>1. /\ fresh \in NodeRecord /\ name \in Names
          /\ fresh.name = name /\ fresh.alive
        BY <1>4, FreshNodeTyped DEF NewNode, KindOperands, NewNodeRecord
    <2>2. /\ nodes' = Append(nodes, fresh)
          /\ name_index' = register_name(name, Len(nodes) + 1)
        BY <1>4 DEF NewNode
    <2> HIDE DEF fresh
    <2>3. /\ DOMAIN nodes' = DOMAIN nodes \cup {Len(nodes) + 1}
          /\ \A m \in DOMAIN nodes : nodes'[m] = nodes[m]
          /\ nodes'[Len(nodes) + 1] = fresh
        BY <2>1, <2>2, TableAppend DEF TypeOK
    <2> QED
        BY <2>1, <2>2, <2>3, NameAdded DEF SameNameAndLife
<1>5. ASSUME NEW n \in NodeOperands, DropNode(n) PROVE NameIndexIsNewestLive'
    BY <1>5, NameDropped
<1>6. ASSUME NEW n \in NodeOperands, NEW f \in Fields,
             NEW v \in SUBSET NodeOperands, SetField(n, f, v)
      PROVE  NameIndexIsNewestLive'
    <2>1. n \in DOMAIN nodes /\ name_index' = name_index
          /\ nodes' = [nodes EXCEPT
                        ![n] = WithField(nodes[n], f, v, InTable(v))]
        BY <1>6 DEF SetField, InRange
    <2> QED
        BY <2>1, FieldsKeepNames, NamesKept
<1>7. ASSUME NEW src \in NodeOperands, NEW f \in Fields, NEW name,
             LinkRef(src, f, name)
      PROVE  NameIndexIsNewestLive'
    <2> DEFINE target == find_named(name)
    <2>1. src \in DOMAIN nodes /\ name_index' = name_index
          /\ \/ UNCHANGED nodes
             \/ nodes' = [nodes EXCEPT
                        ![src] = WithField(nodes[src], f, {target}, {target})]
        BY <1>7 DEF LinkRef, InRange
    <2> QED
        BY <1>1, <2>1, FieldsKeepNames, NamesKept
<1>8. ASSUME NEW name, NEW hint \in 0..MaxHint, BeginGroup(name, hint)
      PROVE  NameIndexIsNewestLive'
    BY <1>1, <1>8 DEF BeginGroup, End, graph
<1>9. ASSUME NEW name, AddChild(name) PROVE NameIndexIsNewestLive'
    BY <1>1, <1>9 DEF AddChild
<1>10. CASE EndGroup
    BY <1>1, <1>10 DEF EndGroup
<1>11. CASE ResolveChild
    <2>1. CASE LinkedExisting
        BY <2>1, NamesKept DEF LinkedExisting, SameButLinks, SameNameAndLife
    <2>2. ASSUME NEW name \in Names, Materialised(name)
          PROVE  NameIndexIsNewestLive'
        BY <2>2, NameAdded
        DEF Materialised, SameButLinks, SameNameAndLife, NewNodeRecord
    <2> QED
        BY <1>11, <2>1, <2>2, ResolveChildEffect
<1>12. CASE CloseGroup
    BY <1>1, <1>12 DEF CloseGroup
<1>13. ASSUME NEW label, Snapshot(label) PROVE NameIndexIsNewestLive'
    BY <1>1, <1>13 DEF Snapshot
<1>14. ASSUME NEW key, NEW value, SetMeta(key, value)
       PROVE  NameIndexIsNewestLive'
    BY <1>1, <1>14 DEF SetMeta
<1>15. CASE Nop
    BY <1>1, <1>15 DEF Nop
<1> QED
    BY <1>2, <1>3, <1>4, <1>5, <1>6, <1>7, <1>8, <1>9, <1>10, <1>11, <1>12,
       <1>13, <1>14, <1>15 DEF StepCases

\* Whatever is seeded, shadowed, materialised or dropped, a name answers with
\* the newest node that carries it while that node is alive and with
\* kInvalidNode otherwise: register_name and do_drop_node keep name_index_ so.
THEOREM NameIndexCorrect == Spec => []NameIndexIsNewestLive
BY InitTyped, StepTyped, NameIndexInit, NameIndexStep, PTL DEF Spec

-----------------------------------------------------------------------------
(* Slots *)

\* Node m holds the slot that node n held: its identity is the same, its links
\* can only have grown, and no field was stored in it if it has no kind.
SameSlot(m, n) ==
    /\ m.kind = n.kind /\ m.name = n.name /\ m.placeholder = n.placeholder
    /\ n.refs \subseteq m.refs
    /\ Len(n.children) <= Len(m.children)
    /\ n.kind = NoKind => m.fields = n.fields
SameLife(m, n) == m.alive = n.alive /\ m.generation = n.generation

SlotCount(st) == st.nodes_created + st.placeholders

\* The three things a step can do to the table.
SlotsKept ==
    /\ DOMAIN nodes' = DOMAIN nodes
    /\ \A m \in DOMAIN nodes : SameSlot(nodes'[m], nodes[m])
                                 /\ SameLife(nodes'[m], nodes[m])
    /\ free_list' = free_list
    /\ stats'.nodes_dropped = stats.nodes_dropped
    /\ stats'.placeholders = stats.placeholders
    /\ stats.children_linked <= stats'.children_linked
    /\ SlotCount(stats') = SlotCount(stats)

SlotAdded ==
    /\ DOMAIN nodes' = DOMAIN nodes \cup {Len(nodes) + 1}
    /\ \A m \in DOMAIN nodes : SameSlot(nodes'[m], nodes[m])
                                 /\ SameLife(nodes'[m], nodes[m])
    /\ LET new == nodes'[Len(nodes) + 1]
       IN  /\ new.alive /\ new.generation = 0
           /\ new.placeholder <=> new.kind = NoKind
           /\ new.fields = NoFields
           /\ stats'.placeholders =
                IF new.placeholder THEN stats.placeholders + 1 ELSE stats.placeholders
           /\ stats'.children_linked = IF new.placeholder
                THEN stats.children_linked + 1 ELSE stats.children_linked
           /\ new.placeholder \/ Len(nodes) < MaxNodes
    /\ free_list' = free_list
    /\ stats'.nodes_dropped = stats.nodes_dropped
    /\ SlotCount(stats') = SlotCount(stats) + 1

SlotDropped(n) ==
    /\ n \in DOMAIN nodes /\ nodes[n].alive
    /\ DOMAIN nodes' = DOMAIN nodes
    /\ \A m \in DOMAIN nodes : SameSlot(nodes'[m], nodes[m])
    /\ \A m \in DOMAIN nodes \ {n} : SameLife(nodes'[m], nodes[m])
    /\ ~ nodes'[n].alive /\ nodes'[n].generation = nodes[n].generation + 1
    /\ free_list' = Append(free_list, n)
    /\ stats'.nodes_dropped = stats.nodes_dropped + 1
    /\ stats'.placeholders = stats.placeholders
    /\ stats.children_linked <= stats'.children_linked
    /\ SlotCount(stats') = SlotCount(stats)

LEMMA ChildCounts ==
    TypeOK => \A m \in DOMAIN nodes : Len(nodes[m].children) \in Nat
BY LengthsAreNaturals DEF TypeOK

LEMMA SlotItself ==
    TypeOK => \A m \in DOMAIN nodes : SameSlot(nodes[m], nodes[m])
                                        /\ SameLife(nodes[m], nodes[m])
BY ChildCounts DEF SameSlot, SameLife

\* Operations that leave the table alone count nothing about slots either.
LEMMA ExecutedCounts ==
    TypeOK => /\ Executed.nodes_dropped = stats.nodes_dropped
              /\ Executed.nodes_created = stats.nodes_created
              /\ Executed.placeholders = stats.placeholders
              /\ Executed.children_linked = stats.children_linked
              /\ stats.children_linked \in Nat
              /\ Executed \in ReplayStats
<1> SUFFICES ASSUME TypeOK
             PROVE  /\ Executed.nodes_dropped = stats.nodes_dropped
                    /\ Executed.nodes_created = stats.nodes_created
                    /\ Executed.placeholders = stats.placeholders
                    /\ Executed.children_linked = stats.children_linked
                    /\ stats.children_linked \in Nat
    BY ExecutedTyped
<1>1. stats \in ReplayStats
    BY DEF TypeOK
<1> QED
    BY <1>1 DEF Executed, ReplayStats

LEMMA TableLeftAlone ==
    ASSUME TypeOK, nodes' = nodes, free_list' = free_list,
           stats' = Executed \/ stats' = stats
    PROVE  SlotsKept
BY SlotItself, ExecutedCounts DEF SlotsKept, SlotCount

LEMMA FieldStored ==
    ASSUME TypeOK, NEW n \in DOMAIN nodes, NEW f \in Fields, NEW v, NEW ts,
           nodes[n].kind # NoKind,
           nodes' = [nodes EXCEPT ![n] = WithField(nodes[n], f, v, ts)],
           free_list' = free_list,
           stats'.nodes_dropped = stats.nodes_dropped,
           stats'.placeholders = stats.placeholders,
           stats'.children_linked = stats.children_linked,
           SlotCount(stats') = SlotCount(stats)
    PROVE  SlotsKept
<1>1. nodes[n] \in NodeRecord /\ Len(nodes[n].children) \in Nat
    BY NodesFinite, ChildCounts
<1>2. /\ SameSlot(WithField(nodes[n], f, v, ts), nodes[n])
      /\ SameLife(WithField(nodes[n], f, v, ts), nodes[n])
    BY <1>1 DEF WithField, NodeRecord, SameSlot, SameLife
<1>3. DOMAIN nodes' = DOMAIN nodes
    OBVIOUS
<1>4. \A m \in DOMAIN nodes :
            nodes'[m] = IF m = n THEN WithField(nodes[n], f, v, ts) ELSE nodes[m]
    OBVIOUS
<1>5. stats.children_linked <= stats'.children_linked
    BY ExecutedCounts
<1> QED
    BY <1>2, <1>3, <1>4, <1>5, SlotItself DEF SlotsKept

LEMMA DropEffect ==
    ASSUME TypeOK, NEW n \in NodeOperands, DropNode(n)
    PROVE  SlotsKept \/ SlotDropped(n)
<1>1. n \in DOMAIN nodes /\ nodes[n] \in NodeRecord
    BY NodesFinite DEF DropNode, InRange
<1>2. CASE ~ nodes[n].alive
    BY <1>2, TableLeftAlone DEF DropNode
<1>3. CASE nodes[n].alive
    <2>1. /\ nodes' = [nodes EXCEPT ![n] = Dropped(nodes[n])]
          /\ free_list' = Append(free_list, n)
          /\ stats' = [Executed EXCEPT !.nodes_dropped = Executed.nodes_dropped + 1]
        BY <1>3 DEF DropNode
    <2>2. Len(nodes[n].children) \in Nat
        BY <1>1, ChildCounts
    <2>3. /\ SameSlot(Dropped(nodes[n]), nodes[n])
          /\ ~ Dropped(nodes[n]).alive
          /\ Dropped(nodes[n]).generation = nodes[n].generation + 1
        BY <1>1, <2>2 DEF Dropped, NodeRecord, SameSlot
    <2>4. /\ DOMAIN nodes' = DOMAIN nodes
          /\ nodes'[n] = Dropped(nodes[n])
          /\ \A m \in DOMAIN nodes : m # n => nodes'[m] = nodes[m]
        BY <1>1, <2>1
    <2>5. /\ stats'.nodes_dropped = stats.nodes_dropped + 1
          /\ stats'.placeholders = stats.placeholders
          /\ stats.children_linked <= stats'.children_linked
          /\ SlotCount(stats') = SlotCount(stats)
        <3>1. Executed \in ReplayStats
            BY ExecutedCounts
        <3>2. /\ stats'.nodes_dropped = Executed.nodes_dropped + 1
              /\ stats'.nodes_created = Executed.nodes_created
              /\ stats'.placeholders = Executed.placeholders
              /\ stats'.children_linked = Executed.children_linked
            BY <2>1, <3>1 DEF ReplayStats
        <3> QED
            BY <3>2, ExecutedCounts DEF SlotCount
    <2> QED
        BY <1>1, <1>3, <2>1, <2>3, <2>4, <2>5, SlotItself DEF SlotDropped
<1> QED
    BY <1>2, <1>3

LEMMA NewNodeEffect ==
    ASSUME TypeOK, NEW kind, NEW name, NewNode(kind, name)
    PROVE  SlotAdded
<1> DEFINE fresh == NewNodeRecord(kind, name, FALSE, NoFields)
<1>1. /\ fresh \in NodeRecord /\ fresh.alive /\ fresh.generation = 0
      /\ ~ fresh.placeholder /\ fresh.kind # NoKind /\ fresh.fields = NoFields
    BY FreshNodeTyped, SchemaAssumption DEF NewNode, KindOperands, NewNodeRecord
<1>2. /\ nodes' = Append(nodes, fresh)
      /\ free_list' = free_list
      /\ stats' = [Executed EXCEPT !.nodes_created = Executed.nodes_created + 1]
    BY DEF NewNode
<1> HIDE DEF fresh
<1>3. /\ DOMAIN nodes' = DOMAIN nodes \cup {Len(nodes) + 1}
      /\ \A m \in DOMAIN nodes : nodes'[m] = nodes[m]
      /\ nodes'[Len(nodes) + 1] = fresh
    BY <1>1, <1>2, TableAppend DEF TypeOK
<1>4. /\ stats'.nodes_dropped = stats.nodes_dropped
      /\ stats'.placeholders = stats.placeholders
      /\ stats'.children_linked = stats.children_linked
      /\ SlotCount(stats') = SlotCount(stats) + 1
    <2>1. Executed \in ReplayStats
        BY ExecutedCounts
    <2>2. /\ stats'.nodes_created = Executed.nodes_created + 1
          /\ stats'.nodes_dropped = Executed.nodes_dropped
          /\ stats'.placeholders = Executed.placeholders
          /\ stats'.children_linked = Executed.children_linked
          /\ Executed.nodes_created \in Nat /\ Executed.placeholders \in Nat
        BY <1>2, <2>1 DEF ReplayStats
    <2> QED
        BY <2>2, ExecutedCounts DEF SlotCount
<1>5. Len(nodes) < MaxNodes
    BY DEF NewNode, HasRoom
<1> QED
    BY <1>1, <1>2, <1>3, <1>4, <1>5, SlotItself DEF SlotAdded

LEMMA ResolveEffect ==
    ASSUME TypeOK, ResolveChild
    PROVE  SlotsKept \/ SlotAdded
<1>1. free_list' = free_list
    BY DEF ResolveChild
<1>2. stats \in ReplayStats
    BY DEF TypeOK
<1>3. \A m, n : SameButLinks(m, n) => SameSlot(m, n) /\ SameLife(m, n)
    BY DEF SameButLinks, SameSlot, SameLife
<1>4. CASE LinkedExisting
    <2>1. /\ stats'.nodes_dropped = stats.nodes_dropped
          /\ stats'.nodes_created = stats.nodes_created
          /\ stats'.placeholders = stats.placeholders
          /\ stats.children_linked <= stats'.children_linked
        BY <1>2, <1>4 DEF LinkedExisting, ReplayStats
    <2> QED
        BY <1>1, <1>3, <1>4, <2>1 DEF LinkedExisting, SlotsKept, SlotCount
<1>5. ASSUME NEW name \in Names, Materialised(name) PROVE SlotAdded
    <2> DEFINE fresh == NewNodeRecord(NoKind, name, TRUE, NoFields)
    <2>1. /\ fresh.alive /\ fresh.generation = 0 /\ fresh.placeholder
          /\ fresh.kind = NoKind /\ fresh.fields = NoFields
        BY DEF NewNodeRecord
    <2>2. SameButLinks(nodes'[Len(nodes) + 1], fresh)
        BY <1>5 DEF Materialised
    <2> HIDE DEF fresh
    <2>3. /\ stats'.nodes_dropped = stats.nodes_dropped
          /\ stats'.nodes_created = stats.nodes_created
          /\ stats'.placeholders = stats.placeholders + 1
          /\ stats'.children_linked = stats.children_linked + 1
          /\ stats.nodes_created \in Nat /\ stats.placeholders \in Nat
        BY <1>2, <1>5 DEF Materialised, ReplayStats
    <2>4. SlotCount(stats') = SlotCount(stats) + 1
        BY <2>3 DEF SlotCount
    <2> QED
        BY <1>1, <1>3, <1>5, <2>1, <2>2, <2>3, <2>4, ZenonT(60)
        DEF Materialised, SlotAdded, SameButLinks
<1> QED
    BY <1>4, <1>5, ResolveChildEffect

LEMMA StepEffect ==
    TypeOK /\ [Next]_vars => SlotsKept \/ SlotAdded \/ \E n : SlotDropped(n)
<1> SUFFICES ASSUME TypeOK, StepCases
             PROVE  SlotsKept \/ SlotAdded \/ \E n : SlotDropped(n)
    BY StepIsACase
<1>1. CASE UNCHANGED vars
    BY <1>1, TableLeftAlone DEF vars
<1>2. CASE Rejection
    BY <1>2, TableLeftAlone DEF Rejection, End, graph
<1>3. ASSUME NEW kind, NEW name, NewNode(kind, name) PROVE SlotAdded
    BY <1>3, NewNodeEffect
<1>4. ASSUME NEW n \in NodeOperands, DropNode(n) PROVE SlotsKept \/ SlotDropped(n)
    BY <1>4, DropEffect
<1>5. ASSUME NEW n \in NodeOperands, NEW f \in Fields,
             NEW v \in SUBSET NodeOperands, SetField(n, f, v)
      PROVE  SlotsKept
    <2>1. /\ n \in DOMAIN nodes /\ free_list' = free_list
          /\ nodes[n].kind # NoKind
          /\ nodes' = [nodes EXCEPT ![n] = WithField(nodes[n], f, v, InTable(v))]
        BY <1>5, SchemaAssumption DEF SetField, InRange, field_type
    <2> DEFINE k == Cardinality(v \ InTable(v))
    <2>2. stats' = [Executed EXCEPT !.unresolved_refs = Executed.unresolved_refs + k]
        BY <1>5 DEF SetField
    <2> HIDE DEF k
    <2>3. /\ stats'.nodes_dropped = stats.nodes_dropped
          /\ stats'.placeholders = stats.placeholders
          /\ stats'.children_linked = stats.children_linked
          /\ SlotCount(stats') = SlotCount(stats)
        BY <2>2, ExecutedCounts DEF SlotCount, ReplayStats
    <2> QED
        BY <2>1, <2>3, FieldStored
<1>6. ASSUME NEW src \in NodeOperands, NEW f \in Fields, NEW name,
             LinkRef(src, f, name)
      PROVE  SlotsKept
    <2> DEFINE target == find_named(name)
    <2>1. /\ src \in DOMAIN nodes /\ free_list' = free_list
          /\ nodes[src].kind # NoKind
        BY <1>6, SchemaAssumption DEF LinkRef, InRange, field_type
    <2>2. /\ stats'.nodes_dropped = stats.nodes_dropped
          /\ stats'.placeholders = stats.placeholders
          /\ stats'.children_linked = stats.children_linked
          /\ SlotCount(stats') = SlotCount(stats)
        BY <1>6, ExecutedCounts DEF LinkRef, SlotCount, ReplayStats
    <2>3. \/ nodes' = nodes
          \/ nodes' = [nodes EXCEPT ![src] = WithField(nodes[src], f, {target}, {target})]
        BY <1>6 DEF LinkRef
    <2> HIDE DEF target
    <2>4. CASE nodes' = nodes
        BY <2>1, <2>2, <2>4, SlotItself, ExecutedCounts DEF SlotsKept
    <2> QED
        BY <2>1, <2>2, <2>3, <2>4, FieldStored
<1>7. ASSUME NEW name, NEW hint \in 0..MaxHint, BeginGroup(name, hint)
      PROVE  SlotsKept
    BY <1>7, TableLeftAlone DEF BeginGroup, End, graph
<1>8. ASSUME NEW name, AddChild(name) PROVE SlotsKept
    BY <1>8, TableLeftAlone DEF AddChild
<1>9. CASE EndGroup
    BY <1>9, TableLeftAlone DEF EndGroup
<1>10. CASE ResolveChild
    BY <1>10, ResolveEffect
<1>11. CASE CloseGroup
    BY <1>11, TableLeftAlone DEF CloseGroup
<1>12. ASSUME NEW label, Snapshot(label) PROVE SlotsKept
    BY <1>12, TableLeftAlone DEF Snapshot
<1>13. ASSUME NEW key, NEW value, SetMeta(key, value) PROVE SlotsKept
    BY <1>13, TableLeftAlone DEF SetMeta
<1>14. CASE Nop
    BY <1>14, TableLeftAlone DEF Nop
<1> QED
    BY <1>1, <1>2, <1>3, <1>4, <1>5, <1>6, <1>7, <1>8, <1>9, <1>10, <1>11,
       <1>12, <1>13, <1>14 DEF StepCases

-----------------------------------------------------------------------------
(* The free list *)

LEMMA HeapSlots ==
    ASSUME Init
    PROVE  /\ Len(nodes) \in Nat /\ DOMAIN nodes = 1 .. Len(nodes)
           /\ \A n \in DOMAIN nodes : nodes[n] \in HeapNodes
           /\ stats.nodes_created = Len(nodes)
           /\ stats.placeholders = 0 /\ stats.nodes_dropped = 0
           /\ stats.children_linked = 0 /\ Len(nodes) <= MaxNodes
<1>1. PICK heap \in HeapImages : seed(heap)
    BY DEF Init
<1>2. PICK k \in 0..MaxHeapNodes : heap \in [1..k -> HeapNodes]
    BY DEF HeapImages
<1>3. nodes = heap /\ TypeOK
    BY <1>1, InitTyped DEF seed
<1>4. \A n \in DOMAIN nodes : nodes[n] \in HeapNodes
    BY <1>2, <1>3
<1>5. Len(nodes) \in Nat /\ DOMAIN nodes = 1 .. Len(nodes)
    BY <1>3, NodesFinite
<1>6. Len(nodes) <= MaxNodes
    <2>1. k \in Nat /\ k <= MaxNodes /\ MaxNodes \in Nat
        BY LimitAssumption
    <2>2. 1 .. Len(nodes) = 1 .. k
        BY <1>2, <1>3, <1>5
    <2>3. Len(nodes) \in 1 .. Len(nodes) => Len(nodes) \in 1 .. k
        BY <2>2
    <2> DEFINE length == Len(nodes)
    <2>4. length \in Nat /\ (length \in 1 .. length => length \in 1 .. k)
        BY <1>5, <2>3
    <2> HIDE DEF length
    <2>5. length <= MaxNodes
        BY <2>1, <2>4
    <2> QED
        BY <2>5 DEF length
<1> QED
    BY <1>1, <1>3, <1>4, <1>5, <1>6 DEF seed

LEMMA FreeListInit == Init => FreeListIsTheDropped
<1> SUFFICES ASSUME Init PROVE FreeListIsTheDropped
    OBVIOUS
<1>1. free_list = << >> /\ DOMAIN free_list = {} /\ Len(free_list) = 0
    BY DEF Init
<1>2. \A n \in DOMAIN nodes : nodes[n].alive /\ nodes[n].generation = 0
    BY HeapSlots, HeapNodesFresh
<1> QED
    BY <1>1, <1>2, HeapSlots DEF FreeListIsTheDropped

LEMMA FreeListStep ==
    TypeOK /\ FreeListIsTheDropped /\ [Next]_vars => FreeListIsTheDropped'
<1> SUFFICES ASSUME TypeOK, FreeListIsTheDropped,
                    SlotsKept \/ SlotAdded \/ \E n : SlotDropped(n)
             PROVE  FreeListIsTheDropped'
    BY StepEffect
<1>1. CASE SlotsKept
    BY <1>1 DEF SlotsKept, SameLife, FreeListIsTheDropped, InRange
<1>2. CASE SlotAdded
    <2>1. /\ DOMAIN nodes' = DOMAIN nodes \cup {Len(nodes) + 1}
          /\ nodes'[Len(nodes) + 1].alive /\ nodes'[Len(nodes) + 1].generation = 0
        BY <1>2 DEF SlotAdded
    <2>2. \A i \in DOMAIN free_list : free_list[i] # Len(nodes) + 1
        BY NodesFinite DEF FreeListIsTheDropped, InRange
    <2> QED
        BY <1>2, <2>1, <2>2 DEF SlotAdded, SameLife, FreeListIsTheDropped, InRange
<1>3. ASSUME NEW n, SlotDropped(n) PROVE FreeListIsTheDropped'
    <2>1. n \in Nat /\ n \in DOMAIN nodes /\ nodes[n].alive
        BY <1>3, NodesFinite DEF SlotDropped
    <2>2. /\ free_list' = Append(free_list, n) /\ free_list \in Seq(Nat)
          /\ Len(free_list) \in Nat /\ DOMAIN free_list = 1 .. Len(free_list)
        BY <1>3, LenProperties DEF SlotDropped, TypeOK
    <2>3. /\ Len(free_list') = Len(free_list) + 1
          /\ DOMAIN free_list' = 1 .. (Len(free_list) + 1)
          /\ \A i \in DOMAIN free_list : free_list'[i] = free_list[i]
          /\ free_list'[Len(free_list) + 1] = n
        BY <2>1, <2>2, AppendProperties, LenProperties
    <2>4. \A i \in DOMAIN free_list : free_list[i] # n
        BY <2>1 DEF FreeListIsTheDropped
    <2>5. Len(free_list') = stats'.nodes_dropped
        BY <1>3, <2>3 DEF SlotDropped, FreeListIsTheDropped
    <2>6. \A i \in DOMAIN free_list' : free_list'[i] \in DOMAIN nodes'
        <3>1. \A i \in DOMAIN free_list : free_list[i] \in DOMAIN nodes
            BY DEF FreeListIsTheDropped, InRange
        <3>2. DOMAIN nodes' = DOMAIN nodes
            BY <1>3 DEF SlotDropped
        <3> QED
            BY <2>1, <2>2, <2>3, <3>1, <3>2
    <2>7. \A i, j \in DOMAIN free_list' : free_list'[i] = free_list'[j] => i = j
        <3>1. \A i, j \in DOMAIN free_list : free_list[i] = free_list[j] => i = j
            BY DEF FreeListIsTheDropped
        <3>2. \A i \in DOMAIN free_list' : i \in DOMAIN free_list \/ i = Len(free_list) + 1
            BY <2>2, <2>3
        <3> QED
            BY <2>3, <2>4, <3>1, <3>2
    <2>8. ASSUME NEW m \in DOMAIN nodes'
          PROVE  /\ nodes'[m].alive <=> \A i \in DOMAIN free_list' : free_list'[i] # m
                 /\ nodes'[m].generation = IF nodes'[m].alive THEN 0 ELSE 1
        <3>1. /\ m \in DOMAIN nodes
              /\ nodes[m].alive <=> \A i \in DOMAIN free_list : free_list[i] # m
              /\ nodes[m].generation = IF nodes[m].alive THEN 0 ELSE 1
            BY <1>3 DEF SlotDropped, FreeListIsTheDropped
        <3>2. CASE m = n
            <4>1. ~ nodes'[m].alive /\ nodes'[m].generation = 0 + 1
                BY <1>3, <2>1, <3>1, <3>2 DEF SlotDropped
            <4>2. ~ \A i \in DOMAIN free_list' : free_list'[i] # m
                BY <2>2, <2>3, <3>2
            <4> QED
                BY <4>1, <4>2
        <3>3. CASE m # n
            <4>1. nodes'[m].alive = nodes[m].alive
                  /\ nodes'[m].generation = nodes[m].generation
                BY <1>3, <3>1, <3>3 DEF SlotDropped, SameLife
            <4>2. (\A i \in DOMAIN free_list' : free_list'[i] # m)
                  <=> \A i \in DOMAIN free_list : free_list[i] # m
                BY <2>2, <2>3, <3>3
            <4> QED
                BY <3>1, <4>1, <4>2
        <3> QED
            BY <3>2, <3>3
    <2> QED
        BY <2>5, <2>6, <2>7, <2>8 DEF FreeListIsTheDropped, InRange
<1> QED
    BY <1>1, <1>2, <1>3

\* The free list holds exactly the dropped slots, each once, nodes_dropped is
\* its length and a generation is 1 on those slots and 0 elsewhere: a second
\* do_drop_node of a slot leaves it alone, and nothing takes a slot back.
THEOREM FreeListCorrect == Spec => []FreeListIsTheDropped
BY InitTyped, StepTyped, FreeListInit, FreeListStep, PTL DEF Spec

-----------------------------------------------------------------------------
(* Accounting, and the table that only grows *)

LEMMA SlotsInit == Init => SlotsAccounted
<1> SUFFICES ASSUME Init PROVE SlotsAccounted
    OBVIOUS
<1>1. \A n \in DOMAIN nodes : ~ nodes[n].placeholder /\ nodes[n].kind # NoKind
    BY HeapSlots, HeapNodesFresh, SchemaAssumption, SMTT(60)
<1> QED
    BY <1>1, HeapSlots DEF SlotsAccounted

LEMMA TableLength ==
    ASSUME TypeOK, TypeOK'
    PROVE  /\ DOMAIN nodes' = DOMAIN nodes => Len(nodes') = Len(nodes)
           /\ DOMAIN nodes' = DOMAIN nodes \cup {Len(nodes) + 1}
                => Len(nodes') = Len(nodes) + 1
<1>1. /\ Len(nodes) \in Nat /\ DOMAIN nodes = 1 .. Len(nodes)
      /\ Len(nodes') \in Nat /\ DOMAIN nodes' = 1 .. Len(nodes')
    BY NodesFinite, LenProperties DEF TypeOK
<1>2. ASSUME NEW a \in Nat, NEW b \in Nat, 1 .. b = 1 .. a PROVE b = a
    <2>1. (b \in 1 .. b => b \in 1 .. a) /\ (a \in 1 .. a => a \in 1 .. b)
        BY <1>2
    <2> QED
        BY <2>1
<1>3. 1 .. (Len(nodes) + 1) = 1 .. Len(nodes) \cup {Len(nodes) + 1}
    BY <1>1
<1>4. Len(nodes) + 1 \in Nat
    BY <1>1
<1> QED
    BY <1>1, <1>2, <1>3, <1>4, ZenonT(60)

LEMMA SlotsStep ==
    TypeOK /\ SlotsAccounted /\ [Next]_vars => SlotsAccounted'
<1> SUFFICES ASSUME TypeOK, TypeOK', SlotsAccounted,
                    SlotsKept \/ SlotAdded \/ \E n : SlotDropped(n)
             PROVE  SlotsAccounted'
    BY StepEffect, StepTyped
<1>1. ASSUME DOMAIN nodes' = DOMAIN nodes, SlotCount(stats') = SlotCount(stats),
             \A m \in DOMAIN nodes : SameSlot(nodes'[m], nodes[m])
      PROVE  SlotsAccounted'
    BY <1>1, TableLength, ZenonT(60) DEF SlotsAccounted, SlotCount, SameSlot
<1>2. CASE SlotAdded
    <2>1. /\ DOMAIN nodes' = DOMAIN nodes \cup {Len(nodes) + 1}
          /\ Len(nodes') = Len(nodes) + 1
        BY <1>2, TableLength DEF SlotAdded
    <2>2. SlotCount(stats') = Len(nodes')
        BY <1>2, <2>1 DEF SlotAdded, SlotsAccounted, SlotCount
    <2>3. \A m \in DOMAIN nodes : SameSlot(nodes'[m], nodes[m])
        BY <1>2 DEF SlotAdded
    <2>4. LET new == nodes'[Len(nodes) + 1]
          IN  (new.placeholder <=> new.kind = NoKind) /\ new.fields = NoFields
        BY <1>2 DEF SlotAdded
    <2> QED
        BY <2>1, <2>2, <2>3, <2>4, SMTT(60) DEF SlotsAccounted, SlotCount, SameSlot
<1> QED
    BY <1>1, <1>2 DEF SlotsKept, SlotDropped

\* Every slot of the table was counted once, as created or as materialised, and
\* the nodes without a kind are the placeholders, which never get a field:
\* do_set_field and do_link_ref find no field type for them.
THEOREM SlotsCorrect == Spec => []SlotsAccounted
BY InitTyped, StepTyped, SlotsInit, SlotsStep, PTL DEF Spec

LEMMA OverrunInit == Init => OverrunIsForwardReferences
<1> SUFFICES ASSUME Init PROVE OverrunIsForwardReferences
    OBVIOUS
<1>1. \A n \in DOMAIN nodes : ~ n > MaxNodes
    BY HeapSlots, LimitAssumption
<1> QED
    BY <1>1, HeapSlots DEF OverrunIsForwardReferences

\* The two counters together are the length of the table, so that NEW_NODE,
\* which asks for room in the table, keeps its own counter within the limit.
LEMMA OverrunStep ==
    TypeOK /\ SlotsAccounted /\ OverrunIsForwardReferences /\ [Next]_vars
        => OverrunIsForwardReferences'
<1> SUFFICES ASSUME TypeOK, TypeOK', SlotsAccounted, OverrunIsForwardReferences,
                    SlotsKept \/ SlotAdded \/ \E n : SlotDropped(n)
             PROVE  OverrunIsForwardReferences'
    BY StepEffect, StepTyped
<1>1. /\ stats.nodes_created \in Nat /\ stats.placeholders \in Nat
      /\ stats.children_linked \in Nat
      /\ stats'.nodes_created \in Nat /\ stats'.placeholders \in Nat
      /\ stats'.children_linked \in Nat
    BY DEF TypeOK, ReplayStats
<1>2. /\ stats.nodes_created + stats.placeholders = Len(nodes)
      /\ stats.nodes_created <= MaxNodes /\ MaxNodes \in Nat
      /\ stats.placeholders <= stats.children_linked
    BY LimitAssumption DEF SlotsAccounted, OverrunIsForwardReferences
<1>3. ASSUME DOMAIN nodes' = DOMAIN nodes, SlotCount(stats') = SlotCount(stats),
             stats'.placeholders = stats.placeholders,
             stats.children_linked <= stats'.children_linked,
             \A m \in DOMAIN nodes : SameSlot(nodes'[m], nodes[m])
      PROVE  OverrunIsForwardReferences'
    <2>1. /\ stats'.nodes_created = stats.nodes_created
          /\ stats'.placeholders <= stats'.children_linked
        BY <1>1, <1>2, <1>3 DEF SlotCount
    <2>2. \A n \in DOMAIN nodes' : n > MaxNodes => nodes'[n].placeholder
        BY <1>3 DEF SameSlot, OverrunIsForwardReferences
    <2> QED
        BY <1>2, <2>1, <2>2 DEF OverrunIsForwardReferences
<1>4. CASE SlotAdded
    <2> DEFINE new == nodes'[Len(nodes) + 1]
    <2>1. /\ DOMAIN nodes' = DOMAIN nodes \cup {Len(nodes) + 1}
          /\ \A m \in DOMAIN nodes : nodes'[m].placeholder = nodes[m].placeholder
          /\ SlotCount(stats') = SlotCount(stats) + 1
          /\ new.placeholder \/ Len(nodes) < MaxNodes
        BY <1>4 DEF SlotAdded, SameSlot
    <2>2. /\ stats'.placeholders =
                IF new.placeholder THEN stats.placeholders + 1 ELSE stats.placeholders
          /\ stats'.children_linked = IF new.placeholder
                THEN stats.children_linked + 1 ELSE stats.children_linked
        BY <1>4 DEF SlotAdded
    <2>3. Len(nodes) \in Nat
        BY NodesFinite
    <2>4. /\ stats'.nodes_created <= MaxNodes
          /\ stats'.placeholders <= stats'.children_linked
        <3>1. CASE new.placeholder
            BY <1>1, <1>2, <2>1, <2>2, <3>1 DEF SlotCount
        <3>2. CASE ~ new.placeholder
            BY <1>1, <1>2, <2>1, <2>2, <2>3, <3>2 DEF SlotCount
        <3> QED
            BY <3>1, <3>2
    <2>5. ASSUME NEW n \in DOMAIN nodes', n > MaxNodes PROVE nodes'[n].placeholder
        <3>1. CASE n \in DOMAIN nodes
            BY <2>1, <2>5, <3>1 DEF OverrunIsForwardReferences
        <3>2. CASE n = Len(nodes) + 1
            BY <1>2, <2>1, <2>3, <2>5, <3>2
        <3> QED
            BY <2>1, <3>1, <3>2
    <2> QED
        BY <2>4, <2>5 DEF OverrunIsForwardReferences
<1> QED
    BY <1>3, <1>4 DEF SlotsKept, SlotDropped

\* The limit bounds what NEW_NODE and the heap bring: a table beyond max_nodes
\* holds, past the limit, placeholders only, and no more of them than
\* resolve_frame has linked children.
THEOREM OverrunBounded == Spec => []OverrunIsForwardReferences
BY InitTyped, StepTyped, SlotsInit, SlotsStep, OverrunInit, OverrunStep, PTL DEF Spec

LEMMA AppendOnlyStep ==
    ASSUME TypeOK, [Next]_vars
    PROVE  /\ Len(nodes) <= Len(nodes')
           /\ \A n \in DOMAIN nodes :
                /\ nodes'[n].kind = nodes[n].kind
                /\ nodes'[n].name = nodes[n].name
                /\ nodes'[n].placeholder = nodes[n].placeholder
                /\ nodes'[n].alive => nodes[n].alive
                /\ nodes[n].refs \subseteq nodes'[n].refs
                /\ Len(nodes[n].children) <= Len(nodes'[n].children)
<1>1. SlotsKept \/ SlotAdded \/ \E n : SlotDropped(n)
    BY StepEffect
<1>2. Len(nodes) \in Nat /\ Len(nodes) <= Len(nodes')
    BY <1>1, StepTyped, TableLength, NodesFinite DEF SlotsKept, SlotAdded, SlotDropped
<1>3. \A m \in DOMAIN nodes : SameSlot(nodes'[m], nodes[m])
    BY <1>1 DEF SlotsKept, SlotAdded, SlotDropped
<1>4. \A m \in DOMAIN nodes : nodes'[m].alive => nodes[m].alive
    BY <1>1 DEF SlotsKept, SlotAdded, SlotDropped, SameLife
<1> QED
    BY <1>2, <1>3, <1>4 DEF SameSlot

\* No handler takes a slot away, changes the identity of a node, revives it or
\* removes a link: an id handed out once designates the same node for ever,
\* which the caller of run() relies on when it keeps ids.
THEOREM TableGrowsOnly == Spec => TableAppendOnly
<1>1. TypeOK /\ [Next]_vars =>
        [ /\ Len(nodes) <= Len(nodes')
          /\ \A n \in DOMAIN nodes :
              /\ nodes'[n].kind = nodes[n].kind
              /\ nodes'[n].name = nodes[n].name
              /\ nodes'[n].placeholder = nodes[n].placeholder
              /\ nodes'[n].alive => nodes[n].alive
              /\ nodes[n].refs \subseteq nodes'[n].refs
              /\ Len(nodes[n].children) <= Len(nodes'[n].children) ]_vars
    BY AppendOnlyStep
<1> QED
    BY <1>1, InitTyped, StepTyped, PTL DEF Spec, TableAppendOnly

-----------------------------------------------------------------------------
(* One turn of resolve_frame *)

\* A turn links `target' to the owner of `frame' on table `t': the node table
\* as it is, or with a placeholder appended that may move it.
Turn(t, frame, target) ==
    /\ t \in Seq(NodeRecord) /\ target \in DOMAIN t
    /\ frame \in GroupFrame /\ frame.owner_id \in DOMAIN t
    /\ frame.reserved = closing[1].reserved
    /\ frame.deferred = Tail(closing[1].deferred)
    /\ FullTable \/ frame.cached = closing[1].cached
    /\ closing' = << frame >>
    /\ Attach(t, frame, target)
    /\ \/ /\ t = nodes /\ frame.cached = closing[1].cached
          /\ UNCHANGED << capacity, frames >>
       \/ /\ \E name \in Names :
                t = Append(nodes, NewNodeRecord(NoKind, name, TRUE, NoFields))
          /\ capacity' = GrownCapacity
          /\ frames' = AfterMove(FullTable, frames)

\* Every step of resolve_frame is such a turn.
LEMMA ResolveIsATurn ==
    ASSUME TypeOK, ResolveChild
    PROVE  \E t, frame, target : Turn(t, frame, target)
<1> DEFINE open   == closing[1]
           name   == Head(open.deferred)
           target == find_named(name)
           rest   == [open EXCEPT !.deferred = Tail(open.deferred)]
           fresh  == NewNodeRecord(NoKind, name, TRUE, NoFields)
           grown  == Append(nodes, fresh)
<1>1. /\ closing \in Seq(GroupFrame) /\ closing # << >>
      /\ 1 \in DOMAIN closing /\ open \in GroupFrame
    BY LenProperties, EmptySeq, ElementOfSeq DEF ResolveChild, TypeOK
<1>2. /\ open.deferred \in Seq(Names) /\ open.deferred # << >>
      /\ open.owner_id \in DOMAIN nodes
    BY <1>1 DEF ResolveChild, GroupFrame, TypeOK, InRange
<1>3. name \in Names /\ Tail(open.deferred) \in Seq(Names)
    BY <1>2, HeadTailProperties
<1>4. rest \in GroupFrame /\ rest.owner_id = open.owner_id
        /\ rest.reserved = open.reserved /\ rest.deferred = Tail(open.deferred)
        /\ rest.cached = open.cached
    BY <1>1, <1>3 DEF GroupFrame
<1>5. CASE /\ target # kInvalidNode
           /\ Attach(nodes, rest, target)
           /\ closing' = << rest >>
           /\ UNCHANGED << capacity, frames >>
    <2>1. target \in DOMAIN nodes
        BY <1>3, <1>5, FoundNamed
    <2>2. nodes \in Seq(NodeRecord) /\ rest.owner_id \in DOMAIN nodes
        BY <1>2, <1>4 DEF TypeOK
    <2> HIDE DEF rest, target
    <2>3. Turn(nodes, rest, target)
        BY <1>4, <1>5, <2>1, <2>2 DEF Turn
    <2> QED
        BY <2>3
<1>6. CASE /\ closing' = AfterMove(FullTable, << rest >>)
           /\ Attach(grown, closing'[1], Len(nodes) + 1)
           /\ capacity' = GrownCapacity
           /\ frames' = AfterMove(FullTable, frames)
    <2>1. fresh \in NodeRecord
        BY <1>3, FreshNodeTyped DEF KindOperands
    <2>2. grown \in Seq(NodeRecord) /\ DOMAIN grown = DOMAIN nodes \cup {Len(nodes) + 1}
        BY <2>1, TableAppend DEF TypeOK
    <2>3. /\ closing' \in Seq(GroupFrame) /\ DOMAIN closing' = {1}
          /\ closing'[1].owner_id = open.owner_id
          /\ closing'[1].reserved = open.reserved
          /\ closing'[1].deferred = Tail(open.deferred)
          /\ FullTable \/ closing'[1].cached = open.cached
        <3> DEFINE one == << rest >>
        <3>1. one \in Seq(GroupFrame) /\ DOMAIN one = {1} /\ one[1] = rest
            BY <1>4
        <3>2. FullTable \in BOOLEAN
            BY DEF FullTable
        <3>3. closing' = AfterMove(FullTable, one)
            BY <1>6
        <3>4. 1 \in DOMAIN one
            BY <3>1
        <3> HIDE DEF one, rest
        <3>5. /\ AfterMove(FullTable, one) \in Seq(GroupFrame)
              /\ DOMAIN AfterMove(FullTable, one) = DOMAIN one
              /\ AfterMove(FullTable, one)[1].owner_id = one[1].owner_id
              /\ AfterMove(FullTable, one)[1].reserved = one[1].reserved
              /\ AfterMove(FullTable, one)[1].deferred = one[1].deferred
            BY <3>1, <3>2, <3>4, StaleFrames
        <3>6. ~ FullTable => AfterMove(FullTable, one) = one
            BY DEF AfterMove
        <3> HIDE DEF open
        <3> QED
            BY <1>4, <3>1, <3>3, <3>5, <3>6
    <2>4. closing' = << closing'[1] >> /\ closing'[1] \in GroupFrame
        <3>1. Len(closing') \in Nat /\ DOMAIN closing' = 1 .. Len(closing')
            BY <2>3, LenProperties
        <3>2. Len(closing') = 1
            BY <2>3, <3>1
        <3>3. closing'[1] \in GroupFrame
            <4>1. closing' \in Seq(GroupFrame) /\ 1 \in 1 .. Len(closing')
                BY <2>3, <3>2
            <4> QED
                BY <4>1, ElementOfSeq
        <3> DEFINE one == << closing'[1] >>
        <3>4. one \in Seq(GroupFrame) /\ Len(one) = 1 /\ one[1] = closing'[1]
            BY <3>3
        <3> HIDE DEF one
        <3>5. closing' = one
            BY <2>3, <3>2, <3>4, SeqEqual
        <3> QED
            BY <3>3, <3>5 DEF one
    <2> DEFINE moved == closing'[1]
    <2>5. /\ moved.owner_id \in DOMAIN grown /\ moved.reserved = closing[1].reserved
          /\ moved.deferred = Tail(closing[1].deferred)
          /\ FullTable \/ moved.cached = closing[1].cached
        BY <1>2, <2>2, <2>3
    <2>6. Len(nodes) + 1 \in DOMAIN grown
        BY <2>2
    <2>7. \E nm \in Names : grown = Append(nodes, NewNodeRecord(NoKind, nm, TRUE, NoFields))
        BY <1>3
    <2>8. Attach(grown, moved, Len(nodes) + 1) /\ closing' = << moved >>
            /\ moved \in GroupFrame
        BY <1>6, <2>4
    <2> HIDE DEF grown, moved, fresh
    <2>9. Turn(grown, moved, Len(nodes) + 1)
        BY <1>6, <2>2, <2>5, <2>6, <2>7, <2>8 DEF Turn
    <2> QED
        BY <2>9
<1> QED
    BY <1>5, <1>6 DEF ResolveChild

-----------------------------------------------------------------------------
(* Reservations *)

\* The three things a step does to the room behind the open groups: nothing
\* but to close or hand over a group, a slot taken, a group opened.
GroupsKept ==
    /\ Len(nodes') = Len(nodes) /\ capacity' = capacity
    /\ Len(frames') \in Nat /\ Len(frames') <= Len(frames)
    /\ \A i \in DOMAIN frames' :
        /\ i \in DOMAIN frames
        /\ frames'[i].reserved = frames[i].reserved
        /\ frames'[i].cached = frames[i].cached
    /\ \A i \in DOMAIN closing' :
        \/ i \in DOMAIN closing /\ closing'[i].reserved = closing[i].reserved
        \/ \E j \in DOMAIN frames : closing'[i].reserved = frames[j].reserved
    /\ \A i \in DOMAIN closing \cap DOMAIN closing' :
        closing'[i].cached = closing[i].cached

SlotTaken ==
    /\ Len(nodes') = Len(nodes) + 1 /\ capacity' = GrownCapacity
    /\ DOMAIN frames' = DOMAIN frames
    /\ \A i \in DOMAIN frames :
        /\ frames'[i].reserved = frames[i].reserved
        /\ FullTable \/ frames'[i].cached = frames[i].cached
    /\ \A i \in DOMAIN closing' :
        /\ i \in DOMAIN closing /\ closing'[i].reserved = closing[i].reserved
        /\ FullTable \/ closing'[i].cached = closing[i].cached

GroupOpened(r) ==
    /\ r \in Nat /\ Len(nodes') = Len(nodes) /\ capacity' = reserve(r)
    /\ Len(frames') > Len(frames)
    /\ \A i \in DOMAIN frames' :
        \/ i \in DOMAIN frames /\ frames'[i].reserved = frames[i].reserved
        \/ frames'[i].reserved = r
    /\ closing' = closing

\* A step that leaves the table, its allocation and the groups alone.
LEMMA GroupsLeftAlone ==
    ASSUME TypeOK, Len(nodes') = Len(nodes),
           UNCHANGED << capacity, frames, closing >>
    PROVE  GroupsKept
<1>1. Len(frames) \in Nat
    BY LenProperties DEF TypeOK
<1> QED
    BY <1>1 DEF GroupsKept

\* AddChild queues a name in the innermost group and disturbs nothing else.
LEMMA QueueKeepsGroups ==
    ASSUME TypeOK, NEW name, AddChild(name)
    PROVE  GroupsKept
<1> DEFINE last == Len(frames)
           names == Append(frames[last].deferred, name)
           grown == [frames[last] EXCEPT !.deferred = names]
<1>1. /\ frames \in Seq(GroupFrame) /\ last \in Nat
      /\ DOMAIN frames = 1 .. last /\ last \in DOMAIN frames
      /\ frames[last] \in GroupFrame
    BY LenProperties, EmptySeq, ElementOfSeq DEF AddChild, TypeOK
<1>2. names \in Seq(Names)
    BY <1>1, AppendProperties DEF AddChild, GroupFrame
<1>3. frames' = [frames EXCEPT ![last] = grown]
    BY DEF AddChild
<1> HIDE DEF names
<1>4. grown \in GroupFrame /\ grown.reserved = frames[last].reserved
        /\ grown.cached = frames[last].cached
    BY <1>1, <1>2 DEF GroupFrame
<1> HIDE DEF grown
<1>5. /\ Len(frames') = Len(frames)
      /\ DOMAIN frames' = DOMAIN frames
      /\ \A i \in DOMAIN frames : frames'[i].reserved = frames[i].reserved
                                    /\ frames'[i].cached = frames[i].cached
    BY <1>1, <1>3, <1>4, ExceptSeq
<1>6. Len(nodes') = Len(nodes) /\ UNCHANGED << capacity, closing >>
    BY DEF AddChild
<1> QED
    BY <1>1, <1>5, <1>6 DEF GroupsKept

\* EndGroup hands the innermost group over to resolve_frame.
LEMMA EndKeepsGroups ==
    ASSUME TypeOK, EndGroup
    PROVE  GroupsKept
<1>1. /\ frames \in Seq(GroupFrame) /\ Len(frames) \in Nat \ {0}
      /\ DOMAIN frames = 1 .. Len(frames)
    BY LenProperties, EmptySeq DEF EndGroup, TypeOK
<1>2. \A i \in 1 .. Len(frames) - 1 : frames[i] \in GroupFrame
    BY <1>1, ElementOfSeq
<1>3. frames' = SubSeq(frames, 1, Len(frames) - 1)
    BY DEF EndGroup
<1>4. /\ frames' \in Seq(GroupFrame) /\ Len(frames') = Len(frames) - 1
      /\ \A i \in 1 .. Len(frames) - 1 : frames'[i] = frames[i]
    BY <1>1, <1>2, <1>3, SubSeqProperties
<1>5. DOMAIN frames' = 1 .. Len(frames) - 1
    BY <1>4, LenProperties
<1>6. /\ closing' = << frames[Len(frames)] >> /\ Len(frames) \in DOMAIN frames
      /\ UNCHANGED << nodes, capacity >>
    BY <1>1 DEF EndGroup
<1>7. \A i \in DOMAIN closing' : closing'[i] = frames[Len(frames)]
    BY <1>6
<1>8. \A i \in DOMAIN frames' : i \in DOMAIN frames /\ frames'[i] = frames[i]
    BY ONLY <1>1, <1>4, <1>5
<1>9. Len(frames') \in Nat /\ Len(frames') <= Len(frames)
    BY ONLY <1>1, <1>4
<1>10. DOMAIN closing = {}
    BY DEF EndGroup, Decoding, Running
<1> QED
    BY ONLY <1>6, <1>7, <1>8, <1>9, <1>10 DEF GroupsKept

\* BeginGroup reserves for a group of its own, after whatever moves the table.
LEMMA BeginOpensGroup ==
    ASSUME TypeOK, NEW name, NEW hint \in 0..MaxHint, BeginGroup(name, hint)
    PROVE  GroupsKept \/ \E r : GroupOpened(r)
<1> DEFINE owner == find_named(name)
           room  == Len(nodes) + hint
           frame == [ owner_id |-> owner, cached |-> TRUE,
                      reserved |-> room, deferred |-> << >> ]
<1>1. room \in Nat
    BY NodesFinite, LimitAssumption
<1>2. CASE End("bad_alloc")
    BY <1>2, GroupsLeftAlone DEF End, graph
<1>3. CASE /\ capacity' = reserve(room)
           /\ frames' = Append(AfterMove(room > capacity, frames), frame)
           /\ UNCHANGED << nodes, closing >>
    <2>1. owner \in Nat
        BY NodesFinite DEF find_named, TypeOK, kInvalidNode
    <2>2. frame \in GroupFrame /\ frame.reserved = room
        BY <1>1, <2>1, EmptySeq DEF GroupFrame
    <2>3. ASSUME NEW moved \in BOOLEAN
          PROVE  /\ AfterMove(moved, frames) \in Seq(GroupFrame)
                 /\ Len(AfterMove(moved, frames)) = Len(frames)
                 /\ \A i \in DOMAIN frames :
                        AfterMove(moved, frames)[i].reserved = frames[i].reserved
        BY StaleFrames DEF TypeOK
    <2>4. (room > capacity) \in BOOLEAN
        OBVIOUS
    <2> DEFINE kept == AfterMove(room > capacity, frames)
    <2>5. /\ kept \in Seq(GroupFrame) /\ Len(kept) = Len(frames)
          /\ \A i \in DOMAIN frames : kept[i].reserved = frames[i].reserved
        BY <2>3, <2>4, Zenon
    <2>6. frames' = Append(kept, frame)
        BY <1>3
    <2> HIDE DEF kept, frame, owner
    <2>7. /\ Len(frames') = Len(frames) + 1
          /\ DOMAIN frames' = 1 .. Len(frames) + 1
          /\ \A i \in 1 .. Len(frames) : frames'[i] = kept[i]
          /\ frames'[Len(frames) + 1] = frame
        BY <2>2, <2>5, <2>6, AppendProperties, LenProperties
    <2>8. Len(frames) \in Nat /\ DOMAIN frames = 1 .. Len(frames)
        BY LenProperties DEF TypeOK
    <2>9. \A i \in DOMAIN frames' :
            \/ i \in DOMAIN frames /\ frames'[i].reserved = frames[i].reserved
            \/ frames'[i].reserved = room
        BY <2>2, <2>5, <2>7, <2>8, SMTT(60)
    <2> HIDE DEF room
    <2>10. GroupOpened(room)
        BY <1>1, <1>3, <2>7, <2>8, <2>9 DEF GroupOpened
    <2> QED
        BY <2>10
<1> QED
    BY <1>2, <1>3 DEF BeginGroup

\* What a move leaves of the open groups when a slot is taken.
LEMMA MovedFrames ==
    ASSUME NEW fs \in Seq(GroupFrame)
    PROVE  /\ DOMAIN AfterMove(FullTable, fs) = DOMAIN fs
           /\ \A i \in DOMAIN fs :
                /\ AfterMove(FullTable, fs)[i].reserved = fs[i].reserved
                /\ FullTable \/ AfterMove(FullTable, fs)[i].cached = fs[i].cached
<1>1. FullTable \in BOOLEAN
    BY DEF FullTable
<1>2. ~ FullTable => AfterMove(FullTable, fs) = fs
    BY DEF AfterMove
<1> QED
    BY <1>1, <1>2, StaleFrames

\* NewNode takes a slot.
LEMMA NewNodeTakesSlot ==
    ASSUME TypeOK, NEW kind, NEW name, NewNode(kind, name)
    PROVE  SlotTaken
<1>1. NewNodeRecord(kind, name, FALSE, NoFields) \in NodeRecord
    BY FreshNodeTyped DEF NewNode, KindOperands
<1>2. Len(nodes') = Len(nodes) + 1
    BY <1>1, TableAppend DEF NewNode, TypeOK
<1>3. /\ capacity' = GrownCapacity /\ closing' = closing
      /\ frames' = AfterMove(FullTable, frames)
    BY DEF NewNode
<1> QED
    BY <1>2, <1>3, MovedFrames DEF SlotTaken, TypeOK

\* A turn of resolve_frame takes a slot when it materialises a name.
LEMMA TurnTakesAtMostOne ==
    ASSUME TypeOK, ResolveChild
    PROVE  GroupsKept \/ SlotTaken
<1> PICK t, frame, target : Turn(t, frame, target)
    BY ResolveIsATurn
<1>1. Len(nodes') = Len(t)
    BY AttachEffect DEF Turn, TypeOK
<1>2. 1 \in DOMAIN closing
    BY LenProperties, EmptySeq DEF ResolveChild, TypeOK
<1>3. /\ DOMAIN closing' = {1} /\ closing'[1].reserved = closing[1].reserved
      /\ FullTable \/ closing'[1].cached = closing[1].cached
    BY DEF Turn
<1>4. CASE /\ t = nodes /\ closing'[1].cached = closing[1].cached
           /\ UNCHANGED << capacity, frames >>
    <2>1. Len(frames) \in Nat
        BY LenProperties DEF TypeOK
    <2> QED
        BY <1>1, <1>2, <1>3, <1>4, <2>1 DEF GroupsKept
<1>5. ASSUME NEW name \in Names,
             t = Append(nodes, NewNodeRecord(NoKind, name, TRUE, NoFields)),
             capacity' = GrownCapacity, frames' = AfterMove(FullTable, frames)
      PROVE  SlotTaken
    <2>1. NewNodeRecord(NoKind, name, TRUE, NoFields) \in NodeRecord
        BY FreshNodeTyped DEF KindOperands
    <2>2. Len(nodes') = Len(nodes) + 1
        BY <1>1, <1>5, <2>1, TableAppend DEF TypeOK
    <2> QED
        BY <1>2, <1>3, <1>5, <2>2, MovedFrames DEF SlotTaken, TypeOK
<1> QED
    BY <1>4, <1>5 DEF Turn

\* Every step of the machine is one of the three.
LEMMA GroupStep ==
    TypeOK /\ [Next]_vars => GroupsKept \/ SlotTaken \/ \E r : GroupOpened(r)
<1> SUFFICES ASSUME TypeOK, StepCases
             PROVE  GroupsKept \/ SlotTaken \/ \E r : GroupOpened(r)
    BY StepIsACase
<1>1. CASE UNCHANGED vars
    BY <1>1, GroupsLeftAlone DEF vars
<1>2. CASE Rejection
    BY <1>2, GroupsLeftAlone DEF Rejection, End, graph
<1>3. ASSUME NEW kind, NEW name, NewNode(kind, name) PROVE SlotTaken
    BY <1>3, NewNodeTakesSlot
<1>4. ASSUME NEW n \in NodeOperands, DropNode(n) PROVE GroupsKept
    <2>1. Len(nodes') = Len(nodes)
        BY <1>4, StepTyped, TableLength, DropNodeTyped, DropEffect
        DEF SlotsKept, SlotDropped
    <2> QED
        BY <1>4, <2>1, GroupsLeftAlone DEF DropNode
<1>5. ASSUME NEW n \in NodeOperands, NEW f \in Fields,
             NEW v \in SUBSET NodeOperands, SetField(n, f, v)
      PROVE  GroupsKept
    <2>1. DOMAIN nodes' = DOMAIN nodes
        BY <1>5 DEF SetField
    <2>2. Len(nodes') = Len(nodes)
        BY <1>5, <2>1, SetFieldTyped, TableLength
    <2> QED
        BY <1>5, <2>2, GroupsLeftAlone DEF SetField
<1>6. ASSUME NEW src \in NodeOperands, NEW f \in Fields, NEW name,
             LinkRef(src, f, name)
      PROVE  GroupsKept
    <2>1. DOMAIN nodes' = DOMAIN nodes
        BY <1>6 DEF LinkRef
    <2>2. Len(nodes') = Len(nodes)
        BY <1>6, <2>1, LinkRefTyped, TableLength
    <2> QED
        BY <1>6, <2>2, GroupsLeftAlone DEF LinkRef
<1>7. ASSUME NEW name, NEW hint \in 0..MaxHint, BeginGroup(name, hint)
      PROVE  GroupsKept \/ \E r : GroupOpened(r)
    BY <1>7, BeginOpensGroup
<1>8. ASSUME NEW name, AddChild(name) PROVE GroupsKept
    BY <1>8, QueueKeepsGroups
<1>9. CASE EndGroup
    BY <1>9, EndKeepsGroups
<1>10. CASE ResolveChild
    BY <1>10, TurnTakesAtMostOne
<1>11. CASE CloseGroup
    <2>1. Len(frames) \in Nat
        BY LenProperties DEF TypeOK
    <2>2. DOMAIN closing' = {} /\ UNCHANGED << nodes, capacity, frames >>
        BY <1>11 DEF CloseGroup
    <2> QED
        BY <2>1, <2>2 DEF GroupsKept
<1>12. ASSUME NEW label, Snapshot(label) PROVE GroupsKept
    BY <1>12, GroupsLeftAlone DEF Snapshot
<1>13. ASSUME NEW key, NEW value, SetMeta(key, value) PROVE GroupsKept
    BY <1>13, GroupsLeftAlone DEF SetMeta
<1>14. CASE Nop
    BY <1>14, GroupsLeftAlone DEF Nop
<1> QED
    BY <1>1, <1>2, <1>3, <1>4, <1>5, <1>6, <1>7, <1>8, <1>9, <1>10, <1>11,
       <1>12, <1>13, <1>14 DEF StepCases

\* What an open or a closing group has reserved.
Claims(fs) == \A i \in DOMAIN fs : fs[i].reserved \in Nat

LEMMA ClaimsAreNaturals ==
    TypeOK => Claims(frames) /\ Claims(closing)
<1>1. \A fs \in Seq(GroupFrame) : Claims(fs)
    <2> SUFFICES ASSUME NEW fs \in Seq(GroupFrame), NEW i \in DOMAIN fs
                 PROVE  fs[i].reserved \in Nat
        BY DEF Claims
    <2>1. fs[i] \in GroupFrame
        BY LenProperties, ElementOfSeq
    <2> QED
        BY <2>1 DEF GroupFrame
<1> QED
    BY <1>1 DEF TypeOK

LEMMA ReservationInit == Init => ReservationHolds
<1> SUFFICES ASSUME Init PROVE ReservationHolds
    OBVIOUS
<1>1. capacity = Len(nodes) /\ DOMAIN frames = {} /\ DOMAIN closing = {}
    BY DEF Init, seed
<1> QED
    BY <1>1, HeapSlots DEF ReservationHolds

\* push_back doubles a full allocation, so it never falls behind the table and
\* never shrinks.
LEMMA GrownSuffices ==
    ASSUME TypeOK, Len(nodes) <= capacity
    PROVE  Len(nodes) + 1 <= GrownCapacity /\ capacity <= GrownCapacity
<1>1. Len(nodes) \in Nat /\ capacity \in Nat
    BY NodesFinite DEF TypeOK
<1>2. CASE FullTable
    <2>1. GrownCapacity = IF capacity = 0 THEN 1 ELSE 2 * capacity
        BY <1>2 DEF GrownCapacity
    <2> QED
        BY <1>1, <1>2, <2>1 DEF FullTable
<1>3. CASE ~ FullTable
    <2>1. GrownCapacity = capacity
        BY <1>3 DEF GrownCapacity
    <2> QED
        BY <1>1, <1>3, <2>1 DEF FullTable
<1> QED
    BY <1>2, <1>3

LEMMA ReservationStep ==
    TypeOK /\ ReservationHolds /\ [Next]_vars => ReservationHolds'
<1> SUFFICES ASSUME TypeOK, ReservationHolds,
                    GroupsKept \/ SlotTaken \/ \E r : GroupOpened(r)
             PROVE  ReservationHolds'
    BY GroupStep
<1>1. Len(nodes) \in Nat /\ capacity \in Nat
    BY NodesFinite DEF TypeOK
<1>2. /\ \A i \in DOMAIN frames : frames[i].reserved \in Nat
      /\ \A i \in DOMAIN closing : closing[i].reserved \in Nat
    BY ClaimsAreNaturals DEF Claims
<1>3. CASE GroupsKept
    BY <1>3 DEF GroupsKept, ReservationHolds
<1>4. CASE SlotTaken
    <2>1. Len(nodes') <= capacity' /\ capacity <= capacity' /\ capacity' \in Nat
        BY <1>1, <1>4, GrownSuffices DEF SlotTaken, ReservationHolds, GrownCapacity
    <2> QED
        BY <1>1, <1>2, <1>4, <2>1 DEF SlotTaken, ReservationHolds
<1>5. ASSUME NEW r, GroupOpened(r) PROVE ReservationHolds'
    <2>1. r \in Nat /\ capacity <= capacity' /\ r <= capacity' /\ capacity' \in Nat
        BY <1>1, <1>5 DEF GroupOpened, reserve
    <2> QED
        BY <1>1, <1>2, <1>5, <2>1, SMTT(60) DEF GroupOpened, ReservationHolds
<1> QED
    BY <1>3, <1>4, <1>5

\* The table never outgrows its allocation, and no step leaves an open or a
\* closing group with less room than do_begin_group reserved for it.
THEOREM ReservationCorrect == Spec => []ReservationHolds
BY InitTyped, StepTyped, ReservationInit, ReservationStep, PTL DEF Spec

\* A slot taken from a full table is one beyond every reservation.
LEMMA FullIsOutgrown ==
    ASSUME TypeOK, ReservationHolds, SlotTaken, FullTable, NEW r \in Nat, r <= capacity
    PROVE  Len(nodes') > r
<1>1. Len(nodes) = capacity /\ Len(nodes') = Len(nodes) + 1 /\ capacity \in Nat
    BY DEF SlotTaken, FullTable, TypeOK
<1> QED
    BY <1>1

\* A group that loses its pointer has outgrown its reservation or had a further
\* group opened.
LEMMA PointerLossStep ==
    ASSUME TypeOK, ReservationHolds, [Next]_vars
    PROVE  /\ \A i \in DOMAIN frames \cap DOMAIN frames' :
                frames[i].cached /\ ~ frames'[i].cached =>
                    \/ Len(nodes') > frames[i].reserved
                    \/ Len(frames') > Len(frames)
           /\ \A i \in DOMAIN closing \cap DOMAIN closing' :
                closing[i].cached /\ ~ closing'[i].cached =>
                    Len(nodes') > closing[i].reserved
<1>1. ASSUME NEW i \in DOMAIN frames, i \in DOMAIN frames',
             frames[i].cached, ~ frames'[i].cached
      PROVE  \/ Len(nodes') > frames[i].reserved
             \/ Len(frames') > Len(frames)
    <2>1. CASE GroupsKept
        BY <1>1, <2>1 DEF GroupsKept
    <2>2. CASE SlotTaken
        <3>1. FullTable
            BY <1>1, <2>2 DEF SlotTaken
        <3>2. frames[i].reserved \in Nat /\ frames[i].reserved <= capacity
            BY ClaimsAreNaturals DEF Claims, ReservationHolds
        <3> QED
            BY <2>2, <3>1, <3>2, FullIsOutgrown
    <2>3. ASSUME NEW r, GroupOpened(r) PROVE Len(frames') > Len(frames)
        BY <2>3 DEF GroupOpened
    <2> QED
        BY <2>1, <2>2, <2>3, GroupStep
<1>2. ASSUME NEW i \in DOMAIN closing, i \in DOMAIN closing',
             closing[i].cached, ~ closing'[i].cached
      PROVE  Len(nodes') > closing[i].reserved
    <2>1. ~ GroupsKept
        BY <1>2 DEF GroupsKept
    <2>2. CASE SlotTaken
        <3>1. FullTable
            BY <1>2, <2>2 DEF SlotTaken
        <3>2. closing[i].reserved \in Nat /\ closing[i].reserved <= capacity
            BY ClaimsAreNaturals DEF Claims, ReservationHolds
        <3> QED
            BY <2>2, <3>1, <3>2, FullIsOutgrown
    <2>3. \A r : ~ GroupOpened(r)
        BY <1>2 DEF GroupOpened
    <2> QED
        BY <2>1, <2>2, <2>3, GroupStep
<1> QED
    BY <1>1, <1>2

\* The owner pointer do_begin_group caches is given up only by a step that
\* outgrows what the group reserved, or by a group opened inside it; while
\* resolve_frame writes through it, by the former only.
THEOREM PointerLossCorrect == Spec => PointerLossExplained
<1>1. TypeOK /\ ReservationHolds /\ [Next]_vars =>
        [ /\ \A i \in DOMAIN frames \cap DOMAIN frames' :
                frames[i].cached /\ ~ frames'[i].cached =>
                    \/ Len(nodes') > frames[i].reserved
                    \/ Len(frames') > Len(frames)
          /\ \A i \in DOMAIN closing \cap DOMAIN closing' :
                closing[i].cached /\ ~ closing'[i].cached =>
                    Len(nodes') > closing[i].reserved ]_vars
    BY PointerLossStep
<1> QED
    BY <1>1, InitTyped, StepTyped, ReservationInit, ReservationStep, PTL
    DEF Spec, PointerLossExplained

-----------------------------------------------------------------------------
(* Links *)

\* The two halves of LinksClosed on a table t: refs stay inside it, and a child
\* is inside it and refers back to its parent.
RefsInside(t) == \A n \in DOMAIN t : t[n].refs \subseteq DOMAIN t
ChildrenRefer(t) ==
    \A n \in DOMAIN t : \A k \in DOMAIN t[n].children :
        t[n].children[k] \in DOMAIN t /\ n \in t[t[n].children[k]].refs
Closed(t) == RefsInside(t) /\ ChildrenRefer(t)

LEMMA LinksClosedMeansClosed == LinksClosed <=> (~ undefined => Closed(nodes))
BY DEF LinksClosed, Closed, RefsInside, ChildrenRefer, InRange

\* Refs may be added and childless slots appended: what was closed stays closed.
LEMMA ClosedKept ==
    ASSUME NEW t, NEW u, Closed(t), DOMAIN t \subseteq DOMAIN u,
           \A n \in DOMAIN t : /\ t[n].refs \subseteq u[n].refs
                               /\ u[n].children = t[n].children,
           \A n \in DOMAIN u : u[n].refs \subseteq DOMAIN u,
           \A n \in DOMAIN u \ DOMAIN t : u[n].children = << >>
    PROVE  Closed(u)
<1>1. ASSUME NEW n \in DOMAIN u, NEW k \in DOMAIN u[n].children
      PROVE  u[n].children[k] \in DOMAIN u /\ n \in u[u[n].children[k]].refs
    <2>1. n \in DOMAIN t
        BY <1>1
    <2>2. u[n].children[k] = t[n].children[k] /\ k \in DOMAIN t[n].children
        BY <1>1, <2>1
    <2>3. t[n].children[k] \in DOMAIN t /\ n \in t[t[n].children[k]].refs
        BY <2>1, <2>2 DEF Closed, ChildrenRefer
    <2> QED
        BY <2>2, <2>3
<1> QED
    BY <1>1 DEF Closed, RefsInside, ChildrenRefer

\* push_back on a list of children.
LEMMA IdsAppend ==
    ASSUME NEW ids \in Seq(Nat), NEW id \in Nat
    PROVE  /\ DOMAIN Append(ids, id) = DOMAIN ids \cup {Len(ids) + 1}
           /\ \A k \in DOMAIN ids : Append(ids, id)[k] = ids[k]
           /\ Append(ids, id)[Len(ids) + 1] = id
BY AppendProperties, LenProperties

\* Table t with `target' linked to `owner': the child first, then the reference
\* back (resolve_frame through a pointer that is good).
Linked(t, owner, target) ==
    LET withChild == [t EXCEPT ![owner] = WithChild(t[owner], target)]
    IN  [withChild EXCEPT ![target] = WithRef(withChild[target], owner)]

\* What the two ends of a link leave in the table.
LinkedAs(t, owner, target, v) ==
    /\ DOMAIN v = DOMAIN t
    /\ \A m \in DOMAIN t :
        /\ t[m].children \in Seq(Nat)
        /\ v[m].children = IF m = owner THEN Append(t[m].children, target)
                           ELSE t[m].children
        /\ v[m].refs = IF m = target THEN t[m].refs \cup {owner} ELSE t[m].refs

LEMMA BothEnds ==
    ASSUME NEW t \in Seq(NodeRecord), NEW owner \in DOMAIN t, NEW target \in DOMAIN t
    PROVE  LinkedAs(t, owner, target, Linked(t, owner, target))
<1> DEFINE u == [t EXCEPT ![owner] = WithChild(t[owner], target)]
           v == [u EXCEPT ![target] = WithRef(u[target], owner)]
<1>v. Linked(t, owner, target) = v
    BY DEF Linked
<1>1. /\ DOMAIN t \subseteq Nat /\ DOMAIN u = DOMAIN t /\ DOMAIN v = DOMAIN t
      /\ \A m \in DOMAIN t : t[m] \in NodeRecord
    BY LenProperties, ElementOfSeq
<1>2. ASSUME NEW m \in DOMAIN t
      PROVE  /\ t[m].children \in Seq(Nat)
             /\ u[m].refs = t[m].refs
             /\ m # owner => u[m].children = t[m].children
             /\ m = owner => u[m].children = Append(t[m].children, target)
    <2>1. t[m] \in NodeRecord
        BY <1>1
    <2>2. u[m] = IF m = owner THEN WithChild(t[m], target) ELSE t[m]
        OBVIOUS
    <2>3. /\ WithChild(t[m], target).refs = t[m].refs
          /\ WithChild(t[m], target).children = Append(t[m].children, target)
        BY <2>1 DEF WithChild, NodeRecord
    <2>4. t[m].children \in Seq(Nat)
        BY <2>1 DEF NodeRecord
    <2> QED
        BY <2>2, <2>3, <2>4, SMTT(60)
<1>3. \A m \in DOMAIN t : u[m] \in NodeRecord
    <2>1. WithChild(t[owner], target) \in NodeRecord
        BY <1>1, RecordUpdates
    <2> QED
        BY <1>1, <2>1
<1>4. ASSUME NEW m \in DOMAIN t
      PROVE  /\ v[m].children = u[m].children
             /\ m # target => v[m].refs = u[m].refs
             /\ m = target => v[m].refs = u[m].refs \cup {owner}
    <2>1. u[m] \in NodeRecord
        BY <1>3
    <2>2. v[m] = IF m = target THEN WithRef(u[m], owner) ELSE u[m]
        BY <1>1
    <2>3. /\ WithRef(u[m], owner).refs = u[m].refs \cup {owner}
          /\ WithRef(u[m], owner).children = u[m].children
        BY <2>1 DEF WithRef, NodeRecord
    <2> QED
        BY <2>2, <2>3
<1> HIDE DEF u, v
<1> QED
    BY <1>1, <1>2, <1>4, <1>v, ZenonT(60) DEF LinkedAs

\* resolve_frame writes both ends of a link.
LEMMA ClosedLinked ==
    ASSUME NEW t \in Seq(NodeRecord), Closed(t),
           NEW owner \in DOMAIN t, NEW target \in DOMAIN t
    PROVE  Closed(Linked(t, owner, target))
<1> DEFINE v == Linked(t, owner, target)
<1>0. LinkedAs(t, owner, target, v)
    BY BothEnds
<1> HIDE DEF v
<1>1. DOMAIN t \subseteq Nat
    BY LenProperties
<1>2. DOMAIN v = DOMAIN t
    BY <1>0 DEF LinkedAs
<1>3. ASSUME NEW m \in DOMAIN t
      PROVE  /\ t[m].children \in Seq(Nat)
             /\ m # owner => v[m].children = t[m].children
             /\ m = owner => v[m].children = Append(t[m].children, target)
    BY <1>0 DEF LinkedAs
<1>4. ASSUME NEW m \in DOMAIN t
      PROVE  /\ m # target => v[m].refs = t[m].refs
             /\ m = target => v[m].refs = t[m].refs \cup {owner}
    BY <1>0 DEF LinkedAs
<1>5. RefsInside(v)
    BY <1>2, <1>4 DEF Closed, RefsInside
<1>6. ASSUME NEW n \in DOMAIN t, NEW k \in DOMAIN v[n].children
      PROVE  v[n].children[k] \in DOMAIN t /\ n \in v[v[n].children[k]].refs
    <2>1. ASSUME k \in DOMAIN t[n].children, v[n].children[k] = t[n].children[k]
          PROVE  v[n].children[k] \in DOMAIN t /\ n \in v[v[n].children[k]].refs
        <3>1. t[n].children[k] \in DOMAIN t /\ n \in t[t[n].children[k]].refs
            BY <2>1 DEF Closed, ChildrenRefer
        <3> QED
            BY <1>4, <2>1, <3>1
    <2>2. CASE n # owner
        BY <1>3, <1>6, <2>1, <2>2
    <2>3. CASE n = owner
        <3> DEFINE old == t[n].children
        <3>1. old \in Seq(Nat) /\ target \in Nat
            BY <1>1, <1>3
        <3>2. v[n].children = Append(old, target)
            BY <1>3, <2>3
        <3>3. /\ DOMAIN Append(old, target) = DOMAIN old \cup {Len(old) + 1}
              /\ \A j \in DOMAIN old : Append(old, target)[j] = old[j]
              /\ Append(old, target)[Len(old) + 1] = target
            BY <3>1, IdsAppend
        <3>4. CASE k \in DOMAIN old
            BY <2>1, <3>2, <3>3, <3>4, SMTT(60)
        <3>5. CASE k = Len(old) + 1
            BY <1>4, <2>3, <3>2, <3>3, <3>5
        <3> QED
            BY <1>6, <3>2, <3>3, <3>4, <3>5
    <2> QED
        BY <2>2, <2>3
<1> QED
    BY <1>2, <1>5, <1>6 DEF Closed, ChildrenRefer, v

LEMMA LinksInit == Init => LinksClosed
<1> SUFFICES ASSUME Init PROVE LinksClosed
    OBVIOUS
<1>1. \A n \in DOMAIN nodes : nodes[n].refs = {} /\ nodes[n].children = << >>
    BY HeapSlots, HeapNodesFresh
<1>2. DOMAIN << >> = {}
    OBVIOUS
<1> QED
    BY <1>1, <1>2 DEF LinksClosed

\* Storing a field adds refs to nodes of the table and touches no child.
LEMMA StoreKeepsClosed ==
    ASSUME NEW t \in Seq(NodeRecord), Closed(t), NEW n \in DOMAIN t, NEW f, NEW v,
           NEW ts \in SUBSET DOMAIN t
    PROVE  Closed([t EXCEPT ![n] = WithField(t[n], f, v, ts)])
<1> DEFINE u == [t EXCEPT ![n] = WithField(t[n], f, v, ts)]
<1>1. t[n] \in NodeRecord
    BY LenProperties, ElementOfSeq
<1>2. /\ WithField(t[n], f, v, ts).refs = t[n].refs \cup ts
      /\ WithField(t[n], f, v, ts).children = t[n].children
    BY <1>1 DEF WithField, NodeRecord
<1>3. /\ DOMAIN u = DOMAIN t
      /\ \A m \in DOMAIN t : u[m] = IF m = n THEN WithField(t[n], f, v, ts) ELSE t[m]
    OBVIOUS
<1> HIDE DEF u
<1>4. \A m \in DOMAIN t : t[m].refs \subseteq u[m].refs /\ u[m].children = t[m].children
    BY <1>2, <1>3
<1>5. \A m \in DOMAIN t : u[m].refs \subseteq DOMAIN t
    BY <1>2, <1>3 DEF Closed, RefsInside
<1>6. Closed(u)
    BY <1>3, <1>4, <1>5, ClosedKept
<1> QED
    BY <1>6 DEF u

\* Appending a node without links keeps a table closed.
LEMMA AppendKeepsClosed ==
    ASSUME NEW t \in Seq(NodeRecord), Closed(t), NEW node \in NodeRecord,
           node.refs = {}, node.children = << >>
    PROVE  Closed(Append(t, node))
<1> DEFINE u == Append(t, node)
<1>1. /\ DOMAIN u = DOMAIN t \cup {Len(t) + 1}
      /\ \A n \in DOMAIN t : u[n] = t[n]
      /\ u[Len(t) + 1] = node
    BY TableAppend
<1> HIDE DEF u
<1>2. \A n \in DOMAIN u : u[n].refs \subseteq DOMAIN u
    BY <1>1 DEF Closed, RefsInside
<1>3. Closed(u)
    BY <1>1, <1>2, ClosedKept
<1> QED
    BY <1>3 DEF u

\* A turn of resolve_frame leaves the graph closed, or notes that a pointer into
\* a freed table was used.
LEMMA TurnKeepsClosed ==
    ASSUME TypeOK, Closed(nodes), ResolveChild, ~ undefined'
    PROVE  Closed(nodes')
<1> PICK t, frame, target : Turn(t, frame, target)
    BY ResolveIsATurn
<1>1. Closed(t)
    <2>1. ASSUME NEW name \in Names,
                 t = Append(nodes, NewNodeRecord(NoKind, name, TRUE, NoFields))
          PROVE  Closed(t)
        <3> DEFINE fresh == NewNodeRecord(NoKind, name, TRUE, NoFields)
        <3>1. fresh \in NodeRecord /\ fresh.refs = {} /\ fresh.children = << >>
            BY FreshNodeTyped DEF KindOperands, NewNodeRecord
        <3> HIDE DEF fresh
        <3>2. Closed(Append(nodes, fresh))
            BY <3>1, AppendKeepsClosed DEF TypeOK
        <3> QED
            BY <2>1, <3>2 DEF fresh
    <2> QED
        BY <2>1 DEF Turn
<1> DEFINE owner  == frame.owner_id
<1>2. nodes' = Linked(t, owner, target)
    BY DEF Turn, Attach, Linked
<1>3. t \in Seq(NodeRecord) /\ owner \in DOMAIN t /\ target \in DOMAIN t
    BY DEF Turn
<1> HIDE DEF owner
<1> QED
    BY <1>1, <1>2, <1>3, ClosedLinked

LEMMA UndefinedStays == TypeOK /\ undefined /\ [Next]_vars => undefined'
<1> SUFFICES ASSUME TypeOK, undefined, StepCases PROVE undefined'
    BY StepIsACase
<1>1. UNCHANGED undefined => undefined'
    OBVIOUS
<1>2. ASSUME ResolveChild PROVE undefined'
    <2> PICK t, frame, target : Turn(t, frame, target)
        BY <1>2, ResolveIsATurn
    <2> QED
        BY DEF Turn, Attach
<1> QED
    BY <1>1, <1>2 DEF StepCases, vars, Rejection, End, graph, NewNode, DropNode,
       SetField, LinkRef, BeginGroup, AddChild, EndGroup, CloseGroup, Snapshot,
       SetMeta, Nop

LEMMA LinksStep == TypeOK /\ LinksClosed /\ [Next]_vars => LinksClosed'
<1> SUFFICES ASSUME TypeOK, LinksClosed, [Next]_vars, ~ undefined'
             PROVE  Closed(nodes')
    BY DEF LinksClosed, Closed, RefsInside, ChildrenRefer, InRange
<1>1. Closed(nodes)
    BY UndefinedStays, LinksClosedMeansClosed
<1>2. ASSUME nodes' = nodes PROVE Closed(nodes')
    BY <1>1, <1>2
<1>3. CASE UNCHANGED vars
    BY <1>2, <1>3 DEF vars
<1>4. CASE Rejection
    BY <1>2, <1>4 DEF Rejection, End, graph
<1>5. ASSUME NEW kind, NEW name, NewNode(kind, name) PROVE Closed(nodes')
    <2> DEFINE fresh == NewNodeRecord(kind, name, FALSE, NoFields)
    <2>1. fresh \in NodeRecord /\ fresh.refs = {} /\ fresh.children = << >>
        BY <1>5, FreshNodeTyped DEF NewNode, KindOperands, NewNodeRecord
    <2>2. nodes' = Append(nodes, fresh)
        BY <1>5 DEF NewNode
    <2> HIDE DEF fresh
    <2> QED
        BY <1>1, <2>1, <2>2, AppendKeepsClosed DEF TypeOK
<1>6. ASSUME NEW n \in NodeOperands, DropNode(n) PROVE Closed(nodes')
    <2>1. CASE nodes' = [nodes EXCEPT ![n] = Dropped(nodes[n])]
        <3>1. n \in DOMAIN nodes /\ nodes[n] \in NodeRecord
            BY <1>6, NodesFinite DEF DropNode, InRange
        <3>2. /\ Dropped(nodes[n]).refs = nodes[n].refs
              /\ Dropped(nodes[n]).children = nodes[n].children
            BY <3>1 DEF Dropped, NodeRecord
        <3>3. /\ DOMAIN nodes' = DOMAIN nodes
              /\ \A m \in DOMAIN nodes : /\ nodes'[m].refs = nodes[m].refs
                                         /\ nodes'[m].children = nodes[m].children
            BY <2>1, <3>1, <3>2
        <3> QED
            BY <1>1, <3>3, ClosedKept DEF Closed, RefsInside
    <2> QED
        BY <1>2, <1>6, <2>1 DEF DropNode
<1>7. ASSUME NEW n \in NodeOperands, NEW f \in Fields,
             NEW v \in SUBSET NodeOperands, SetField(n, f, v)
      PROVE  Closed(nodes')
    <2>1. /\ n \in DOMAIN nodes /\ InTable(v) \in SUBSET DOMAIN nodes
          /\ nodes' = [nodes EXCEPT ![n] = WithField(nodes[n], f, v, InTable(v))]
        BY <1>7 DEF SetField, InRange, InTable
    <2> QED
        BY <1>1, <2>1, StoreKeepsClosed DEF TypeOK
<1>8. ASSUME NEW src \in NodeOperands, NEW f \in Fields, NEW name,
             LinkRef(src, f, name)
      PROVE  Closed(nodes')
    <2> DEFINE target == find_named(name)
    <2>1. CASE /\ target # kInvalidNode
               /\ nodes' = [nodes EXCEPT
                    ![src] = WithField(nodes[src], f, {target}, {target})]
        <3>1. {target} \in SUBSET DOMAIN nodes /\ src \in DOMAIN nodes
            BY <1>8, <2>1, NodesFinite
            DEF LinkRef, InRange, find_named, TypeOK, kInvalidNode
        <3> HIDE DEF target
        <3> QED
            BY <1>1, <2>1, <3>1, StoreKeepsClosed DEF TypeOK
    <2> QED
        BY <1>2, <1>8, <2>1 DEF LinkRef
<1>9. ASSUME NEW name, NEW hint \in 0..MaxHint, BeginGroup(name, hint)
      PROVE  Closed(nodes')
    BY <1>2, <1>9 DEF BeginGroup, End, graph
<1>10. ASSUME NEW name, AddChild(name) PROVE Closed(nodes')
    BY <1>2, <1>10 DEF AddChild
<1>11. CASE EndGroup
    BY <1>2, <1>11 DEF EndGroup
<1>12. CASE ResolveChild
    BY <1>1, <1>12, TurnKeepsClosed
<1>13. CASE CloseGroup
    BY <1>2, <1>13 DEF CloseGroup
<1>14. ASSUME NEW label, Snapshot(label) PROVE Closed(nodes')
    BY <1>2, <1>14 DEF Snapshot
<1>15. ASSUME NEW key, NEW value, SetMeta(key, value) PROVE Closed(nodes')
    BY <1>2, <1>15 DEF SetMeta
<1>16. CASE Nop
    BY <1>2, <1>16 DEF Nop
<1> QED
    BY <1>3, <1>4, <1>5, <1>6, <1>7, <1>8, <1>9, <1>10, <1>11, <1>12, <1>13,
       <1>14, <1>15, <1>16, StepIsACase DEF StepCases

\* Until a pointer into a freed table is used, every ref and every child is a
\* slot of the table and every child refers back to its parent: do_set_field
\* and do_link_ref filter their targets, resolve_frame writes both ends.
THEOREM LinksCorrect == Spec => []LinksClosed
BY InitTyped, StepTyped, LinksInit, LinksStep, PTL DEF Spec

-----------------------------------------------------------------------------
(* The children counted *)

\* With ChildrenAccounted, that there are finitely many places to count.
LinksCounted ==
    ~ undefined => /\ IsFiniteSet(ChildLinks(nodes))
                   /\ Cardinality(ChildLinks(nodes)) = stats.children_linked

LEMMA PlacesOfTable ==
    ASSUME NEW t, NEW n, NEW k
    PROVE  << n, k >> \in ChildLinks(t) <=> n \in DOMAIN t /\ k \in DOMAIN t[n].children
BY DEF ChildLinks

LEMMA PlacesArePairs ==
    ASSUME NEW t, NEW l \in ChildLinks(t)
    PROVE  l = << l[1], l[2] >>
BY DEF ChildLinks

\* Tables with the same places.
LEMMA PlacesEqual ==
    ASSUME NEW t, NEW u,
           \A n, k : << n, k >> \in ChildLinks(u) <=> << n, k >> \in ChildLinks(t)
    PROVE  ChildLinks(u) = ChildLinks(t)
<1>1. \A l \in ChildLinks(u) : l \in ChildLinks(t)
    BY PlacesArePairs
<1>2. \A l \in ChildLinks(t) : l \in ChildLinks(u)
    BY PlacesArePairs
<1> QED
    BY <1>1, <1>2

\* Childless slots may be appended: no place comes or goes.
LEMMA PlacesKept ==
    ASSUME NEW t, NEW u, DOMAIN t \subseteq DOMAIN u,
           \A n \in DOMAIN t : u[n].children = t[n].children,
           \A n \in DOMAIN u \ DOMAIN t : u[n].children = << >>
    PROVE  ChildLinks(u) = ChildLinks(t)
<1>1. ASSUME NEW n, NEW k
      PROVE  << n, k >> \in ChildLinks(u) <=> << n, k >> \in ChildLinks(t)
    <2>1. /\ << n, k >> \in ChildLinks(t) <=> n \in DOMAIN t /\ k \in DOMAIN t[n].children
          /\ << n, k >> \in ChildLinks(u) <=> n \in DOMAIN u /\ k \in DOMAIN u[n].children
        BY PlacesOfTable
    <2>2. DOMAIN << >> = {}
        OBVIOUS
    <2> QED
        BY <2>1, <2>2
<1> QED
    BY <1>1, PlacesEqual

\* A link adds the place behind its owner's last child.
LEMMA PlaceAdded ==
    ASSUME NEW t \in Seq(NodeRecord), NEW owner \in DOMAIN t, NEW target \in DOMAIN t,
           IsFiniteSet(ChildLinks(t))
    PROVE  /\ IsFiniteSet(ChildLinks(Linked(t, owner, target)))
           /\ Cardinality(ChildLinks(Linked(t, owner, target))) =
                    Cardinality(ChildLinks(t)) + 1
<1> DEFINE v    == Linked(t, owner, target)
           old  == t[owner].children
           here == << owner, Len(old) + 1 >>
<1>0. LinkedAs(t, owner, target, v)
    BY BothEnds
<1> HIDE DEF v
<1>1. DOMAIN v = DOMAIN t /\ old \in Seq(Nat) /\ target \in Nat
    <2>1. DOMAIN v = DOMAIN t /\ old \in Seq(Nat)
        BY <1>0 DEF LinkedAs
    <2>2. target \in Nat
        BY LenProperties
    <2> QED
        BY <2>1, <2>2
<1>2. \A m \in DOMAIN t : v[m].children = IF m = owner THEN Append(old, target)
                                           ELSE t[m].children
    BY <1>0 DEF LinkedAs
<1>h. here = << owner, Len(old) + 1 >> /\ old = t[owner].children
    OBVIOUS
<1> HIDE DEF old, here
<1>3. /\ DOMAIN Append(old, target) = DOMAIN old \cup {Len(old) + 1}
      /\ Len(old) + 1 \notin DOMAIN old
    BY <1>1, IdsAppend, LenProperties
<1>4. here \notin ChildLinks(t)
    BY <1>3, <1>h, PlacesOfTable
<1>5. ASSUME NEW n, NEW k
      PROVE  << n, k >> \in ChildLinks(v) <=>
                << n, k >> \in ChildLinks(t) \/ << n, k >> = here
    <2>1. /\ << n, k >> \in ChildLinks(t) <=> n \in DOMAIN t /\ k \in DOMAIN t[n].children
          /\ << n, k >> \in ChildLinks(v) <=> n \in DOMAIN v /\ k \in DOMAIN v[n].children
        BY PlacesOfTable
    <2>2. << n, k >> = here <=> n = owner /\ k = Len(old) + 1
        BY <1>h
    <2>3. CASE n = owner
        BY <1>1, <1>2, <1>3, <1>h, <2>1, <2>2, <2>3
    <2>4. CASE n # owner
        BY <1>1, <1>2, <2>1, <2>2, <2>4
    <2> QED
        BY <2>3, <2>4
<1>6. ChildLinks(v) = ChildLinks(t) \cup {here}
    <2>1. ASSUME NEW l \in ChildLinks(v) PROVE l \in ChildLinks(t) \cup {here}
        <3>1. l = << l[1], l[2] >>
            BY <2>1, PlacesArePairs
        <3> QED
            BY <1>5, <2>1, <3>1
    <2>2. ASSUME NEW l \in ChildLinks(t) PROVE l \in ChildLinks(v)
        <3>1. l = << l[1], l[2] >>
            BY <2>2, PlacesArePairs
        <3> QED
            BY <1>5, <2>2, <3>1
    <2>3. here \in ChildLinks(v)
        BY <1>5, <1>h
    <2> QED
        BY <2>1, <2>2, <2>3
<1> QED
    BY <1>4, <1>6, FS_AddElement DEF v

LEMMA ChildrenInit == Init => LinksCounted
<1> SUFFICES ASSUME Init PROVE LinksCounted
    OBVIOUS
<1>1. \A n \in DOMAIN nodes : nodes[n].children = << >>
    BY HeapSlots, HeapNodesFresh
<1>2. ChildLinks(nodes) = {}
    BY <1>1 DEF ChildLinks
<1>3. stats.children_linked = 0
    BY DEF Init, seed
<1> QED
    BY <1>2, <1>3, FS_EmptySet DEF LinksCounted

\* What a step does to the places and their counter.
PlacesSame ==
    /\ ChildLinks(nodes') = ChildLinks(nodes)
    /\ stats'.children_linked = stats.children_linked
PlaceTaken ==
    /\ IsFiniteSet(ChildLinks(nodes)) => IsFiniteSet(ChildLinks(nodes'))
            /\ Cardinality(ChildLinks(nodes')) = Cardinality(ChildLinks(nodes)) + 1
    /\ stats'.children_linked = stats.children_linked + 1

\* A turn of resolve_frame takes one place, or notes that a pointer into a freed
\* table was used.
LEMMA TurnTakesPlace ==
    ASSUME TypeOK, ResolveChild, ~ undefined'
    PROVE  PlaceTaken
<1>1. stats'.children_linked = stats.children_linked + 1
    <2>1. stats \in ReplayStats
        BY DEF TypeOK
    <2> QED
        BY <2>1 DEF ResolveChild, ReplayStats
<1> PICK t, frame, target : Turn(t, frame, target)
    BY ResolveIsATurn
<1>2. ChildLinks(t) = ChildLinks(nodes)
    <2>1. ASSUME NEW name \in Names,
                 t = Append(nodes, NewNodeRecord(NoKind, name, TRUE, NoFields))
          PROVE  ChildLinks(t) = ChildLinks(nodes)
        <3> DEFINE fresh == NewNodeRecord(NoKind, name, TRUE, NoFields)
        <3>1. fresh \in NodeRecord /\ fresh.children = << >>
            BY FreshNodeTyped DEF KindOperands, NewNodeRecord
        <3>2. t = Append(nodes, fresh)
            BY <2>1
        <3> HIDE DEF fresh
        <3>3. /\ DOMAIN t = DOMAIN nodes \cup {Len(nodes) + 1}
              /\ \A n \in DOMAIN nodes : t[n] = nodes[n]
              /\ t[Len(nodes) + 1] = fresh
            BY <3>1, <3>2, TableAppend DEF TypeOK
        <3> QED
            BY <3>1, <3>3, PlacesKept
    <2> QED
        BY <2>1 DEF Turn
<1> DEFINE owner  == frame.owner_id
<1>3. nodes' = Linked(t, owner, target)
    BY DEF Turn, Attach, Linked
<1>4. t \in Seq(NodeRecord) /\ owner \in DOMAIN t /\ target \in DOMAIN t
    BY DEF Turn
<1> HIDE DEF owner
<1>5. IsFiniteSet(ChildLinks(t)) =>
            /\ IsFiniteSet(ChildLinks(nodes'))
            /\ Cardinality(ChildLinks(nodes')) = Cardinality(ChildLinks(t)) + 1
    BY <1>3, <1>4, PlaceAdded
<1> QED
    BY <1>1, <1>2, <1>5 DEF PlaceTaken

\* A field of node n is stored, with the refs it brings.
NodeWrite(n, f, v, ts) ==
    /\ InRange(n)
    /\ nodes' = [nodes EXCEPT ![n] = WithField(nodes[n], f, v, ts)]
    /\ stats'.children_linked = stats.children_linked

\* Every other step leaves the places and their counter alone.
LEMMA PlacesStep ==
    ASSUME TypeOK, [Next]_vars, ~ undefined'
    PROVE  PlacesSame \/ PlaceTaken
<1>1. ASSUME nodes' = nodes, stats'.children_linked = stats.children_linked
      PROVE  PlacesSame
    BY <1>1 DEF PlacesSame
<1>2. ASSUME NEW n \in DOMAIN nodes, NEW node,
             node.children = nodes[n].children,
             nodes' = [nodes EXCEPT ![n] = node],
             stats'.children_linked = stats.children_linked
      PROVE  PlacesSame
    <2>1. /\ DOMAIN nodes' = DOMAIN nodes
          /\ \A m \in DOMAIN nodes : nodes'[m].children = nodes[m].children
        BY <1>2
    <2>2. ChildLinks(nodes') = ChildLinks(nodes)
        BY <2>1, PlacesKept
    <2> QED
        BY <1>2, <2>2 DEF PlacesSame
<1>3. /\ Executed.children_linked = stats.children_linked
      /\ stats \in ReplayStats
    BY DEF TypeOK, Executed, ReplayStats
<1>4. CASE UNCHANGED vars
    BY <1>1, <1>4 DEF vars
<1>5. CASE Rejection
    BY <1>1, <1>5 DEF Rejection, End, graph
<1>6. ASSUME NEW kind, NEW name, NewNode(kind, name) PROVE PlacesSame
    <2> DEFINE fresh == NewNodeRecord(kind, name, FALSE, NoFields)
    <2>1. fresh \in NodeRecord /\ fresh.children = << >>
        BY <1>6, FreshNodeTyped DEF NewNode, KindOperands, NewNodeRecord
    <2>2. nodes' = Append(nodes, fresh)
        BY <1>6 DEF NewNode
    <2> HIDE DEF fresh
    <2>3. /\ DOMAIN nodes' = DOMAIN nodes \cup {Len(nodes) + 1}
          /\ \A n \in DOMAIN nodes : nodes'[n] = nodes[n]
          /\ nodes'[Len(nodes) + 1] = fresh
        BY <2>1, <2>2, TableAppend DEF TypeOK
    <2>4. ChildLinks(nodes') = ChildLinks(nodes)
        BY <2>1, <2>3, PlacesKept
    <2>5. stats'.children_linked = stats.children_linked
        BY <1>3, <1>6 DEF NewNode, Executed, ReplayStats
    <2> QED
        BY <2>4, <2>5 DEF PlacesSame
<1>7. ASSUME NEW n \in NodeOperands, DropNode(n) PROVE PlacesSame
    <2>1. n \in DOMAIN nodes /\ nodes[n] \in NodeRecord
        BY <1>7, NodesFinite DEF DropNode, InRange
    <2>2. Dropped(nodes[n]).children = nodes[n].children
        BY <2>1 DEF Dropped, NodeRecord
    <2>3. stats'.children_linked = stats.children_linked
        BY <1>3, <1>7 DEF DropNode, Executed, ReplayStats
    <2> QED
        BY <1>1, <1>2, <1>7, <2>1, <2>2, <2>3 DEF DropNode
<1>8. ASSUME NEW n \in NodeOperands, NEW f \in Fields, NEW v, NEW ts,
             NodeWrite(n, f, v, ts)
      PROVE  PlacesSame
    <2>1. n \in DOMAIN nodes /\ nodes[n] \in NodeRecord
        BY <1>8, NodesFinite DEF NodeWrite, InRange
    <2>2. WithField(nodes[n], f, v, ts).children = nodes[n].children
        BY <2>1 DEF WithField, NodeRecord
    <2> QED
        BY <1>2, <1>8, <2>1, <2>2 DEF NodeWrite
<1>9. ASSUME NEW n \in NodeOperands, NEW f \in Fields,
             NEW v \in SUBSET NodeOperands, SetField(n, f, v)
      PROVE  PlacesSame
    <2>1. stats'.children_linked = stats.children_linked
        BY <1>3, <1>9 DEF SetField, Executed, ReplayStats
    <2>2. NodeWrite(n, f, v, InTable(v))
        BY <1>9, <2>1 DEF SetField, NodeWrite
    <2> QED
        BY <1>8, <2>2
<1>10. ASSUME NEW src \in NodeOperands, NEW f \in Fields, NEW name,
              LinkRef(src, f, name)
       PROVE  PlacesSame
    <2> DEFINE target == find_named(name)
    <2>1. stats'.children_linked = stats.children_linked
        BY <1>3, <1>10 DEF LinkRef, Executed, ReplayStats
    <2>2. CASE nodes' = [nodes EXCEPT
                ![src] = WithField(nodes[src], f, {target}, {target})]
        <3>1. NodeWrite(src, f, {target}, {target})
            BY <1>10, <2>1, <2>2 DEF LinkRef, NodeWrite
        <3> QED
            BY <1>8, <3>1
    <2> QED
        BY <1>1, <1>10, <2>1, <2>2 DEF LinkRef
<1>11. ASSUME NEW name, NEW hint \in 0..MaxHint, BeginGroup(name, hint)
       PROVE  PlacesSame
    BY <1>1, <1>3, <1>11 DEF BeginGroup, End, graph
<1>12. ASSUME NEW name, AddChild(name) PROVE PlacesSame
    BY <1>1, <1>3, <1>12 DEF AddChild
<1>13. CASE EndGroup
    BY <1>1, <1>13 DEF EndGroup
<1>14. CASE ResolveChild
    BY <1>14, TurnTakesPlace
<1>15. CASE CloseGroup
    BY <1>1, <1>3, <1>15 DEF CloseGroup
<1>16. ASSUME NEW label, Snapshot(label) PROVE PlacesSame
    BY <1>1, <1>3, <1>16 DEF Snapshot
<1>17. ASSUME NEW key, NEW value, SetMeta(key, value) PROVE PlacesSame
    BY <1>1, <1>3, <1>17 DEF SetMeta
<1>18. CASE Nop
    BY <1>1, <1>3, <1>18 DEF Nop
<1> QED
    BY <1>4, <1>5, <1>6, <1>7, <1>9, <1>10, <1>11, <1>12, <1>13, <1>14, <1>15,
       <1>16, <1>17, <1>18, StepIsACase DEF StepCases

LEMMA ChildrenStep == TypeOK /\ LinksCounted /\ [Next]_vars => LinksCounted'
<1> SUFFICES ASSUME TypeOK, LinksCounted, [Next]_vars, ~ undefined'
             PROVE  /\ IsFiniteSet(ChildLinks(nodes'))
                    /\ Cardinality(ChildLinks(nodes')) = stats'.children_linked
    BY DEF LinksCounted
<1>1. /\ IsFiniteSet(ChildLinks(nodes))
      /\ Cardinality(ChildLinks(nodes)) = stats.children_linked
    BY UndefinedStays DEF LinksCounted
<1> QED
    BY <1>1, PlacesStep DEF PlacesSame, PlaceTaken

\* The counter of linked children is the number of places in all the lists of
\* children, until a pointer into a freed table is used: resolve_frame counts
\* what it links, and nothing else adds to a list or takes from one.
THEOREM ChildrenCounted == Spec => []ChildrenAccounted
<1>1. LinksCounted => ChildrenAccounted
    BY DEF LinksCounted, ChildrenAccounted
<1> QED
    BY <1>1, InitTyped, StepTyped, ChildrenInit, ChildrenStep, PTL DEF Spec

-----------------------------------------------------------------------------
(* The end of the run *)

\* run() answers ok only when no group is open and none is being resolved.
OkMeansClosed == status = "ok" => frames = << >> /\ closing = << >>

\* Every operation is executed by a machine that runs, and of all returns only
\* the one at the end of the journal is ok.
LEMMA OnlyFinishIsOk ==
    ASSUME TypeOK, Run
    PROVE  status = "running" /\ (status' = "ok" => Finish)
<1>1. CASE NodeOp
    BY <1>1 DEF NodeOp, NewNode, RejectNewNode, DropNode, RejectDropNode,
                Decoding, Running, End
<1>2. CASE FieldOp
    BY <1>2, ZenonT(60) DEF FieldOp, SetField, RejectSetField, LinkRef, RejectLinkRef,
                Decoding, Running, End
<1>3. CASE GroupOp
    <2>1. ASSUME NEW name, NEW hint, BeginGroup(name, hint)
          PROVE  status = "running" /\ status' # "ok"
        BY <2>1 DEF BeginGroup, Decoding, Running, End
    <2>2. ASSUME NEW name, RejectBeginGroup(name) \/ AddChild(name) \/ RejectAddChild(name)
          PROVE  status = "running" /\ status' # "ok"
        BY <2>2 DEF RejectBeginGroup, AddChild, RejectAddChild, Decoding, Running, End
    <2>3. ASSUME EndGroup \/ RejectEndGroup \/ CloseGroup
          PROVE  status = "running" /\ status' # "ok"
        BY <2>3, SMTT(60) DEF EndGroup, RejectEndGroup, CloseGroup, Decoding, Running, End
    <2>4. ASSUME ResolveChild PROVE status = "running" /\ status' # "ok"
        <3> PICK t, frame, target : Turn(t, frame, target)
            BY <2>4, ResolveIsATurn
        <3> QED
            BY <2>4 DEF Turn, Attach, ResolveChild
    <2> QED
        BY <1>3, <2>1, <2>2, <2>3, <2>4 DEF GroupOp
<1>4. CASE MarkerOp
    BY <1>4 DEF MarkerOp, Snapshot, RejectSnapshot, SetMeta, RejectSetMeta, Nop,
                Decoding, Running, End
<1>5. ASSUME NEW code \in DecodeErrors, RejectBytes(code)
      PROVE  status = "running" /\ status' # "ok"
    BY <1>5 DEF RejectBytes, DecodeErrors, Running, End
<1>6. CASE Finish
    BY <1>6 DEF Finish, Running
<1> QED
    BY <1>1, <1>2, <1>3, <1>4, <1>5, <1>6 DEF Run

LEMMA OkInit == Init => OkMeansClosed
BY DEF Init, OkMeansClosed

LEMMA OkStep == TypeOK /\ OkMeansClosed /\ [Next]_vars => OkMeansClosed'
<1> SUFFICES ASSUME TypeOK, OkMeansClosed, [Next]_vars PROVE OkMeansClosed'
    OBVIOUS
<1>1. CASE UNCHANGED vars
    BY <1>1 DEF vars, OkMeansClosed
<1>2. CASE Returned
    BY <1>2 DEF Returned, vars, OkMeansClosed
<1>3. CASE Run
    <2>1. status' = "ok" => Finish
        BY <1>3, OnlyFinishIsOk
    <2>2. Finish /\ status' = "ok" => frames' = << >> /\ closing' = << >>
        BY DEF Finish, End, graph, Running
    <2> QED
        BY <2>1, <2>2 DEF OkMeansClosed
<1> QED
    BY <1>1, <1>2, <1>3 DEF Next
=============================================================================
