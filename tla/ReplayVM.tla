------------------------------ MODULE ReplayVM ------------------------------
(***************************************************************************)
(* The replay machine of src/src/replay_vm.cpp: seeded with the decoded    *)
(* heap, it executes the journal opcode by opcode and rebuilds the object  *)
(* graph.  One action per opcode handler, plus one Reject action per       *)
(* handler for its error returns, which end the run without a change.      *)
(*                                                                         *)
(* Node ids are one-based here: id n is the id n - 1 of the code, so that  *)
(* an id is the index of its node in the sequence `nodes', and 0 is        *)
(* kInvalidNode.  A field value is the set of node ids it holds: empty for *)
(* a scalar, a singleton for a Ref, any set for a List.                    *)
(*                                                                         *)
(* An operator <name>_slip_<what> is <name> with a slip of the programmer  *)
(* in it.  No specification uses it: put in the place of <name>, it breaks *)
(* the property that README.md lists for it.                               *)
(***************************************************************************)
EXTENDS Integers, Sequences, FiniteSets

CONSTANTS
    Atoms,          \* ids the atom pool holds
    NoAtom,         \* kInvalidAtom: anonymous
    StrayAtom,      \* any other id, past the end of the pool
    Kinds,          \* kinds the schema declares
    NoKind,         \* kInvalidKind, and any kind past the end of the schema
    Fields,         \* field indices, declared or not
    FieldType,      \* FieldType[k][f]: the type kind k declares for field f
    MaxNodes,       \* limits.max_nodes
    MaxGroupDepth,  \* limits.max_group_depth
    MaxListLen,     \* limits.max_list_len
    MaxJournalOps,  \* limits.max_journal_ops, which bounds every run
    MaxReserve,     \* slots an allocation can hold: reserve() beyond throws
    MaxHeapNodes,   \* bound: nodes in the seeding heap
    MaxHint,        \* bound: reserve hints a BEGIN_GROUP carries
    OpCodes         \* bound: opcodes the journals under study hold

ValueTypes == {"Scalar", "Ref", "List", "Invalid"}

ASSUME AtomAssumption ==
    /\ NoAtom \notin Atoms
    /\ StrayAtom \notin Atoms
    /\ StrayAtom # NoAtom

ASSUME SchemaAssumption ==
    /\ NoKind \notin Kinds
    /\ FieldType \in [Kinds -> [Fields -> ValueTypes]]

ASSUME LimitAssumption ==
    /\ MaxNodes \in Nat /\ MaxGroupDepth \in Nat /\ MaxListLen \in Nat
    /\ MaxJournalOps \in Nat /\ MaxReserve \in Nat
    /\ MaxHeapNodes \in 0..MaxNodes /\ MaxHint \in Nat

VARIABLES
    nodes,       \* nodes_: the node table
    capacity,    \* nodes_.capacity(): slots of the current allocation
    name_index,  \* name_index_ as find_named sees it: 0 where a name is unbound
    frames,      \* frames_: open groups, innermost last
    closing,     \* do_end_group's local frame: <<f>> while f is resolved
    free_list,   \* free_list_
    snapshots,   \* snapshots_
    meta,        \* meta_
    stats,       \* stats_ (stats_.snapshots is Len(snapshots))
    status,      \* "running", or how run() ended
    undefined    \* a pointer into a freed allocation has been used

vars == << nodes, capacity, name_index, frames, closing, free_list,
           snapshots, meta, stats, status, undefined >>

-----------------------------------------------------------------------------
(* Data *)

kInvalidNode == 0
Names == Atoms \cup {NoAtom}
AtomOperands == Atoms \cup {NoAtom, StrayAtom}
KindOperands == Kinds \cup {NoKind}
NodeOperands == 0 .. (Len(nodes) + 1)
InRange(n) == n \in DOMAIN nodes
Live(n) == n # kInvalidNode /\ nodes[n].alive

field_type(kind, f) ==
    IF kind \in Kinds THEN FieldType[kind][f] ELSE "Invalid"

\* Ids that make a value of type vt.  A list past MaxListLen never decodes.
IsValue(vt, v) ==
    \/ vt = "Scalar" /\ v = {}
    \/ vt = "Ref" /\ \E t \in v : v = {t}
    \/ vt = "List" /\ Cardinality(v) <= MaxListLen
ValuesOf(vt, T) == {v \in SUBSET T : IsValue(vt, v)}

\* unordered_map<FieldId, Value> and <AtomId, AtomId>: a key holds the set of
\* its values, which is empty (find() == end()) or a singleton.
NoFields == [f \in Fields |-> {}]

NewNodeRecord_slip_unflagged(kind, name, placeholder, fields) ==
    [ kind |-> kind, name |-> name, alive |-> TRUE,
      placeholder |-> FALSE, generation |-> 0,
      fields |-> fields, children |-> << >>, refs |-> {} ]

NewNodeRecord(kind, name, placeholder, fields) ==
    [ kind |-> kind, name |-> name, alive |-> TRUE,
      placeholder |-> placeholder, generation |-> 0,
      fields |-> fields, children |-> << >>, refs |-> {} ]

\* What handlers do to one node: Node::set_field together with the refs it
\* brings, the two marks of a drop, the two ends of a parent-child link.
Dropped_slip_unlinks(node) ==
    [node EXCEPT !.alive = FALSE, !.generation = @ + 1, !.refs = {}]
Dropped_slip_same_generation(node) == [node EXCEPT !.alive = FALSE]
WithChild_slip_once(node, child) ==
    IF \E k \in DOMAIN node.children : node.children[k] = child
    THEN node ELSE [node EXCEPT !.children = Append(@, child)]
WithRef_slip_one_way(node, id) == node

WithField(node, f, v, targets) ==
    [node EXCEPT !.fields[f] = {v}, !.refs = @ \cup targets]
Dropped(node) == [node EXCEPT !.alive = FALSE, !.generation = @ + 1]
WithChild(node, child) == [node EXCEPT !.children = Append(@, child)]
WithRef(node, id) == [node EXCEPT !.refs = @ \cup {id}]

\* The targets of a stored value that become refs.
InTable(v) == v \cap DOMAIN nodes

find_named(name) == IF name \in Atoms THEN name_index[name] ELSE kInvalidNode

\* register_name: the latest definition of a name takes it over.
register_name_slip_first(name, id) ==
    [a \in Atoms |-> IF a = name /\ name_index[a] = kInvalidNode
                     THEN id ELSE name_index[a]]
register_name_slip_past(name, id) ==
    [a \in Atoms |-> IF a = name THEN id + 1 ELSE name_index[a]]
register_name(name, id) ==
    [a \in Atoms |-> IF a = name THEN id ELSE name_index[a]]

-----------------------------------------------------------------------------
(* std::vector storage *)

\* push_back on a full vector moves every node to an allocation twice as large.
FullTable == Len(nodes) = capacity
GrownCapacity == IF ~ FullTable THEN capacity
                 ELSE IF capacity = 0 THEN 1 ELSE 2 * capacity

\* reserve(n): at least n slots, and never fewer than there are.
reserve_slip_exact(n) == n
reserve_slip_skipped(n) == capacity
reserve(n) == IF n > capacity THEN n ELSE capacity

\* Owner pointers cached by open groups do not survive a move.
Stale(fs) == [i \in DOMAIN fs |-> [fs[i] EXCEPT !.cached = FALSE]]
AfterMove(moved, fs) == IF moved THEN Stale(fs) ELSE fs

-----------------------------------------------------------------------------
(* Seeding: decode_heap accepts positional ids, declared kinds, pool names *)
(* and declared fields.  It leaves every `refs' list empty.                *)

HeapFields(kind) ==
    LET Values(f) == ValuesOf(field_type(kind, f), 0 .. (MaxHeapNodes + 1))
        Stored(f) == {{}} \cup {{v} : v \in Values(f)}
    IN  { fs \in [Fields -> UNION {Stored(f) : f \in Fields}] :
            \A f \in Fields : fs[f] \in Stored(f) }

HeapNodesOf(kind) ==
    { NewNodeRecord(kind, nf[1], FALSE, nf[2]) : nf \in Names \X HeapFields(kind) }
HeapNodes == UNION {HeapNodesOf(kind) : kind \in Kinds}

HeapImages == UNION {[1..n -> HeapNodes] : n \in 0..MaxHeapNodes}

\* Indexing the heap in order leaves a name on the last node that has it.
SeededIndex(heap, index) ==
    \A a \in Atoms :
        LET named == {i \in DOMAIN heap : heap[i].name = a}
        IN  \/ index[a] = kInvalidNode /\ named = {}
            \/ index[a] \in named /\ \A i \in named : i <= index[a]

seed(heap) ==
    /\ nodes = heap
    /\ capacity = Len(heap)
    /\ name_index \in [Atoms -> 0 .. Len(heap)]
    /\ SeededIndex(heap, name_index)
    /\ stats = [ ops_executed |-> 0, nodes_created |-> Len(heap),
                 placeholders |-> 0, nodes_dropped |-> 0,
                 children_linked |-> 0, unresolved_refs |-> 0 ]

Init ==
    /\ \E heap \in HeapImages : seed(heap)
    /\ frames = << >>
    /\ closing = << >>
    /\ free_list = << >>
    /\ snapshots = << >>
    /\ meta = [a \in Atoms |-> {}]
    /\ status = "running"
    /\ undefined = FALSE

-----------------------------------------------------------------------------
(* The dispatch loop of run() *)

Running == status = "running" /\ closing = << >>
Decoding(op) ==
    /\ Running
    /\ op \in OpCodes
    /\ stats.ops_executed < MaxJournalOps

Executed == [stats EXCEPT !.ops_executed = @ + 1]

graph == << nodes, capacity, name_index, frames, closing, free_list,
            snapshots, meta, stats, undefined >>
End(code) == status' = code /\ UNCHANGED graph

\* An op count past the limit, a journal that ends inside an operand, an
\* operand that is no u32, a byte that is no opcode: run() returns at once.
RejectBytes(code) ==
    /\ Running
    /\ \/ code = "LimitExceeded" /\ stats.ops_executed = 0
       \/ code = "BadOpcode" /\ stats.ops_executed < MaxJournalOps
       \/ code \in {"Truncated", "BadValue"}
    /\ End(code)

Finish_slip_open_groups == Running /\ End("ok")
Finish ==
    /\ Running
    /\ \/ frames = << >> /\ End("ok")
       \/ frames # << >> /\ End("GroupUnderflow")

Nop ==
    /\ Decoding("NOP")
    /\ stats' = Executed
    /\ UNCHANGED << nodes, capacity, name_index, frames, closing, free_list,
                    snapshots, meta, status, undefined >>

-----------------------------------------------------------------------------
(* Nodes and fields *)

HasRoom_slip_one_more == Len(nodes) <= MaxNodes
HasRoom == Len(nodes) < MaxNodes

NewNode(kind, name) ==
    /\ Decoding("NEW_NODE")
    /\ kind \in Kinds
    /\ name \in Names
    /\ HasRoom
    /\ nodes' = Append(nodes, NewNodeRecord(kind, name, FALSE, NoFields))
    /\ capacity' = GrownCapacity
    /\ frames' = AfterMove(FullTable, frames)
    /\ name_index' = register_name(name, Len(nodes) + 1)
    /\ stats' = [Executed EXCEPT !.nodes_created = @ + 1]
    /\ UNCHANGED << closing, free_list, snapshots, meta, status, undefined >>

RejectNewNode(kind, name) ==
    /\ Decoding("NEW_NODE")
    /\ \/ kind \notin Kinds /\ End("KindOutOfRange")
       \/ kind \in Kinds /\ name \notin Names /\ End("AtomOutOfRange")
       \/ /\ kind \in Kinds /\ name \in Names /\ ~ HasRoom
          /\ End("LimitExceeded")

\* The targets of v that exist become refs; the others are only counted.
SetField(n, f, v) ==
    /\ Decoding("SET_FIELD")
    /\ InRange(n)
    /\ field_type(nodes[n].kind, f) # "Invalid"
    /\ IsValue(field_type(nodes[n].kind, f), v)
    /\ nodes[n].alive
    /\ nodes' = [nodes EXCEPT ![n] = WithField(@, f, v, InTable(v))]
    /\ stats' = [Executed EXCEPT
                    !.unresolved_refs = @ + Cardinality(v \ InTable(v))]
    /\ UNCHANGED << capacity, name_index, frames, closing, free_list,
                    snapshots, meta, status, undefined >>

RejectSetField(n, f) ==
    /\ Decoding("SET_FIELD")
    /\ \/ ~ InRange(n) /\ End("NodeOutOfRange")
       \/ /\ InRange(n) /\ field_type(nodes[n].kind, f) = "Invalid"
          /\ End("FieldOutOfRange")
       \/ /\ InRange(n) /\ field_type(nodes[n].kind, f) = "List"
          /\ End("LimitExceeded")
       \/ /\ InRange(n) /\ field_type(nodes[n].kind, f) # "Invalid"
          /\ ~ nodes[n].alive
          /\ End("InvariantViolation")

\* A target that is not bound is counted and forgotten.  Nothing asks whether
\* the source is alive.
LinkRef(src, f, name) ==
    /\ Decoding("LINK_REF")
    /\ InRange(src)
    /\ field_type(nodes[src].kind, f) = "Ref"
    /\ LET target == find_named(name) IN
       \/ /\ target = kInvalidNode
          /\ stats' = [Executed EXCEPT !.unresolved_refs = @ + 1]
          /\ UNCHANGED nodes
       \/ /\ target # kInvalidNode
          /\ nodes' = [nodes EXCEPT ![src] = WithField(@, f, {target}, {target})]
          /\ stats' = Executed
    /\ UNCHANGED << capacity, name_index, frames, closing, free_list,
                    snapshots, meta, status, undefined >>

RejectLinkRef(src, f) ==
    /\ Decoding("LINK_REF")
    /\ \/ ~ InRange(src) /\ End("NodeOutOfRange")
       \/ /\ InRange(src) /\ field_type(nodes[src].kind, f) # "Ref"
          /\ End("TypeMismatch")

\* A name is unbound only if this very node still holds it.
DropNode(n) ==
    /\ Decoding("DROP_NODE")
    /\ InRange(n)
    /\ \/ /\ ~ nodes[n].alive
          /\ stats' = Executed
          /\ UNCHANGED << nodes, name_index, free_list >>
       \/ /\ nodes[n].alive
          /\ nodes' = [nodes EXCEPT ![n] = Dropped(@)]
          /\ free_list' = Append(free_list, n)
          /\ name_index' = [a \in Atoms |->
                IF a = nodes[n].name /\ name_index[a] = n
                THEN kInvalidNode ELSE name_index[a]]
          /\ stats' = [Executed EXCEPT !.nodes_dropped = @ + 1]
    /\ UNCHANGED << capacity, frames, closing, snapshots, meta, status, undefined >>

RejectDropNode(n) ==
    Decoding("DROP_NODE") /\ ~ InRange(n) /\ End("NodeOutOfRange")

-----------------------------------------------------------------------------
(* Groups *)

\* reserve() moves the table when it asks for more than the capacity, and only
\* then is the owner's slot pointer taken.
BeginGroup(name, hint) ==
    LET owner == find_named(name)
        reserved == Len(nodes) + hint
    IN  /\ Decoding("BEGIN_GROUP")
        /\ Len(frames) < MaxGroupDepth
        /\ Live(owner)
        /\ \/ /\ reserved <= MaxReserve
              /\ capacity' = reserve(reserved)
              /\ frames' = Append(AfterMove(reserved > capacity, frames),
                                  [ owner_id |-> owner, cached |-> TRUE,
                                    reserved |-> reserved, deferred |-> << >> ])
              /\ stats' = Executed
              /\ UNCHANGED << nodes, name_index, closing, free_list, snapshots,
                              meta, status, undefined >>
           \/ /\ reserved > MaxReserve
              /\ End("bad_alloc")

RejectBeginGroup(name) ==
    LET owner == find_named(name)
    IN  /\ Decoding("BEGIN_GROUP")
        /\ \/ Len(frames) >= MaxGroupDepth /\ End("GroupOverflow")
           \/ /\ Len(frames) < MaxGroupDepth
              /\ ~ Live(owner)
              /\ End(IF owner = kInvalidNode THEN "UnresolvedRef"
                     ELSE "InvariantViolation")

AddChild(name) ==
    /\ Decoding("ADD_CHILD")
    /\ frames # << >>
    /\ name \in Names
    /\ frames' = [frames EXCEPT ![Len(frames)].deferred = Append(@, name)]
    /\ stats' = Executed
    /\ UNCHANGED << nodes, capacity, name_index, closing, free_list,
                    snapshots, meta, status, undefined >>

RejectAddChild(name) ==
    /\ Decoding("ADD_CHILD")
    /\ \/ frames = << >> /\ End("GroupUnderflow")
       \/ frames # << >> /\ name \notin Names /\ End("AtomOutOfRange")

\* END_GROUP pops the innermost frame and resolves its children one by one;
\* nothing else runs until the last one is linked (ResolveChild, CloseGroup).
EndGroup ==
    /\ Decoding("END_GROUP")
    /\ frames # << >>
    /\ closing' = << frames[Len(frames)] >>
    /\ frames' = SubSeq(frames, 1, Len(frames) - 1)
    /\ UNCHANGED << nodes, capacity, name_index, free_list, snapshots, meta,
                    stats, status, undefined >>

RejectEndGroup ==
    Decoding("END_GROUP") /\ frames = << >> /\ End("GroupUnderflow")

\* owner->children.push_back(target) and the back reference, on table t.
\* Through a pointer into a freed table the child is written to memory nobody
\* reads, the owner's id reads back as itself or as garbage, or the process dies.
Attach(t, frame, target) ==
    \/ /\ frame.cached
       /\ LET linked == [t EXCEPT ![frame.owner_id] = WithChild(@, target)]
          IN  nodes' = [linked EXCEPT ![target] = WithRef(@, frame.owner_id)]
       /\ UNCHANGED << status, undefined >>
    \/ /\ ~ frame.cached
       /\ undefined' = TRUE
       /\ \/ /\ \E id \in {frame.owner_id, kInvalidNode} :
                    nodes' = [t EXCEPT ![target] = WithRef(@, id)]
             /\ UNCHANGED status
          \/ nodes' = t /\ status' = "crashed"

\* A name nobody holds is materialised: a placeholder is appended, without a
\* look at max_nodes, and can move the table under the pointer in use.
ResolveChild ==
    /\ status = "running"
    /\ closing # << >>
    /\ closing[1].deferred # << >>
    /\ LET name   == Head(closing[1].deferred)
           target == find_named(name)
           rest   == [closing[1] EXCEPT !.deferred = Tail(@)]
       IN  \/ /\ target # kInvalidNode
              /\ Attach(nodes, rest, target)
              /\ closing' = << rest >>
              /\ stats' = [stats EXCEPT !.children_linked = @ + 1]
              /\ UNCHANGED << capacity, name_index, frames >>
           \/ /\ target = kInvalidNode
              /\ closing' = AfterMove(FullTable, << rest >>)
              /\ Attach(Append(nodes, NewNodeRecord(NoKind, name, TRUE, NoFields)),
                        closing'[1], Len(nodes) + 1)
              /\ capacity' = GrownCapacity
              /\ frames' = AfterMove(FullTable, frames)
              /\ name_index' = register_name(name, Len(nodes) + 1)
              /\ stats' = [stats EXCEPT !.children_linked = @ + 1,
                                        !.placeholders = @ + 1]
    /\ UNCHANGED << free_list, snapshots, meta >>

CloseGroup ==
    /\ status = "running"
    /\ closing # << >>
    /\ closing[1].deferred = << >>
    /\ closing' = << >>
    /\ stats' = Executed
    /\ UNCHANGED << nodes, capacity, name_index, frames, free_list,
                    snapshots, meta, status, undefined >>

-----------------------------------------------------------------------------
(* Markers *)

Alive == {i \in DOMAIN nodes : nodes[i].alive}
Marker(label) ==
    [ label |-> label, node_count |-> Len(nodes), alive_count |-> Cardinality(Alive) ]

Snapshot(label) ==
    /\ Decoding("SNAPSHOT")
    /\ label \in Names
    /\ snapshots' = Append(snapshots, Marker(label))
    /\ stats' = Executed
    /\ UNCHANGED << nodes, capacity, name_index, frames, closing, free_list,
                    meta, status, undefined >>

RejectSnapshot(label) ==
    Decoding("SNAPSHOT") /\ label \notin Names /\ End("AtomOutOfRange")

SetMeta(key, value) ==
    /\ Decoding("SET_META")
    /\ key \in Atoms
    /\ value \in Names
    /\ meta' = [meta EXCEPT ![key] = {value}]
    /\ stats' = Executed
    /\ UNCHANGED << nodes, capacity, name_index, frames, closing, free_list,
                    snapshots, status, undefined >>

RejectSetMeta(key, value) ==
    /\ Decoding("SET_META")
    /\ key \notin Atoms \/ value \notin Names
    /\ End("AtomOutOfRange")

-----------------------------------------------------------------------------
NodeOp ==
    \/ \E kind \in KindOperands, name \in AtomOperands :
            NewNode(kind, name) \/ RejectNewNode(kind, name)
    \/ \E n \in NodeOperands : DropNode(n) \/ RejectDropNode(n)

FieldOp ==
    \E n \in NodeOperands, f \in Fields :
        \/ \E v \in SUBSET NodeOperands : SetField(n, f, v)
        \/ RejectSetField(n, f)
        \/ \E name \in AtomOperands : LinkRef(n, f, name)
        \/ RejectLinkRef(n, f)

GroupOp ==
    \/ \E name \in AtomOperands :
        \/ \E hint \in 0..MaxHint : BeginGroup(name, hint)
        \/ RejectBeginGroup(name)
        \/ AddChild(name)
        \/ RejectAddChild(name)
    \/ EndGroup \/ RejectEndGroup
    \/ ResolveChild \/ CloseGroup

MarkerOp ==
    \/ \E label \in AtomOperands : Snapshot(label) \/ RejectSnapshot(label)
    \/ \E key, value \in AtomOperands :
            SetMeta(key, value) \/ RejectSetMeta(key, value)
    \/ Nop

DecodeErrors == {"LimitExceeded", "BadOpcode", "Truncated", "BadValue"}

Run ==
    \/ NodeOp
    \/ FieldOp
    \/ GroupOp
    \/ MarkerOp
    \/ \E code \in DecodeErrors : RejectBytes(code)
    \/ Finish

\* Once run() has returned the machine is only read.
Returned == status # "running" /\ UNCHANGED vars

Next == Run \/ Returned

Spec == Init /\ [][Next]_vars

-----------------------------------------------------------------------------
(* Types *)

NodeRecord ==
    [ kind : KindOperands, name : Names, alive : BOOLEAN,
      placeholder : BOOLEAN, generation : Nat,
      fields : [Fields -> SUBSET SUBSET Nat],
      children : Seq(Nat), refs : SUBSET Nat ]

GroupFrame ==
    [ owner_id : Nat, cached : BOOLEAN, reserved : Nat, deferred : Seq(Names) ]

ReplayStats ==
    [ ops_executed : Nat, nodes_created : Nat, placeholders : Nat,
      nodes_dropped : Nat, children_linked : Nat, unresolved_refs : Nat ]

Codes == {"running", "ok", "crashed", "bad_alloc"} \cup DecodeErrors \cup
         { "KindOutOfRange", "AtomOutOfRange", "NodeOutOfRange",
           "FieldOutOfRange", "TypeMismatch", "InvariantViolation",
           "UnresolvedRef", "GroupOverflow", "GroupUnderflow" }

\* Every variable holds a value of the type its declaration in replay_vm.hpp
\* gives it; bound names and open groups designate slots of the node table.
TypeOK ==
    /\ nodes \in Seq(NodeRecord)
    /\ capacity \in Nat
    /\ name_index \in [Atoms -> 0 .. Len(nodes)]
    /\ frames \in Seq(GroupFrame)
    /\ closing \in Seq(GroupFrame)
    /\ \A i \in DOMAIN frames : InRange(frames[i].owner_id)
    /\ \A i \in DOMAIN closing : InRange(closing[i].owner_id)
    /\ free_list \in Seq(Nat)
    /\ snapshots \in Seq([label : Names, node_count : Nat, alive_count : Nat])
    /\ meta \in [Atoms -> SUBSET Names]
    /\ stats \in ReplayStats
    /\ status \in Codes
    /\ undefined \in BOOLEAN

-----------------------------------------------------------------------------
(* Safety *)

\* find_named answers with the newest node of a name while that node is alive
\* and with kInvalidNode otherwise, whatever was seeded, shadowed, materialised
\* or dropped in between (register_name, do_drop_node, seed).  BEGIN_GROUP may
\* therefore dereference the owner it finds.
NameIndexIsNewestLive ==
    \A a \in Atoms :
        /\ name_index[a] # kInvalidNode =>
                nodes[name_index[a]].name = a /\ nodes[name_index[a]].alive
        /\ \A n \in DOMAIN nodes :
            /\ nodes[n].name = a
            /\ \A m \in DOMAIN nodes : m > n => nodes[m].name # a
            => name_index[a] = IF nodes[n].alive THEN n ELSE kInvalidNode

\* The free list holds each dropped slot once and nothing else, its length is
\* the nodes_dropped counter, and the generation of a slot tells a dropped
\* node from one that never was (do_drop_node's no-op on a second drop).
FreeListIsTheDropped ==
    /\ Len(free_list) = stats.nodes_dropped
    /\ \A i \in DOMAIN free_list : InRange(free_list[i])
    /\ \A i, j \in DOMAIN free_list : free_list[i] = free_list[j] => i = j
    /\ \A n \in DOMAIN nodes :
        /\ nodes[n].alive <=> \A i \in DOMAIN free_list : free_list[i] # n
        /\ nodes[n].generation = IF nodes[n].alive THEN 0 ELSE 1

\* Every slot is accounted for by exactly one of the two counters, and the
\* placeholders are the nodes without a kind: no field was ever stored in one.
SlotsAccounted ==
    /\ stats.nodes_created + stats.placeholders = Len(nodes)
    /\ \A n \in DOMAIN nodes :
        /\ nodes[n].placeholder <=> nodes[n].kind = NoKind
        /\ nodes[n].placeholder => nodes[n].fields = NoFields

\* materialize_placeholder does not look at max_nodes, so the table may outgrow
\* the limit; how far is bounded all the same.  NEW_NODE never adds to an
\* overrun table, dropped slots or not, every slot past the limit is the
\* placeholder of a forward reference, and each of those took a linked child.
OverrunIsForwardReferences ==
    /\ stats.nodes_created <= MaxNodes
    /\ \A n \in DOMAIN nodes : n > MaxNodes => nodes[n].placeholder
    /\ stats.placeholders <= stats.children_linked

\* While no freed pointer has been used, the graph is closed: refs and
\* children designate slots of the table, and every child refers back to its
\* parent (resolve_frame writes both ends; xref_index relies on the range).
LinksClosed ==
    ~ undefined =>
        \A n \in DOMAIN nodes :
            /\ nodes[n].refs \subseteq DOMAIN nodes
            /\ \A k \in DOMAIN nodes[n].children :
                    /\ InRange(nodes[n].children[k])
                    /\ n \in nodes[nodes[n].children[k]].refs

\* Every turn of resolve_frame adds one child to its owner's list and nothing
\* else does, whoever is linked twice, shadowed or dropped: the counter
\* stats_.children_linked is the number of places in all the lists together,
\* as long as no freed pointer was written through.
ChildLinks(table) == UNION {{n} \X DOMAIN table[n].children : n \in DOMAIN table}
ChildrenAccounted ==
    ~ undefined => stats.children_linked = Cardinality(ChildLinks(nodes))

\* The table behind an open group never holds fewer slots than that group
\* reserved, so a group opened alone keeps its owner pointer until the table
\* outgrows the reservation (the argument of reserve() in do_begin_group).
ReservationHolds ==
    /\ Len(nodes) <= capacity
    /\ \A i \in DOMAIN frames : frames[i].reserved <= capacity
    /\ \A i \in DOMAIN closing : closing[i].reserved <= capacity

\* Slots are for ever: the table never shrinks, the identity of a node never
\* changes, a dropped node never lives again and links are never removed
\* (nothing in the code consumes free_list_).
TableAppendOnly ==
    [][ /\ Len(nodes) <= Len(nodes')
        /\ \A n \in DOMAIN nodes :
            /\ nodes'[n].kind = nodes[n].kind
            /\ nodes'[n].name = nodes[n].name
            /\ nodes'[n].placeholder = nodes[n].placeholder
            /\ nodes'[n].alive => nodes[n].alive
            /\ nodes[n].refs \subseteq nodes'[n].refs
            /\ Len(nodes[n].children) <= Len(nodes'[n].children) ]_vars

\* An open group loses its owner pointer only when the table outgrows what the
\* group reserved, or when a further BEGIN_GROUP reserves more inside it; and
\* while resolve_frame writes through the pointer, where nothing can open a
\* group, only the placeholder beyond the reservation takes it away.
PointerLossExplained ==
    [][ /\ \A i \in DOMAIN frames \cap DOMAIN frames' :
            frames[i].cached /\ ~ frames'[i].cached =>
                \/ Len(nodes') > frames[i].reserved
                \/ Len(frames') > Len(frames)
        /\ \A i \in DOMAIN closing \cap DOMAIN closing' :
            closing[i].cached /\ ~ closing'[i].cached =>
                Len(nodes') > closing[i].reserved ]_vars

=============================================================================
