--------------------------- MODULE JournalReplay ---------------------------
(***************************************************************************)
(* A journal as a value: the operations ReplayVM takes one at a time,      *)
(* written down with their operands, so that a component can transform a   *)
(* journal and the machine can run the result.                             *)
(***************************************************************************)
EXTENDS ReplayVM

NodeRecords == [op : {"NEW_NODE"}, kind : Kinds, name : Names]
FieldRecords ==
    [ op : {"SET_FIELD"}, node : NodeOperands, field : Fields,
      value : SUBSET NodeOperands ]
LinkRecords ==
    [op : {"LINK_REF"}, node : NodeOperands, field : Fields, name : Names]
DropRecords == [op : {"DROP_NODE"}, node : NodeOperands]
GroupRecords ==
    [op : {"BEGIN_GROUP"}, name : Atoms, hint : 0..MaxHint]
        \cup [op : {"ADD_CHILD"}, name : Names]
        \cup {[op |-> "END_GROUP"]}
MarkerRecords ==
    [op : {"SNAPSHOT"}, name : Names]
        \cup [op : {"SET_META"}, key : Atoms, value : Names]
        \cup {[op |-> "NOP"]}

\* What run() does with one operation, accepted or not.  A list that is too
\* long never became a record, so that error is not one of a record.
Execute(rec) ==
    \/ /\ rec.op = "NEW_NODE"
       /\ NewNode(rec.kind, rec.name) \/ RejectNewNode(rec.kind, rec.name)
    \/ /\ rec.op = "SET_FIELD"
       /\ \/ SetField(rec.node, rec.field, rec.value)
          \/ /\ RejectSetField(rec.node, rec.field)
             /\ status' # "LimitExceeded"
    \/ /\ rec.op = "LINK_REF"
       /\ \/ LinkRef(rec.node, rec.field, rec.name)
          \/ RejectLinkRef(rec.node, rec.field)
    \/ /\ rec.op = "DROP_NODE"
       /\ DropNode(rec.node) \/ RejectDropNode(rec.node)
    \/ /\ rec.op = "BEGIN_GROUP"
       /\ BeginGroup(rec.name, rec.hint) \/ RejectBeginGroup(rec.name)
    \/ /\ rec.op = "ADD_CHILD"
       /\ AddChild(rec.name) \/ RejectAddChild(rec.name)
    \/ rec.op = "END_GROUP" /\ (EndGroup \/ RejectEndGroup)
    \/ rec.op = "SNAPSHOT" /\ (Snapshot(rec.name) \/ RejectSnapshot(rec.name))
    \/ /\ rec.op = "SET_META"
       /\ SetMeta(rec.key, rec.value) \/ RejectSetMeta(rec.key, rec.value)
    \/ rec.op = "NOP" /\ Nop

\* An operation is appended to the journal under construction only if the
\* machine that executes it carries on.
Records == NodeRecords \cup FieldRecords \cup LinkRecords \cup DropRecords
               \cup GroupRecords \cup MarkerRecords
Accepted(rec) == Execute(rec) /\ status' = "running"

\* The rest of END_GROUP.
Resolving == ResolveChild \/ CloseGroup

\* A new machine for another replay of the same heap (ReplayVM's constructor
\* and seed): `heap' is the decoded heap and `names' its index.
Reseed(heap, names) ==
    /\ nodes' = heap
    /\ capacity' = Len(heap)
    /\ name_index' = names
    /\ frames' = << >>
    /\ closing' = << >>
    /\ free_list' = << >>
    /\ snapshots' = << >>
    /\ meta' = [a \in Atoms |-> {}]
    /\ stats' = [ ops_executed |-> 0, nodes_created |-> Len(heap),
                  placeholders |-> 0, nodes_dropped |-> 0,
                  children_linked |-> 0, unresolved_refs |-> 0 ]
    /\ status' = "running"
    /\ undefined' = FALSE
=============================================================================
