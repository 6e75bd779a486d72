----------------------------- MODULE GraphDiff -----------------------------
(***************************************************************************)
(* The diff engine of src/src/diff.cpp, composed with the replay machine:  *)
(* a machine reaches a state `before', the same machine or another one     *)
(* with the same heap reaches a state `after', the two node tables are     *)
(* compared, and the journal patch made from the difference is run by the  *)
(* machine in the state `before'.                                          *)
(*                                                                         *)
(* The maps of the code are unordered: where it walks one, every order is  *)
(* possible here.                                                          *)
(***************************************************************************)
EXTENDS JournalReplay, SequencesExt

CONSTANT MaxWritten     \* bound: operations both graphs are built with

ASSUME FieldsAssumption == IsFiniteSet(Fields)   \* FieldId is a u32

VARIABLES
    phase,   \* "before", "after", "patching" or "misread"
    start,   \* the decoded heap and its names, until `before' is reached
    before,  \* the state of the machine that the patch is for
    restarted, \* another machine reaches `after'
    after,   \* the node table it should lead to
    diff,    \* GraphDiff::changes
    patch    \* the journal diff_to_journal makes of it

diffVars == << phase, start, before, restarted, after, diff, patch >>
allVars == << vars, diffVars >>

-----------------------------------------------------------------------------
(* Comparing two node tables *)

NamedLive(t) == {n \in DOMAIN t : t[n].alive /\ t[n].name \in Atoms}
LiveNames(t) == {t[n].name : n \in NamedLive(t)}

\* emplace() keeps the first node of a name.
by_name(t, a) ==
    CHOOSE n \in NamedLive(t) :
        t[n].name = a /\ \A m \in NamedLive(t) : t[m].name = a => n <= m

Unset == [type |-> "Invalid", value |-> {}]
NoneSet == [f \in Fields |-> Unset]
FieldValues(node) ==
    [ f \in Fields |->
        IF node.fields[f] = {} THEN Unset
        ELSE [ type |-> field_type(node.kind, f),
               value |-> CHOOSE v \in node.fields[f] : TRUE ] ]

ChildNames(t, n) ==
    {t[t[n].children[k]].name : k \in DOMAIN t[n].children} \ {NoAtom}

FieldChange(f, old, new) == [field_idx |-> f, before |-> old, after |-> new]

\* The field changes of a node, in any order.
field_changes_slip_both_set(old, new) ==
    SetToSeqs({ FieldChange(f, old[f], new[f]) : f \in
        {f \in Fields : Unset \notin {old[f], new[f]} /\ old[f] # new[f]} })
field_changes(old, new) ==
    SetToSeqs({ FieldChange(f, old[f], new[f]) :
                        f \in {f \in Fields : old[f] # new[f]} })

\* A new node lists its children in order and as often as they are linked.
AddedNode(t, n) ==
    LET linked == [ k \in DOMAIN t[n].children |->
                      LET cn == t[t[n].children[k]].name
                      IN  IF cn = NoAtom THEN << >> ELSE << cn >> ]
    IN  { [ change |-> "Added", name |-> t[n].name, kind |-> t[n].kind,
            before_id |-> kInvalidNode, after_id |-> n, field_changes |-> fcs,
            children_added |-> FlattenSeq(linked),
            children_removed |-> << >> ] :
          fcs \in field_changes(NoneSet, FieldValues(t[n])) }

\* A node on both sides compares its children as sets of names.
KeptChange(old, m, new, n, fcs, ca, cr) ==
    [ change |-> IF fcs = << >> /\ ca = << >> /\ cr = << >> /\ old.kind = new.kind
                 THEN "Unchanged" ELSE "Modified",
      name |-> new.name, kind |-> new.kind, before_id |-> m, after_id |-> n,
      field_changes |-> fcs, children_added |-> ca, children_removed |-> cr ]
KeptNode(t, m, u, n) ==
    { KeptChange(t[m], m, u[n], n, fcs, ca, cr) :
          fcs \in field_changes(FieldValues(t[m]), FieldValues(u[n])),
          ca \in SetToSeqs(ChildNames(u, n) \ ChildNames(t, m)),
          cr \in SetToSeqs(ChildNames(t, m) \ ChildNames(u, n)) }

RemovedNode(t, m) ==
    { [ change |-> "Removed", name |-> t[m].name, kind |-> t[m].kind,
        before_id |-> m, after_id |-> kInvalidNode, field_changes |-> << >>,
        children_added |-> << >>, children_removed |-> << >> ] }

node_changes(t, u, a) ==
    CASE a \notin LiveNames(t) -> AddedNode(u, by_name(u, a))
      [] a \notin LiveNames(u) -> RemovedNode(t, by_name(t, a))
      [] OTHER -> KeptNode(t, by_name(t, a), u, by_name(u, a))

\* The names of `after' in any order, then the names that are gone.
NameOrders(t, u) ==
    UNION { {kept \o gone : gone \in SetToSeqs(LiveNames(t) \ LiveNames(u))} :
            kept \in SetToSeqs(LiveNames(u)) }

diff_node_graphs(t, u) ==
    UNION { LET Diffs == [1 .. Len(o) ->
                                UNION {node_changes(t, u, a) : a \in LiveNames(t) \cup LiveNames(u)}]
            IN  { d \in Diffs : \A i \in DOMAIN o : d[i] \in node_changes(t, u, o[i]) } :
            o \in NameOrders(t, u) }

-----------------------------------------------------------------------------
(* The journal patch *)

\* A field that is gone emits nothing: no opcode clears a field.
set_fields(nc) ==
    FlattenSeq(
        [ k \in DOMAIN nc.field_changes |->
            LET fc == nc.field_changes[k]
            IN  IF fc.after.type = "Invalid" THEN << >>
                ELSE << [ op |-> "SET_FIELD", node |-> nc.after_id, field |-> fc.field_idx,
                          value |-> fc.after.value, type |-> fc.after.type ] >> ])

group_slip_no_hint(nc) ==
    IF nc.children_added = << >> THEN << >>
    ELSE << [op |-> "BEGIN_GROUP", name |-> nc.name, hint |-> 0] >>
         \o [ k \in DOMAIN nc.children_added |->
                [op |-> "ADD_CHILD", name |-> nc.children_added[k]] ]
         \o << [op |-> "END_GROUP"] >>
group(nc) ==
    IF nc.children_added = << >> THEN << >>
    ELSE << [ op |-> "BEGIN_GROUP", name |-> nc.name,
              hint |-> Len(nc.children_added) ] >>
         \o [ k \in DOMAIN nc.children_added |->
                [op |-> "ADD_CHILD", name |-> nc.children_added[k]] ]
         \o << [op |-> "END_GROUP"] >>

ops_of_slip_falls_through(nc) ==
    CASE nc.change = "Removed" ->
            << [op |-> "DROP_NODE", node |-> nc.before_id],
               [op |-> "NEW_NODE", kind |-> nc.kind, name |-> nc.name] >>
      [] nc.change = "Added" ->
            << [op |-> "NEW_NODE", kind |-> nc.kind, name |-> nc.name] >>
                \o set_fields(nc) \o group(nc)
      [] nc.change = "Modified" -> set_fields(nc) \o group(nc)
      [] nc.change = "Unchanged" -> << >>
ops_of(nc) ==
    CASE nc.change = "Removed" -> << [op |-> "DROP_NODE", node |-> nc.before_id] >>
      [] nc.change = "Added" ->
            << [op |-> "NEW_NODE", kind |-> nc.kind, name |-> nc.name] >>
                \o set_fields(nc) \o group(nc)
      [] nc.change = "Modified" -> set_fields(nc) \o group(nc)
      [] nc.change = "Unchanged" -> << >>

diff_to_journal(d) == FlattenSeq([i \in DOMAIN d |-> ops_of(d[i])])

-----------------------------------------------------------------------------
(* The serialised form: a sequence of cells, one per varint or type byte *)

write_value(v) ==
    << v.type >> \o
    CASE v.type = "Invalid" -> << >>
      [] v.type = "Scalar" -> << "payload" >>
      [] v.type = "Ref" -> SetToSeq(v.value)
      [] v.type = "List" -> << Cardinality(v.value) >> \o SetToSeq(v.value)

write_change(nc) ==
    << nc.change, nc.name, nc.before_id, nc.after_id, nc.kind,
       Len(nc.field_changes) >>
    \o FlattenSeq([ k \in DOMAIN nc.field_changes |->
            LET fc == nc.field_changes[k]
            IN  << fc.field_idx >> \o write_value(fc.before) \o write_value(fc.after) ])
    \o << Len(nc.children_added) >> \o nc.children_added
    \o << Len(nc.children_removed) >> \o nc.children_removed

serialize_diff(d) ==
    << Len(d) >> \o FlattenSeq([i \in DOMAIN d |-> write_change(d[i])])

\* Readers take the cells that are left and return what they got and the rest.
read_cell(s) == [got |-> Head(s), rest |-> Tail(s)]

read_list(read(_), s) ==
    LET first[n \in 0 .. Head(s)] ==
            IF n = 0 THEN [got |-> << >>, rest |-> Tail(s)]
            ELSE LET fewer == first[n - 1]
                     one == read(fewer.rest)
                 IN  [got |-> Append(fewer.got, one.got), rest |-> one.rest]
    IN  first[Head(s)]

read_value(s) ==
    LET Got(v, rest) == [got |-> [type |-> Head(s), value |-> v], rest |-> rest]
        list == read_list(read_cell, Tail(s))
    IN  CASE Head(s) = "Invalid" -> Got({}, Tail(s))
          [] Head(s) = "Scalar" -> Got({}, Tail(Tail(s)))
          [] Head(s) = "Ref" -> Got({s[2]}, Tail(Tail(s)))
          [] Head(s) = "List" -> Got(ToSet(list.got), list.rest)

read_field_change(s) ==
    LET old == read_value(Tail(s))
        new == read_value(old.rest)
    IN  [got |-> FieldChange(Head(s), old.got, new.got), rest |-> new.rest]

read_change_slip_swapped(s) ==
    LET fields == read_list(read_field_change, SubSeq(s, 6, Len(s)))
        fewer == read_list(read_cell, fields.rest)
        more == read_list(read_cell, fewer.rest)
    IN  [ got |-> [ change |-> s[1], name |-> s[2], before_id |-> s[3],
                    after_id |-> s[4], kind |-> s[5],
                    field_changes |-> fields.got, children_added |-> more.got,
                    children_removed |-> fewer.got ],
          rest |-> more.rest ]
read_change(s) ==
    LET fields == read_list(read_field_change, SubSeq(s, 6, Len(s)))
        more == read_list(read_cell, fields.rest)
        fewer == read_list(read_cell, more.rest)
    IN  [ got |-> [ change |-> s[1], name |-> s[2], before_id |-> s[3],
                    after_id |-> s[4], kind |-> s[5],
                    field_changes |-> fields.got, children_added |-> more.got,
                    children_removed |-> fewer.got ],
          rest |-> fewer.rest ]

deserialize_diff(s) == read_list(read_change, s)

-----------------------------------------------------------------------------
(* Reaching the two states, comparing them and replaying the patch *)

DiffInit ==
    /\ Init
    /\ phase = "before"
    /\ start = [heap |-> nodes, names |-> name_index]
    /\ before = << >> /\ restarted = FALSE /\ after = << >>
    /\ diff = << >> /\ patch = << >>

\* Where another machine built the second graph, its count began at zero.
Written == IF phase = "before" \/ ~ restarted THEN stats.ops_executed
           ELSE before.stats.ops_executed + stats.ops_executed

Write ==
    /\ phase \in {"before", "after"}
    /\ Written < MaxWritten
    /\ \E rec \in Records : Accepted(rec)
    /\ UNCHANGED diffVars

Resolve == Resolving /\ UNCHANGED diffVars

\* run() has returned ok: no group is open.
Complete == Running /\ frames = << >> /\ ~ undefined

\* The machine goes on from here, or another one starts from the heap.
TakeBefore ==
    /\ phase = "before" /\ Complete
    /\ phase' = "after"
    /\ before' = [ nodes |-> nodes, capacity |-> capacity,
                   name_index |-> name_index, free_list |-> free_list,
                   snapshots |-> snapshots, meta |-> meta, stats |-> stats ]
    /\ \/ restarted' = FALSE /\ UNCHANGED vars
       \/ restarted' = TRUE /\ Reseed(start.heap, start.names)
    /\ start' = << >>
    /\ UNCHANGED << after, diff, patch >>

\* A second run() of the first machine counts its own operations.
TakeAfter ==
    /\ phase = "after" /\ Complete
    /\ phase' = "patching"
    /\ after' = nodes
    /\ before' = [nodes |-> before.nodes, name_index |-> before.name_index]
    /\ diff' \in diff_node_graphs(before.nodes, nodes)
    /\ patch' = diff_to_journal(diff')
    /\ nodes' = before.nodes /\ capacity' = before.capacity
    /\ name_index' = before.name_index /\ free_list' = before.free_list
    /\ snapshots' = before.snapshots /\ meta' = before.meta
    /\ stats' = [before.stats EXCEPT !.ops_executed = 0]
    /\ UNCHANGED << frames, closing, status, undefined, start, restarted >>

Next_op == patch[stats.ops_executed + 1]

\* A value written with another type than the one the machine finds for the
\* node and field is decoded from the wrong bytes: nothing more is claimed.
Misreads(rec) ==
    /\ rec.op = "SET_FIELD" /\ InRange(rec.node)
    /\ field_type(nodes[rec.node].kind, rec.field) \notin {rec.type, "Invalid"}

Patch ==
    /\ phase = "patching" /\ Running
    /\ \/ /\ stats.ops_executed = Len(patch)
          /\ Finish
          /\ UNCHANGED diffVars
       \/ /\ stats.ops_executed < Len(patch)
          /\ ~ Misreads(Next_op)
          /\ Execute(Next_op)
          /\ UNCHANGED diffVars
       \/ /\ stats.ops_executed < Len(patch)
          /\ Misreads(Next_op)
          /\ phase' = "misread"
          /\ UNCHANGED << vars, start, before, restarted, after, diff, patch >>

\* A table that is not fully replayed is not compared.
Incomplete ==
    phase \in {"before", "after"} /\ Running /\ ~ Complete
        /\ Written = MaxWritten

Over ==
    /\ status # "running" \/ phase = "misread" \/ Incomplete
    /\ UNCHANGED allVars

DiffNext == Write \/ Resolve \/ TakeBefore \/ TakeAfter \/ Patch \/ Over

DiffSpec == DiffInit /\ [][DiffNext]_allVars

-----------------------------------------------------------------------------
(* Properties *)

Patched == phase = "patching" /\ status # "running"

\* No two live nodes share a name.
Distinct(t) == \A m, n \in NamedLive(t) : t[m].name = t[n].name => m = n

\* The name index answers with the node that the diff compares.
Answering ==
    /\ Distinct(before.nodes)
    /\ \A n \in NamedLive(before.nodes) :
            before.name_index[before.nodes[n].name] = n

\* What a reader of the stream gets is the diff that was written, and the
\* stream ends where the diff ends.
RoundTrip ==
    phase = "patching" /\ stats.ops_executed = 0 =>
        deserialize_diff(serialize_diff(diff)) = [got |-> diff, rest |-> << >>]

\* The groups of a patch reserve a slot per child and never nest, so that the
\* patch does not lose an owner pointer, whatever placeholders it creates.
PatchKeepsPointers == phase = "patching" => ~ undefined

\* A patch that replays leaves the names of `after' alive, and beside them
\* only placeholders for children that neither side had alive, although its
\* operations come in any order and fields may land on the wrong nodes.  The
\* index must answer: a name whose newer node was dropped is held by an older
\* node and yet unbound, so that a group materialises it beside that node.
PatchLeavesNames ==
    Patched /\ status = "ok" /\ Answering =>
        LET more == UNION {ToSet(diff[i].children_added) : i \in DOMAIN diff}
        IN  LiveNames(nodes) =
                LiveNames(after) \cup (more \ LiveNames(before.nodes))

\* The ids of `after' are the ids the patch needs; kinds are those of the
\* schema and do not change; a group is emitted when its children exist.
Addressed ==
    LET Sets(i) == set_fields(diff[i]) # << >>
        AddedBy(i) == {k \in 1 .. i : diff[k].change = "Added"}
    IN  \A i \in DOMAIN diff :
            /\ diff[i].change = "Added" =>
                    /\ diff[i].kind # NoKind
                    /\ Sets(i) => diff[i].after_id =
                            Len(before.nodes) + Cardinality(AddedBy(i))
            /\ diff[i].change = "Modified" =>
                    /\ before.nodes[diff[i].before_id].kind = diff[i].kind
                    /\ Sets(i) => diff[i].after_id = diff[i].before_id
            /\ \A cn \in ToSet(diff[i].children_added) :
                    cn \in LiveNames(before.nodes)
                        \cup {diff[k].name : k \in AddedBy(i)}

\* Then the patch replays without an error and rebuilds every named node:
\* kinds, fields and children of `after', with the fields and children of
\* `before' that it has no operation to take away.
PatchRebuilds ==
    /\ Patched \/ phase = "misread"
    /\ Answering /\ Distinct(after) /\ Addressed
    => /\ Patched /\ status = "ok"
       /\ \A a \in LiveNames(after) :
            LET new == by_name(nodes, a)
                want == by_name(after, a)
                old == by_name(before.nodes, a)
                kept == a \in LiveNames(before.nodes)
            IN  /\ nodes[new].kind = after[want].kind
                /\ \A f \in Fields :
                    nodes[new].fields[f] =
                        IF after[want].fields[f] = {} /\ kept
                        THEN before.nodes[old].fields[f]
                        ELSE after[want].fields[f]
                /\ ChildNames(nodes, new) = ChildNames(after, want)
                        \cup IF kept THEN ChildNames(before.nodes, old) ELSE {}

-----------------------------------------------------------------------------
(* What a comment says and the code does not do *)

\* diff_to_journal: "We use after_id here since the journal player will assign
\* the same ID in order (NewNode allocates sequentially)".  Where `after' was
\* reached from `before', a patch that replays gives every added node its fields.
AddedNodesGetFields ==
    Patched /\ status = "ok" /\ Answering /\ Distinct(after)
        /\ ~ restarted =>
        \A i \in DOMAIN diff : diff[i].change = "Added" =>
            nodes[by_name(nodes, diff[i].name)].fields = after[diff[i].after_id].fields
=============================================================================
