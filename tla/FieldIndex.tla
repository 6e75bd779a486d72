----------------------------- MODULE FieldIndex -----------------------------
(***************************************************************************)
(* The secondary index of src/src/field_index.cpp over a node table that   *)
(* the replay machine goes on changing after build(): the index is a copy, *)
(* and nothing tells it.                                                   *)
(*                                                                         *)
(* Node ids are one-based, as in ReplayVM.  The maps of the index are kept *)
(* as the set of the entries they are filled from; a lookup gives the set  *)
(* of the ids that its vector holds.                                       *)
(*                                                                         *)
(* An operator <name>_slip_<what> is <name> with a slip of the programmer  *)
(* in it; no specification uses it (see README.md).                        *)
(***************************************************************************)
EXTENDS Integers, Sequences, FiniteSets

CONSTANTS
    Names,       \* atom ids that nodes are named with
    NoAtom,      \* kInvalidAtom: anonymous
    Kinds,       \* kinds of the schema
    NoKind,      \* kInvalidKind: of placeholders
    Fields,      \* field indices
    FieldType,   \* FieldType[k][f]: the type kind k declares for field f
    Data,        \* Data[type]: what values of that type hold
    MaxNodes     \* limits.max_nodes

ValueTypes == {"Int", "Float", "Atom", "Ref", "List"}

ASSUME IndexAssumption ==
    /\ NoAtom \notin Names /\ NoKind \notin Kinds
    /\ FieldType \in [Kinds -> [Fields -> ValueTypes \cup {"Invalid"}]]
    /\ IsFiniteSet(Fields)
    /\ MaxNodes \in Nat

VARIABLES
    nodes,    \* the node table
    index,    \* the FieldIndex
    changed   \* history: nodes whose liveness or fields changed since build()

vars == << nodes, index, changed >>

MakeValue(type, data) == [type |-> type, data |-> data]
Values == UNION {{MakeValue(type, d) : d \in Data[type]} : type \in ValueTypes}

-----------------------------------------------------------------------------
(* The index *)

Indexed(n) == nodes[n].alive /\ ~ nodes[n].placeholder

EntriesOf(n) ==
    UNION {{[node |-> n, kind |-> nodes[n].kind, field |-> f, value |-> v] :
               v \in nodes[n].fields[f]} : f \in Fields}
NamesOf(n) == {<< nodes[n].name, n >>} \cap (Names \X {n})

Visited == {n \in DOMAIN nodes : Indexed(n)}

EmptyIndex == [entries |-> {}, names |-> {}, entry_count |-> 0, node_count |-> 0]

clear_slip_counts_only(ix) == [ix EXCEPT !.entry_count = 0, !.node_count = 0]
clear(ix) == EmptyIndex

\* build() adds to what clear() leaves.
build ==
    LET found == UNION {EntriesOf(n) : n \in Visited}
        ix == clear(index)
    IN  /\ index' = [ entries |-> ix.entries \cup found,
                      names |-> ix.names \cup UNION {NamesOf(n) : n \in Visited},
                      entry_count |-> ix.entry_count + Cardinality(found),
                      node_count |-> ix.node_count + Cardinality(Visited) ]
        /\ changed' = {}
        /\ UNCHANGED nodes

Hits(kind, f) == {e \in index.entries : e.kind = kind /\ e.field = f}
NodesOf(entries) == {e.node : e \in entries}

lookup_int(kind, f, i) ==
    NodesOf({e \in Hits(kind, f) : e.value = MakeValue("Int", i)})
lookup_atom(kind, f, a) ==
    NodesOf({e \in Hits(kind, f) : e.value = MakeValue("Atom", a)})
lookup_has_field(kind, f) == NodesOf(Hits(kind, f))
lookup_by_name(name) == {pair[2] : pair \in {p \in index.names : p[1] = name}}

-----------------------------------------------------------------------------
(* What the replay machine does to the table *)

NewNode(kind, name, placeholder) ==
    [ kind |-> kind, name |-> name, alive |-> TRUE, placeholder |-> placeholder,
      fields |-> [f \in Fields |-> {}], children |-> {}, refs |-> {} ]

\* find_named: the newest node of a name, while it lives (ReplayVM proves it).
StandsFor(name) ==
    {n \in DOMAIN nodes : /\ name # NoAtom /\ nodes[n].name = name /\ nodes[n].alive
                          /\ \A m \in DOMAIN nodes : nodes[m].name = name => m <= n}

NEW_NODE(kind, name) ==
    /\ Len(nodes) < MaxNodes
    /\ nodes' = Append(nodes, NewNode(kind, name, FALSE))
    /\ changed' = changed \cup {Len(nodes) + 1}
    /\ UNCHANGED index

\* END_GROUP links the child that a name stands for to the group's owner, which
\* may have been dropped meanwhile; a name that stands for nothing gets a
\* placeholder first.  None of it concerns the index.  (Whether the owner's
\* pointer still holds is ReplayVM's question.)
ADD_CHILD(owner, name) ==
    LET found == StandsFor(name) # {}
        table == IF found THEN nodes ELSE Append(nodes, NewNode(NoKind, name, TRUE))
        child == IF found THEN CHOOSE n \in StandsFor(name) : TRUE ELSE Len(table)
    IN  /\ nodes[owner].name # NoAtom
        /\ nodes' = [table EXCEPT ![owner].children = @ \cup {child},
                                  ![child].refs = @ \cup {owner}]
        /\ UNCHANGED << index, changed >>

\* The targets of a Ref or List that are in the table become refs.
Targets(v) ==
    (CASE v.type = "Ref" -> {v.data} [] v.type = "List" -> v.data [] OTHER -> {})
        \cap DOMAIN nodes

Declares(n, f, type) == nodes[n].kind \in Kinds /\ FieldType[nodes[n].kind][f] = type

SET_FIELD(n, f, v) ==
    /\ nodes[n].alive
    /\ Declares(n, f, v.type)
    /\ nodes' = [nodes EXCEPT ![n].fields[f] = {v}, ![n].refs = @ \cup Targets(v)]
    /\ changed' = changed \cup {n}
    /\ UNCHANGED index

\* The source may be a dropped node; a name that stands for nothing is only counted.
LINK_REF(src, f, name) ==
    /\ Declares(src, f, "Ref")
    /\ \E target \in StandsFor(name) :
          nodes' = [nodes EXCEPT ![src].fields[f] = {MakeValue("Ref", target)},
                                 ![src].refs = @ \cup {target}]
    /\ changed' = changed \cup {src}
    /\ UNCHANGED index

DROP_NODE(n) ==
    /\ nodes[n].alive
    /\ nodes' = [nodes EXCEPT ![n].alive = FALSE]
    /\ changed' = changed \cup {n}
    /\ UNCHANGED index

Init == nodes = << >> /\ index = EmptyIndex /\ changed = {}

\* The calls of the replay machine.
Machine ==
    \/ \E kind \in Kinds, name \in Names \cup {NoAtom} : NEW_NODE(kind, name)
    \/ \E n \in DOMAIN nodes, name \in Names \cup {NoAtom} : ADD_CHILD(n, name)
    \/ \E n \in DOMAIN nodes, f \in Fields, v \in Values : SET_FIELD(n, f, v)
    \/ \E n \in DOMAIN nodes, f \in Fields, name \in Names : LINK_REF(n, f, name)
    \/ \E n \in DOMAIN nodes : DROP_NODE(n)

Next == build \/ Machine

Spec == Init /\ [][Next]_vars

-----------------------------------------------------------------------------
\* The fields of indexed nodes that hold a value.
FieldsSet == {p \in Visited \X Fields : nodes[p[1]].fields[p[2]] # {}}

\* The nodes in S that the index and the table must agree on.
Settled(S) == S \ changed

\* What the lookups of one kind and field, and of one name, owe the table.
HasFieldExplained(k, f) ==
    Settled(lookup_has_field(k, f)) =
        Settled({n \in Visited : nodes[n].kind = k /\ nodes[n].fields[f] # {}})
IntExplained(k, f, i) ==
    Settled(lookup_int(k, f, i)) =
        Settled({n \in Visited : nodes[n].kind = k
                                 /\ nodes[n].fields[f] = {MakeValue("Int", i)}})
AtomExplained(k, f, a) ==
    Settled(lookup_atom(k, f, a)) =
        Settled({n \in Visited : nodes[n].kind = k
                                 /\ nodes[n].fields[f] = {MakeValue("Atom", a)}})
NameExplained(name) ==
    Settled(lookup_by_name(name)) = Settled({n \in Visited : nodes[n].name = name})
CountersExact ==
    /\ index.node_count = Cardinality(Visited)
    /\ index.entry_count = Cardinality(FieldsSet)

\* An answer differs from what the table holds by nodes that changed after
\* build(), and by no other: not by one that died, was shadowed, referred to or
\* adopted before, not by a placeholder.  When nothing has changed the counters
\* are those of the table (build() and the lookups; field_index.hpp:33-37 and 44).
IndexExplained ==
    /\ \A k \in Kinds, f \in Fields :
          /\ HasFieldExplained(k, f)
          /\ \A i \in Data["Int"] : IntExplained(k, f, i)
          /\ \A a \in Data["Atom"] : AtomExplained(k, f, a)
    /\ \A name \in Names : NameExplained(name)
    /\ changed = {} => CountersExact
=============================================================================
