----------------------------- MODULE XrefIndex ------------------------------
(***************************************************************************)
(* The cross-reference index of src/src/xref_index.cpp, built from the     *)
(* final node table once the journal has run: name -> newest live node,    *)
(* kind -> nodes, and for every node the nodes that point at it.           *)
(***************************************************************************)
EXTENDS ReplayVM

\* Later live nodes overwrite earlier ones of the same name.
NewestLive(a) ==
    LET live == {n \in DOMAIN nodes : nodes[n].name = a /\ nodes[n].alive}
    IN  IF live = {} THEN kInvalidNode
        ELSE CHOOSE n \in live : \A m \in live : m <= n

Children(n) == {nodes[n].children[k] : k \in DOMAIN nodes[n].children}

\* The edges a node contributes to the index, as a referrer.
Edges_slip_refs_only(n) == nodes[n].refs
Edges(n) == nodes[n].refs \cup Children(n)

\* Dead nodes keep their kind and their outgoing edges in the index; an edge
\* out of the table is skipped.
build ==
    [ by_name |-> [a \in Atoms |-> NewestLive(a)],
      by_kind |-> [k \in Kinds |-> {n \in DOMAIN nodes : nodes[n].kind = k}],
      referrers |-> [t \in DOMAIN nodes |-> {n \in DOMAIN nodes : t \in Edges(n)}] ]

\* The index before build() and the name lookup of an atom it does not hold.
EmptyIndex ==
    [ by_name |-> [a \in Atoms |-> kInvalidNode],
      by_kind |-> [k \in Kinds |-> {}], referrers |-> << >> ]

by_name(index, a) == IF a \in Atoms THEN index.by_name[a] ELSE kInvalidNode

\* decode_and_reconcile: a name outside the pool or a node outside the table is
\* BadXref; an entry that merely disagrees with the index is a warning.
BadXref(a, n) ==
    \/ a \notin Names
    \/ n # kInvalidNode /\ ~ InRange(n)
Disagrees(index, a, n) == by_name(index, a) # n
=============================================================================
