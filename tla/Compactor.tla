----------------------------- MODULE Compactor -----------------------------
(***************************************************************************)
(* JournalCompactor::compact of src/src/compactor.cpp, composed with the   *)
(* replay machine: a journal is written while the machine executes it, is  *)
(* compacted, and the compacted journal is replayed on the same heap.      *)
(*                                                                         *)
(* The passes of compact() mark operations dead; here each pass is the set *)
(* of positions it marks.  The compactor numbers nodes by counting the     *)
(* NEW_NODE operations: id n is its n-th, whatever the machine calls it.   *)
(***************************************************************************)
EXTENDS JournalReplay

Seqs == INSTANCE SequencesExt

VARIABLES
    journal,  \* the operations written, then the compacted ones
    phase,    \* "writing", "replaying", or compact() has "refused" or "garbled"
    start,    \* the decoded heap and its names
    first     \* the journal that was compacted and what its replay built

compactVars == << journal, phase, start, first >>
allVars == << vars, compactVars >>

-----------------------------------------------------------------------------
(* Decoding: node numbers, types, groups *)

At(j, op) == {i \in DOMAIN j : j[i].op = op}
Number(j, i) == Cardinality({k \in At(j, "NEW_NODE") : k <= i})
NewNodeOf(j, n) == {i \in At(j, "NEW_NODE") : Number(j, i) = n}

\* field_type_for: the type by the compactor's own numbering.
field_type_for(j, i) ==
    IF \E k \in NewNodeOf(j, j[i].node) : k < i
    THEN field_type(j[CHOOSE k \in NewNodeOf(j, j[i].node) : k < i].kind, j[i].field)
    ELSE "Invalid"

\* A value of another type than the one that was written is decoded from the
\* wrong bytes.  An unknown type falls back to Int, which reads the one varint
\* of a Ref; of what else it may read right nothing is claimed.
ReadsRight(j, i) ==
    LET written == field_type(nodes[j[i].node].kind, j[i].field)
    IN  \/ field_type_for(j, i) = written
        \/ field_type_for(j, i) = "Invalid" /\ written = "Ref"

\* Open groups before and after an operation.
Depth(j, i) == Cardinality({k \in At(j, "BEGIN_GROUP") : k <= i})
                 - Cardinality({k \in At(j, "END_GROUP") : k <= i})
Balanced(j) ==
    /\ \A i \in DOMAIN j : Depth(j, i) >= 0
    /\ Depth(j, Len(j)) = 0

\* The pairs of a BEGIN_GROUP and its END_GROUP, and a pair's own children.
Groups(j) ==
    { be \in At(j, "BEGIN_GROUP") \X At(j, "END_GROUP") :
        /\ be[1] < be[2]
        /\ Depth(j, be[1]) = Depth(j, be[2]) + 1
        /\ \A k \in be[1] .. (be[2] - 1) : Depth(j, k) >= Depth(j, be[1]) }
ChildrenOf(j, be) ==
    { i \in At(j, "ADD_CHILD") :
        be[1] < i /\ i < be[2] /\ Depth(j, i) = Depth(j, be[1]) }

-----------------------------------------------------------------------------
(* The passes that mark operations dead *)

live_nodes(j) ==
    { n \in 1 .. Cardinality(At(j, "NEW_NODE")) :
        \A i \in NewNodeOf(j, n), k \in At(j, "DROP_NODE") :
            k > i => j[k].node # n }

Nops(j) == At(j, "NOP")

\* All writes of a field but the last one.
RedundantSets_slip_first(j) ==
    { i \in At(j, "SET_FIELD") : \E k \in At(j, "SET_FIELD") :
        k < i /\ j[k].node = j[i].node /\ j[k].field = j[i].field }
RedundantSets(j) ==
    { i \in At(j, "SET_FIELD") : \E k \in At(j, "SET_FIELD") :
        k > i /\ j[k].node = j[i].node /\ j[k].field = j[i].field }

OnDeadNodes_slip_definitions_too(j) ==
    { i \in At(j, "SET_FIELD") \cup At(j, "LINK_REF") :
        i \notin RedundantSets(j) /\ j[i].node \notin live_nodes(j) }
        \cup UNION {NewNodeOf(j, n) :
                n \in (1 .. Cardinality(At(j, "NEW_NODE"))) \ live_nodes(j)}
OnDeadNodes(j) ==
    { i \in At(j, "SET_FIELD") \cup At(j, "LINK_REF") :
        i \notin RedundantSets(j) /\ j[i].node \notin live_nodes(j) }

\* Groups without a child of their own, whatever is nested in them.
EmptyGroups_slip_begin_only(j) ==
    {be[1] : be \in {g \in Groups(j) : ChildrenOf(j, g) = {}}}
EmptyGroups_slip_innermost(j) ==
    UNION { {be[1], be[2]} : be \in {g \in Groups(j) :
                \A i \in g[1] + 1 .. g[2] - 1 :
                    j[i].op \notin {"ADD_CHILD", "BEGIN_GROUP"}} }
EmptyGroups(j) ==
    UNION { {be[1], be[2]} : be \in {g \in Groups(j) : ChildrenOf(j, g) = {}} }

Dead(j) == Nops(j) \cup RedundantSets(j) \cup OnDeadNodes(j) \cup EmptyGroups(j)

compaction_stats(j) ==
    [ nops_removed |-> Cardinality(Nops(j)),
      redundant_field_sets_removed |-> Cardinality(RedundantSets(j)),
      dead_node_ops_removed |-> Cardinality(OnDeadNodes(j)),
      dead_group_ops_removed |-> Cardinality(EmptyGroups(j)) ]

-----------------------------------------------------------------------------
(* Encoding *)

\* The reserve hint is written as the number of group_children, which decode_op
\* collects in its stack and moves to the END_GROUP: a BEGIN_GROUP has none.
encode_op(rec) ==
    IF rec.op = "BEGIN_GROUP" THEN [rec EXCEPT !.hint = 0] ELSE rec

compact(j) ==
    LET kept == Seqs!SetToSortSeq(DOMAIN j \ Dead(j), <)
    IN  [k \in DOMAIN kept |-> encode_op(j[kept[k]])]

-----------------------------------------------------------------------------
(* Writing, compacting and replaying a journal *)

CompactInit ==
    /\ Init
    /\ journal = << >>
    /\ phase = "writing"
    /\ start = [heap |-> nodes, names |-> name_index]
    /\ first = << >>

Write ==
    /\ phase = "writing"
    /\ \E rec \in Records : Accepted(rec) /\ journal' = Append(journal, rec)
    /\ UNCHANGED << phase, start, first >>

\* The rest of an END_GROUP, in either replay.
Resolve == Resolving /\ UNCHANGED compactVars

Compacting == phase = "writing" /\ Running

Refuse ==
    /\ Compacting
    /\ ~ Balanced(journal)
    /\ phase' = "refused"
    /\ UNCHANGED << vars, journal, start, first >>

Garble ==
    /\ Compacting
    /\ \E i \in At(journal, "SET_FIELD") : ~ ReadsRight(journal, i)
    /\ phase' = "garbled"
    /\ UNCHANGED << vars, journal, start, first >>

Compact ==
    /\ Compacting
    /\ Balanced(journal)
    /\ \A i \in At(journal, "SET_FIELD") : ReadsRight(journal, i)
    /\ journal' = compact(journal)
    /\ phase' = "replaying"
    /\ first' = [ journal |-> journal, nodes |-> nodes, name_index |-> name_index,
                  free_list |-> free_list, snapshots |-> snapshots, meta |-> meta,
                  undefined |-> undefined ]
    /\ Reseed(start.heap, start.names)
    /\ UNCHANGED start

Replay ==
    /\ phase = "replaying"
    /\ IF stats.ops_executed < Len(journal)
       THEN Execute(journal[stats.ops_executed + 1])
       ELSE Finish
    /\ UNCHANGED compactVars

Over ==
    /\ status # "running" \/ phase \in {"refused", "garbled"}
    /\ UNCHANGED allVars

CompactNext == Write \/ Resolve \/ Refuse \/ Garble \/ Compact \/ Replay \/ Over

CompactSpec == CompactInit /\ [][CompactNext]_allVars

-----------------------------------------------------------------------------
(* Properties *)

\* The replay of the compacted journal has ended and, as the one before, has
\* not used a freed owner pointer.
Replayed ==
    /\ phase = "replaying" /\ status # "running"
    /\ ~ first.undefined /\ ~ undefined

\* What was accepted is accepted again: whatever compact() removes, the rest
\* replays without an error (groups stay paired, names stay bound, ids stay in
\* range), however wrong the compactor's node numbers are.
CompactedReplays == Replayed => status = "ok"

\* The table is the same slot by slot in everything but fields and refs, and
\* so are the names, the drops and their order, the metadata and the markers:
\* only writes of fields and groups that link nothing are ever removed.
SameStructure ==
    Replayed =>
        /\ Len(nodes) = Len(first.nodes)
        /\ \A n \in DOMAIN nodes :
            /\ nodes[n].kind = first.nodes[n].kind
            /\ nodes[n].name = first.nodes[n].name
            /\ nodes[n].alive = first.nodes[n].alive
            /\ nodes[n].placeholder = first.nodes[n].placeholder
            /\ nodes[n].children = first.nodes[n].children
        /\ name_index = first.name_index
        /\ free_list = first.free_list
        /\ meta = first.meta
        /\ snapshots = first.snapshots

\* The compactor's numbers are the machine's: no heap, and no placeholder
\* before the last NEW_NODE.
NumbersAgree ==
    /\ start.heap = << >>
    /\ \A n \in DOMAIN first.nodes : first.nodes[n].placeholder =>
            n > Cardinality(At(first.journal, "NEW_NODE"))

\* Live nodes end with the fields they had, although LINK_REF writes between
\* the SET_FIELDs that survive; their refs only lose what overwritten values
\* had added.  With other numbers than the machine's, this does not hold: the
\* fields of live nodes are taken for those of dropped ones.
SameFields ==
    Replayed /\ NumbersAgree =>
        \A n \in DOMAIN nodes :
            /\ nodes[n].alive => nodes[n].fields = first.nodes[n].fields
            /\ nodes[n].refs \subseteq first.nodes[n].refs

\* One pass is enough: every operation that is gone is counted once, by one of
\* the counters, and compacting a compacted journal changes nothing, also where
\* empty groups are nested and where dead nodes were written to.
CompactIsIdempotent ==
    Compacting /\ Balanced(journal) =>
        LET s == compaction_stats(journal)
        IN  /\ Len(journal) = Len(compact(journal)) + s.nops_removed
                  + s.redundant_field_sets_removed + s.dead_node_ops_removed
                  + s.dead_group_ops_removed
            /\ compact(compact(journal)) = compact(journal)

-----------------------------------------------------------------------------
(* What a comment says and the code does not do *)

\* compactor.hpp: the compacted journal is "semantically equivalent"; compact:
\* "the BEGIN_GROUP hint is set to the count of surviving AddChild ops in the
\* group".  A journal that never uses a freed owner pointer does not begin to
\* by being compacted.
HeadroomSurvives ==
    phase = "replaying" /\ ~ first.undefined => ~ undefined
=============================================================================
