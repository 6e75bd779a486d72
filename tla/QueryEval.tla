----------------------------- MODULE QueryEval -----------------------------
(***************************************************************************)
(* The evaluator of src/src/query_eval.cpp, up to the leaves of an         *)
(* expression: what a name, a comparison and a link test find in the node  *)
(* table of FieldIndex.                                                    *)
(*                                                                         *)
(* An operator <name>_slip_<what> is <name> with a slip of the programmer  *)
(* in it; no specification uses it (see README.md).                        *)
(***************************************************************************)
EXTENDS FieldIndex, SequencesExt

CONSTANTS
    Pool,        \* the atom pool: the text of every atom id, from one on
    KindName,    \* KindName[k], FieldName[k][f]: atom ids
    FieldName

\* Atom ids, node ids and integers are compared as numbers.
ASSUME EvalAssumption ==
    /\ Len(Pool) \in Nat /\ DOMAIN Pool = 1 .. Len(Pool)
    /\ Names \subseteq DOMAIN Pool /\ NoAtom \notin DOMAIN Pool
    /\ KindName \in [Kinds -> DOMAIN Pool]
    /\ Fields \subseteq Nat
    /\ \A t \in {"Int", "Ref", "Atom"} : Data[t] \subseteq Int

-----------------------------------------------------------------------------
(* Expressions without a subexpression *)

Leaf(kind, name) == [kind |-> kind, name |-> name]
AnyAlive == Leaf("AnyAlive", << >>)
FieldCmp(name, op, literal) ==
    [kind |-> "FieldCmp", name |-> name, op |-> op, literal |-> literal]

-----------------------------------------------------------------------------
(* The evaluator *)

NotFound == 0

\* AtomPool::find: the first atom with that text.
find(text) ==
    LET hits == {a \in DOMAIN Pool : Pool[a] = text}
    IN  IF hits = {} THEN NotFound ELSE Min(hits)

apply_cmp_slip_strict(op, lhs, rhs) ==
    CASE op = "EQ" -> lhs = rhs [] op = "NEQ" -> lhs # rhs
      [] op \in {"LT", "LE"} -> lhs < rhs [] op \in {"GT", "GE"} -> lhs > rhs
apply_cmp(op, lhs, rhs) ==
    CASE op = "EQ" -> lhs = rhs [] op = "NEQ" -> lhs # rhs
      [] op = "LT" -> lhs < rhs [] op = "LE" -> lhs <= rhs
      [] op = "GT" -> lhs > rhs [] op = "GE" -> lhs >= rhs

\* The first field of the kind with that name; none, if the pool has no such text.
FieldNamed(kind, name) ==
    LET hits == {f \in Fields : FieldType[kind][f] # "Invalid"
                                /\ FieldName[kind][f] = find(name)}
    IN  IF kind = NoKind \/ find(name) = NotFound \/ hits = {} THEN {} ELSE {Min(hits)}

\* A text is compared with Atom values, by id, and a number with all that are one.
Compares(v, op, literal) ==
    IF "text" \in DOMAIN literal
    THEN /\ v.type = "Atom" /\ find(literal.text) # NotFound
         /\ apply_cmp(op, v.data, find(literal.text))
    ELSE v.type \in {"Int", "Ref", "Atom"} /\ apply_cmp(op, v.data, literal.int)

\* A live node named so among the ids of a link.
LinksTo_slip_dead(ids, name) ==
    \E m \in ids \cap DOMAIN nodes :
        find(name) # NotFound /\ nodes[m].name = find(name)
LinksTo(ids, name) ==
    \E m \in ids \cap DOMAIN nodes :
        nodes[m].alive /\ find(name) # NotFound /\ nodes[m].name = find(name)

eval_leaf(expr, n) ==
    CASE expr.kind = "AnyAlive" -> TRUE
      [] expr.kind = "KindMatch" -> /\ nodes[n].kind # NoKind
                                    /\ find(expr.name) # NotFound
                                    /\ KindName[nodes[n].kind] = find(expr.name)
      [] expr.kind = "FieldCmp" ->
            \E f \in FieldNamed(nodes[n].kind, expr.name) : \E v \in nodes[n].fields[f] :
                Compares(v, expr.op, expr.literal)
      [] expr.kind = "HasChild" -> LinksTo(nodes[n].children, expr.name)
      [] expr.kind = "HasRef" -> LinksTo(nodes[n].refs, expr.name)

\* execute(): every slot is scanned, the live ones that match are returned.
QueryResult(matching) ==
    [nodes |-> matching, scanned |-> Len(nodes), matched |-> Cardinality(matching)]
execute_leaf(expr) ==
    QueryResult({n \in DOMAIN nodes : nodes[n].alive /\ eval_leaf(expr, n)})

-----------------------------------------------------------------------------
(* Properties *)

Fresh == changed = {}

\* The kinds and fields that a query can name: their text's first atom is theirs,
\* and no other kind, or field of the kind, has it too.
NamedKinds == {k \in Kinds : /\ find(Pool[KindName[k]]) = KindName[k]
                             /\ \A j \in Kinds : KindName[j] = KindName[k] => j = k}
NamedFields(k) == {f \in Fields : FieldType[k][f] # "Invalid"
                                  /\ FieldNamed(k, Pool[FieldName[k][f]]) = {f}}

\* An index that is not stale answers as the scan does that asks for kind, field
\* and value (field_index.cpp:33-76 against query_eval.cpp:79-148).
AskedFor(k, f, literal) ==
    execute_leaf(Leaf("KindMatch", Pool[KindName[k]])).nodes
        \cap execute_leaf(FieldCmp(Pool[FieldName[k][f]], "EQ", literal)).nodes
FieldsAnswered ==
    Fresh =>
        \A k \in NamedKinds : \A f \in NamedFields(k) :
            /\ FieldType[k][f] = "Int" =>
                  \A i \in Data["Int"] : lookup_int(k, f, i) = AskedFor(k, f, [int |-> i])
            /\ FieldType[k][f] = "Atom" =>
                  \A a \in DOMAIN Pool :
                      lookup_atom(k, f, find(Pool[a])) = AskedFor(k, f, [text |-> Pool[a]])

\* has_child finds the nodes that lookup_by_name knows and, what it does not, the
\* placeholders (field_index.cpp:33-76 against query_eval.cpp:159-172).
ChildrenAnswered ==
    Fresh =>
        \A a \in Names :
            LET id == find(Pool[a])
                waiting == {m \in DOMAIN nodes : nodes[m].alive
                               /\ nodes[m].placeholder /\ nodes[m].name = id}
            IN  execute_leaf(Leaf("HasChild", Pool[a])).nodes =
                   {n \in DOMAIN nodes : nodes[n].alive
                       /\ nodes[n].children \cap (lookup_by_name(id) \cup waiting) # {}}

\* NOT is no negation of a comparison, which fails on a node without the value:
\* each comparison and its opposite share no node, and every pair finds the same
\* nodes, those that have something to compare (query_eval.cpp:93-148).  The index
\* has no part in it: every table is looked at once, just after a build.
ComparisonsPartition ==
    Fresh => \A name \in Range(Pool), literal \in {[int |-> i] : i \in Data["Int"]}
                                        \cup {[text |-> t] : t \in Range(Pool)} :
        LET found(op) == execute_leaf(FieldCmp(name, op, literal)).nodes
            comparable == {n \in DOMAIN nodes : /\ nodes[n].alive
                              /\ \E f \in FieldNamed(nodes[n].kind, name) :
                                    \E v \in nodes[n].fields[f] :
                                        v.type \in IF "text" \in DOMAIN literal THEN {"Atom"}
                                                  ELSE {"Int", "Ref", "Atom"}}
        IN  /\ \A pair \in {<< "EQ", "NEQ" >>, << "LT", "GE" >>, << "LE", "GT" >>} :
                  /\ found(pair[1]) \cup found(pair[2]) = comparable
                  /\ found(pair[1]) \cap found(pair[2]) = {}
            /\ found("LE") = found("LT") \cup found("EQ")
=============================================================================
