----------------------------- MODULE Validator ------------------------------
(***************************************************************************)
(* validate_graph of src/src/validator.cpp: the report on the final node   *)
(* table.  Soft problems (placeholders, dangling refs) are always counted  *)
(* and become issues only in strict mode.                                  *)
(***************************************************************************)
EXTENDS ReplayVM

CONSTANT Required   \* Required[k]: the fields kind k flags as required

ASSUME RequiredAssumption ==
    /\ Required \in [Kinds -> SUBSET Fields]
    /\ \A k \in Kinds, f \in Fields :
            f \in Required[k] => FieldType[k][f] # "Invalid"

\* A placeholder is looked at before its alive flag, so a dropped one counts.
Placeholders_slip_live_only ==
    {n \in DOMAIN nodes : nodes[n].placeholder /\ nodes[n].alive}
LiveNodes_slip_dead_too == {n \in DOMAIN nodes : ~ nodes[n].placeholder}

Placeholders == {n \in DOMAIN nodes : nodes[n].placeholder}
LiveNodes == {n \in DOMAIN nodes : ~ nodes[n].placeholder /\ nodes[n].alive}

BadKinds == {n \in LiveNodes : nodes[n].kind \notin Kinds}
Checked == LiveNodes \ BadKinds

MissingRequired ==
    {nf \in Checked \X Fields :
        nf[2] \in Required[nodes[nf[1]].kind] /\ nodes[nf[1]].fields[nf[2]] = {}}

DanglingRefs_slip_range_only ==
    UNION {{<< n, t >> : t \in {u \in nodes[n].refs : ~ InRange(u)}} : n \in Checked}

\* Refs must be in range and alive; children are only checked for range.
DanglingRefs ==
    UNION {{<< n, t >> : t \in {u \in nodes[n].refs :
                                    ~ InRange(u) \/ ~ nodes[u].alive}} :
           n \in Checked}
DanglingChildren ==
    UNION {{<< n, k >> : k \in {j \in DOMAIN nodes[n].children :
                                    ~ InRange(nodes[n].children[j])}} :
           n \in Checked}

\* Issues are kept as the set of (code, node) pairs reported.
validate_graph(strict) ==
    LET hard == {<< "KindOutOfRange", n >> : n \in BadKinds} \cup
                {<< "InvariantViolation", nf[1] >> : nf \in MissingRequired}
        soft == {<< "UnresolvedRef", n >> : n \in Placeholders} \cup
                {<< "UnresolvedRef", e[1] >> : e \in DanglingRefs \cup DanglingChildren}
    IN  [ issues |-> IF strict THEN hard \cup soft ELSE hard,
          live_nodes |-> Cardinality(LiveNodes),
          dangling_refs |-> Cardinality(DanglingRefs) + Cardinality(DanglingChildren),
          unfilled_placeholders |-> Cardinality(Placeholders),
          missing_required |-> Cardinality(MissingRequired) ]

EmptyReport ==
    [ issues |-> {}, live_nodes |-> 0, dangling_refs |-> 0,
      unfilled_placeholders |-> 0, missing_required |-> 0 ]
=============================================================================
