------------------------------ MODULE MCLoader ------------------------------
(***************************************************************************)
(* Small instances of Loader.                                              *)
(***************************************************************************)
EXTENDS Loader, TLC

LinkFields == {"ref", "list"}
LeafKind == {"leaf"}
LinkKind == {"link"}

\* "leaf" declares no field; "link" declares a Ref and, where it says so, a List.
LeafSchema == [k \in LeafKind |-> << >>]
LinkSchema ==
    [k \in LinkKind |-> [f \in LinkFields |-> IF f = "ref" THEN "Ref" ELSE "List"]]
NothingRequired == [k \in LeafKind |-> {}]
RefRequired == [k \in LinkKind |-> {"ref"}]

GroupCodes == {"NEW_NODE", "DROP_NODE", "BEGIN_GROUP", "ADD_CHILD", "END_GROUP"}
RefCodes == {"NEW_NODE", "DROP_NODE", "SET_FIELD", "LINK_REF"}

NameSymmetry == Permutations(Atoms)
=============================================================================
