----------------------------- MODULE MCReplayVM -----------------------------
(***************************************************************************)
(* Small instances of ReplayVM: a schema of one kind without fields and    *)
(* one with reference fields, names that are interchangeable.              *)
(***************************************************************************)
EXTENDS ReplayVM, TLC

LeafKind == {"leaf"}
BothKinds == {"leaf", "link"}
RefField == {"ref"}

\* "leaf" declares no field, "link" declares a Ref.
LeafSchema == [k \in LeafKind |-> << >>]
RefSchema ==
    [k \in BothKinds |-> [f \in RefField |-> IF k = "link" THEN "Ref" ELSE "Invalid"]]

GroupCodes == {"NEW_NODE", "BEGIN_GROUP", "ADD_CHILD", "END_GROUP"}
AllCodes == GroupCodes \cup
    {"DROP_NODE", "SET_FIELD", "LINK_REF", "SNAPSHOT", "SET_META", "NOP"}

\* Names play the same part everywhere: any permutation of them is a symmetry.
NameSymmetry == Permutations(Atoms)

=============================================================================
