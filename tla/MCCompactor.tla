---------------------------- MODULE MCCompactor ----------------------------
(***************************************************************************)
(* Small instances of Compactor.                                           *)
(***************************************************************************)
EXTENDS Compactor

LeafKind == {"leaf"}
LinkField == {"link"}
RefOrList == {"single", "several"}

\* "leaf" declares no field.
LeafSchema == [k \in LeafKind |-> << >>]

\* The same field is a Ref in one kind and a List in the other.
LinkSchema ==
    [k \in RefOrList |-> [f \in LinkField |-> IF k = "single" THEN "Ref" ELSE "List"]]

CompactCodes ==
    { "NEW_NODE", "DROP_NODE", "SET_FIELD", "LINK_REF", "BEGIN_GROUP",
      "ADD_CHILD", "END_GROUP", "NOP" }
GroupCodes == {"NEW_NODE", "BEGIN_GROUP", "ADD_CHILD", "END_GROUP"}
=============================================================================
