---------------------------- MODULE MCGraphDiff ----------------------------
(***************************************************************************)
(* Small instances of GraphDiff.                                           *)
(***************************************************************************)
EXTENDS GraphDiff, TLC

PlainAndLinked == {"plain", "linked"}
LinkedKind == {"linked"}
LinkField == {"link"}

\* Only the kind "linked" has the field.
LinkedSchema ==
    [k \in PlainAndLinked |->
        [f \in LinkField |-> IF k = "linked" THEN "Ref" ELSE "Invalid"]]
OneKindSchema == [k \in LinkedKind |-> [f \in LinkField |-> "Ref"]]

\* Names are only compared, and every order of them is tried.
NamesAlike == Permutations(Atoms)

DiffCodes ==
    { "NEW_NODE", "DROP_NODE", "SET_FIELD", "BEGIN_GROUP", "ADD_CHILD", "END_GROUP" }
FieldCodes == {"NEW_NODE", "SET_FIELD", "DROP_NODE"}
=============================================================================
