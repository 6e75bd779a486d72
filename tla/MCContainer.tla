---------------------------- MODULE MCContainer ----------------------------
(***************************************************************************)
(* A small instance of Container: bytes of four bits, of which three are a *)
(* group of a varint, and words of four bytes.                             *)
(***************************************************************************)
EXTENDS Container

MCTags == Atom..Meta
MCOtherTags == Meta + 1 .. TopU32
MCMagic == << 5 >>

A == << 1 >>
B == << 2, 3 >>
Field(type) == [name |-> 1, type |-> type, flags |-> 1]
FiveFields == [t \in 1..5 |-> Field(t - 1)]
Val(type, data) == [type |-> type, data |-> data]

MCInputs ==
    [ texts |-> {A, B, << 1, 1, 1 >>},
      ids |-> {0, 9, kInvalidAtom},
      kinds |-> {<< Field(IntType) >>, << Field(RefType), Field(ListType) >>},
      fields |-> {0, 1},
      codes |-> {NewNode, BeginGroup, EndGroup, AddChild, LinkRef, DropNode},
      flags |-> {ByteBase - 1},
      data |-> [ t \in ValueTypes |->
          CASE t = IntType -> {<< -1 >>, << WordSize \div 2 - 1 >>}
            [] t = FloatType -> {<< WordSize - 2 >>}
            [] t = AtomType -> {<< 0 >>}
            [] t = RefType -> {<< 0 >>, << kInvalidNode >>}
            [] t = ListType -> {<< >>, << 0, 9 >>, << 0, 0, 0 >>} ] ]

Op(code, args) == [code |-> code, args |-> args, value |-> << >>]

Empty ==
    [ atoms |-> << >>, kinds |-> << >>, heap |-> << >>, journal |-> << >>,
      xref |-> << >>, meta |-> << >>, emit_xref |-> FALSE, emit_meta |-> FALSE,
      header_flags |-> 0 ]

\* A container that has every section, every type and every opcode.  Its journal fills
\* the table with a node and a placeholder, for which the group has reserved the slot.
Full ==
    [ atoms |-> << A, B >>,
      kinds |-> << [name |-> 0, fields |-> FiveFields] >>,
      heap |-> << [kind |-> 0, name |-> 1, fields |->
                     << [field |-> 0, value |-> Val(IntType, << -9 >>)],
                        [field |-> 1, value |-> Val(FloatType, << 259 >>)],
                        [field |-> 2, value |-> Val(AtomType, << 1 >>)],
                        [field |-> 3, value |-> Val(RefType, << 0 >>)],
                        [field |-> 4, value |-> Val(ListType, << 0, 9 >>)] >>] >>,
      journal |-> << Op(NewNode, << 0, 0 >>),
                     [Op(SetField, << 0, 0 >>) EXCEPT !.value = << Val(IntType, << 7 >>) >>],
                     Op(BeginGroup, << 1, 1 >>), Op(AddChild, << kInvalidAtom >>),
                     Op(EndGroup, << >>), Op(LinkRef, << 0, 3, 0 >>), Op(DropNode, << 1 >>),
                     Op(Snapshot, << 0 >>), Op(SetMeta, << 0, 1 >>), Op(Nop, << >>) >>,
      xref |-> << << 0, 2 >> >>, meta |-> << << 0, 1 >>, << 0, kInvalidAtom >> >>,
      emit_xref |-> TRUE, emit_meta |-> TRUE, header_flags |-> 1 ]

\* A node that may be given its field a second time, and none for its second.
Started ==
    [ Empty EXCEPT
        !.atoms = << A, B >>,
        !.kinds = << [name |-> 1, fields |-> << Field(IntType), Field(ListType) >>] >>,
        !.heap = << [kind |-> 0, name |-> kInvalidAtom, fields |->
                        << [field |-> 0, value |-> Val(IntType, << 3 >>)] >>] >> ]

\* A group that is still open, with a child nobody has defined and no slot for it.
Grouped ==
    [ Started EXCEPT
        !.heap[1].name = 0,
        !.journal = << Op(BeginGroup, << 0, 0 >>), Op(AddChild, << 1 >>) >> ]

MCDrafts == {Empty, Started, Grouped, Full}
=============================================================================
