----------------------------- MODULE Container -----------------------------
(***************************************************************************)
(* The .svm file: src/src/builder.cpp authors one, byte by byte, and the   *)
(* decoders of the sections (atom_pool.cpp, schema.cpp, heap.cpp,          *)
(* value.cpp, xref_index.cpp, loader.cpp) read it back in the order of     *)
(* load().  In between a byte may change or the end of the file be lost.   *)
(*                                                                         *)
(* Ids are those of the code, from zero on: id n is at index n + 1.        *)
(***************************************************************************)
EXTENDS SectionTable, ByteCodec

CONSTANTS
    Magic,         \* kMagic
    MaxAtoms, MaxAtomLen, MaxKinds, MaxFieldsPerKind, MaxNodes, MaxListLen,
    MaxJournalOps, MaxGroupDepth,   \* limits.max_*
    MaxReserve,    \* nodes that can be allocated: reserve() beyond throws
    Drafts,        \* bound: the builders that authoring goes on from
    Inputs,        \* bound: the arguments of the builder's methods
    MaxCalls,      \* bound: calls on top of a draft
    MaxCallsBeforeDamage,  \* bound: calls on top of a draft that is damaged
    DamageBytes    \* bound: what a damaged byte turns into

\* SectionTag, in the order in which serialize() writes and load() reads.
Atom == 1
Schema == 2
Heap == 3
Journal == 4
Xref == 5
Meta == 6

\* ValueType and OpCode.
ValueTypes == 0..4
IntType == 0
FloatType == 1
AtomType == 2
RefType == 3
ListType == 4
OpCodes == 1..10
NewNode == 1
SetField == 2
BeginGroup == 3
EndGroup == 4
AddChild == 5
LinkRef == 6
DropNode == 7
Snapshot == 8
SetMeta == 9
Nop == 10

kVersionMajor == 1
kVersionMinor == 0
kInvalidAtom == TopU32
kInvalidNode == TopU32
kInvalidKind == TopU32

ASSUME FormatAssumption ==
    /\ Magic \in Seq(Byte)
    /\ MaxU32 = TopU32
    /\ KnownTags = Atom..Meta /\ Unknown = 0 /\ OtherTags = Meta + 1 .. TopU32
    /\ {MaxAtoms, MaxAtomLen, MaxKinds, MaxFieldsPerKind, MaxNodes, MaxListLen,
        MaxJournalOps, MaxGroupDepth, MaxReserve} \subseteq Nat

\* What the builder's members hold: a value of every type but a list is one number.
Values == {v \in [type : ValueTypes, data : Seq(Int)] : v.type # ListType => Len(v.data) = 1}
FieldDefs == [name : Nat, type : ValueTypes, flags : Nat]
Builders ==
    [ atoms : Seq(Bytes),
      kinds : Seq([name : Nat, fields : Seq(FieldDefs)]),
      heap : Seq([ kind : Nat, name : Nat,
                   fields : Seq([field : Nat, value : Values]) ]),
      journal : Seq([code : OpCodes, args : Seq(Nat), value : Seq(Values)]),
      xref : Seq(Nat \X Nat), meta : Seq(Nat \X Nat),
      emit_xref : BOOLEAN, emit_meta : BOOLEAN, header_flags : Nat ]

ASSUME InputAssumption ==
    /\ Drafts \subseteq Builders /\ DamageBytes \subseteq Byte
    /\ Inputs.texts \subseteq Bytes /\ Inputs.kinds \subseteq Seq(FieldDefs)
    /\ Inputs.ids \cup Inputs.fields \cup Inputs.flags \subseteq Nat
    /\ Inputs.codes \subseteq OpCodes
    /\ \A t \in ValueTypes : \A d \in Inputs.data[t] : [type |-> t, data |-> d] \in Values

VARIABLES
    builder,   \* the ContainerBuilder: what has been authored
    calls,     \* calls of its methods after the draft
    file,      \* the bytes serialize() returned, as they reach load()
    fault,     \* what happened to them on the way: "none", "byte" or "cut"
    unread,    \* the ByteReader of the directory
    stage,     \* the section that load() is at
    loaded,    \* the LoadedContainer
    outcome    \* "loading", "ok", or the code a section's decoder returned

authoring == << builder, calls >>
loading == << unread, stage, loaded, outcome >>
containerVars == << vars, authoring, file, fault, loading >>

\* op_arity
Varints == << 2, 2, 2, 0, 1, 3, 1, 1, 2, 0 >>

-----------------------------------------------------------------------------
(* serialize() *)

Counted(items, Enc(_, _)) ==
    varint(Len(items)) \o FlattenSeq([i \in DOMAIN items |-> Enc(i, items[i])])

Ids(ids) == FlattenSeq([i \in DOMAIN ids |-> varint(ids[i])])

\* enc_int .. enc_list
enc(v) ==
    CASE v.type = IntType -> svarint(v.data[1])
      [] v.type = FloatType -> u64(v.data[1])
      [] v.type \in {AtomType, RefType} -> varint(v.data[1])
      [] v.type = ListType -> varint(Len(v.data)) \o Ids(v.data)

build_atom_section(c) == Counted(c.atoms, LAMBDA i, s : lp_string(s))

build_schema_section(c) ==
    Counted(c.kinds, LAMBDA i, k : varint(k.name) \o
        Counted(k.fields, LAMBDA j, f : varint(f.name) \o u8(f.type) \o u8(f.flags)))

build_heap_section(c) ==
    Counted(c.heap, LAMBDA i, n : Ids(<< i - 1, n.kind, n.name >>) \o
        Counted(n.fields, LAMBDA j, fv : varint(fv.field) \o enc(fv.value)))

build_journal_section(c) ==
    Counted(c.journal, LAMBDA i, op :
        u8(op.code) \o Ids(op.args)
        \o (IF op.value = << >> THEN << >> ELSE enc(op.value[1])))

build_xref_section(c) == Counted(c.xref, LAMBDA i, e : Ids(e))
build_meta_section(c) == Counted(c.meta, LAMBDA i, e : Ids(e))

payload(tag, c) ==
    CASE tag = Atom -> build_atom_section(c)
      [] tag = Schema -> build_schema_section(c)
      [] tag = Heap -> build_heap_section(c)
      [] tag = Journal -> build_journal_section(c)
      [] tag = Xref -> build_xref_section(c)
      [] tag = Meta -> build_meta_section(c)

Written(c) ==
    << Atom, Schema, Heap, Journal >>
    \o (IF c.emit_xref THEN << Xref >> ELSE << >>)
    \o (IF c.emit_meta THEN << Meta >> ELSE << >>)

header(c) ==
    Magic \o u8(kVersionMajor) \o u8(kVersionMinor) \o u16(c.header_flags)
    \o u32(Len(Written(c)))
blank_entry(tag) == u32(tag) \o u8(1) \o u8(0) \o u16(0) \o u32(0) \o u32(0)
kSectionEntrySize == Len(blank_entry(Unknown))

\* The payload goes to the end of the file, its place into the reserved slots.
place(out, slot, bytes) ==
    patch_u32(patch_u32(out \o bytes, slot, Len(out)), slot + U32Bytes, Len(bytes))

serialize(c) ==
    LET tags == Written(c)
        table == FlattenSeq([i \in DOMAIN tags |-> blank_entry(tags[i])])
        slot(i) == Len(header(c)) + i * kSectionEntrySize - 2 * U32Bytes
        out[i \in 0 .. Len(tags)] ==
            IF i = 0 THEN header(c) \o table
            ELSE place(out[i - 1], slot(i), payload(tags[i], c))
    IN  out[Len(tags)]

-----------------------------------------------------------------------------
(* The decoders of the sections *)

\* A value read that is not allowed ends the decoding with that code.
Require(res, Allowed, code) ==
    IF res.code = "ok" /\ res.value \notin Allowed THEN Failed(code, res.rest) ELSE res

\* Whatever error a nested decoder returned, this one returns code.
Renamed(code, res) == IF res.code = "ok" THEN res ELSE Failed(code, res.rest)

read_count_slip_one_more(limit, r) ==
    Require(read_varint_u32(r), 0 .. limit + 1, "LimitExceeded")
read_count(limit, r) ==
    Require(read_varint_u32(r), 0 .. limit, "LimitExceeded")

\* A count, within its limit, and as many items.
ReadCounted(limit, Read, r) ==
    Bind(read_count(limit, r), LAMBDA n, rest : Repeat(n, Read, rest))

ReadIds(n, r) == Repeat(n, Each([rest \in Bytes |-> read_varint_u32(rest)]), r)

\* The ids of a table; an atom id that the pool holds, and where anonymous, or none.
IdsOf(table) == 0 .. Len(table) - 1
InPool(atoms, a) == a \in IdsOf(atoms)
InPoolOrNone(atoms, a) == InPool(atoms, a) \/ a = kInvalidAtom
OrNone(ids) == ids \cup {kInvalidAtom}

decode_atoms(r) ==
    ReadCounted(MaxAtoms, Each([rest \in Bytes |->
        Renamed("BadAtomPool", read_lp_string(MaxAtomLen, rest))]), r)

read_field_def(atoms, r) ==
    Bind(Require(read_varint_u32(r), IdsOf(atoms), "BadSchema"), LAMBDA name, r1 :
    Bind(Require(read_u8(r1), ValueTypes, "BadSchema"), LAMBDA type, r2 :
    Bind(read_u8(r2), LAMBDA flags, r3 :
         Got([name |-> name, type |-> type, flags |-> flags], r3))))

read_kind(atoms, r) ==
    Bind(Require(read_varint_u32(r), IdsOf(atoms), "BadSchema"), LAMBDA name, r1 :
    Bind(ReadCounted(MaxFieldsPerKind,
                     Each([rest \in Bytes |-> read_field_def(atoms, rest)]), r1),
         LAMBDA fields, r2 : Got([name |-> name, fields |-> fields], r2)))

decode_schema(atoms, r) ==
    ReadCounted(MaxKinds, Each([rest \in Bytes |-> read_kind(atoms, rest)]), r)

\* Value::decode: exactly the bytes that the declared type implies.
decode_value(type, r) ==
    LET Typed(res) == Bind(res, LAMBDA data, rest :
                          Got([type |-> type, data |-> data], rest))
        One(res) == Typed(Bind(res, LAMBDA v, rest : Got(<< v >>, rest)))
    IN  CASE type = IntType -> One(read_svarint(r))
          [] type = FloatType -> One(read_f64(r))
          [] type \in {AtomType, RefType} -> One(read_varint_u32(r))
          [] type = ListType -> Typed(ReadCounted(MaxListLen,
                 Each([rest \in Bytes |-> read_varint_u32(rest)]), r))

\* Node::set_field and map assignment, one after another: the last one stays.
KeepLast_slip_first(pairs) ==
    [k \in {pairs[i][1] : i \in DOMAIN pairs} |->
        pairs[Min({i \in DOMAIN pairs : pairs[i][1] = k})][2]]
KeepLast(pairs) ==
    [k \in {pairs[i][1] : i \in DOMAIN pairs} |->
        pairs[Max({i \in DOMAIN pairs : pairs[i][1] = k})][2]]

read_field_value(kind, r) ==
    Bind(Require(read_varint_u32(r), IdsOf(kind.fields), "FieldOutOfRange"), LAMBDA f, r1 :
    Bind(Renamed("BadHeap", decode_value(kind.fields[f + 1].type, r1)),
         LAMBDA v, r2 : Got(<< f, v >>, r2)))

read_values(kind, r) ==
    Bind(Require(read_varint_u32(r), 0 .. Len(kind.fields), "BadHeap"), LAMBDA n, r1 :
         Repeat(n, Each([rest \in Bytes |-> read_field_value(kind, rest)]), r1))

read_heap_node(id, atoms, kinds, r) ==
    Bind(Require(read_varint_u32(r), {id}, "BadHeap"), LAMBDA on_disk_id, r1 :
    Bind(Require(read_varint_u32(r1), IdsOf(kinds), "KindOutOfRange"), LAMBDA kind, r2 :
    Bind(Require(read_varint_u32(r2), OrNone(IdsOf(atoms)), "AtomOutOfRange"),
         LAMBDA name, r3 :
    Bind(read_values(kinds[kind + 1], r3), LAMBDA values, r4 :
         Got([kind |-> kind, name |-> name, fields |-> KeepLast(values)], r4)))))

decode_heap(atoms, kinds, r) ==
    ReadCounted(MaxNodes, [i \in Nat |-> [rest \in Bytes |->
        read_heap_node(i - 1, atoms, kinds, rest)]], r)

\* Entries of two ids each.
ReadPairs(limit, Allowed, code, r) ==
    ReadCounted(limit, Each([rest \in Bytes |-> Require(ReadIds(2, rest), Allowed, code)]), r)

\* decode_and_reconcile: node_count nodes are left by the journal.
decode_xref(atoms, node_count, r) ==
    ReadPairs(MaxNodes,
              OrNone(IdsOf(atoms)) \X ((0 .. node_count - 1) \cup {kInvalidNode}), "BadXref", r)

decode_meta_section(atoms, r) ==
    Bind(ReadPairs(MaxAtoms, IdsOf(atoms) \X OrNone(IdsOf(atoms)), "AtomOutOfRange", r),
         LAMBDA pairs, rest : Got(KeepLast(pairs), rest))

-----------------------------------------------------------------------------
(* The journal.  ReplayVM has the whole machine, for operands of any value; *)
(* here the operands come from bytes, and of the machine there is what      *)
(* decides how run() reads and how it ends: a record of                     *)
(*   nodes     nodes_, of which kind, name and alive                        *)
(*   names     name_index_, a function of the bound names                   *)
(*   capacity  nodes_.capacity()                                            *)
(*   frames    frames_, of which the queued children and whether            *)
(*             owner_cache still points into the table                      *)
(*   ops       the operations that have run (for the properties)            *)

seeded(heap) ==
    LET named == {i \in DOMAIN heap : heap[i].name # kInvalidAtom}
    IN  [ nodes |-> [i \in DOMAIN heap |->
              [kind |-> heap[i].kind, name |-> heap[i].name, alive |-> TRUE]],
          names |-> [a \in {heap[i].name : i \in named} |->
              Max({i \in named : heap[i].name = a}) - 1],
          capacity |-> Len(heap), frames |-> << >>, ops |-> << >> ]

find_named(m, a) == IF a \in DOMAIN m.names THEN m.names[a] ELSE kInvalidNode
InTable(m, n) == n \in IdsOf(m.nodes)
Live(m, n) == InTable(m, n) /\ m.nodes[n + 1].alive

\* The fields that the kind of a node declares; a placeholder has no kind.
FieldsAt(kinds, m, n) ==
    IF InTable(m, n) /\ m.nodes[n + 1].kind \in IdsOf(kinds)
    THEN kinds[m.nodes[n + 1].kind + 1].fields ELSE << >>

\* The table moves and the owner pointers of open groups dangle (ReplayVM!AfterMove).
Lost(frames) == [i \in DOMAIN frames |-> [frames[i] EXCEPT !.cached = FALSE]]

\* nodes_.push_back and register_name
push(m, kind, name) ==
    LET moves == Len(m.nodes) = m.capacity
        id == Len(m.nodes)
    IN  [m EXCEPT !.nodes = Append(@, [kind |-> kind, name |-> name, alive |-> TRUE]),
                  !.names = IF name = kInvalidAtom THEN @
                            ELSE [a \in DOMAIN @ \cup {name} |-> IF a = name THEN id ELSE @[a]],
                  !.capacity = IF moves THEN Max({1, 2 * @}) ELSE @,
                  !.frames = IF moves THEN Lost(@) ELSE @]

begin_group(m, hint) ==
    LET room == Len(m.nodes) + hint
    IN  [m EXCEPT !.capacity = Max({@, room}),
                  !.frames = Append(IF room > m.capacity THEN Lost(@) ELSE @,
                                    [cached |-> TRUE, deferred |-> << >>])]

\* resolve_frame: a placeholder for each child that has no node when its turn comes.
resolved(m) ==
    LET link(t, name) == IF find_named(t, name) = kInvalidNode
                         THEN push(t, kInvalidKind, name) ELSE t
    IN  FoldLeft(link, m, Last(m.frames).deferred)

\* The last child, at least, is linked through a pointer into a freed table.
Dangles(m) ==
    m.frames # << >> /\ Last(m.frames).deferred # << >> /\ ~ Last(resolved(m).frames).cached

drop_node(m, n) ==
    IF ~ Live(m, n) THEN m
    ELSE [m EXCEPT !.nodes[n + 1].alive = FALSE,
                   !.names = [a \in {b \in DOMAIN @ : @[b] # n} |-> @[a]]]

\* What the handler of an operation asks, in its order, with the code it returns if
\* the answer is no.  A hint that cannot be allocated is an exception; a group that
\* is resolved through a dangling pointer may kill the process.
Checks(atoms, kinds, survives, m, op) ==
    LET a == op.args
        owner == find_named(m, a[1])
        fields == FieldsAt(kinds, m, a[1])
    IN  CASE op.code = NewNode ->
                 << << a[1] \in IdsOf(kinds), "KindOutOfRange" >>,
                    << InPoolOrNone(atoms, a[2]), "AtomOutOfRange" >>,
                    << Len(m.nodes) < MaxNodes, "LimitExceeded" >> >>
          [] op.code = SetField -> << << Live(m, a[1]), "InvariantViolation" >> >>
          [] op.code = BeginGroup ->
                 << << Len(m.frames) < MaxGroupDepth, "GroupOverflow" >>,
                    << owner # kInvalidNode, "UnresolvedRef" >>,
                    << Live(m, owner), "InvariantViolation" >>,
                    << Len(m.nodes) + a[2] <= MaxReserve, "bad_alloc" >> >>
          [] op.code = EndGroup ->
                 << << m.frames # << >>, "GroupUnderflow" >>,
                    << survives \/ ~ Dangles(m), "crashed" >> >>
          [] op.code = AddChild ->
                 << << m.frames # << >>, "GroupUnderflow" >>,
                    << InPoolOrNone(atoms, a[1]), "AtomOutOfRange" >> >>
          [] op.code = LinkRef ->
                 << << InTable(m, a[1]), "NodeOutOfRange" >>,
                    << a[2] \in {f \in IdsOf(fields) : fields[f + 1].type = RefType},
                       "TypeMismatch" >> >>
          [] op.code = DropNode -> << << InTable(m, a[1]), "NodeOutOfRange" >> >>
          [] op.code = Snapshot -> << << InPoolOrNone(atoms, a[1]), "AtomOutOfRange" >> >>
          [] op.code = SetMeta ->
                 << << InPool(atoms, a[1]), "AtomOutOfRange" >>,
                    << InPoolOrNone(atoms, a[2]), "AtomOutOfRange" >> >>
          [] op.code = Nop -> << >>

\* What it leaves of the machine.
Effect(m, op) ==
    CASE op.code = NewNode -> push(m, op.args[1], op.args[2])
      [] op.code = BeginGroup -> begin_group(m, op.args[2])
      [] op.code = EndGroup -> [resolved(m) EXCEPT !.frames = Front(@)]
      [] op.code = AddChild ->
             [m EXCEPT !.frames[Len(m.frames)].deferred = Append(@, op.args[1])]
      [] op.code = DropNode -> drop_node(m, op.args[1])
      [] OTHER -> m

execute(atoms, kinds, survives, m, op, r) ==
    LET checks == Checks(atoms, kinds, survives, m, op)
        failed == {i \in DOMAIN checks : ~ checks[i][1]}
    IN  IF failed # {} THEN Failed(checks[Min(failed)][2], r)
        ELSE Got([Effect(m, op) EXCEPT !.ops = Append(@, op)], r)

\* A SET_FIELD value is of the type that the node it is for declares at that moment.
read_op(kinds, m, r) ==
    Bind(Require(read_u8(r), OpCodes, "BadOpcode"), LAMBDA code, r1 :
    Bind(ReadIds(Varints[code], r1), LAMBDA args, r2 :
         LET fields == FieldsAt(kinds, m, args[1])
             op == [code |-> code, args |-> args, value |-> << >>]
         IN  IF code # SetField THEN Got(op, r2)
             ELSE IF ~ InTable(m, args[1]) THEN Failed("NodeOutOfRange", r2)
             ELSE IF args[2] \notin IdsOf(fields) THEN Failed("FieldOutOfRange", r2)
             ELSE Bind(decode_value(fields[args[2] + 1].type, r2),
                       LAMBDA v, r3 : Got([op EXCEPT !.value = << v >>], r3))))

\* Every group that was begun has been ended.
balanced(res) ==
    Bind(res, LAMBDA m, rest :
         IF m.frames # << >> THEN Failed("GroupUnderflow", rest) ELSE res)

run(atoms, kinds, survives, m, r) ==
    Bind(read_count(MaxJournalOps, r), LAMBDA n, first :
         LET after[i \in 0 .. n] ==
                 IF i = 0 THEN Got(m, first)
                 ELSE Bind(after[i - 1], LAMBDA t, r1 :
                      Bind(read_op(kinds, t, r1), LAMBDA op, r2 :
                           execute(atoms, kinds, survives, t, op, r2)))
         IN  balanced(after[n]))

-----------------------------------------------------------------------------
(* The methods of the builder *)

Authoring == file = << >> /\ calls < MaxCalls
Author(b) ==
    /\ builder' = b
    /\ calls' = calls + 1
    /\ UNCHANGED << vars, file, fault, loading >>

\* A text that is in the pool keeps its id.
atom(text) ==
    /\ Authoring
    /\ Author(IF \E i \in DOMAIN builder.atoms : builder.atoms[i] = text THEN builder
              ELSE [builder EXCEPT !.atoms = Append(@, text)])

define_kind(name, fields) ==
    /\ Authoring
    /\ Author([builder EXCEPT !.kinds = Append(@, [name |-> name, fields |-> fields])])

heap_node(kind, name) ==
    /\ Authoring
    /\ Author([builder EXCEPT
           !.heap = Append(@, [kind |-> kind, name |-> name, fields |-> << >>])])

\* heap_int .. heap_list
heap_set(node, field, v) ==
    /\ Authoring
    /\ Author([builder EXCEPT !.heap[node + 1].fields =
                  Append(@, [field |-> field, value |-> v])])

\* op_new_node .. op_nop and, with a value, op_set_int .. op_set_list
emit(code, args, value) ==
    /\ Authoring
    /\ Author([builder EXCEPT !.journal =
                  Append(@, [code |-> code, args |-> args, value |-> value])])

xref_entry(name, node) ==
    /\ Authoring
    /\ Author([builder EXCEPT !.xref = Append(@, << name, node >>), !.emit_xref = TRUE])
meta_entry(key, value) ==
    /\ Authoring
    /\ Author([builder EXCEPT !.meta = Append(@, << key, value >>), !.emit_meta = TRUE])
set_emit_xref(on) == Authoring /\ Author([builder EXCEPT !.emit_xref = on])
set_emit_meta(on) == Authoring /\ Author([builder EXCEPT !.emit_meta = on])
set_header_flags(bits) == Authoring /\ Author([builder EXCEPT !.header_flags = bits])

\* Callers use the setter of the type that the field's kind declares.
HeapIds == {i - 1 : i \in DOMAIN builder.heap}
TypeAt(node, field) ==
    LET kind == builder.heap[node + 1].kind
    IN  IF kind < Len(builder.kinds) /\ field < Len(builder.kinds[kind + 1].fields)
        THEN builder.kinds[kind + 1].fields[field + 1].type ELSE IntType
ValuesAt(node, field) ==
    {[type |-> TypeAt(node, field), data |-> d] : d \in Inputs.data[TypeAt(node, field)]}

Build ==
    \/ \E text \in Inputs.texts : atom(text)
    \/ \E name \in Inputs.ids, fields \in Inputs.kinds : define_kind(name, fields)
    \/ \E kind, name \in Inputs.ids : heap_node(kind, name)
    \/ \E node \in HeapIds, field \in Inputs.fields : \E v \in ValuesAt(node, field) :
           \/ heap_set(node, field, v)
           \/ emit(SetField, << node, field >>, << v >>)
    \/ \E code \in Inputs.codes : \E args \in [1..Varints[code] -> Inputs.ids] :
           emit(code, args, << >>)
    \/ \E name, node \in Inputs.ids : xref_entry(name, node)
    \/ \E key, value \in Inputs.ids : meta_entry(key, value)
    \/ \E on \in BOOLEAN : set_emit_xref(on) \/ set_emit_meta(on)
    \/ \E bits \in Inputs.flags : set_header_flags(bits)

-----------------------------------------------------------------------------
(* The file on its way, and load() *)

Serialize ==
    /\ file = << >>
    /\ file' = serialize(builder)
    /\ UNCHANGED << vars, authoring, fault, loading >>

InTransit == file # << >> /\ status = "closed" /\ fault = "none"
             /\ calls <= MaxCallsBeforeDamage
Damage(i, byte) ==
    /\ InTransit
    /\ file[i] # byte
    /\ file' = [file EXCEPT ![i] = byte]
    /\ fault' = "byte"
    /\ UNCHANGED << vars, authoring, loading >>
Cut(n) ==
    /\ InTransit
    /\ file' = SubSeq(file, 1, n)
    /\ fault' = "cut"
    /\ UNCHANGED << vars, authoring, loading >>

\* load(): the reader of the whole file, which the directory is read with.
OpenFile ==
    /\ file # << >>
    /\ Open(Len(file))
    /\ unread' = file
    /\ UNCHANGED << authoring, file, fault, stage, loaded, outcome >>

read_fields(widths, r) ==
    Repeat(Len(widths), [i \in Nat |-> [rest \in Bytes |-> read_fixed(widths[i], rest)]], r)

\* Major and minor version, flags, section count.
read_version(r) ==
    Require(read_fields(<< 1, 1, U16Bytes, U32Bytes >>, r),
            {kVersionMajor} \X Nat \X Nat \X Nat, "UnsupportedVersion")
read_header(r) ==
    Bind(Require(read_bytes(Len(Magic), r), {Magic}, "BadMagic"), LAMBDA magic, r1 :
    Bind(Require(read_version(r1), Nat \X Nat \X Nat \X (0 .. MaxSections), "LimitExceeded"),
         LAMBDA h, r2 : Got(h[4], r2)))

\* Tag, version, a reserved byte, flags, offset and length.
read_entry(r) ==
    Bind(read_fields(<< U32Bytes, 1, 1, U16Bytes, U32Bytes, U32Bytes >>, r),
         LAMBDA e, rest : Got([tag |-> e[1], offset |-> e[5], length |-> e[6]], rest))

DecodeHeader ==
    LET res == read_header(unread)
    IN  /\ status = "header"
        /\ IF res.code = "ok" THEN ReadHeader(res.value) ELSE RejectHeader(res.code)
        /\ unread' = res.rest
        /\ UNCHANGED << authoring, file, fault, stage, loaded, outcome >>

DecodeEntry ==
    LET res == read_entry(unread)
    IN  /\ status = "reading" /\ left > 0
        /\ IF res.code = "ok" THEN ReadEntry(res.value) \/ RejectEntry(res.value)
           ELSE RejectHeader(res.code)
        /\ unread' = res.rest
        /\ UNCHANGED << authoring, file, fault, stage, loaded, outcome >>

FinishDirectory == Finish /\ UNCHANGED << authoring, file, fault, loading >>

section_reader(tag) ==
    LET e == entries[find(tag)] IN window(file, e.offset, e.length)

\* A section the directory does not list is left empty.
LoadSection(tag, part, Decode(_)) ==
    /\ status = "ok" /\ outcome = "loading" /\ stage = tag
    /\ IF find(tag) = 0 THEN stage' = stage + 1 /\ UNCHANGED << loaded, outcome >>
       ELSE LET res == Decode(section_reader(tag))
            IN  \/ /\ res.code = "ok"
                   /\ loaded' = [loaded EXCEPT ![part] = res.value]
                   /\ stage' = stage + 1
                   /\ UNCHANGED outcome
                \/ /\ res.code # "ok"
                   /\ outcome' = res.code
                   /\ UNCHANGED << stage, loaded >>
    /\ UNCHANGED << vars, authoring, file, fault, unread >>

LoadAtoms == LoadSection(Atom, "atoms", decode_atoms)
LoadSchema == LoadSection(Schema, "kinds", LAMBDA r : decode_schema(loaded.atoms, r))
LoadHeap == LoadSection(Heap, "heap", LAMBDA r : decode_heap(loaded.atoms, loaded.kinds, r))

\* vm.run(): whatever its handlers return ends the load; `survives' is what becomes
\* of the process where a group is resolved through a dangling pointer.
LoadJournal ==
    \E survives \in BOOLEAN :
        LoadSection(Journal, "journal", LAMBDA r :
            run(loaded.atoms, loaded.kinds, survives, seeded(loaded.heap), r))

\* The machine after the journal; there may be none.
Replayed == IF find(Journal) = 0 THEN seeded(loaded.heap) ELSE loaded.journal

LoadXref ==
    LoadSection(Xref, "xref", LAMBDA r :
        decode_xref(loaded.atoms, Len(Replayed.nodes), r))
LoadMeta ==
    LoadSection(Meta, "meta", LAMBDA r : decode_meta_section(loaded.atoms, r))

Return ==
    /\ outcome = "loading" /\ stage > Meta
    /\ outcome' = "ok"
    /\ UNCHANGED << vars, authoring, file, fault, unread, stage, loaded >>

Returned == outcome # "loading" \/ (Decoded /\ status # "ok")

ContainerInit ==
    /\ Init
    /\ builder \in Drafts
    /\ calls = 0
    /\ file = << >> /\ fault = "none" /\ unread = << >>
    /\ stage = Atom
    /\ loaded = [atoms |-> << >>, kinds |-> << >>, heap |-> << >>, journal |-> << >>,
                 xref |-> << >>, meta |-> << >>]
    /\ outcome = "loading"

ContainerNext ==
    \/ Build
    \/ Serialize
    \/ \E i \in DOMAIN file, byte \in DamageBytes : Damage(i, byte)
    \/ \E n \in 1 .. Len(file) - 1 : Cut(n)
    \/ OpenFile \/ DecodeHeader \/ DecodeEntry \/ FinishDirectory
    \/ LoadAtoms \/ LoadSchema \/ LoadHeap \/ LoadJournal \/ LoadXref \/ LoadMeta
    \/ Return
    \/ Returned /\ UNCHANGED containerVars

ContainerSpec == ContainerInit /\ [][ContainerNext]_containerVars
-----------------------------------------------------------------------------
(* Properties *)

Result == IF outcome = "loading" THEN status ELSE outcome

\* Before anything is authored: the numbers that the rest is made of are read as
\* they were written (VarintsRead states what that takes).
NumbersAreRead == calls = 0 /\ file = << >> => VarintsRead

\* What the decoders hold of the atoms, kinds and nodes of a container, where
\* node n has the fields that the pairs of fieldsOf(n) give.
PoolFits(atoms) ==
    Len(atoms) <= MaxAtoms /\ \A i \in DOMAIN atoms : Len(atoms[i]) <= MaxAtomLen

SchemaFits(atoms, kinds) ==
    /\ Len(kinds) <= MaxKinds
    /\ \A i \in DOMAIN kinds :
          /\ InPool(atoms, kinds[i].name)
          /\ Len(kinds[i].fields) <= MaxFieldsPerKind
          /\ \A j \in DOMAIN kinds[i].fields :
                /\ InPool(atoms, kinds[i].fields[j].name)
                /\ kinds[i].fields[j].type \in ValueTypes

ValueFits(kinds, kind, field, v) ==
    /\ field < Len(kinds[kind + 1].fields)
    /\ v.type = kinds[kind + 1].fields[field + 1].type
    /\ v.type = ListType => Len(v.data) <= MaxListLen

HeapFits(atoms, kinds, heap, FieldsOf(_)) ==
    /\ Len(heap) <= MaxNodes
    /\ \A i \in DOMAIN heap :
          /\ heap[i].kind < Len(kinds)
          /\ InPoolOrNone(atoms, heap[i].name)
          /\ \A fv \in FieldsOf(heap[i]) : ValueFits(kinds, heap[i].kind, fv[1], fv[2])

Set(node) == {<< node.fields[k].field, node.fields[k].value >> : k \in DOMAIN node.fields}
Held(node) == {<< f, node.fields[f] >> : f \in DOMAIN node.fields}

\* The journal run on the operations themselves, with no bytes in between: each value
\* must be of the type that its node declares when its turn comes.
Fits(kinds, m, op) ==
    op.code = SetField =>
        /\ op.args[2] \in IdsOf(FieldsAt(kinds, m, op.args[1]))
        /\ ValueFits(kinds, m.nodes[op.args[1] + 1].kind, op.args[2], op.value[1])

Performed(b, survives) ==
    LET after[i \in 0 .. Len(b.journal)] ==
            IF i = 0 THEN Got(seeded(b.heap), << >>)
            ELSE Bind(after[i - 1], LAMBDA m, r :
                 LET op == b.journal[i]
                 IN  IF Fits(b.kinds, m, op)
                     THEN execute(b.atoms, b.kinds, survives, m, op, r)
                     ELSE Failed("BadValue", r))
    IN  balanced(after[Len(b.journal)])

\* A container that the format can say and the machine can run: ids in range, every
\* limit kept, no node with more setter calls than its kind has fields, a journal
\* that no handler refuses, and XREF entries for nodes that there are after it.
Expressible(b) ==
    /\ PoolFits(b.atoms) /\ SchemaFits(b.atoms, b.kinds)
    /\ HeapFits(b.atoms, b.kinds, b.heap, Set)
    /\ \A i \in DOMAIN b.heap :
          Len(b.heap[i].fields) <= Len(b.kinds[b.heap[i].kind + 1].fields)
    /\ Len(b.journal) <= MaxJournalOps
    /\ Performed(b, TRUE).code = "ok"
    /\ b.emit_xref => Len(b.xref) <= MaxNodes /\ \A i \in DOMAIN b.xref :
          /\ InPoolOrNone(b.atoms, b.xref[i][1])
          /\ \/ InTable(Performed(b, TRUE).value, b.xref[i][2])
             \/ b.xref[i][2] = kInvalidNode
    /\ b.emit_meta => Len(b.meta) <= MaxAtoms /\ \A i \in DOMAIN b.meta :
          InPool(b.atoms, b.meta[i][1]) /\ InPoolOrNone(b.atoms, b.meta[i][2])

\* f holds, for each key of the pairs, what the last pair with that key says.
LastOf(f, pairs) ==
    /\ DOMAIN f = {pairs[k][1] : k \in DOMAIN pairs}
    /\ \A k \in DOMAIN pairs :
          (\A m \in DOMAIN pairs : m > k => pairs[m][1] # pairs[k][1])
              => f[pairs[k][1]] = pairs[k][2]

SameContent(b, l) ==
    /\ l.atoms = b.atoms /\ l.kinds = b.kinds
    /\ l.journal = Performed(b, TRUE).value
    /\ Len(l.heap) = Len(b.heap)
    /\ \A i \in DOMAIN b.heap :
          /\ l.heap[i].kind = b.heap[i].kind /\ l.heap[i].name = b.heap[i].name
          /\ LastOf(l.heap[i].fields, [k \in DOMAIN b.heap[i].fields |->
                 << b.heap[i].fields[k].field, b.heap[i].fields[k].value >>])
    /\ l.xref = IF b.emit_xref THEN b.xref ELSE << >>
    /\ LastOf(l.meta, IF b.emit_meta THEN b.meta ELSE << >>)

\* What the builder was told is what load() has: a file that reaches it whole is
\* accepted exactly when the format can express its content and the replay machine
\* runs its journal, operation for operation the one authored; a group that lost its
\* owner pointer is all that may kill a load then.  It gives back that content, the
\* last of several settings of a field or key, and the table the journal makes of it.
\* A file cut short is never accepted (builder.cpp against every decoder and the
\* error returns of run(); test_loader).
AuthoredIsLoaded ==
    Returned =>
        /\ fault = "none" =>
               /\ Result = "ok" => Expressible(builder) /\ SameContent(builder, loaded)
               /\ Expressible(builder) /\ Result # "ok" =>
                      Result = "crashed" /\ Performed(builder, FALSE).code = "crashed"
        /\ fault = "cut" => Result # "ok"

\* Whatever one byte of the file has become, what load() accepts is what the
\* replay machine takes for granted: ids in the pool, kinds and fields in the
\* schema, values of the type declared, lists within their limit (the checks of
\* the decoders, each against what another section has brought).
LoadedIsWellFormed ==
    Result = "ok" =>
        /\ PoolFits(loaded.atoms) /\ SchemaFits(loaded.atoms, loaded.kinds)
        /\ HeapFits(loaded.atoms, loaded.kinds, loaded.heap, Held)
        /\ \A key \in DOMAIN loaded.meta :
              InPool(loaded.atoms, key) /\ InPoolOrNone(loaded.atoms, loaded.meta[key])

\* The bytes that the builder writes for what a section brought.
Rebuilt(tag) ==
    CASE tag = Heap -> Len(build_heap_section([heap |-> [i \in DOMAIN loaded.heap |->
             [loaded.heap[i] EXCEPT !.fields = LET pairs == SetToSeq(Held(loaded.heap[i]))
              IN [k \in DOMAIN pairs |-> [field |-> pairs[k][1], value |-> pairs[k][2]]]]]]))
      [] tag = Meta -> Len(build_meta_section([meta |-> SetToSeq({<< k, loaded.meta[k] >> :
                                                   k \in DOMAIN loaded.meta})]))
      [] tag = Journal -> Len(build_journal_section([journal |-> loaded.journal.ops]))
      [] OTHER -> Len(payload(tag, loaded))

\* A count or a length that a fault has made larger brings nothing in from a
\* neighbour: written again, what a section brought fits its window (the promise
\* of window() at byte_reader.hpp:42-44).
NothingLeaksIn ==
    \A tag \in KnownTags :
        (status = "ok" /\ find(tag) # 0 /\ stage > tag)
            => Rebuilt(tag) <= entries[find(tag)].length
=============================================================================
