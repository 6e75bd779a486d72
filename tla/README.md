# Stratavm, specified in TLA+

Stratavm stores a graph of typed nodes in a container file (`.svm`) and rebuilds it by
replaying a journal of operations over an initial heap. This directory holds TLA+
models of the code in `src/src` and `src/include/stratavm`, the configurations that
check them with TLC, and theorems about them checked by TLAPS.

Reading order: `ReplayVM.tla` (the core), `XrefIndex.tla` and `Validator.tla` (pure
functions of the final node table), `Loader.tla` (their composition), `ByteCodec.tla`,
`SectionTable.tla` and `Container.tla` (the file, from the builder's bytes to the decoders'
structures), `WireStream.tla` (the protocol that carries it), `JournalReplay.tla` and
`Compactor.tla` (a journal rewritten and replayed), `GraphDiff.tla` (two graphs compared and
the difference replayed), `SchemaRegistry.tla` (tables migrated between schemas),
`FieldIndex.tla`, `QueryEval.tla` and `Query.tla` (two ways to search the table), and the theorems:
`ReplayVMProofs.tla` (the machine), `LoaderProofs.tla`, `WireProofs.tla`,
`RegistryProofs.tla`, `FieldIndexProofs.tla`, `DiffProofs.tla`, `ContainerProofs.tla` (the file), with the inductions they
share in `SetInduction.tla`.

## 1. The system

| component | source | state | operations | model |
|---|---|---|---|---|
| replay machine | `replay_vm`, `node` | node table, name index, open groups, free list, snapshots, metadata, counters | `seed`, `run`, ten opcode handlers | `ReplayVM` |
| heap decoder | `heap` | none (fills a `HeapImage`) | `decode_heap` | `Container`; initial states of `ReplayVM` |
| cross-reference index | `xref_index` | name, kind and reverse-adjacency maps | `build`, `decode_and_reconcile`, lookups | `XrefIndex`, `Loader` |
| validator | `validator` | none (returns a report) | `validate_graph` | `Validator` |
| loader | `loader` | `LoadedContainer` | `load` (nine stages) | `Loader` |
| section directory | `section` | directory entries | `decode`, `find` | `SectionTable`, `Container` |
| wire framing | `wire` | encoder buffer and sequence number; decoder buffer and cursor | `encode_*`, `take`, `feed`, `has_frame`, `next_frame`, `reset` | `WireStream`, `FrameChannel` |
| journal compactor | `compactor` | decoded operations with dead marks | `compact` | `Compactor` |
| graph diff | `diff` | list of node changes | `diff_node_graphs`, `serialize_diff`, `deserialize_diff`, `diff_to_journal` | `GraphDiff` |
| schema registry | `schema_registry` | versions | `register_version`, `compute_migration`, `apply_migration`, `serialize`, `deserialize` | `SchemaRegistry` |
| field index | `field_index` | value, name and kind maps, two counters | `build`, lookups, `clear` | `FieldIndex` |
| query language | `query_parser`, `query_eval` | token list and cursor, syntax tree | `tokenize`, `parse`, `execute` | `QueryEval`, `Query` |
| atom pool, schema, values | `atom_pool`, `schema`, `value` | strings, kinds | `decode`, `intern`, `add_kind`, `find` | `Container`, `SchemaRegistry`, `QueryEval`; constants of `ReplayVM` |
| byte codecs | `byte_reader.hpp`, `byte_writer.hpp` | cursor | fixed integers, varints, windows, strings, back-patching | `ByteCodec` |
| builder | `builder` | a container under construction | `op_*`, `heap_*`, `atom`, `define_kind`, `serialize` | `Container` |
| samples, environment, tools | `samples`, `env`, `tools/` | none | text and file output | not modelled |

How they interact. `load()` reads the section directory, decodes pool, schema and heap,
*moves* the heap into the machine (`seed`), runs the journal, hands the final node table
by reference to the index and the validator, and returns the whole container or the
first error. Everything is one thread and one call; what makes it hard is not
concurrency but *long sequences of operations on shared state*:

* names: one map is written by seeding, definitions, placeholders and drops, and read
  by groups, links and, rebuilt by other code, by the index;
* groups: children are queued by name and resolved later, against a table and a name
  index that have changed since; the owner is kept as a pointer into a vector that
  grows;
* slots: two counters, a free list, a generation and two flags describe the same table;
* errors: each stage may fail after earlier ones have filled the container, and some
  failures leave `load()` as an exception.

The wire protocol is the one part with two ends: bytes arrive in chunks unrelated to
frames, possibly damaged, and the decoder is polled at any time.

What makes each component correct, in a sentence: the machine never loses or forges a
slot, a name or an edge; the index and the report say the same of the graph as the
machine does; a container that is returned was built completely; windows stay in the file
and a section is unambiguous; a container that is written comes back from the decoders and
one that is damaged comes back well-formed or not at all; the index and the evaluator
answer alike while the graph is what the index was built from; frames come out whole, unaltered, in order and once; a journal rewritten by the compactor or made from a diff leads the machine to the
graph it stands for; a migration keeps every value under its name.

## 2. Modules

### ReplayVM

One variable per member of `ReplayVM` (`replay_vm.hpp:105-115`), plus

* `capacity`: the allocation behind `nodes_`. `push_back` on a full table and a `reserve`
  beyond the capacity move the table; that is what decides whether a cached owner
  pointer is still good. Growth by doubling is libstdc++'s and is marked external.
* `frames[i].cached`: whether `GroupFrame::owner_cache` still points into the current
  allocation. The code has no such flag; it is what the pointer's validity amounts to.
* `closing`: the frame `do_end_group` has moved into a local variable. `END_GROUP` is
  `EndGroup`, one `ResolveChild` per queued child and `CloseGroup`; nothing else is enabled
  in between, so the three are one handler, cut at the points where the loop can crash.
* `status`: `"running"`, the code `run()` returned, or how the process left it.
* `undefined`: a freed pointer has been used. From there on the properties about links
  claim nothing: the child is written to memory nobody reads, the owner's id reads
  as itself or as garbage, or the process dies (`Attach`).

Every handler is an action for its success and a `Reject...` action for its error
returns, which ends the run and changes nothing else, as the handlers check before they
write. `RejectBytes` stands for the errors of the dispatch loop and of operand decoding.

| code | model |
|---|---|
| `seed`, `decode_heap` | `seed`, `HeapImages`: any accepted heap of up to `MaxHeapNodes` nodes |
| `do_new_node`, `do_drop_node` | `NewNode`, `DropNode` and their `Reject` |
| `do_set_field`, `do_link_ref` | `SetField`, `LinkRef` and their `Reject` |
| `do_begin_group`, `do_add_child` | `BeginGroup`, `AddChild` and their `Reject` |
| `do_end_group`, `resolve_frame`, `materialize_placeholder` | `EndGroup`, `ResolveChild`, `CloseGroup`, `Attach` |
| `do_snapshot`, `do_set_meta`, `NOP` | `Snapshot`, `SetMeta`, `Nop` |
| `run` | `Decoding`, `Executed`, `RejectBytes`, `Finish` |

Abstractions. Ids are one-based, so that an id is an index of the sequence `nodes` and 0 is
`kInvalidNode`. Names are ids of the pool (`Atoms`), `NoAtom` or an id past the pool. A field
value is the set of node ids it holds: its order, its duplicates and all scalar values are
abstracted, so `unresolved_refs` counts a repeated target of one list once, and `refs` is a
set. Unordered maps are functions to sets of at most one element. `stats_.snapshots` is
`Len(snapshots)`.

### XrefIndex, Validator, Loader

`XrefIndex!build` and `Validator!validate_graph` are operators on the final table: the
code is a pure pass over it. `Loader` has a variable per member of `LoadedContainer` and the
stage of `load()`; steps 1 to 4 are one action that succeeds or fails with any of their
codes, step 5 is the whole of `ReplayVM!Run`, steps 7 and 8 read their entries one by one.
`Escaped` is the case of an exception or a crash, after which `load()` returns nothing.

### ByteCodec, SectionTable, Container

`ByteCodec` has an operator for each method of `ByteReader` and `ByteWriter`. A reader is the
sequence of bytes that it has still to read; a read gives a code, a value and the reader
after it, and `Bind` is the early return of `STRATAVM_RETURN_IF_ERROR`. `Repeat` is a loop that reads
one thing after another, each by its reader, a function of the bytes. All widths are
parameters: a run uses bytes of four bits, three of them payload of a varint's byte, words of
four bytes, and varints of six groups, whose last group, as the tenth of the code, sticks
out of the word (`CodecAssumption` asks for that shape).

`SectionTable` is `SectionTable::decode` entry by entry, and `find`. Offsets and lengths are
bounded by `MaxU32`, so that windows may reach past the end of the file.

`Container` extends both. `Build` is the authoring: a disjunct per method of
`ContainerBuilder`, with arguments from `Inputs`, on top of one of the `Drafts`. `Serialize`
is `serialize()` with its payloads (`InputAssumption`: `Drafts` and `Inputs` are of the types that the
builder's methods take), the directory written after them and the patched offset
and length slots. `Damage` and `Cut` are what may happen to the bytes on the way.
`OpenFile`, `DecodeHeader`, `DecodeEntry` and `FinishDirectory` drive the actions of
`SectionTable` with what is read from the bytes. `LoadAtoms` to `LoadMeta` are the decoders of
the six sections in the order of `load()`, each on its own window and with what the earlier ones
have brought. The journal is part of that: `LoadJournal` seeds a machine with the heap (`seeded`) and
`run`s it over the bytes of its window. `read_op` reads an operation with the types that the machine's nodes give its
values, `Checks` is the error returns of its handler in their order, `Effect` what it does
otherwise, and the first error ends the load. This machine keeps what those returns depend on (kind, name and
liveness of each node, bound names, open groups with their queued children, the capacity of the table), and the
operations it ran; fields, links and counters are `ReplayVM`'s. A hint of more than `MaxReserve` nodes throws
(`bad_alloc`), and whether the process survives the use of a pointer that a moved table has freed is
either way (`survives`). `LoadXref` checks its ids against the table that the journal left (`Replayed`).

### WireStream, FrameChannel

Bytes are cells: a frame is a magic cell, a head (sequence number, EOS flag, payload
length), payload cells and a checksum cell, so a chunk boundary falls between any two parts of
a frame. The checksum holds the cells it covers: a CRC collision is not modelled.
`Corrupt` damages a cell in transit: a head claims another length, any other cell
becomes noise. `FrameChannel` is what the protocol promises: frames come out in order and
once; damage may stop the delivery and a restart of the receiver may skip frames, but
neither alters one. `WireStream` implements it with `sent` and `received` mapped to
themselves, `damaged` to "some fault or reset has happened" and `restarted` to "some reset
has happened". `WireSession` is one encoder and one decoder without shared state: nothing
is added by modelling the pair.

### JournalReplay, Compactor

`JournalReplay` turns the operands that `ReplayVM` picks into records, so that a journal is
a sequence of them: `Execute(rec)` is what `run()` does with one, `Reseed` a new machine on
the same heap. In `Compactor` a journal is written while a machine executes it (so every
journal under study is one the machine accepts up to that point), then `compact()` is
applied, and a new machine replays the result on the same heap. `first` keeps what the
original journal built. The variables are those of the two replays, not of the compactor,
which is a function: `compact` is composed of the sets of positions that its
passes mark dead (`Nops`, `RedundantSets`, `OnDeadNodes`, `EmptyGroups`) and of `encode_op`.

The compactor decodes the journal without a heap. It numbers nodes by counting `NEW_NODE`
(`Number`), and looks up the type of a field by that number (`field_type_for`); where the
type it finds is not the type the value was written with, the bytes are read as something
else. `ReadsRight` says when the two agree, and `Garble` is the end of a trace in
which they do not: what the decoder makes of the bytes then is not modelled. `Refuse` is
`compact()`'s error for unbalanced groups.

### GraphDiff

A graph is what a journal builds, so the two graphs to compare are built by the machine, by
the same records as in `Compactor`: `phase` says which of them is under construction.
`TakeBefore` keeps the state of the machine at a point where `run()` may have returned; the
second graph is built by the same machine going on or by another one with the same heap
(`restarted`). `TakeAfter` compares the node tables, makes the patch and puts the machine back
into the state `before`, for the second `run()` that `diff.hpp:131` describes; `Patch` executes
it.

`diff_node_graphs` is a set: wherever the code walks an unordered map or set, every order is a
result (`NameOrders`, `SetToSeqs`). A journal operand has no type byte, so a value that the patch
writes to a node of another kind is decoded with the type that node's field has: `Misreads`
is the end of such a trace. The serialised form is a sequence of cells, one per varint or
type byte, which `read_change` and its helpers consume from the front, each by its own
counts.

What a patch does is stated under two conditions that say where the code's own assumptions
hold: `Answering` (the name index of the machine answers with the node that the diff has
compared) and `Addressed` (the ids of the second graph are the ids that the replay assigns,
kinds do not change, a group comes after its children's definitions). `PatchLeavesNames` needs only the
first. That no two live nodes share a name would not be enough for it: with two nodes of a name, the
newer one dropped, the older one is alive and compared while the index answers nothing, and a group that
names it materialises a placeholder beside it.

### SchemaRegistry

`versions` is the registry's map, with the convention of `ReplayVM` that a key holds a set of at
most one value. A version is its pool and its kinds, with names as atom ids of that pool, because ids
are what is written and texts what versions are compared by. `nodes` and `current` are the
caller's: the header leaves it to the caller to know which version a table belongs to. A value is its
type and the name of the field it was first written to, which is what tells a value that has
been moved, kept or converted from one that landed in the wrong field. `label` is the name
that the node's kind had when its table was loaded.

`compute_migration` is a plan in three passes, the removals, the additions and the changes of type:
the code lists them kind by kind in that order, a node is of one kind, and two migrations of one
pass write different fields or write the same, so that for each node the list is its three
passes. `migrated_fields` applies them one after the other.

`aligned` remembers whether every migration of the table was between schemas in which names
are unique and a name common to both has one id (`Aligned`). Plans address fields by index, so
this is the condition under which they can be right; the run shows that it is enough, also when a new
field or kind takes an id that has become free.

### FieldIndex, QueryEval, Query

`FieldIndex` holds a node table, the index and `changed`, a history variable with the nodes whose
liveness or fields have changed since `build()`. The maps of the index are the set of
the entries they are filled from. The machine's calls are those of `ReplayVM` as far as the index
can see them (kinds, names, liveness, fields with their values, children and refs); a
name stands for the newest node that bears it, while that lives (`StandsFor`), which is what
`NameIndexCorrect` proves of the machine. The children of a group are linked one at a time
(`ADD_CHILD`); that the owner's pointer may be stale is `ReplayVM`'s subject and left out here.
The table starts empty: a node that a heap seeds is, for the index, like one that `NEW_NODE` makes.

`QueryEval` is the evaluator up to the leaves of an expression (`eval_leaf`): what a kind, a
comparison and a link test find. It is a module of its own because nothing in it is recursive, so
that it can be proved about. `Query` extends it with `eval_node` for AND, OR and NOT, and has an
operator for each method of the lexer and the parser, recursive where the methods are. A text is a sequence of pieces (a word of letters, a digit, a blank, a
sign), which run together where they touch as characters do. An integer too long for an int64
is one with more than `MaxDigits` digits. The reference is stated apart from it: `Cuts`, the
ways to cut a text into the lexical elements that the header of `query_parser.cpp` lists, and
`OrTrees`, all trees that its grammar derives for a token list.

## 3. What the runs check

Deadlock is checked in all runs. Where the system may stop, it stutters explicitly: a machine
that has returned, a loader that has ended, a file that has been loaded or refused, a
compaction and a patch that are over. An index can always be built again.

| run | bounds | what it shows |
|---|---|---|
| `ReplayAll` | 1 name, 2 kinds, a Ref field, 5 operations, all opcodes, heap of at most 1 | types; each slot is counted once; links are closed; the name index is the newest live node; the free list is exactly the dropped nodes; slots, identities and links are permanent; `max_nodes` is passed by placeholders only, one for each linked child at most |
| `ReplayGroups` | 2 names, nesting 2, hints 0..2, heap of at most 2, 6 operations | the reservation of every open group holds; a group, also while it is being closed, loses its owner pointer only by outgrowing its reservation or by a group inside it; every resolved child hangs on its owner |
| `LoadGroups` | 2 names, any subset of HEAP, JRNL, XREF, META, both modes, 5 operations, a hint that cannot be allocated | index, machine and report agree, also on who refers to whom; a graph is never indexed half built |
| `LoadRefs` | 1 name, Ref and List fields, one required, 3 operations | a clean strict report means a sound graph, also for required fields and the refs of single nodes |
| `WireFaults` | 3 frames, payload 0..1, 2 faults, 1 reset, sequence numbers modulo 2, fair | the protocol implements `FrameChannel` (whole frames, in order, none twice and none skipped but by a reset), with delivery while nothing is damaged; `has_frame` exact, prefix bounded, nothing lost |
| `AuthoredFiles` | the widths above; an empty, a started, a grouped and a full draft with two calls on top; any one byte of an untouched draft set to one of four values, or a cut anywhere | numbers are read back at every edge of their encoding; windows in the file and unambiguous sections; a container is loaded as it was authored exactly when the format can express it and the machine runs its journal, and refused otherwise, except that the use of a lost pointer may end the process; damaged files give well-formed structures or none; no section, the journal's included, reads its neighbour |
| `IndexQueries` | 2 definable nodes, a table of 3, 6 calls of the machine with builds at any moment; 2 kinds that share a field's name at different places; a text twice in the pool; three families of texts | the index differs from the table by changed nodes only; index and evaluator answer alike; a comparison and its opposite split the nodes that can be compared; lexer and parser find what the grammar derives |
| `Compaction` | 1 name, 2 kinds with the same field as a Ref and as a List, journals of 4 operations without reserve hints, heap of at most 1 | a compacted journal is accepted, rebuilds the table, the names, the drops, the metadata and the markers; live nodes keep their fields while the compactor's numbers are the machine's; a second pass changes nothing, and its counters say so |
| `DiffPatch` | 2 names (symmetric), 2 kinds, one with a Ref field, both graphs together 5 operations, no heap (its nodes are those of a first `NEW_NODE`) | a diff survives being written and read; a patch never loses an owner pointer; it leaves the names of the second graph alive; where its ids are the machine's it rebuilds kinds, fields and children |
| `Migrations` | 2 version ids (symmetric), 47 schemas over 2 kind names, 2 field names, 3 types and 3 pools, 1 node | versions are never replaced and survive being written and read back; an aligned migration is what a comparison by name says; through any number of them a node conforms to the schema it is read with |

Why the bounds are enough. The properties of the machine relate at most two nodes and
one name, or an owner and a child; two or three nodes and a table that has to grow twice
(from a heap of 0 to 2) give every shape of that: a shadowed name, a dropped shadow, a
placeholder, a placeholder that moves the table, a group inside a group. One name that is
seeded, defined again and dropped already has every order of binding and unbinding, and
the second name of `ReplayGroups` and `LoadGroups` keeps an owner and a child apart. A
journal of five operations is the shortest that opens a group, queues two children,
closes it and does one more thing; six let a second group nest in the first.
`MaxReserve` is within reach in `LoadGroups` (a group with a hint, begun on a table that a placeholder has
taken past `max_nodes`), so that `reserve` throws there and `load()` is left by an exception. Three frames and two faults are
enough for a damaged frame between two good ones and for a sequence number
that comes back. `OpCodes` restricts each run to the opcodes its question is about;
`ReplayAll` has them all. Four operations are the shortest journal in
which a write is redundant, its node is dropped and its definition must stay, and in which
one empty group is nested in another; a heap of one node and a placeholder are the
two ways in which the compactor's numbers differ from the machine's. Two named nodes are
enough for a patch that meets them in another order than they were created in; five operations
build a graph with a field or a child and change it, or two graphs of their own. Migrations
treat nodes one by one and a kind at a time, so one node and two kinds suffice; schemas with up to
two fields in every order and typing have each overlap of removed, added, moved and retyped
fields, and the traces go back and forth between two of them without a bound.

`AuthoredFiles` scales the widths and not the format: the drafts have every
kind of section, type and opcode, the calls bring values at the ends of their range and ids past
theirs, and every byte of the four drafts is damaged: counts, lengths, tags, ids and
payloads turn into smaller, larger and continued ones. Two calls on top of a draft reach a
repeated field or key and a limit that is passed; in the journal of the grouped draft they are a child,
a reference or a drop more, or a group opened twice, and damage makes its hint too large or too small. In `IndexQueries` six calls define two nodes, give one
a value, drop or shadow it, and link it; builds are not counted. The boolean
texts have up to five tokens in every order and mixtures of two operators, negation and
parentheses beyond that; what the parser does next depends on the token it is at and on the
production it is in, so longer texts add nesting only.

Fairness. `WireStream!FairSpec` assumes what the usage comments of `wire.hpp` ask of the caller:
it drains the encoder, feeds what arrives and polls while `has_frame()` holds. No
fairness is assumed of the journal's producer or of faults.

### Slips

An operator `<name>_slip_<what>` is `<name>` with a mistake a programmer could make. No
specification uses it; in the place of `<name>` it breaks the property in the table, which
shows that the property is sensitive to that code.

| slip | mistake | broken property |
|---|---|---|
| `register_name_slip_past` | the id after the push instead of before it | `TypeOK` |
| `register_name_slip_first` | `emplace` instead of assignment | `NameIndexIsNewestLive` |
| `NewNodeRecord_slip_unflagged` | the placeholder flag is not set | `SlotsAccounted` |
| `WithRef_slip_one_way` | no back reference | `LinksClosed` |
| `Dropped_slip_unlinks` | a drop clears the refs | `TableAppendOnly` |
| `Dropped_slip_same_generation` | the generation is not bumped | `FreeListIsTheDropped` |
| `reserve_slip_exact` | the table shrinks to what is asked | `ReservationHolds` |
| `reserve_slip_skipped` | no reservation | `PointerLossExplained` |
| `HasRoom_slip_one_more` | `NEW_NODE` defines one node more than `max_nodes` | `OverrunIsForwardReferences` |
| `WithChild_slip_once` | a child is listed once | `ChildrenAccounted` |
| `Finish_slip_open_groups` | no check of open groups at the end | `LoadedGraphIsComplete` |
| `Edges_slip_refs_only` | children are not indexed | `IndexAgreesWithMachine` |
| `LiveNodes_slip_dead_too` | dropped nodes count as live | `ReportAccountsForSlots` |
| `Placeholders_slip_live_only` | the alive check comes first | `CleanReportMeansSound` |
| `DanglingRefs_slip_range_only` | refs to dropped nodes are accepted | `CleanReportMeansSound` |
| `Consumed_slip_skips_damaged` | a damaged frame is skipped | `ChannelSpec` |
| `has_frame_slip_header_only` | a header is taken for a frame | `HasFrameExact` |
| `Compacts_slip_never` | the prefix is never erased | `PrefixBounded` |
| `total_slip_no_crc` | the checksum is not part of the size | `NoBytesLost` |
| `OutOfFile_slip_wraps` | the window check adds 32-bit numbers | `WindowsInFile` |
| `Repeated_slip_last_only` | only neighbours are compared | `FindIsUnambiguous` |
| `EmptyGroups_slip_begin_only` | the END of an empty group is kept | `CompactedReplays` |
| `OnDeadNodes_slip_definitions_too` | definitions of dropped nodes are removed with their writes | `SameStructure` |
| `RedundantSets_slip_first` | the first write is kept instead of the last | `SameFields` |
| `EmptyGroups_slip_innermost` | only groups without a group inside are looked at | `CompactIsIdempotent` |
| `read_change_slip_swapped` | added and removed children are read in the other order | `RoundTrip` |
| `group_slip_no_hint` | the group of a patch reserves nothing | `PatchKeepsPointers` |
| `ops_of_slip_falls_through` | a missing `break` after the drop | `PatchLeavesNames` |
| `Migrated_slip_keeps_removed` | a removed field is not erased | `TableConforms` |
| `restored_slip_reversed` | atoms are interned from the last to the first | `VersionsAreKept` |
| `migrated_fields_slip_adds_first` | fields are added before others are removed | `MigrationIsByName` |
| `Groups_slip_signed` | the top bit of the word is lost | `NumbersAreRead` |
| `window_slip_to_end` | a section's reader ends with the file | `NothingLeaksIn` |
| `KeepLast_slip_first` | `emplace` instead of assignment of a repeated field or key | `AuthoredIsLoaded` |
| `read_count_slip_one_more` | a count of one more than the limit passes | `LoadedIsWellFormed` |
| `clear_slip_counts_only` | `clear()` leaves the maps | `IndexExplained` |
| `LinksTo_slip_dead` | the linked node is not asked for its liveness | `IndexAnswersQueries` |
| `apply_cmp_slip_strict` | `<` for `<=` | `ComparisonsPartition` |
| `parse_and_expr_slip_right` | a chain of ANDs groups to the right | `ParserFollowsGrammar` |
| `field_changes_slip_both_set` | only fields set on both sides are compared | `PatchRebuilds` |

### Where the code and its comments disagree

Each of these runs checks one sentence of the repository and TLC finds a behaviour of
the code that contradicts it.

| run | sentence | what the code does |
|---|---|---|
| `CompactedHints` | `compactor.cpp:438-439`, the hint is patched to the number of surviving children; `compactor.hpp:1-2`, semantically equivalent | the hint written is always 0 (`compactor.cpp:225`), so the replay can lose its owner pointer |
| `DiffFields` | `diff.cpp:479-480`, the machine assigns the same ids in order; `diff.hpp:131-133`, the patch produces the graph | added nodes are emitted in the order of an unordered map, so their fields can land on each other |

The models also show these, which no run is spent on:

* `replay_vm.cpp:198-199` and `replay_vm.hpp:99-100` say that a later definition fills the
  placeholder of its name; `NEW_NODE` (`replay_vm.cpp:72`) always appends, so the
  placeholder and the children linked to it stay beside the definition.
* `replay_vm.cpp:225-226` says an unresolved `LINK_REF` is left for the validator to flag; it leaves
  nothing but a counter, which the validator does not read.
* `wire.hpp:131-138` polls `while (dec.has_frame())`; after a damaged frame the cursor stays
  (`wire.cpp:212`), so the same error is returned for ever.
* `section.cpp:45` says unknown tags may repeat; `kind()` of an unregistered tag is not
  `SectionTag::Unknown`, so only the tag zero may.
* `replay_vm.cpp:145-147` says that with headroom the table does not move while the group is
  open; a nested group reserves again and moves it (`PointerLossExplained` has the case).
* `replay_vm.cpp:133` says groups attach children to a live node; the owner may be dropped
  before its group ends, and `END_GROUP` does not look again.
* `format.hpp:78-80` says the limits bound memory; `materialize_placeholder`
  (`replay_vm.cpp:184`) appends past `max_nodes`. `OverrunIsForwardReferences` bounds by how much: by the
  children linked.
* `node.hpp:35-36` says refs are collected from Ref and List fields; `heap.cpp:48-51` stores
  the fields of heap nodes and leaves their refs empty.
* `node.hpp:6-7` says a dropped node is logically dead; `LINK_REF` (`replay_vm.cpp:230`)
  checks only the range of its source and writes the fields of a dropped node.
* `validator.hpp:5` says every live node is walked; `validator.cpp:20` reports placeholders
  before it asks whether they are alive.
* `loader.hpp:6-7` says every failure surfaces as a `Status`; the `reserve` of
  `replay_vm.cpp:148` may throw.
* `compactor.cpp:63` numbers nodes from zero and in order of their definitions; a seeding heap and
  placeholders take ids in the machine, and types and liveness of the wrong node are then used
  (`SameFields` holds under `NumbersAgree` only).
* `compactor.hpp:7` describes the removal of redundant writes; the refs that an
  overwritten value had added stay in the original graph and are missing in the compacted one.
* `diff.hpp:136-141` lists `DropNode` and `NewNode` for a kind that changed, and an error for
  invalid ids; `diff_to_journal` has neither. It emits nothing for a field or a child that is gone
  (`PatchRebuilds` says what stays), and `NEW_NODE` with the invalid kind, which the machine
  refuses, for a live placeholder of the second graph.
* `diff.cpp:134` keeps the oldest live node of a name, the machine answers with the newest; and a
  name whose newest node was dropped is unbound although an older one lives, so that the group
  of a patch for it is refused.
* `schema_registry.hpp:93-97` says a field with the same name and type in both versions needs no
  migration; if its index differs, the value stays at the old index, which the new schema reads as
  another field, and an `AddField` for that index (`schema_registry.cpp:258`) finds it taken.
  `RenameField`, which the header lists, is never planned.
* `schema_registry.cpp:411` interns the atoms of a version again: a pool that holds a string twice
  (`atom_pool.cpp:19-21` keeps both) comes back shorter, and the atom ids of the schema then mean
  other strings.
* A null default (`AddField`) turns into the number zero when a later plan changes the field's
  type, as the conversion does not look at the value's own type (`schema_registry.cpp:285-293`).
* `schema_registry.cpp:247-248` says that migrations of new kinds do not apply to existing nodes; they
  are planned with `kInvalidKind`, which placeholders have too, so line 249 lets them through and
  live placeholders get the fields.
* `query.hpp:165` says that `parse` returns an error for invalid input; an integer that does not
  fit an int64 leaves it as an exception of `std::stoll` (`query_parser.cpp:132` and `147`).
* `query_parser.cpp:8` calls all keywords case-insensitive; `classify_word` takes the first six in
  lower case only.
* `byte_reader.hpp:116-117` says that varints that do not fit a u32 are rejected; the tenth byte of
  a varint has one bit of room, and the others are lost before the comparison, so that ten bytes
  that spell 2^64 are accepted as 0.
* `field_index.hpp:63-64` says that several nodes may be found by name while placeholders are not
  resolved; `build()` skips placeholders (`field_index.cpp:35`), and what shares a name are
  definitions.
* A pool may hold a string twice, and `find` answers with the first id: a field that holds
  the second does not equal that string in a query, and a node named with it is not found.
* `has_ref` looks at `refs`, which the fields of heap nodes do not enter (see above).
* `heap_set` appends: a field that is set more often than its kind has fields makes the
  builder write a heap that `heap.cpp:38` refuses.
* The decoders stop after their counts; what follows in a section's window is ignored.

## 4. What is proved

All theorems hold for every value of the constants that the named assumptions of the modules allow
(TLC evaluates the same assumptions on each run), and for runs of any length. Each rests on an
inductive invariant that is written down; no liveness and no fairness is involved.

### The replay machine

From `AtomAssumption` (the invalid atom and stray ids are not in the pool), `SchemaAssumption`
(the invalid kind is no kind; fields have a type) and `LimitAssumption` (limits are naturals, the
heap respects `max_nodes`). `ReplayVMProofs.tla`:

* `TypeCorrect`, `Spec => []TypeOK`. `TypeOK` is inductive: it carries that bound names
  and the owners of open groups designate slots of the table, without which neither
  `BEGIN_GROUP`'s dereference nor `Attach` keeps the types.
* `NameIndexCorrect`, `Spec => []NameIndexIsNewestLive`. The induction is over `TypeOK`
  and the property together: `NEW_NODE` and a materialised placeholder append the newest
  node of their name (`NameAdded`), the other handlers leave names and liveness alone
  (`NamesKept`), and a drop unbinds the name exactly when the dropped node is its newest
  (`NameDropped`), because the index could only hold the newest.

* `FreeListCorrect`, `Spec => []FreeListIsTheDropped`; `SlotsCorrect`,
  `Spec => []SlotsAccounted`; `TableGrowsOnly`, `Spec => TableAppendOnly`. All three follow
  from one lemma, `StepEffect`: a step from a well-typed state keeps the slots
  (`SlotsKept`), appends one (`SlotAdded`) or drops one (`SlotDropped`), and the counters, the
  free list and the generations record which. Both invariants are inductive together
  with `TypeOK`; the second one needs `SchemaAssumption` (the invalid kind has no fields).
* `ReservationCorrect`, `Spec => []ReservationHolds`, and `PointerLossCorrect`,
  `Spec => PointerLossExplained`. `GroupStep` says what a step does to the groups: it leaves them alone,
  opens one (and then the allocation is large enough for its reservation), queues a child, or takes at most
  one slot for a child that is being resolved. `ReservationHolds` is inductive with `TypeOK` because a
  slot is taken either from what a group still claims or by a definition inside it, which
  the property counts. An owner pointer is lost only by a step that moves the table,
  and `TurnTakesAtMostOne` shows that resolving the children of a group does not, while the
  group keeps to its hint and had no group inside it (`FullIsOutgrown` for the group that is being closed).
* `OverrunBounded`, `Spec => []OverrunIsForwardReferences`, by `OverrunStep` from the same `StepEffect`. It needs
  `SlotsAccounted`: `NEW_NODE` compares the length of the table, the property speaks of a counter, and the
  counters together are the length. A placeholder is appended only by a turn that then links it.
* `LinksCorrect`, `Spec => []LinksClosed`. The induction needs `TypeOK` and that `undefined` stays
  set (`UndefinedStays`): a step stores a field or ref (`StoreKeepsClosed`), appends
  (`AppendKeepsClosed`) or links a child (`TurnKeepsClosed`, with `BothEnds` for the parent and the
  child), and none of them makes an edge to a slot the table does not have.
* `ChildrenCounted`, `Spec => []ChildrenAccounted`. The property speaks of the set of places
  in the lists of children; a step keeps the places or takes one new place (`PlacesStep`), and the
  counter goes with it.

For the replay machine the argument is one step per action, with the shared facts as lemmas: `StepIsACase` splits
a step, `RejectionsEnd` disposes of the error returns, `AttachEffect` and
`ResolveChildEffect` describe the resolution of a child with all its undefined outcomes,
`TableUpdate` and `TableAppend` carry the type of the table.

### The loader

`LoaderProofs.tla`, from the assumptions of the machine and `RequiredAssumption` (a required field
has a type). The machine's invariants hold inside `load()` because its other stages leave the
machine alone (`MachineMoves`); `MachineInv` is their conjunction.

* `LoadedComplete`, `LoadSpec => []LoadedGraphIsComplete`, by `StagesInOrder`: before the journal
  the machine is as seeded, and past it the machine has returned ok, which only `Finish` does
  and only with no group open (`OnlyFinishIsOk`).
* `IndexMatchesMachine`, `LoadSpec => []IndexAgreesWithMachine`: the index is rebuilt by other code
  from the final table, so what is shown is that `NameIndexIsNewestLive` makes both maps of names equal
  (`NamesAtBuild`) and `LinksClosed` makes the reverse edges those of the machine (`EdgesAtBuild`).
* `ReportAddsUp`, `LoadSpec => []ReportAccountsForSlots`, from `FreeListIsTheDropped` (the dead nodes
  are numbered by the free list, `DroppedAreTheDead`) and the count of placeholders.
* `CleanMeansSound`, `LoadSpec => []CleanReportMeansSound`: a strict report without an issue is
  issued only for a graph in which everything that could be reported is absent (`SoundWhenClean`).

### The wire protocol

`WireProofs.tla`, from `WireAssumption` (the bounds are naturals, sequence numbers are counted modulo
a positive number). `HasFrameCorrect` and `PrefixStaysBounded` need only the types of the three buffers
(`Typed`). `ChannelKept`, that `WireStream` implements the safety part of `FrameChannel`, and
`NothingLost`, `Spec => []NoBytesLost`, are about the whole history, and their invariant is `InStep`: there
is a log of every cell ever encoded, of which the frames sent are consecutive parts; what is in the
encoder, the net and the decoder is the end of the log (`StreamFrom`), but for cells a fault
has changed; and the frames returned end, in order, in front of it (`Returned`). The step lemmas are one
per call: `EncodeInStep`, `TakeKeepsStream`, `FeedKeepsStream`, `CorruptInStep`, `ResetInStep` and
`NextFrameInStep`, the last of which needs that a damaged frame does not decode (`FrameDecoded`).
`ChannelStep` maps each step to one of the channel or to a stutter. Delivery, the liveness part of
`ChannelSpec`, stays with TLC.

### The container

`ContainerProofs.tla`, for files, tables and numbers of any size and widths of any shape that
`CodecAssumption` allows: the longest varint has room for a word and a shorter one has not.

* The directory, from `DirectoryAssumption` (the tag zero names no section, known and other tags
  differ, the numbers are naturals): `DirectoryTyped`, that it is well typed, and
  `WindowsCorrect` and `FindCorrect`. The induction is over `IInv`: the type, that nothing is
  read before the header (`HeaderFirst`, without which a count read on top of entries could
  pass the limit), the windows, and `SectionsOnce`, that two entries of one section are one entry.
  Only `ReadEntry` changes the entries (`OthersKeepEntries`), and its two guards are what the last
  two conjuncts need; `OnceIsUnambiguous` derives what `find` answers from `SectionsOnce`.
* The numbers: `NumbersCorrect`, `ContainerSpec => []NumbersAreRead`, and, of every number and not only those
  next to a change of length, `NumbersRoundTrip`. `NumberRecursion`, `ShiftedRecursion` and `PowerRecursion`
  solve the recursive functions that digits are taken off and put together with; `DigitsSpell` is the
  induction over the digits; `VarintForm` says that the writer stops at the first group that is the last,
  `EndIs` that the reader stops at the same one. `VarintMeans` is about bytes nobody wrote: they spell
  a number of less than a word, unless they are the longest.
* The directory of a file: `FilesAreDirectories`, `ContainerSpec => Spec`, with `SectionsOfFiles` as its
  consequence. The actions that decode bytes take the steps of `SectionTable` only if what the
  bytes spell is a count, an entry or an error that `Next` has, and only if the file they are read from is
  the one whose size was noted. So the invariant, `FileTyped`, is that a builder makes bytes
  (`BuildTyped`, `SerializeTyped`), a fault leaves bytes, and nothing happens to a file that is open; and
  `HeaderAnswers` and `EntryAnswers` say what the readers answer with.
* What the decoders accept: `LoadedCorrect`, `ContainerSpec => []LoadedIsWellFormed`. `Answers(codes, Items)` is
  what a reader may answer with, an item or one of its codes. `ChainAnswers` composes readers as
  `STRATAVM_RETURN_IF_ERROR` does, `RepeatAnswers` is the induction over a loop, and there is a lemma for each
  decoder, from `BytesAnswers` to `HeapAnswers`. The invariant is `LoadedSoFar`: each section fits those before it,
  and those to come are empty, without which a pool decoded late could leave ids of kinds behind. That
  a section has a window to be read from is `SectionsOfFiles` again (`SectionTyped`).

### The field index

`FieldIndexProofs.tla`, for every schema, pool, set of values and history, and any number of
builds, given `IndexAssumption` (the invalid atom and kind are none, fields have a type and are
finitely many): `IndexCorrect`, `Spec => []IndexExplained`. What the lookups answer is
not inductive; `IInv` is, and has three parts. `Typed` says that the table is a sequence of nodes
whose fields hold one value at most, which is why a lookup for a value finds a node once. `Mirror` says
that for each node of the table that has not changed the index holds what `build()` would
put there, and that it holds nothing of nodes the table does not have; without the latter a
new placeholder could be in the index before it exists. `Counted` says that the counters are exact while
nothing has changed. The calls of the machine are summed up by one formula, `Undisturbed`: the index is not
told, and a node that keeps out of `changed` keeps its kind, name, liveness and fields, or is a new
placeholder. One lemma per call shows that (`NewNodeEffect` to `DropNodeEffect`), one that it keeps
`IInv` (`UndisturbedKeeps`), and `EntriesCounted` gives a bijection between the fields that are set and
the entries that `build()` counts. `EntriesOfSettled`, `HitsOfSettled` and `NamesOfSettled` read the
lookups off `Mirror`.

The same invariant carries what is proved of queries, given also `EvalAssumption` (the pool is
numbered from one and holds the names of nodes and kinds; integers, node ids and atom ids are
numbers; the invalid atom is none of the pool).

* `ComparisonsDivide`, `Spec => []ComparisonsPartition`, for every pool, schema, name and literal. A name is
  one field of a kind at most (`OneFieldNamed`, with `Min` of a set of field ids) and a field has one value at
  most, so a comparison looks at one value or none (`OneLookedAt`); `ComparisonsOfValue` is
  about that value, `TablePartition` about the table.
* `IndexAnswersScan`, `Spec => [](FieldsAnswered /\ ChildrenAnswered)`. A lookup knows the type of the value it
  is for and a comparison does not: a number is compared with references and atoms too. They agree
  because each value has the type that its node's kind declares, and a placeholder has no kind and so is not
  found by one; that is `Conform`, which `StepConforms` shows to be kept by every call. Atoms that share a
  text are no exception: `find` gives the query and the lookup the same one of them.

### The schema registry

`RegistryProofs.tla`, for every set of versions of any size, given `RegistryAssumption` (limits are
naturals; a version is a sequence of atoms and a sequence of kinds with their fields).

* `RegistryInvariant`, `Spec => []IInv`: an id holds one version or none, a table is of one
  registered version, and while `aligned` each node fits it. The run `Migrations` checks `IInv` as
  its parts stand in `TableConforms`; what is added is `HeldInside`, that a node holds nothing at places
  its kind does not have, dead nodes and placeholders included. Without it a field that a later version adds
  could find an old value there.
* `TableStaysConform`, `Spec => []TableConforms`. `MigrationFits` is the heart: the three passes,
  applied to a node that fits the old version, give one that fits the new. `KeptField`, `DroppedKind` and
  `OtherKind` say what the passes do to a field; they rest on `PlanOfKind` and `PlanAtField`, which find
  the one migration of a plan that concerns a field.
* `MigrationFollowsNames`, `Spec => MigrationIsByName`, by `FieldIsByName` from the same lemmas.
* `VersionsSurvive`, `Spec => VersionsAreKept`. `deserialize` interns the atoms again, a recursive function
  over the pool; `PoolInPlace` shows by induction that a pool without duplicates comes back as it is.

### The graph diff

`DiffProofs.tla`, from the assumptions of the machine and `FieldsAssumption` (fields are finitely many, as
field ids are 32-bit numbers), for any two graphs that journals build and any order the maps are walked in:

* `PatchPointersKept`, `DiffSpec => []PatchKeepsPointers`: replaying a patch loses no owner pointer.
* `PatchLeavesItsNames`, `DiffSpec => []PatchLeavesNames`: a patch that replays leaves alive the names of the
  second graph and, beside them, only placeholders of children that neither graph had alive.
* `DiffReadsBack`, `DiffSpec => []RoundTrip`: the serialised form of every diff that is made is read as that
  diff, to its last cell.

The invariant of the first is `PatchInv`, and it has two halves.

* What is run. `Patches` are the sequences of operations in which every `BEGIN_GROUP` is followed by as many
  `ADD_CHILD`s as its hint says and by an `END_GROUP` (`WholeGroup`). `DiffIsPatch` shows that
  `diff_to_journal` makes one of any difference: `ChangesTyped` says what a change holds, `OpsOfPatch` that
  each change gives a patch, and `PatchesJoin` that patches put one after the other are a patch.
* Where the machine is. Between two operations of a patch no group is open (`Outside`); or exactly one is,
  with its owner pointer good, as many children named as operations were run since it was opened, and
  a reserved slot for every child of the hint (`Inside`); or one is being closed, with a free slot for each child it
  still has to link (`ClosingOne`). `OutsideStep`, `InsideStep` and `ClosingStep` are the three ways on: a
  placeholder takes one of the reserved slots, so the table does not move under the pointer.

`GraphsTyped` carries the types of the machine and of what is kept of it from one phase to the next, and that
the graphs compared are closed; a patch may write values and node ids that no journal under construction
could hold, so the step lemmas of the machine are stated for all of them (`OpTyped`, `ValuesOp`).

The second theorem rests on `NamesInv`, which adds to it what the operations say and how far they have been run.

* What a patch says (`PatchFor`, shown of `diff_to_journal` by `PatchIsForItsGraphs`): its `NEW_NODE`s give the
  names that only the second graph has, its `ADD_CHILD`s those that the changes list, its `DROP_NODE`s the
  nodes of the names that are gone, and nothing but drops follows a drop, as the names of the second
  graph are walked first. Each is a union over the changes: `OpsOfChange` says it of one change and
  `ElementsFlattened` and `DropsFlattenedLast` of their concatenation.
* What the machine has done (`Following`): of the live nodes of the first graph those are alive that no
  operation run so far has dropped, under their old names; every other live node has a name that is wanted and
  that the first graph did not have; every such name an operation has given is alive or still waits in the open
  group; and until the first drop every name of the first graph is bound. The last part is why a
  group never materialises a name of the first graph: no group is closed after a drop.
* `Answers`, an invariant of the machine by itself: a name that is bound is bound to a live node of that name.

`PatchFollows` and `ResolveFollows` go through the operations (`StaysFollowing`, `JoinsFollowing`,
`DropsFollowing` are the three things they do to names) and `FollowsToTheEnd` reads the theorem off the
invariant when all operations have been run.

The third theorem has a lemma for each reader, which says what it gets from what its writer wrote and that it
stops where the writer stopped, whatever cells follow: `ReadCells`, `ReadValue`, `ReadFieldChange`,
`ReadChange`, `ReadDiff`. A list is written by concatenation and read by recursion over its length; `Leaves`
names the places of the stream between which one item after another is read, `RestsOfFlattened` shows there
are such places in every concatenation, and `CellListRead`, `FieldListRead` and `ChangeListRead` (one for
each reader, as no lemma can take a reader as a parameter) that reading from place to place gives the list.
This needs values that have the shape of their type: a list or a reference is told from a scalar by its type
byte, and a reference is one id. `ShapesInv` adds to `PatchInv` that the fields of the graphs are so
(`NodesShaped`, which every operation of the machine keeps: `ShapesOp`), and `DiffShaped` passes it on to the
changes of a diff.

### What stays with TLC

* Liveness: the delivery of `ChannelSpec`, which needs fairness.
* `Query`: the parser and `eval_node` recurse over syntax trees and are recursive operators.
  `ParserFollowsGrammar` is checked on its families of texts. Of `IndexAnswersQueries` the parts about the
  index and the scan for the leaves (`FieldsAnswered`, `ChildrenAnswered`) are proved; that the query
  for their texts finds what that scan does is checked.
* `Container`: `AuthoredIsLoaded` compares all of what was written with all of what is read, the run of
  the journal included, and `NothingLeaksIn` the length of what is read with that of what would be written again. The proofs have
  the round trip of the numbers that both are made of, not of the sections made of the numbers.
* `Compactor`, and of `GraphDiff` `PatchRebuilds`: these compare kinds, fields and children at the end of a
  replay with what its journal was made from, so an invariant would have to run two machines side by side.

Induction over the data is available where it can be stated of a set: `SetInduction` derives the
greatest and least element of a finite set of numbers and induction from a number to its successor from
the well-foundedness of inclusion, and from those (`RecursionHasSolution`) that a function defined by
recursion over an interval is one. The proofs about the wire log, the pools, the cached names, the
numbers and the loops of the decoders use it.

## Not modelled

`samples`, `env` and the tools (`stratavm_cli`, `gen_corpus`) are fixed inputs, the process environment
and text output. Of `journal`, `status`, `format` and `value` the names that are printed for opcodes, codes
and values are left out. A CRC collision is not modelled.

## 5. Plan

No component waits for a model. The theorems worth having next, in this order: of `Container`,
`AuthoredIsLoaded`, section by section from `NumbersRoundTrip`; of `GraphDiff`, `PatchRebuilds`, node by node from
`PatchFor` as `PatchLeavesItsNames` does it for the names.

## 6. Running

    tlc -config ReplayAll.cfg MCReplayVM.tla
    tlc -config AuthoredFiles.cfg MCContainer.tla
    tlc -config IndexQueries.cfg MCQueries.tla
    tlapm ReplayVMProofs.tla
    tlapm LoaderProofs.tla
    tlapm WireProofs.tla
    tlapm RegistryProofs.tla
    tlapm FieldIndexProofs.tla
    tlapm DiffProofs.tla
    tlapm ContainerProofs.tla
    tlapm SetInduction.tla

`PROJECT.json` lists the components, the runs, the source lines of every definition, the
hazards with the properties that watch them, the findings and the theorems.
