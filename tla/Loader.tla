------------------------------- MODULE Loader -------------------------------
(***************************************************************************)
(* load() of src/src/loader.cpp: the pipeline that decodes the sections,   *)
(* seeds the replay machine, runs the journal, builds the cross-reference  *)
(* index, reconciles the precomputed one, reads the standalone metadata    *)
(* and validates.  The first failure is returned and ends the load.        *)
(*                                                                         *)
(* The pool and the schema are the constants of ReplayVM.  A container     *)
(* without ATOM or SCMA is an instance with Atoms or Kinds empty.          *)
(***************************************************************************)
EXTENDS XrefIndex, Validator

CONSTANT MaxEntries     \* bound: entries of the XREF and META sections

OptionalSections == {"HEAP", "JRNL", "XREF", "META"}

VARIABLES
    present,       \* sections of the container that load() finds
    options,       \* LoadOptions: run_journal, strict_validation
    stage,         \* the part of load() under way
    result,        \* code load() returned, "" before
    entries_read,  \* entries read of the XREF or META section under way
    journal_ran, xref, xref_warnings, section_meta, report

loader == << present, options, stage, result, entries_read, journal_ran,
             xref, xref_warnings, section_meta, report >>
load_vars == << vars, loader >>

\* The heap, if there is one, is that of ReplayVM's Init: a container without a
\* HEAP section leaves the machine with an empty table.
LoadInit ==
    /\ Init
    /\ present \in SUBSET OptionalSections
    /\ "HEAP" \notin present => nodes = << >>
    /\ options \in [run_journal : BOOLEAN, strict_validation : BOOLEAN]
    /\ stage = "sections"
    /\ result = ""
    /\ entries_read = 0
    /\ journal_ran = FALSE
    /\ xref = EmptyIndex
    /\ xref_warnings = 0
    /\ section_meta = [a \in Atoms |-> {}]
    /\ report = EmptyReport

SectionErrors ==
    { "Truncated", "BadMagic", "UnsupportedVersion", "LimitExceeded", "BadValue",
      "BadSectionTable", "DuplicateSection", "BadAtomPool", "BadSchema",
      "KindOutOfRange", "AtomOutOfRange", "FieldOutOfRange", "BadHeap" }

Fail(code) ==
    /\ stage' = "failed"
    /\ result' = code
    /\ UNCHANGED << vars, present, options, entries_read, journal_ran, xref,
                    xref_warnings, section_meta, report >>

\* Steps 1 to 4: directory, atoms, schema and heap decode, or one of them fails.
DecodeSections ==
    /\ stage = "sections"
    /\ stage' = IF options.run_journal /\ "JRNL" \in present
                THEN "journal" ELSE "index"
    /\ UNCHANGED << vars, present, options, result, entries_read, journal_ran,
                    xref, xref_warnings, section_meta, report >>

RejectSections(code) == stage = "sections" /\ Fail(code)

\* Step 5: the replay machine runs to its end inside load().
Replay == stage = "journal" /\ Run /\ UNCHANGED loader

JournalDone ==
    /\ stage = "journal"
    /\ status = "ok"
    /\ journal_ran' = TRUE
    /\ stage' = "index"
    /\ UNCHANGED << vars, present, options, result, entries_read, xref,
                    xref_warnings, section_meta, report >>

\* An exception or a crash leaves load() without a Status.
Escaped == status \in {"bad_alloc", "crashed"}
JournalFailed ==
    /\ stage = "journal"
    /\ status \notin {"running", "ok"}
    /\ ~ Escaped
    /\ Fail(status)

\* Step 6, and the section that comes next.
BuildIndex ==
    /\ stage = "index"
    /\ xref' = build
    /\ stage' = IF "XREF" \in present THEN "reconcile"
                ELSE IF "META" \in present THEN "meta" ELSE "validate"
    /\ UNCHANGED << vars, present, options, result, entries_read, journal_ran,
                    xref_warnings, section_meta, report >>

\* Step 7, one entry at a time.
Reconcile(a, n) ==
    /\ stage = "reconcile"
    /\ entries_read < MaxEntries
    /\ \/ BadXref(a, n) /\ Fail("BadXref")
       \/ /\ ~ BadXref(a, n)
          /\ entries_read' = entries_read + 1
          /\ xref_warnings' = IF Disagrees(xref, a, n) THEN xref_warnings + 1
                              ELSE xref_warnings
          /\ UNCHANGED << vars, present, options, stage, result, journal_ran,
                          xref, section_meta, report >>

\* Step 8.
ReadMeta(key, value) ==
    /\ stage = "meta"
    /\ entries_read < MaxEntries
    /\ \/ ~ (key \in Atoms /\ value \in Names) /\ Fail("AtomOutOfRange")
       \/ /\ key \in Atoms /\ value \in Names
          /\ entries_read' = entries_read + 1
          /\ section_meta' = [section_meta EXCEPT ![key] = {value}]
          /\ UNCHANGED << vars, present, options, stage, result, journal_ran,
                          xref, xref_warnings, report >>

\* A count past its limit or a truncated entry, in either section.
RejectEntries(code) ==
    /\ stage \in {"reconcile", "meta"}
    /\ code \in {"LimitExceeded", "Truncated", "BadValue"}
    /\ Fail(code)

EntriesDone ==
    /\ stage \in {"reconcile", "meta"}
    /\ stage' = IF stage = "reconcile" /\ "META" \in present
                THEN "meta" ELSE "validate"
    /\ entries_read' = 0
    /\ UNCHANGED << vars, present, options, result, journal_ran, xref,
                    xref_warnings, section_meta, report >>

\* Step 9.
Validate ==
    /\ stage = "validate"
    /\ report' = validate_graph(options.strict_validation)
    /\ stage' = "loaded"
    /\ result' = "ok"
    /\ UNCHANGED << vars, present, options, entries_read, journal_ran, xref,
                    xref_warnings, section_meta >>

Load ==
    \/ DecodeSections
    \/ \E code \in SectionErrors : RejectSections(code)
    \/ Replay \/ JournalDone \/ JournalFailed
    \/ BuildIndex
    \/ \E a \in AtomOperands, n \in NodeOperands : Reconcile(a, n)
    \/ \E key, value \in AtomOperands : ReadMeta(key, value)
    \/ \E code \in SectionErrors : RejectEntries(code)
    \/ EntriesDone
    \/ Validate

\* load() has returned, or the process is gone.
LoadEnded == stage \in {"loaded", "failed"} \/ Escaped

LoadNext == Load \/ (LoadEnded /\ UNCHANGED load_vars)

LoadSpec == LoadInit /\ [][LoadNext]_load_vars

-----------------------------------------------------------------------------
\* What the index owes to the machine: a bound name is the same node in both, an
\* unbound one can only be an older node that a dropped one had shadowed ...
NamesAgree(index) ==
    \A a \in Atoms :
        IF name_index[a] # kInvalidNode
        THEN by_name(index, a) = name_index[a]
        ELSE \E n \in 0 .. Len(nodes) :
                /\ by_name(index, a) <= n
                /\ by_name(index, a) # kInvalidNode =>
                    n > by_name(index, a) /\ nodes[n].name = a /\ ~ nodes[n].alive

\* ... and both directions of every parent-child link are in it.
EdgesAgree(index) ==
    \A p \in DOMAIN nodes : \A c \in Children(p) :
        p \in index.referrers[c] /\ c \in index.referrers[p]

\* A name the machine still resolves is resolved to the same node by the
\* index of the loaded graph: the two were built by different code at
\* different times (register_name and do_drop_node; XrefIndex::build).  Where
\* the machine has lost the name, the index can only know an older node that a
\* dropped one had shadowed.  And with no freed pointer written through, every
\* group's owner and child refer to each other in the index (resolve_frame wires
\* both directions, build() reads refs and children).
IndexAgreesWithMachine ==
    stage \in {"reconcile", "meta", "validate", "loaded"} =>
        NamesAgree(xref) /\ (~ undefined => EdgesAgree(xref))

\* No node at all is an unfilled placeholder, each live node has its required
\* fields, and the live nodes are closed under refs; since a child refers to its
\* parent, no live node is left hanging below a dropped one.
SoundGraph ==
    \A n \in DOMAIN nodes :
        /\ ~ nodes[n].placeholder
        /\ nodes[n].alive =>
            /\ \A f \in Required[nodes[n].kind] : nodes[n].fields[f] # {}
            /\ \A t \in nodes[n].refs : Live(t)
            /\ \A p \in DOMAIN nodes : n \in Children(p) => nodes[p].alive

\* What a clean strict report promises (validate_graph).
CleanReportMeansSound ==
    stage = "loaded" /\ options.strict_validation /\ report.issues = {}
        /\ ~ undefined => SoundGraph

\* Dropped slots on the free list that are no placeholders.
DroppedNodes == {i \in DOMAIN free_list : ~ nodes[free_list[i]].placeholder}

\* The report accounts for every slot of the table once, whatever sequence of
\* operations led there: as live, as a placeholder (dropped ones too), or as a
\* dropped node the machine has on its free list.  No live node ever has a
\* kind the schema lacks.
AccountsForSlots(r) ==
    /\ r.unfilled_placeholders = stats.placeholders
    /\ r.live_nodes + r.unfilled_placeholders + Cardinality(DroppedNodes) = Len(nodes)
    /\ \A i \in r.issues : i[1] # "KindOutOfRange"

\* The report load() returns does so (validate_graph, do_drop_node).
ReportAccountsForSlots == stage = "loaded" => AccountsForSlots(report)

\* Nothing is built from a journal that did not reach its end: a loaded
\* container has no group open and no child still queued, its journal ran iff
\* it has one that was asked for, and without one the heap is untouched.
LoadedGraphIsComplete ==
    stage \in {"index", "reconcile", "meta", "validate", "loaded"} =>
        /\ frames = << >> /\ closing = << >>
        /\ journal_ran <=> status = "ok"
        /\ journal_ran <=> options.run_journal /\ "JRNL" \in present
        /\ ~ journal_ran => free_list = << >> /\ stats.nodes_created = Len(nodes)
=============================================================================
