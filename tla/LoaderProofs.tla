---------------------------- MODULE LoaderProofs ----------------------------
(***************************************************************************)
(* Theorems about load(): what the pipeline hands to its caller agrees     *)
(* with what the replay machine left behind, for every container.          *)
(***************************************************************************)
EXTENDS Loader, ReplayVMProofs, SetInduction, FunctionTheorems

-----------------------------------------------------------------------------
(* The machine inside load() *)

\* The placeholders of the table are those the machine has counted.
PlaceholdersCounted == stats.placeholders = Cardinality(Placeholders)

LEMMA PlaceholdersFinite ==
    TypeOK => IsFiniteSet(Placeholders) /\ IsFiniteSet(DOMAIN nodes)
<1> SUFFICES ASSUME TypeOK PROVE IsFiniteSet(Placeholders) /\ IsFiniteSet(DOMAIN nodes)
    OBVIOUS
<1>1. IsFiniteSet(DOMAIN nodes)
    BY NodesFinite, FS_Interval
<1>2. Placeholders \in SUBSET DOMAIN nodes
    BY DEF Placeholders
<1> QED
    BY <1>1, <1>2, FS_Subset

LEMMA PlaceholdersInit == Init => PlaceholdersCounted
<1> SUFFICES ASSUME Init PROVE PlaceholdersCounted
    OBVIOUS
<1>1. Placeholders = {}
    BY HeapSlots, HeapNodesFresh DEF Placeholders
<1> QED
    BY <1>1, HeapSlots, FS_EmptySet DEF PlaceholdersCounted

LEMMA PlaceholdersStep ==
    TypeOK /\ PlaceholdersCounted /\ [Next]_vars => PlaceholdersCounted'
<1> SUFFICES ASSUME TypeOK, PlaceholdersCounted,
                    SlotsKept \/ SlotAdded \/ \E n : SlotDropped(n)
             PROVE  PlaceholdersCounted'
    BY StepEffect
<1>1. ASSUME DOMAIN nodes' = DOMAIN nodes, stats'.placeholders = stats.placeholders,
             \A m \in DOMAIN nodes : SameSlot(nodes'[m], nodes[m])
      PROVE  PlaceholdersCounted'
    <2>1. Placeholders' = Placeholders
        BY <1>1 DEF Placeholders, SameSlot
    <2> QED
        BY <1>1, <2>1 DEF PlaceholdersCounted
<1>2. CASE SlotAdded
    <2> DEFINE new == Len(nodes) + 1
    <2>1. /\ DOMAIN nodes' = DOMAIN nodes \cup {new}
          /\ \A m \in DOMAIN nodes : nodes'[m].placeholder = nodes[m].placeholder
          /\ stats'.placeholders = IF nodes'[new].placeholder
                                   THEN stats.placeholders + 1 ELSE stats.placeholders
        BY <1>2 DEF SlotAdded, SameSlot
    <2>2. new \notin DOMAIN nodes
        BY NodesFinite
    <2> HIDE DEF new
    <2>3. CASE nodes'[new].placeholder
        <3>1. Placeholders' = Placeholders \cup {new} /\ new \notin Placeholders
            BY <2>1, <2>2, <2>3 DEF Placeholders
        <3>2. Cardinality(Placeholders \cup {new}) = Cardinality(Placeholders) + 1
            BY <3>1, PlaceholdersFinite, FS_AddElement
        <3> QED
            BY <2>1, <2>3, <3>1, <3>2 DEF PlaceholdersCounted
    <2>4. CASE ~ nodes'[new].placeholder
        <3>1. Placeholders' = Placeholders
            BY <2>1, <2>2, <2>4 DEF Placeholders
        <3> QED
            BY <2>1, <2>4, <3>1 DEF PlaceholdersCounted
    <2> QED
        BY <2>3, <2>4
<1> QED
    BY <1>1, <1>2 DEF SlotsKept, SlotDropped

\* What the rest of load() may rely on when the machine has run.
MachineInv ==
    /\ TypeOK
    /\ NameIndexIsNewestLive
    /\ FreeListIsTheDropped
    /\ SlotsAccounted
    /\ LinksClosed
    /\ OkMeansClosed
    /\ PlaceholdersCounted

LEMMA MachineInit == Init => MachineInv
BY InitTyped, NameIndexInit, FreeListInit, SlotsInit, LinksInit, OkInit, PlaceholdersInit
DEF MachineInv

LEMMA MachineStep == MachineInv /\ [Next]_vars => MachineInv'
BY StepTyped, NameIndexStep, FreeListStep, SlotsStep, LinksStep, OkStep, PlaceholdersStep
DEF MachineInv

-----------------------------------------------------------------------------
(* The stages *)

\* A step that leaves the machine and what was built alone: an entry read, a
\* section done, or nothing at all.
Reading ==
    /\ UNCHANGED << vars, present, options, journal_ran, xref, report >>
    /\ \/ stage' = stage
       \/ stage \in {"reconcile", "meta"} /\ stage' \in {"meta", "validate"}

Failing == UNCHANGED << vars, journal_ran >> /\ stage' = "failed"

LEMMA LoadStepIsACase ==
    [LoadNext]_load_vars =>
        \/ Replay \/ DecodeSections \/ JournalDone \/ BuildIndex \/ Validate
        \/ Reading \/ Failing
<1> SUFFICES ASSUME [LoadNext]_load_vars
             PROVE  \/ Replay \/ DecodeSections \/ JournalDone \/ BuildIndex \/ Validate
                    \/ Reading \/ Failing
    OBVIOUS
<1>1. ASSUME NEW code, Fail(code) PROVE Failing
    BY <1>1 DEF Fail, Failing
<1>2. ASSUME NEW code, RejectSections(code) \/ RejectEntries(code) PROVE Failing
    BY <1>1, <1>2 DEF RejectSections, RejectEntries
<1>3. ASSUME NEW a, NEW n, Reconcile(a, n) PROVE Reading \/ Failing
    BY <1>1, <1>3 DEF Reconcile, Reading
<1>4. ASSUME NEW key, NEW value, ReadMeta(key, value) PROVE Reading \/ Failing
    BY <1>1, <1>4 DEF ReadMeta, Reading
<1>5. CASE EntriesDone
    BY <1>5 DEF EntriesDone, Reading
<1>6. CASE JournalFailed
    BY <1>1, <1>6 DEF JournalFailed
<1>7. CASE UNCHANGED load_vars
    BY <1>7 DEF load_vars, loader, Reading
<1> QED
    BY <1>2, <1>3, <1>4, <1>5, <1>6, <1>7 DEF LoadNext, Load

\* The machine moves in the journal stage only, and as ReplayVM says.
LEMMA MachineMoves ==
    ASSUME [LoadNext]_load_vars
    PROVE  [Next]_vars
<1>1. Replay => Next
    BY DEF Replay, Next
<1>2. DecodeSections \/ JournalDone \/ BuildIndex \/ Validate \/ Reading \/ Failing
        => UNCHANGED vars
    BY DEF DecodeSections, JournalDone, BuildIndex, Validate, Reading, Failing
<1> QED
    BY <1>1, <1>2, LoadStepIsACase

LEMMA MachineInLoad == MachineInv /\ [LoadNext]_load_vars => MachineInv'
BY MachineMoves, MachineStep

\* Before the journal the machine is as it was seeded; while it runs, it was
\* asked for; afterwards the graph is complete.
JournalAsked == options.run_journal /\ "JRNL" \in present
Seeded ==
    /\ status = "running" /\ frames = << >> /\ closing = << >>
    /\ free_list = << >> /\ stats.nodes_created = Len(nodes)
StagesInOrder ==
    /\ journal_ran \in BOOLEAN
    /\ stage = "sections" => ~ journal_ran /\ Seeded
    /\ stage = "journal" => ~ journal_ran /\ JournalAsked
    /\ LoadedGraphIsComplete

LEMMA StagesInit == LoadInit => StagesInOrder
<1> SUFFICES ASSUME LoadInit PROVE StagesInOrder
    OBVIOUS
<1>1. Seeded
    BY HeapSlots DEF LoadInit, Init, Seeded
<1> QED
    BY <1>1 DEF LoadInit, StagesInOrder, LoadedGraphIsComplete

LEMMA StagesStep ==
    MachineInv /\ StagesInOrder /\ [LoadNext]_load_vars => StagesInOrder'
<1> SUFFICES ASSUME MachineInv, StagesInOrder, [LoadNext]_load_vars
             PROVE  StagesInOrder'
    OBVIOUS
<1>1. CASE Replay
    BY <1>1 DEF Replay, loader, StagesInOrder, JournalAsked, LoadedGraphIsComplete
<1>2. CASE DecodeSections
    BY <1>2 DEF DecodeSections, StagesInOrder, JournalAsked, Seeded,
                LoadedGraphIsComplete, vars
<1>3. CASE JournalDone
    BY <1>3 DEF JournalDone, MachineInv, OkMeansClosed, StagesInOrder, JournalAsked,
                LoadedGraphIsComplete, vars
<1>4. CASE BuildIndex
    BY <1>4 DEF BuildIndex, StagesInOrder, LoadedGraphIsComplete, vars
<1>5. CASE Validate
    BY <1>5 DEF Validate, StagesInOrder, LoadedGraphIsComplete, vars
<1>6. CASE Reading
    BY <1>6 DEF Reading, StagesInOrder, JournalAsked, Seeded, LoadedGraphIsComplete, vars
<1>7. CASE Failing
    <2>1. journal_ran' \in BOOLEAN
        BY <1>7 DEF Failing, StagesInOrder
    <2> QED
        BY <1>7, <2>1 DEF Failing, StagesInOrder, LoadedGraphIsComplete
<1> QED
    BY <1>1, <1>2, <1>3, <1>4, <1>5, <1>6, <1>7, LoadStepIsACase

\* Whatever the container holds, load() goes past the journal only with no group
\* open and no child queued, and the journal ran iff it was there and asked for.
THEOREM LoadedComplete == LoadSpec => []LoadedGraphIsComplete
<1>1. LoadInit => MachineInv /\ StagesInOrder
    BY MachineInit, StagesInit DEF LoadInit
<1>2. MachineInv /\ StagesInOrder /\ [LoadNext]_load_vars => (MachineInv /\ StagesInOrder)'
    BY MachineInLoad, StagesStep
<1>3. StagesInOrder => LoadedGraphIsComplete
    BY DEF StagesInOrder
<1> QED
    BY <1>1, <1>2, <1>3, PTL DEF LoadSpec

-----------------------------------------------------------------------------
(* The index *)

\* Among the nodes of a name there is a newest, no older than any given one.
LEMMA NewestNamed ==
    ASSUME TypeOK, NEW a, NEW n \in DOMAIN nodes, nodes[n].name = a
    PROVE  \E m \in DOMAIN nodes :
              /\ nodes[m].name = a /\ n <= m
              /\ \A k \in DOMAIN nodes : k > m => nodes[k].name # a
<1> DEFINE named == {k \in DOMAIN nodes : nodes[k].name = a}
<1>1. named \subseteq DOMAIN nodes /\ n \in named
    OBVIOUS
<1>2. DOMAIN nodes \subseteq Int
    BY NodesFinite
<1>3. IsFiniteSet(named)
    BY <1>1, PlaceholdersFinite, FS_Subset
<1> HIDE DEF named
<1>4. PICK m \in named : \A k \in named : k <= m
    BY <1>1, <1>2, <1>3, GreatestElement
<1>5. m \in DOMAIN nodes /\ nodes[m].name = a /\ n <= m
    BY <1>1, <1>4 DEF named
<1>6. ASSUME NEW k \in DOMAIN nodes, k > m PROVE nodes[k].name # a
    <2>1. k \in Int /\ m \in Int
        BY <1>2, <1>5
    <2>2. k \notin named
        BY <1>4, <1>6, <2>1
    <2> QED
        BY <2>2 DEF named
<1> QED
    BY <1>5, <1>6

\* The live nodes of a name.
LiveNamed(a) == {n \in DOMAIN nodes : nodes[n].name = a /\ nodes[n].alive}

\* The index answers with the newest live node of a name, if there is one.
LEMMA NewestLiveIs ==
    ASSUME TypeOK, NEW a
    PROVE  /\ LiveNamed(a) = {} => NewestLive(a) = kInvalidNode
           /\ LiveNamed(a) # {} =>
                /\ NewestLive(a) \in LiveNamed(a)
                /\ \A m \in LiveNamed(a) : m <= NewestLive(a)
<1>1. NewestLive(a) = IF LiveNamed(a) = {} THEN kInvalidNode
                      ELSE CHOOSE n \in LiveNamed(a) : \A m \in LiveNamed(a) : m <= n
    BY DEF NewestLive, LiveNamed
<1>2. LiveNamed(a) \subseteq DOMAIN nodes
    BY DEF LiveNamed
<1>3. LiveNamed(a) \in SUBSET Int /\ IsFiniteSet(LiveNamed(a))
    BY <1>2, NodesFinite, PlaceholdersFinite, FS_Subset
<1>4. LiveNamed(a) # {} =>
          \E n \in LiveNamed(a) : \A m \in LiveNamed(a) : m <= n
    BY <1>3, GreatestElement
<1> QED
    BY <1>1, <1>4

\* Whatever was shadowed or dropped, build() resolves the names the machine does.
LEMMA NamesAtBuild == MachineInv => NamesAgree(build)
<1> SUFFICES ASSUME MachineInv, NEW a \in Atoms
             PROVE  IF name_index[a] # kInvalidNode
                    THEN NewestLive(a) = name_index[a]
                    ELSE \E n \in 0 .. Len(nodes) :
                            /\ NewestLive(a) <= n
                            /\ NewestLive(a) # kInvalidNode =>
                                /\ n > NewestLive(a)
                                /\ nodes[n].name = a /\ ~ nodes[n].alive
    BY DEF NamesAgree, by_name, build
<1>1. /\ TypeOK /\ NameIndexIsNewestLive
      /\ Len(nodes) \in Nat /\ DOMAIN nodes = 1 .. Len(nodes)
    BY NodesFinite DEF MachineInv
<1>2. ASSUME NEW n \in DOMAIN nodes, nodes[n].name = a,
             \A k \in DOMAIN nodes : k > n => nodes[k].name # a
      PROVE  name_index[a] = IF nodes[n].alive THEN n ELSE kInvalidNode
    BY <1>1, <1>2 DEF NameIndexIsNewestLive
<1>3. CASE name_index[a] # kInvalidNode
    <2> DEFINE x == name_index[a]
    <2>1. x \in LiveNamed(a)
        <3>1. x \in DOMAIN nodes
            BY <1>1, <1>3 DEF TypeOK, kInvalidNode
        <3>2. nodes[x].name = a /\ nodes[x].alive
            BY <1>1, <1>3 DEF NameIndexIsNewestLive
        <3> QED
            BY <3>1, <3>2 DEF LiveNamed
    <2>2. PICK m \in DOMAIN nodes :
              /\ nodes[m].name = a /\ NewestLive(a) <= m
              /\ \A k \in DOMAIN nodes : k > m => nodes[k].name # a
        <3>1. NewestLive(a) \in LiveNamed(a)
            BY <1>1, <2>1, NewestLiveIs
        <3> QED
            BY <1>1, <3>1, NewestNamed, SMTT(60) DEF LiveNamed
    <2>3. x = m
        BY <1>2, <1>3, <2>2
    <2>4. x <= NewestLive(a) /\ NewestLive(a) \in DOMAIN nodes
        BY <1>1, <2>1, NewestLiveIs DEF LiveNamed
    <2> QED
        BY <1>1, <1>3, <2>2, <2>3, <2>4
<1>4. CASE name_index[a] = kInvalidNode
    <2>1. CASE LiveNamed(a) = {}
        <3>1. NewestLive(a) = 0 /\ 0 \in 0 .. Len(nodes)
            BY <1>1, <2>1, NewestLiveIs DEF kInvalidNode
        <3> QED
            BY <1>4, <3>1 DEF kInvalidNode
    <2>2. CASE LiveNamed(a) # {}
        <3> DEFINE b == NewestLive(a)
        <3>1. b \in DOMAIN nodes /\ nodes[b].name = a /\ nodes[b].alive
            BY <1>1, <2>2, NewestLiveIs DEF LiveNamed
        <3>2. PICK m \in DOMAIN nodes :
                  /\ nodes[m].name = a /\ b <= m
                  /\ \A k \in DOMAIN nodes : k > m => nodes[k].name # a
            <4> HIDE DEF b
            <4> QED
                BY <1>1, <3>1, NewestNamed, SMTT(60)
        <3>3. ~ nodes[m].alive
            BY <1>1, <1>2, <1>4, <3>2 DEF kInvalidNode
        <3>4. m \in 0 .. Len(nodes) /\ m > b /\ b <= m
            BY <1>1, <3>1, <3>2, <3>3
        <3> QED
            BY <1>4, <3>2, <3>3, <3>4
    <2> QED
        BY <2>1, <2>2
<1> QED
    BY <1>3, <1>4

\* Every link that was written at both ends is read from both ends.
LEMMA EdgesAtBuild == MachineInv /\ ~ undefined => EdgesAgree(build)
<1> SUFFICES ASSUME MachineInv, ~ undefined, NEW p \in DOMAIN nodes, NEW c \in Children(p)
             PROVE  p \in build.referrers[c] /\ c \in build.referrers[p]
    BY DEF EdgesAgree
<1>1. c \in DOMAIN nodes /\ p \in nodes[c].refs
    BY DEF MachineInv, LinksClosed, Children, InRange
<1>2. c \in Edges(p) /\ p \in Edges(c)
    BY <1>1 DEF Edges
<1>3. \A t \in DOMAIN nodes : build.referrers[t] = {n \in DOMAIN nodes : t \in Edges(n)}
    BY DEF build
<1> QED
    BY <1>1, <1>2, <1>3

LEMMA IndexInit == LoadInit => IndexAgreesWithMachine
BY DEF LoadInit, IndexAgreesWithMachine

LEMMA IndexStep ==
    MachineInv /\ IndexAgreesWithMachine /\ [LoadNext]_load_vars => IndexAgreesWithMachine'
<1> SUFFICES ASSUME MachineInv, IndexAgreesWithMachine, [LoadNext]_load_vars
             PROVE  IndexAgreesWithMachine'
    OBVIOUS
<1>1. ASSUME NEW b, xref' = b, UNCHANGED vars,
             NamesAgree(b), ~ undefined => EdgesAgree(b)
      PROVE  IndexAgreesWithMachine'
    BY <1>1 DEF IndexAgreesWithMachine, NamesAgree, EdgesAgree, by_name, Children, vars
<1>2. CASE Replay
    BY <1>2 DEF Replay, loader, IndexAgreesWithMachine
<1>3. CASE DecodeSections
    BY <1>3 DEF DecodeSections, IndexAgreesWithMachine
<1>4. CASE JournalDone
    BY <1>4 DEF JournalDone, IndexAgreesWithMachine
<1>5. CASE BuildIndex
    <2>1. xref' = build /\ UNCHANGED vars
        BY <1>5 DEF BuildIndex
    <2> QED
        BY <1>1, <2>1, NamesAtBuild, EdgesAtBuild
<1>6. CASE Validate
    <2>1. stage = "validate" /\ xref' = xref /\ UNCHANGED vars
        BY <1>6 DEF Validate
    <2> QED
        BY <1>1, <2>1 DEF IndexAgreesWithMachine
<1>7. CASE Reading
    <2>1. xref' = xref /\ UNCHANGED vars
        BY <1>7 DEF Reading
    <2>2. CASE stage \in {"reconcile", "meta", "validate", "loaded"}
        BY <1>1, <2>1, <2>2 DEF IndexAgreesWithMachine
    <2>3. CASE stage \notin {"reconcile", "meta", "validate", "loaded"}
        BY <1>7, <2>3 DEF Reading, IndexAgreesWithMachine
    <2> QED
        BY <2>2, <2>3
<1>8. CASE Failing
    BY <1>8 DEF Failing, IndexAgreesWithMachine
<1> QED
    BY <1>2, <1>3, <1>4, <1>5, <1>6, <1>7, <1>8, LoadStepIsACase

\* The index of a loaded graph and the machine's own name table, kept by
\* different code, resolve a name to the same node, and both ends of every
\* link are in the index unless a freed pointer was written through.
THEOREM IndexMatchesMachine == LoadSpec => []IndexAgreesWithMachine
<1>1. LoadInit => MachineInv /\ IndexAgreesWithMachine
    BY MachineInit, IndexInit DEF LoadInit
<1>2. MachineInv /\ IndexAgreesWithMachine /\ [LoadNext]_load_vars
        => (MachineInv /\ IndexAgreesWithMachine)'
    BY MachineInLoad, IndexStep
<1> QED
    BY <1>1, <1>2, PTL DEF LoadSpec

-----------------------------------------------------------------------------
(* The report *)

\* The nodes of the table that were dropped and had been filled.
DeadNodes == {n \in DOMAIN nodes : ~ nodes[n].placeholder /\ ~ nodes[n].alive}

\* The machine's free list numbers them.
LEMMA DroppedAreTheDead ==
    ASSUME TypeOK, FreeListIsTheDropped
    PROVE  IsFiniteSet(DeadNodes) /\ Cardinality(DroppedNodes) = Cardinality(DeadNodes)
<1>1. DOMAIN free_list = 1 .. Len(free_list) /\ Len(free_list) \in Nat
    BY LenProperties DEF TypeOK
<1>2. DroppedNodes \in SUBSET DOMAIN free_list
    BY DEF DroppedNodes
<1>3. IsFiniteSet(DroppedNodes)
    <2>1. IsFiniteSet(DOMAIN free_list)
        BY <1>1, FS_Interval
    <2> QED
        BY <1>2, <2>1, FS_Subset
<1> DEFINE slot == [i \in DroppedNodes |-> free_list[i]]
<1>4. slot \in [DroppedNodes -> DeadNodes]
    <2> SUFFICES ASSUME NEW i \in DroppedNodes PROVE free_list[i] \in DeadNodes
        OBVIOUS
    <2>1. i \in DOMAIN free_list /\ ~ nodes[free_list[i]].placeholder
        BY DEF DroppedNodes
    <2>2. free_list[i] \in DOMAIN nodes /\ ~ nodes[free_list[i]].alive
        BY <2>1 DEF FreeListIsTheDropped, InRange
    <2> QED
        BY <2>1, <2>2 DEF DeadNodes
<1>5. ASSUME NEW i \in DroppedNodes, NEW j \in DroppedNodes, slot[i] = slot[j]
      PROVE  i = j
    BY <1>2, <1>5 DEF FreeListIsTheDropped
<1>6. ASSUME NEW n \in DeadNodes PROVE \E i \in DroppedNodes : slot[i] = n
    <2>1. PICK i \in DOMAIN free_list : free_list[i] = n
        BY DEF DeadNodes, FreeListIsTheDropped
    <2>2. i \in DroppedNodes
        BY <2>1 DEF DeadNodes, DroppedNodes
    <2> QED
        BY <2>1, <2>2
<1> HIDE DEF slot
<1>7. slot \in Bijection(DroppedNodes, DeadNodes)
    BY <1>4, <1>5, <1>6, Fun_IsBij
<1>8. ExistsBijection(DroppedNodes, DeadNodes)
    BY <1>7 DEF ExistsBijection
<1> QED
    BY <1>3, <1>8, FS_Bijection

\* The table is made of the live nodes, the placeholders and the dead ones.
LEMMA SlotsPartitioned ==
    ASSUME TypeOK, FreeListIsTheDropped
    PROVE  Cardinality(LiveNodes) + Cardinality(Placeholders)
               + Cardinality(DroppedNodes) = Len(nodes)
<1>1. /\ IsFiniteSet(DOMAIN nodes) /\ Len(nodes) \in Nat
      /\ Cardinality(DOMAIN nodes) = Len(nodes)
    BY NodesFinite, PlaceholdersFinite, FS_Interval, SMTT(60)
<1>2. IsFiniteSet(LiveNodes) /\ IsFiniteSet(Placeholders) /\ IsFiniteSet(DeadNodes)
    <2>1. LiveNodes \in SUBSET DOMAIN nodes
        BY DEF LiveNodes
    <2> QED
        BY <1>1, <2>1, FS_Subset, PlaceholdersFinite, DroppedAreTheDead
<1> DEFINE Filled == LiveNodes \cup DeadNodes
<1>3. LiveNodes \cap DeadNodes = {}
    BY DEF LiveNodes, DeadNodes
<1>4. IsFiniteSet(Filled)
      /\ Cardinality(Filled) = Cardinality(LiveNodes) + Cardinality(DeadNodes)
    <2>1. Cardinality(LiveNodes) \in Nat /\ Cardinality(DeadNodes) \in Nat
        BY <1>2, FS_CardinalityType
    <2> QED
        BY <1>2, <1>3, <2>1, FS_Union, FS_EmptySet
<1>5. Filled \cap Placeholders = {} /\ Filled \cup Placeholders = DOMAIN nodes
    BY DEF LiveNodes, DeadNodes, Placeholders
<1> HIDE DEF Filled
<1>6. /\ Cardinality(Filled) \in Nat /\ Cardinality(Placeholders) \in Nat
      /\ Cardinality(LiveNodes) \in Nat /\ Cardinality(DeadNodes) \in Nat
    BY <1>2, <1>4, FS_CardinalityType
<1>7. Cardinality(DOMAIN nodes) = Cardinality(Filled) + Cardinality(Placeholders)
    <2>1. /\ Cardinality(Filled \cup Placeholders)
                = Cardinality(Filled) + Cardinality(Placeholders)
                    - Cardinality(Filled \cap Placeholders)
          /\ Cardinality({}) = 0
        BY <1>2, <1>4, FS_Union, FS_EmptySet
    <2>2. /\ Cardinality(Filled \cap Placeholders) = Cardinality({})
          /\ Cardinality(Filled \cup Placeholders) = Cardinality(DOMAIN nodes)
        BY <1>5, Zenon
    <2> QED
        BY <1>6, <2>1, <2>2
<1> QED
    BY <1>1, <1>4, <1>6, <1>7, DroppedAreTheDead

\* A live node has a declared kind: a placeholder is all that ever lacks one.
LEMMA LiveAreChecked ==
    ASSUME TypeOK, SlotsAccounted
    PROVE  /\ BadKinds = {} /\ Checked = LiveNodes
           /\ \A n \in LiveNodes : nodes[n].kind \in Kinds
<1>1. ASSUME NEW n \in LiveNodes PROVE nodes[n].kind \in Kinds
    <2>1. n \in DOMAIN nodes /\ ~ nodes[n].placeholder
        BY DEF LiveNodes
    <2>2. nodes[n] \in NodeRecord /\ nodes[n].kind # NoKind
        BY <2>1, NodesFinite DEF SlotsAccounted
    <2> QED
        BY <2>2 DEF NodeRecord, KindOperands
<1> QED
    BY <1>1 DEF BadKinds, Checked

LEMMA ReportAccounts ==
    ASSUME MachineInv, NEW strict
    PROVE  AccountsForSlots(validate_graph(strict))
<1> DEFINE r == validate_graph(strict)
<1>1. TypeOK /\ FreeListIsTheDropped /\ SlotsAccounted /\ PlaceholdersCounted
    BY DEF MachineInv
<1>2. /\ r.live_nodes = Cardinality(LiveNodes)
      /\ r.unfilled_placeholders = Cardinality(Placeholders)
    BY DEF validate_graph
<1>3. ASSUME NEW i \in r.issues PROVE i[1] # "KindOutOfRange"
    <2>1. \/ \E n \in BadKinds : i = << "KindOutOfRange", n >>
          \/ \E nf \in MissingRequired : i = << "InvariantViolation", nf[1] >>
          \/ \E n \in Placeholders : i = << "UnresolvedRef", n >>
          \/ \E e \in DanglingRefs \cup DanglingChildren : i = << "UnresolvedRef", e[1] >>
        BY DEF validate_graph
    <2>2. BadKinds = {}
        BY <1>1, LiveAreChecked
    <2> QED
        BY <2>1, <2>2
<1> HIDE DEF r
<1>4. r.live_nodes + r.unfilled_placeholders + Cardinality(DroppedNodes) = Len(nodes)
    BY <1>1, <1>2, SlotsPartitioned
<1>5. r.unfilled_placeholders = stats.placeholders
    BY <1>1, <1>2 DEF PlaceholdersCounted
<1>6. AccountsForSlots(r)
    BY <1>3, <1>4, <1>5 DEF AccountsForSlots
<1> QED
    BY <1>6 DEF r

\* A strict report without issues leaves no soft problem unseen.
LEMMA NothingReported ==
    ASSUME NEW strict, strict, validate_graph(strict).issues = {}
    PROVE  /\ Placeholders = {} /\ MissingRequired = {} /\ DanglingRefs = {}
<1> DEFINE issues == validate_graph(strict).issues
<1>1. ASSUME NEW n \in Placeholders PROVE FALSE
    <2>1. << "UnresolvedRef", n >> \in issues
        BY DEF validate_graph
    <2> QED
        BY <2>1
<1>2. ASSUME NEW nf \in MissingRequired PROVE FALSE
    <2>1. << "InvariantViolation", nf[1] >> \in issues
        BY DEF validate_graph
    <2> QED
        BY <2>1
<1>3. ASSUME NEW e \in DanglingRefs PROVE FALSE
    <2>1. << "UnresolvedRef", e[1] >> \in issues
        BY DEF validate_graph
    <2> QED
        BY <2>1
<1> QED
    BY <1>1, <1>2, <1>3

LEMMA SoundWhenClean ==
    ASSUME MachineInv, ~ undefined, NEW strict, strict,
           validate_graph(strict).issues = {}
    PROVE  SoundGraph
<1>1. TypeOK /\ SlotsAccounted /\ LinksClosed
    BY DEF MachineInv
<1>2. Placeholders = {} /\ MissingRequired = {} /\ DanglingRefs = {}
    BY NothingReported
<1>3. ASSUME NEW n \in DOMAIN nodes PROVE ~ nodes[n].placeholder
    BY <1>2 DEF Placeholders
<1>4. ASSUME NEW n \in DOMAIN nodes, nodes[n].alive
      PROVE  /\ \A f \in Required[nodes[n].kind] : nodes[n].fields[f] # {}
             /\ \A t \in nodes[n].refs : Live(t)
             /\ \A p \in DOMAIN nodes : n \in Children(p) => nodes[p].alive
    <2>1. n \in Checked /\ nodes[n].kind \in Kinds
        <3>1. n \in LiveNodes
            BY <1>3, <1>4 DEF LiveNodes
        <3> QED
            BY <1>1, <3>1, LiveAreChecked
    <2>2. ASSUME NEW f \in Required[nodes[n].kind] PROVE nodes[n].fields[f] # {}
        <3>1. f \in Fields
            BY <2>1, RequiredAssumption
        <3>2. << n, f >> \notin MissingRequired
            BY <1>2
        <3> QED
            BY <2>1, <3>1, <3>2 DEF MissingRequired
    <2>3. ASSUME NEW t \in nodes[n].refs PROVE InRange(t) /\ Live(t)
        <3>1. << n, t >> \notin DanglingRefs
            BY <1>2
        <3>2. InRange(t) /\ nodes[t].alive
            BY <2>1, <3>1 DEF DanglingRefs
        <3>3. t # kInvalidNode
            BY <1>1, <3>2, NodesFinite DEF InRange, kInvalidNode
        <3> QED
            BY <3>2, <3>3 DEF Live
    <2>4. ASSUME NEW p \in DOMAIN nodes, n \in Children(p) PROVE nodes[p].alive
        <3>1. p \in nodes[n].refs
            BY <1>1, <2>4 DEF LinksClosed, Children
        <3> QED
            BY <2>3, <3>1 DEF Live
    <2> QED
        BY <2>2, <2>3, <2>4
<1> QED
    BY <1>3, <1>4 DEF SoundGraph

\* What holds of the report when it is written holds of it for good: nothing
\* runs after validate_graph.
ReportHolds == ReportAccountsForSlots /\ CleanReportMeansSound

LEMMA ReportInit == LoadInit => ReportHolds
BY DEF LoadInit, ReportHolds, ReportAccountsForSlots, CleanReportMeansSound

LEMMA ReportStep ==
    MachineInv /\ ReportHolds /\ [LoadNext]_load_vars => ReportHolds'
<1> SUFFICES ASSUME MachineInv, ReportHolds, [LoadNext]_load_vars
             PROVE  ReportHolds'
    OBVIOUS
<1>1. ASSUME NEW r, report' = r, UNCHANGED << vars, options >>,
             AccountsForSlots(r),
             options.strict_validation /\ r.issues = {} /\ ~ undefined => SoundGraph
      PROVE  ReportHolds'
    <2>1. AccountsForSlots(r)'
        BY <1>1, ZenonT(60) DEF AccountsForSlots, DroppedNodes, vars
    <2>2. SoundGraph => SoundGraph'
        BY <1>1 DEF SoundGraph, Live, Children, vars
    <2>3. undefined' = undefined /\ options' = options
        BY <1>1 DEF vars
    <2> QED
        BY <1>1, <2>1, <2>2, <2>3
        DEF ReportHolds, ReportAccountsForSlots, CleanReportMeansSound
<1>2. CASE Validate
    <2> DEFINE strict == options.strict_validation
    <2>1. report' = validate_graph(strict) /\ UNCHANGED << vars, options >>
        BY <1>2 DEF Validate
    <2> HIDE DEF strict
    <2>2. AccountsForSlots(validate_graph(strict))
        BY ReportAccounts
    <2>3. strict /\ validate_graph(strict).issues = {} /\ ~ undefined => SoundGraph
        BY SoundWhenClean
    <2> QED
        BY <1>1, <2>1, <2>2, <2>3 DEF strict
<1>3. CASE Reading
    <2>1. report' = report /\ UNCHANGED << vars, options >>
        BY <1>3 DEF Reading
    <2>2. CASE stage = "loaded"
        BY <1>1, <2>1, <2>2 DEF ReportHolds, ReportAccountsForSlots, CleanReportMeansSound
    <2>3. CASE stage # "loaded"
        BY <1>3, <2>3
        DEF Reading, ReportHolds, ReportAccountsForSlots, CleanReportMeansSound
    <2> QED
        BY <2>2, <2>3
<1>4. ASSUME stage' # "loaded" PROVE ReportHolds'
    BY <1>4 DEF ReportHolds, ReportAccountsForSlots, CleanReportMeansSound
<1>5. Replay \/ DecodeSections \/ JournalDone \/ BuildIndex \/ Failing => stage' # "loaded"
    BY DEF Replay, loader, DecodeSections, JournalDone, BuildIndex, Failing
<1> QED
    BY <1>2, <1>3, <1>4, <1>5, LoadStepIsACase

\* The report of a load adds up: live nodes, placeholders and the machine's free
\* list share out the table, and no live node has a kind the schema lacks.
THEOREM ReportAddsUp == LoadSpec => []ReportAccountsForSlots
<1>1. LoadInit => MachineInv /\ ReportHolds
    BY MachineInit, ReportInit DEF LoadInit
<1>2. MachineInv /\ ReportHolds /\ [LoadNext]_load_vars => (MachineInv /\ ReportHolds)'
    BY MachineInLoad, ReportStep
<1>3. ReportHolds => ReportAccountsForSlots
    BY DEF ReportHolds
<1> QED
    BY <1>1, <1>2, <1>3, PTL DEF LoadSpec

\* A strict load without issues hands over a closed graph: validate_graph looks
\* at the live nodes' own edges only, and LinksClosed gives the rest.
THEOREM CleanMeansSound == LoadSpec => []CleanReportMeansSound
<1>1. LoadInit => MachineInv /\ ReportHolds
    BY MachineInit, ReportInit DEF LoadInit
<1>2. MachineInv /\ ReportHolds /\ [LoadNext]_load_vars => (MachineInv /\ ReportHolds)'
    BY MachineInLoad, ReportStep
<1>3. ReportHolds => CleanReportMeansSound
    BY DEF ReportHolds
<1> QED
    BY <1>1, <1>2, <1>3, PTL DEF LoadSpec
=============================================================================
