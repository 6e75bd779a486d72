--------------------------- MODULE SchemaRegistry ---------------------------
(***************************************************************************)
(* The registry of schema versions of src/src/schema_registry.cpp, and the *)
(* life of a node table that its caller migrates from one version to       *)
(* another.  Ids count from one, kInvalidKind is 0; a value is its type    *)
(* and the name of the field it was written to.                            *)
(***************************************************************************)
EXTENDS Naturals, Sequences, FiniteSets

Seqs == INSTANCE SequencesExt

CONSTANTS
    VersionIds,         \* ids that callers use
    Versions,           \* schemas with their pools that callers register
    NodeCount,          \* length of a table
    NoName,             \* the name of no field
    MaxSections, MaxAtoms, MaxKinds, MaxFieldsPerKind   \* Limits

VARIABLES
    versions,   \* versions_: an id holds a set of at most one version
    nodes,      \* a table the caller has, << >> before the first
    current,    \* the id of its version, {} before the first
    aligned,    \* its migrations were between aligned schemas
    status      \* the code of the last call

vars == << versions, nodes, current, aligned, status >>

kInvalidKind == 0
FieldIds == 1 .. MaxFieldsPerKind + 1
Value(type, of) == [type |-> type, of |-> of]
Null == Value("Invalid", NoName)

\* A schema and its pool: both are vectors, the fields of each kind too.
IsVector(s) == s \in Seq(Seqs!ToSet(s))
IsVersion(v) ==
    /\ v = [atoms |-> v.atoms, kinds |-> v.kinds]
    /\ IsVector(v.atoms) /\ NoName \notin Seqs!ToSet(v.atoms)
    /\ IsVector(v.kinds)
    /\ \A k \in DOMAIN v.kinds :
        /\ IsVector(v.kinds[k].fields)
        /\ Len(v.kinds[k].fields) <= MaxFieldsPerKind + 1

ASSUME RegistryAssumption ==
    /\ NodeCount \in Nat
    /\ {MaxSections, MaxAtoms, MaxKinds, MaxFieldsPerKind} \subseteq Nat
    /\ \A v \in Versions : IsVersion(v)

-----------------------------------------------------------------------------
(* Names.  A later kind or field of a name hides the earlier ones, and one  *)
(* whose atom is not in the pool has no name.                               *)

Text(v, atom) == IF atom \in DOMAIN v.atoms THEN v.atoms[atom] ELSE NoName

build_name_map(v, defs) ==
    LET names == {Text(v, defs[i].name) : i \in DOMAIN defs} \ {NoName}
        Holders(s) == {i \in DOMAIN defs : Text(v, defs[i].name) = s}
    IN  [s \in names |-> CHOOSE i \in Holders(s) : \A j \in Holders(s) : j <= i]

kind_names(v) == build_name_map(v, v.kinds)
field_names(v, k) == build_name_map(v, v.kinds[k].fields)

-----------------------------------------------------------------------------
(* Migration plans *)

Migration(what, kind, field, old, new) ==
    [ migration_kind |-> what, kind_id |-> kind, field_idx |-> field,
      old_type |-> old, new_type |-> new ]

Field(v, k, f) == v.kinds[k].fields[f]

RemovedKind(v, k) ==
    { Migration("RemoveField", k, f, Field(v, k, f).type, "Invalid") :
        f \in DOMAIN v.kinds[k].fields }

AddedKind(w, k) ==
    { Migration("AddField", kInvalidKind, f, "Invalid", Field(w, k, f).type) :
        f \in DOMAIN w.kinds[k].fields }

\* Kind k of v has become kind j of w.
RemovedFields(v, k, w, j) ==
    LET from == field_names(v, k)
    IN  { Migration("RemoveField", k, from[s], Field(v, k, from[s]).type, "Invalid") :
            s \in DOMAIN from \ DOMAIN field_names(w, j) }
AddedFields(v, k, w, j) ==
    LET to == field_names(w, j)
    IN  { Migration("AddField", k, to[s], "Invalid", Field(w, j, to[s]).type) :
            s \in DOMAIN to \ DOMAIN field_names(v, k) }
ChangedFields(v, k, w, j) ==
    LET from == field_names(v, k)
        to == field_names(w, j)
    IN  { Migration("ChangeType", k, from[s],
                    Field(v, k, from[s]).type, Field(w, j, to[s]).type) :
            s \in {s \in DOMAIN from \cap DOMAIN to :
                        Field(v, k, from[s]).type # Field(w, j, to[s]).type} }

\* The plan goes through the kinds one by one, and through the fields of each in
\* three passes: removals, additions, changes.  Migrations of one pass write
\* different fields or write the same, and a node is of one kind: to a node the
\* plan is its three passes.
compute_migration(v, w) ==
    LET from == kind_names(v)
        to == kind_names(w)
        kept == DOMAIN from \cap DOMAIN to
        gone == DOMAIN from \ DOMAIN to
        brand_new == DOMAIN to \ DOMAIN from
    IN  [ removed |-> (UNION {RemovedFields(v, from[s], w, to[s]) : s \in kept})
                      \cup (UNION {RemovedKind(v, from[s]) : s \in gone}),
          added |-> (UNION {AddedFields(v, from[s], w, to[s]) : s \in kept})
                    \cup (UNION {AddedKind(w, to[s]) : s \in brand_new}),
          changed |-> UNION {ChangedFields(v, from[s], w, to[s]) : s \in kept} ]

-----------------------------------------------------------------------------
(* Applying a plan.  A field a node has not is {}. *)

\* The converted value is read from the node without a look at its type.
Converted(old, new, x) ==
    CASE old = "Int" /\ new = "Float" -> Value("Float", x.of)
      [] old = "Float" /\ new = "Int" -> Value("Int", x.of)
      [] old = "Atom" /\ new = "Int" -> Value("Int", NoName)
      [] OTHER -> Null

\* What a migration leaves of the value that its field held.
Migrated_slip_keeps_removed(held, m) ==
    CASE m.migration_kind = "RemoveField" -> held
      [] m.migration_kind = "AddField" -> IF held # {} THEN held ELSE {Null}
      [] m.migration_kind = "ChangeType" ->
            {Converted(m.old_type, m.new_type, x) : x \in held}
Migrated(held, m) ==
    CASE m.migration_kind = "RemoveField" -> {}
      [] m.migration_kind = "AddField" -> IF held # {} THEN held ELSE {Null}
      [] m.migration_kind = "ChangeType" ->
            {Converted(m.old_type, m.new_type, x) : x \in held}

\* The migrations of a pass that concern field f of a node of that kind.
Concerning(pass, kind, f) == {m \in pass : m.kind_id = kind /\ m.field_idx = f}
Passed(fields, kind, pass) ==
    [ f \in FieldIds |->
        LET mine == Concerning(pass, kind, f)
        IN  IF mine = {} THEN fields[f] ELSE Migrated(fields[f], CHOOSE m \in mine : TRUE) ]

migrated_fields_slip_adds_first(fields, kind, plan) ==
    Passed(Passed(Passed(fields, kind, plan.added), kind, plan.removed), kind, plan.changed)
migrated_fields(fields, kind, plan) ==
    Passed(Passed(Passed(fields, kind, plan.removed), kind, plan.added), kind, plan.changed)

apply_migration(table, plan) ==
    [ n \in DOMAIN table |->
        IF ~ table[n].alive THEN table[n]
        ELSE [table[n] EXCEPT !.fields = migrated_fields(@, table[n].kind, plan)] ]

-----------------------------------------------------------------------------
(* The serialised form.  Atoms are written by id and interned again by text. *)

intern(pool, s) == IF \E i \in DOMAIN pool : pool[i] = s THEN pool ELSE Append(pool, s)

WithinLimits(v) ==
    /\ Len(v.atoms) <= MaxAtoms
    /\ Len(v.kinds) <= MaxKinds
    /\ \A k \in DOMAIN v.kinds : Len(v.kinds[k].fields) <= MaxFieldsPerKind

\* The atoms of a version, interned one after another into an empty pool.
restored_slip_reversed(v) ==
    LET n == Len(v.atoms)
        pool[i \in 0 .. n] == IF i = 0 THEN << >> ELSE intern(pool[i - 1], v.atoms[n - i + 1])
    IN  [v EXCEPT !.atoms = pool[n]]
restored(v) ==
    LET n == Len(v.atoms)
        pool[i \in 0 .. n] == IF i = 0 THEN << >> ELSE intern(pool[i - 1], v.atoms[i])
    IN  [v EXCEPT !.atoms = pool[n]]

-----------------------------------------------------------------------------
(* The caller *)

\* A node that the replay machine leaves in a table under version v: kinds are
\* those of the schema, placeholders have none and no fields.
NodesUnder(v) ==
    UNION { LET defs == IF k = kInvalidKind THEN << >> ELSE v.kinds[k].fields
                Held(f) == IF f \in DOMAIN defs
                           THEN {{}, {Value(defs[f].type, Text(v, defs[f].name))}}
                           ELSE {{}}
            IN  [ kind : {k}, alive : BOOLEAN,
                  fields : {g \in [FieldIds -> UNION {Held(f) : f \in FieldIds}] :
                                \A f \in FieldIds : g[f] \in Held(f)},
                  label : {IF k = kInvalidKind THEN NoName ELSE Text(v, v.kinds[k].name)} ] :
            k \in {kInvalidKind} \cup DOMAIN v.kinds }

Init ==
    /\ versions = [id \in VersionIds |-> {}]
    /\ nodes = << >> /\ current = {} /\ aligned = TRUE
    /\ status = "ok"

register_version(id, v) ==
    /\ versions[id] = {}
    /\ versions' = [versions EXCEPT ![id] = {v}]
    /\ status' = "ok"
    /\ UNCHANGED << nodes, current, aligned >>

RejectVersion(id) ==
    /\ versions[id] # {}
    /\ status' = "InvariantViolation"
    /\ UNCHANGED << versions, nodes, current, aligned >>

\* The caller reads a container of a registered version.
LoadTable ==
    /\ nodes = << >>
    /\ \E id \in VersionIds : \E v \in versions[id] :
        /\ nodes' \in [1 .. NodeCount -> NodesUnder(v)]
        /\ current' = {id}
    /\ status' = "ok"
    /\ UNCHANGED << versions, aligned >>

\* Every kind and field has a name of its own, the same on both sides.
Distinct(v, defs) ==
    /\ \A i \in DOMAIN defs : Text(v, defs[i].name) # NoName
    /\ \A i, j \in DOMAIN defs :
            i # j => Text(v, defs[i].name) # Text(v, defs[j].name)
Agree(f, g) == \A s \in DOMAIN f \cap DOMAIN g : f[s] = g[s]
WellNamed(v) ==
    /\ Distinct(v, v.kinds)
    /\ \A k \in DOMAIN v.kinds : Distinct(v, v.kinds[k].fields)
Aligned(v, w) ==
    /\ WellNamed(v) /\ WellNamed(w)
    /\ Agree(kind_names(v), kind_names(w))
    /\ \A s \in DOMAIN kind_names(v) \cap DOMAIN kind_names(w) :
            Agree(field_names(v, kind_names(v)[s]), field_names(w, kind_names(w)[s]))

\* compute_migration and apply_migration, from the version of the table.
Migrate(to) ==
    /\ \E from \in current :
        \/ \E v \in versions[from], w \in versions[to] :
            /\ nodes' = apply_migration(nodes, compute_migration(v, w))
            /\ current' = {to}
            /\ aligned' = (aligned /\ Aligned(v, w))
            /\ status' = "ok"
        \/ /\ versions[to] = {}
           /\ status' = "NotFound"
           /\ UNCHANGED << nodes, current, aligned >>
    /\ UNCHANGED versions

\* serialize, and deserialize into another registry that the caller goes on with.
Restorable ==
    /\ Cardinality({id \in VersionIds : versions[id] # {}}) <= MaxSections
    /\ \A id \in VersionIds : \A v \in versions[id] : WithinLimits(v)

Restore ==
    /\ Restorable
    /\ versions' = [id \in VersionIds |-> {restored(v) : v \in versions[id]}]
    /\ aligned' = (aligned /\ \A id \in current : versions'[id] = versions[id])
    /\ status' = "ok"
    /\ UNCHANGED << nodes, current >>

RejectRestore ==
    /\ ~ Restorable
    /\ status' = "LimitExceeded"
    /\ UNCHANGED << versions, nodes, current, aligned >>

Next ==
    \/ \E id \in VersionIds, v \in Versions : register_version(id, v)
    \/ \E id \in VersionIds : RejectVersion(id)
    \/ LoadTable
    \/ \E id \in VersionIds : Migrate(id)
    \/ Restore
    \/ RejectRestore

Spec == Init /\ [][Next]_vars

-----------------------------------------------------------------------------
(* Properties *)

\* A registered version is never replaced, and it survives being written and
\* read back as it is, when its pool has no string twice.
VersionsAreKept ==
    [][ \A id \in VersionIds : \A v \in versions[id] :
            Seqs!IsInjective(v.atoms) => versions'[id] = {v} ]_vars

\* Between aligned schemas a migration gives every live node, name by name,
\* the value it had, its conversion or the null value, and nothing else, even
\* where a new field takes the place of a removed one.  Dead nodes stay.
MigrationIsByName ==
    [][ \A a \in current, b \in VersionIds :
        \A v \in versions[a], w \in versions[b] :
        Migrate(b) /\ aligned' =>
        \A n \in DOMAIN nodes :
          LET k == nodes[n].kind IN
          /\ ~ nodes[n].alive => nodes'[n] = nodes[n]
          /\ nodes[n].alive /\ k \in DOMAIN v.kinds =>
             LET from == field_names(v, k)
                 kept == Text(v, v.kinds[k].name) \in DOMAIN kind_names(w)
                 to == IF kept THEN field_names(w, k) ELSE << >>
             IN  \A f \in FieldIds :
                    nodes'[n].fields[f] =
                    IF \E s \in DOMAIN to : to[s] = f
                    THEN LET s == CHOOSE s \in DOMAIN to : to[s] = f
                         IN  IF s \notin DOMAIN from THEN {Null}
                             ELSE IF Field(v, k, f).type = Field(w, k, f).type
                             THEN nodes[n].fields[f]
                             ELSE { Converted(Field(v, k, f).type, Field(w, k, f).type, x) :
                                        x \in nodes[n].fields[f] }
                    ELSE {} ]_vars

\* Through any number of aligned migrations, a live node whose kind has kept
\* its id holds only fields of the schema it is read with, under their names
\* and with their types or null.
TableConforms ==
    aligned => \A id \in current : \A v \in versions[id] :
        \A n \in DOMAIN nodes :
            /\ nodes[n].alive /\ nodes[n].kind \in DOMAIN v.kinds
            /\ Text(v, v.kinds[nodes[n].kind].name) = nodes[n].label
            => \A f \in FieldIds : \A x \in nodes[n].fields[f] :
                LET defs == v.kinds[nodes[n].kind].fields
                IN  /\ f \in DOMAIN defs
                    /\ x.type \in {"Invalid", defs[f].type}
                    /\ x.of \in {NoName, Text(v, defs[f].name)}
=============================================================================
