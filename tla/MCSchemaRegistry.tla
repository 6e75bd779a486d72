-------------------------- MODULE MCSchemaRegistry --------------------------
(***************************************************************************)
(* A small instance of SchemaRegistry.  Two pools hold the same strings    *)
(* under other ids; the third holds one of them twice.                     *)
(***************************************************************************)
EXTENDS SchemaRegistry, TLC

Pool == << "p", "q", "x", "y" >>
OtherPool == << "y", "x", "p" >>
RepeatingPool == << "x", "x", "p", "y" >>

Atom(pool, s) == CHOOSE a \in DOMAIN pool : pool[a] = s
Def(pool, s, t) == [name |-> Atom(pool, s), type |-> t]
Defs(pool, Ts) == {Def(pool, s, t) : s \in {"x", "y"}, t \in Ts}
Kind(pool, s, fields) == [name |-> Atom(pool, s), fields |-> fields]
Version(pool, kinds) == [atoms |-> pool, kinds |-> kinds]

\* One kind with up to two fields, names repeated or not.
OneKind(pool, Ts, n) ==
    { Version(pool, << Kind(pool, "p", fs) >>) :
        fs \in UNION {[1 .. i -> Defs(pool, Ts)] : i \in 0 .. n} }

\* Two kinds in either order, one of them with a field.
TwoKinds ==
    { Version(Pool, << Kind(Pool, a, fs), Kind(Pool, b, << >>) >>) :
        a \in {"p", "q"}, b \in {"p", "q"},
        fs \in {<< d >> : d \in Defs(Pool, {"Int", "Float"})} }
OtherKind == {Version(Pool, << Kind(Pool, "q", << Def(Pool, "x", "Int") >>) >>)}
ThreeFields ==
    {Version(Pool, << Kind(Pool, "p", [i \in 1 .. 3 |-> Def(Pool, "x", "Int")]) >>)}

SmallVersions ==
    OneKind(Pool, {"Int", "Float"}, 2) \cup OneKind(OtherPool, {"Int", "Atom"}, 1)
    \cup OneKind(RepeatingPool, {"Int"}, 1)
    \cup TwoKinds \cup OtherKind \cup ThreeFields

\* Ids are only compared.
IdsAlike == Permutations(VersionIds)
=============================================================================
