----------------------------- MODULE MCQueries -----------------------------
(***************************************************************************)
(* A small instance of Query: two kinds that share the name of a field at  *)
(* different places and with different types, and a text that the pool     *)
(* holds twice.  Before the first step the parser is tried on every text   *)
(* of three families.                                                      *)
(***************************************************************************)
EXTENDS Query

CONSTANTS MaxCalls,   \* bound on the calls of the machine
          MaxTable    \* bound on the table, which placeholders append to unchecked
VARIABLE calls      \* how many there were

MCWords == {"k", "l", "f", "g", "x", "Kind"} \cup DOMAIN Keyword
MCPool == << << "k" >>, << "l" >>, << "f" >>, << "g" >>, << "x" >>, << "x" >> >>
MCKinds == {1, 2}
MCKindName == [k \in MCKinds |-> k]
MCFields == {1, 2}
MCFieldName == << << 3, 4 >>, << 4, 3 >> >>
MCFieldType == << << "Int", "Atom" >>, << "Int", "Ref" >> >>
MCData == [ t \in ValueTypes |->
              CASE t = "Int" -> {2} [] t = "Atom" -> {5, 6} [] t = "Ref" -> {1}
                [] t = "Float" -> {} [] t = "List" -> {} ]

Spaced(s) == FlattenSeq([i \in DOMAIN s |-> << s[i], Blank >>])

\* Every nesting and mixture of the operators.
BooleanTexts ==
    {Spaced(s) : s \in BoundedSeq({"any", "and", "OR", "not", "(", ")"}, 5)}
    \cup {Spaced(not \o open \o << "any", a >> \o not \o shift \o << "any" >> \o close
                 \o << b, "any" >> \o end) :
             not \in {<< >>, << "not" >>}, a, b \in {"and", "OR"},
             open, shift \in {<< >>, << "(" >>}, close, end \in {<< >>, << ")" >>}}
\* Every way to go on after a field's name.
ComparisonTexts ==
    {<< "field", ":", "x" >> \o s :
        s \in BoundedSeq({"<", "=", "!", "1", "-", "x", Quote, Blank, ")"}, 3)}
\* Every way for pieces to touch.
MixedTexts ==
    BoundedSeq({"kind", "Kind", "has_ref", ":", "x", "1", "and", Blank}, 4)

MCInit == Init /\ calls = 0
MCNext ==
    \/ build /\ UNCHANGED calls
    \/ /\ Machine /\ Len(nodes') <= MaxTable
       /\ calls < MaxCalls /\ calls' = calls + 1
MCSpec == MCInit /\ [][MCNext]_<< vars, calls >>

\* In every text the parser finds what the grammar says, or says there is nothing.
ParserFollowsGrammar ==
    nodes = << >> =>
        \A text \in BooleanTexts \cup ComparisonTexts \cup MixedTexts :
            ReadAsLexemes(text) /\ ParsedAsDerived(text)
=============================================================================
