------------------------------- MODULE Query -------------------------------
(***************************************************************************)
(* The query language of src/src/query_parser.cpp and query_eval.cpp over  *)
(* the node table of FieldIndex: lexer, recursive-descent parser and       *)
(* evaluator, each the operator that the method of that name is.           *)
(*                                                                         *)
(* A text is a sequence of pieces: a word of letters, a digit, a blank or  *)
(* a single sign.  Pieces that touch run together as characters do.        *)
(*                                                                         *)
(* An operator <name>_slip_<what> is <name> with a slip of the programmer  *)
(* in it; no specification uses it (see README.md).                        *)
(***************************************************************************)
EXTENDS QueryEval

CONSTANTS
    Words,       \* pieces of letters and underscores
    MaxDigits    \* digits of the largest number that fits an int64

\* classify_word: the booleans in any case, the others as they are.
Keyword ==
    [ kind |-> "KIND", field |-> "FIELD", has_child |-> "HAS_CHILD",
      has_ref |-> "HAS_REF", alive |-> "ALIVE", any |-> "ANY",
      and |-> "AND", or |-> "OR", not |-> "NOT",
      AND |-> "AND", OR |-> "OR", NOT |-> "NOT" ]

Digit == [d \in {"0", "1", "2", "3"} |->
             CASE d = "0" -> 0 [] d = "1" -> 1 [] d = "2" -> 2 [] d = "3" -> 3]
Digits == DOMAIN Digit
Blank == " "
Quote == "\""

Sign == [s \in {"(", ")", ":", "=", "<", ">"} |->
            CASE s = "(" -> "LPAREN" [] s = ")" -> "RPAREN" [] s = ":" -> "COLON"
              [] s = "=" -> "EQ" [] s = "<" -> "LT" [] s = ">" -> "GT"]
DoubleSign == [s \in {<< "!", "=" >>, << "<", "=" >>, << ">", "=" >>} |->
                  CASE s[1] = "!" -> "NEQ" [] s[1] = "<" -> "LE" [] s[1] = ">" -> "GE"]

-----------------------------------------------------------------------------
(* The lexer *)

Token(kind, text) == [kind |-> kind, text |-> text]
classify_word(run) ==
    IF Len(run) = 1 /\ run[1] \in DOMAIN Keyword THEN Keyword[run[1]] ELSE "IDENT"

\* The first position from `at' on whose piece is not in S.
RunEnd(text, at, S) == Min({i \in at .. Len(text) + 1 : i > Len(text) \/ text[i] \notin S})

\* The token that starts at a piece other than a blank, and where it ends.
\* An INTEGER past an int64 throws out of the lexer (std::stoll).
Lexeme(text, at) ==
    LET c == text[at]
        next == IF at < Len(text) THEN text[at + 1] ELSE Blank
        To(end) == SubSeq(text, at, end - 1)
        Lexed(kind, end) == [code |-> "ok", token |-> Token(kind, To(end)), end |-> end]
        Wrong(code) == [code |-> code, token |-> Token("END", << >>), end |-> at]
        Number(from) == LET end == RunEnd(text, from, Digits)
                        IN  IF end - from > MaxDigits THEN Wrong("throws")
                            ELSE Lexed("INTEGER", end)
        Word == LET end == RunEnd(text, at, Words \cup Digits)
                IN  Lexed(classify_word(To(end)), end)
        closing == {i \in at + 1 .. Len(text) : text[i] = Quote}
    IN  CASE c = Quote -> IF closing = {} THEN Wrong("BadValue")
                          ELSE Lexed("STRING", Min(closing) + 1)
          [] << c, next >> \in DOMAIN DoubleSign ->
                Lexed(DoubleSign[<< c, next >>], at + 2)
          [] c \in DOMAIN Sign /\ << c, next >> \notin DOMAIN DoubleSign ->
                Lexed(Sign[c], at + 1)
          [] c = "-" /\ next \in Digits -> Number(at + 1)
          [] c \in Digits -> Number(at)
          [] c \in Words -> Word
          [] OTHER -> Wrong("BadValue")

RECURSIVE TokenizeFrom(_, _)
TokenizeFrom(text, from) ==
    LET at == RunEnd(text, from, {Blank})
    IN  IF at > Len(text) THEN [code |-> "ok", tokens |-> << >>]
        ELSE LET lexeme == Lexeme(text, at)
                 rest == TokenizeFrom(text, lexeme.end)
             IN  IF lexeme.code # "ok" THEN [code |-> lexeme.code, tokens |-> << >>]
                 ELSE [rest EXCEPT !.tokens = << lexeme.token >> \o @]
tokenize(text) == TokenizeFrom(text, 1)

\* int_val and string_val of a token.
IntOf(token) ==
    LET Magnitude(digits) ==
            FoldLeft(LAMBDA n, d : 10 * n + Digit[d], 0, digits)
    IN  IF token.text[1] = "-" THEN - Magnitude(Tail(token.text))
        ELSE Magnitude(token.text)
StringOf(token) ==
    IF token.kind = "STRING" THEN SubSeq(token.text, 2, Len(token.text) - 1)
    ELSE token.text

-----------------------------------------------------------------------------
(* Expressions *)

Not(e) == [kind |-> "Not", args |-> << e >>]
And(l, r) == [kind |-> "And", args |-> << l, r >>]
Or(l, r) == [kind |-> "Or", args |-> << l, r >>]

Named == [KIND |-> "KindMatch", HAS_CHILD |-> "HasChild", HAS_REF |-> "HasRef"]
CmpOps == {"EQ", "NEQ", "LT", "GT", "LE", "GE"}
LiteralOf(token) ==
    IF token.kind = "STRING" THEN [text |-> StringOf(token)] ELSE [int |-> IntOf(token)]

-----------------------------------------------------------------------------
(* The parser.  A production gives the expression and the tokens after it. *)

Parsed(expr, rest) == [code |-> "ok", expr |-> expr, rest |-> rest]
NotParsed == [code |-> "BadValue", expr |-> AnyAlive, rest |-> << >>]
peek(ts) == IF ts = << >> THEN "END" ELSE ts[1].kind

RECURSIVE parse_or_expr(_)

parse_atom_expr(ts) ==
    LET k == peek(ts)
        named == peek(Tail(ts)) = "COLON" /\ Len(ts) > 2 /\ ts[3].kind = "IDENT"
        compared == named /\ Len(ts) > 4 /\ ts[4].kind \in CmpOps
                    /\ ts[5].kind \in {"STRING", "INTEGER"}
    IN  CASE k = "LPAREN" ->
                LET inner == parse_or_expr(Tail(ts))
                IN  IF inner.code # "ok" \/ peek(inner.rest) # "RPAREN" THEN NotParsed
                    ELSE Parsed(inner.expr, Tail(inner.rest))
          [] k \in {"ALIVE", "ANY"} -> Parsed(AnyAlive, Tail(ts))
          [] k \in DOMAIN Named /\ named ->
                Parsed(Leaf(Named[k], StringOf(ts[3])), SubSeq(ts, 4, Len(ts)))
          [] k = "FIELD" /\ compared ->
                Parsed(FieldCmp(StringOf(ts[3]), ts[4].kind, LiteralOf(ts[5])),
                       SubSeq(ts, 6, Len(ts)))
          [] OTHER -> NotParsed

RECURSIVE parse_not_expr(_)
parse_not_expr(ts) ==
    IF peek(ts) # "NOT" THEN parse_atom_expr(ts)
    ELSE LET inner == parse_not_expr(Tail(ts))
         IN  IF inner.code # "ok" THEN inner ELSE Parsed(Not(inner.expr), inner.rest)

\* The loops of parse_and_expr and parse_or_expr wrap what they have so far.
RECURSIVE AndLoop(_)
AndLoop(lhs) ==
    IF lhs.code # "ok" \/ peek(lhs.rest) # "AND" THEN lhs
    ELSE LET rhs == parse_not_expr(Tail(lhs.rest))
         IN  IF rhs.code # "ok" THEN rhs
             ELSE AndLoop(Parsed(And(lhs.expr, rhs.expr), rhs.rest))

parse_and_expr_slip_right(ts) ==
    LET lhs == parse_not_expr(ts)
    IN  IF lhs.code # "ok" \/ peek(lhs.rest) # "AND" THEN lhs
        ELSE LET rhs == AndLoop(parse_not_expr(Tail(lhs.rest)))
             IN  IF rhs.code # "ok" THEN rhs
                 ELSE Parsed(And(lhs.expr, rhs.expr), rhs.rest)
parse_and_expr(ts) == AndLoop(parse_not_expr(ts))

RECURSIVE OrLoop(_)
OrLoop(lhs) ==
    IF lhs.code # "ok" \/ peek(lhs.rest) # "OR" THEN lhs
    ELSE LET rhs == parse_and_expr(Tail(lhs.rest))
         IN  IF rhs.code # "ok" THEN rhs
             ELSE OrLoop(Parsed(Or(lhs.expr, rhs.expr), rhs.rest))

parse_or_expr(ts) == OrLoop(parse_and_expr(ts))

\* QueryEngine::parse: the whole text, up to the END token.
parse(text) ==
    LET lexed == tokenize(text)
        res == parse_or_expr(lexed.tokens)
    IN  IF lexed.code # "ok" THEN [NotParsed EXCEPT !.code = lexed.code]
        ELSE IF res.code = "ok" /\ res.rest # << >> THEN NotParsed ELSE res

-----------------------------------------------------------------------------
(* The evaluator *)

RECURSIVE eval_node(_, _)
eval_node(expr, n) ==
    CASE expr.kind = "And" -> eval_node(expr.args[1], n) /\ eval_node(expr.args[2], n)
      [] expr.kind = "Or" -> eval_node(expr.args[1], n) \/ eval_node(expr.args[2], n)
      [] expr.kind = "Not" -> ~ eval_node(expr.args[1], n)
      [] OTHER -> eval_leaf(expr, n)

execute(expr) == QueryResult({n \in DOMAIN nodes : nodes[n].alive /\ eval_node(expr, n)})

\* A text that does not parse gives the empty result.
execute_text(text) ==
    LET parsed == parse(text)
    IN  IF parsed.code = "ok" THEN execute(parsed.expr)
        ELSE [nodes |-> {}, scanned |-> 0, matched |-> 0]
-----------------------------------------------------------------------------
(* What the language is, without a reader that goes through it *)

\* The lexical elements listed at query_parser.cpp:7-15.
IsNumber(run) ==
    /\ \E i \in DOMAIN run : run[i] \in Digits
    /\ \A i \in DOMAIN run : run[i] \in Digits \/ (i = 1 /\ run[i] = "-")
IsLexeme(run) ==
    \/ run[1] \in Words /\ \A i \in DOMAIN run : run[i] \in Words \cup Digits
    \/ IsNumber(run)
    \/ Len(run) > 1 /\ {i \in DOMAIN run : run[i] = Quote} = {1, Len(run)}
    \/ run \in {<< s >> : s \in DOMAIN Sign} \cup DOMAIN DoubleSign

\* A text cut, from left to right, into lexemes that are as long as can be;
\* {} where that is not possible.
RECURSIVE Cuts(_)
Cuts(text) ==
    LET ends == {i \in DOMAIN text : IsLexeme(SubSeq(text, 1, i))}
    IN  IF text = << >> THEN {<< >>}
        ELSE IF text[1] = Blank THEN Cuts(Tail(text))
        ELSE IF ends = {} THEN {}
        ELSE {<< SubSeq(text, 1, Max(ends)) >> \o cut :
                 cut \in Cuts(SubSeq(text, Max(ends) + 1, Len(text)))}

\* The grammar at query_parser.cpp:17-30: the trees it derives for the tokens.
\* A chain of the same operator groups to the left.
RECURSIVE OrTrees(_)
AtomTrees(ts) ==
    LET kinds == [i \in DOMAIN ts |-> ts[i].kind]
    IN  {AnyAlive : k \in {<< "ALIVE" >>, << "ANY" >>} \cap {kinds}}
        \cup {Leaf(Named[k], StringOf(ts[3])) :
                 k \in {x \in DOMAIN Named : kinds = << x, "COLON", "IDENT" >>}}
        \cup {FieldCmp(StringOf(ts[3]), op, LiteralOf(ts[5])) :
                 op \in {o \in CmpOps : \E v \in {"STRING", "INTEGER"} :
                            kinds = << "FIELD", "COLON", "IDENT", o, v >>}}
        \cup IF Len(ts) > 2 /\ kinds[1] = "LPAREN" /\ kinds[Len(ts)] = "RPAREN"
             THEN OrTrees(SubSeq(ts, 2, Len(ts) - 1)) ELSE {}

RECURSIVE NotTrees(_)
NotTrees(ts) ==
    AtomTrees(ts) \cup IF peek(ts) = "NOT" THEN {Not(e) : e \in NotTrees(Tail(ts))} ELSE {}

At(ts, kind) == {i \in DOMAIN ts : ts[i].kind = kind}
Before(ts, i) == SubSeq(ts, 1, i - 1)
After(ts, i) == SubSeq(ts, i + 1, Len(ts))

RECURSIVE AndTrees(_)
AndTrees(ts) ==
    NotTrees(ts) \cup
        UNION {{And(l, r) : l \in AndTrees(Before(ts, i)), r \in NotTrees(After(ts, i))} :
                   i \in At(ts, "AND")}

OrTrees(ts) ==
    AndTrees(ts) \cup
        UNION {{Or(l, r) : l \in OrTrees(Before(ts, i)), r \in AndTrees(After(ts, i))} :
                   i \in At(ts, "OR")}

\* A text is read as its longest lexemes; it is refused, or throws, exactly when
\* there are none such or a number is too long.
ReadAsLexemes(text) ==
    LET lexed == tokenize(text)
        long == {cut \in Cuts(text) : \E i \in DOMAIN cut :
                    IsNumber(cut[i]) /\ Len(SelectSeq(cut[i], LAMBDA d : d \in Digits)) > MaxDigits}
    IN  IF lexed.code = "ok"
        THEN Cuts(text) = {[i \in DOMAIN lexed.tokens |-> lexed.tokens[i].text]} /\ long = {}
        ELSE Cuts(text) = {} \/ (lexed.code = "throws" /\ long # {})

\* What parse() returns is what the grammar derives: the one tree of a text that
\* has one, an error for a text that has none.
ParsedAsDerived(text) ==
    LET lexed == tokenize(text)
        res == parse(text)
    IN  lexed.code = "ok" =>
            OrTrees(lexed.tokens) = IF res.code = "ok" THEN {res.expr} ELSE {}

-----------------------------------------------------------------------------
(* Properties *)

\* kind:k AND field:f=literal
EqualTo(k, f, literal) ==
    execute_text(<< "kind", ":" >> \o Pool[KindName[k]] \o << Blank, "AND", Blank >>
        \o << "field", ":" >> \o Pool[FieldName[k][f]] \o << "=" >> \o literal).nodes

Numeral(i) == << CHOOSE d \in Digits : Digit[d] = i >>

\* Three ways to ask the same: the query for a kind, a field and a value by their
\* texts finds what the scan for their leaves does, and an index that is not stale
\* answers as that scan; and has_child finds the nodes that lookup_by_name knows
\* and, what it does not, the placeholders (field_index.cpp:33-76 against
\* query_parser.cpp:420-467 and query_eval.cpp:56-223).
IndexAnswersQueries ==
    /\ Fresh => \A k \in NamedKinds : \A f \in NamedFields(k) :
          CASE FieldType[k][f] = "Int" ->
                  \A i \in Data["Int"] :
                      EqualTo(k, f, Numeral(i)) = AskedFor(k, f, [int |-> i])
            [] FieldType[k][f] = "Atom" ->
                  \A a \in DOMAIN Pool :
                      EqualTo(k, f, << Quote >> \o Pool[a] \o << Quote >>) =
                          AskedFor(k, f, [text |-> Pool[a]])
            [] OTHER -> TRUE
    /\ FieldsAnswered
    /\ ChildrenAnswered
=============================================================================
