------------------------------ MODULE RegexSyntax ------------------------------
(***************************************************************************)
(* parseRegex() of include/regex_parser.hpp: a text is cut into tokens,    *)
(* the Parser of a fixed grammar checks them, a recursive pass over the    *)
(* productions makes a condensed tree, the tree becomes a regular          *)
(* expression, and a last pass rotates it until it is left associative.    *)
(*                                                                         *)
(* A text is a sequence of characters, in which "null" is one; a regular   *)
(* expression is a record [op, kids, pair] with op "+", ".", "*", "!" or   *)
(* "tuple", and the two words of a tuple in pair.                          *)
(***************************************************************************)
EXTENDS LL1Parser

CONSTANT Texts   \* what is parsed: records [text, means], with the meaning of the text

VARIABLES
    text, means,
    names,       \* Token::data of the tokens: the name of an identifier
    regex        \* what parseRegex() returns

syntaxVars == <<text, means, names, regex>>

Quote == "'"
Backslash == "\\"

Regex(op, kids) == [op |-> op, kids |-> kids, pair |-> <<>>]
TupleRegex(left, right) == [op |-> "tuple", kids |-> <<>>, pair |-> <<left, right>>]
Wrong == Regex("wrong", <<>>)
--------------------------------------------------------------------------------
(* Tokens.                                                                   *)

Token(value, name) == [value |-> value, name |-> name]

\* The name that starts at text[i], and where its closing quote is or would be.
\* A backslash is left out and keeps the next character from closing.
RECURSIVE Quoted(_, _, _)
Quoted(t, i, name) ==
    IF i > Len(t) \/ t[i] = Quote THEN [name |-> name, at |-> i]
    ELSE IF t[i] # Backslash THEN Quoted(t, i + 1, Append(name, t[i]))
    ELSE IF i = Len(t) THEN [name |-> name, at |-> i + 1]
    ELSE Quoted(t, i + 2, Append(name, t[i + 1]))

RECURSIVE Tokenized(_, _)
Tokenized(t, i) ==
    IF i > Len(t) THEN <<Token("eof", <<>>)>>
    ELSE IF t[i] = " " THEN Tokenized(t, i + 1)
    ELSE IF t[i] = Quote
    THEN LET id == Quoted(t, i + 1, <<>>)
         IN  <<Token("id", id.name)>> \o Tokenized(t, id.at + 1)
    ELSE <<Token(t[i], <<>>)>> \o Tokenized(t, i + 1)
--------------------------------------------------------------------------------
(* The grammar and its parser.                                               *)

SyntaxRules ==
    {<<"union", <<"concat", "union'">> >>,
     <<"union'", <<"+", "concat", "union'">> >>, <<"union'", <<>> >>,
     <<"concat", <<"star", "concat'">> >>,
     <<"concat'", <<".", "star", "concat'">> >>, <<"concat'", <<>> >>,
     <<"star", <<"braces", "star'">> >>,
     <<"star'", <<"*">> >>, <<"star'", <<"!">> >>, <<"star'", <<>> >>,
     <<"tuple", <<"<", "id", ",", "id", ">">> >>, <<"tuple", <<"id">> >>, <<"tuple", <<"null">> >>,
     <<"braces", <<"(", "union", ")">> >>, <<"braces", <<"tuple">> >>}

RegexGrammar ==
    FoldSet(LAMBDA r, g : WithRule(g, r[1], Production(r[2])),
            [NewGrammar("union", "eof") EXCEPT
                !.terminals = {"eof", "id", ".", "+", "*", "<", ",", ">", "(", ")", "!", "null"},
                !.nonTerminals = {r[1] : r \in SyntaxRules}],
            SyntaxRules)

ForRegexes == grammar.eof = "eof"

\* The one RegexParser is built before anything is parsed; the order in which
\* the loops visit the rules is left to the other grammars.
BuildInOrder ==
    /\ IF todo # {} THEN Visit(CHOOSE r \in todo : TRUE)
       ELSE NextPass \/ NextFixpoint \/ AddTerminals
    /\ UNCHANGED <<mode, word, runVars, treeVars, syntaxVars>>

\* parseRegex(text) is called; tokenize() is done.
ParseRegex ==
    /\ phase = "ready" /\ mode = "none"
    /\ mode' = "regex"
    /\ \E t \in Texts : text' = t.text /\ means' = t.means
    /\ LET tokens == Tokenized(text', 1)
       IN  /\ word' = [i \in DOMAIN tokens |-> tokens[i].value]
           /\ names' = [i \in DOMAIN tokens |-> tokens[i].name]
    /\ UNCHANGED <<buildVars, runVars, treeVars, regex>>
--------------------------------------------------------------------------------
(* The condensed tree.                                                       *)

SyntaxNode(value, data, children) == [value |-> value, data |-> data, children |-> children]
IsStar(node) == node.value \in {"*", "!"}

\* RegexParser::makeParseTree(): the node of the k-th production, which starts at
\* the j-th token, with the next of each.  Only names, null and stars leave a
\* leaf; a child without children is dropped; an only child takes the place of
\* its parent, unless a star followed it or the parent is a tuple.
RECURSIVE Subtree(_, _)
Subtree(k, j) ==
    LET used == productions[k]
        Leaf(s) ==
            [s EXCEPT !.j = @ + 1,
                      !.children = IF word[s.j] \in {"id", "null", "*", "!"}
                                   THEN Append(@, SyntaxNode(word[s.j], names[s.j], <<>>)) ELSE @]
        Nested(s) ==
            LET sub == Subtree(s.k, s.j)
            IN  [k |-> sub.k, j |-> sub.j,
                 children |-> IF sub.node.children = <<>> THEN s.children
                              ELSE Append(s.children, sub.node),
                 starred |-> s.starred \/ IsStar(sub.node),
                 plus |-> s.plus \/ sub.node.value = "!"]
        all == FoldLeft(LAMBDA s, x : IF x = word[s.j] THEN Leaf(s) ELSE Nested(s),
                        [k |-> k + 1, j |-> j, children |-> <<>>, starred |-> FALSE, plus |-> FALSE],
                        used[2].rhs)
    IN  [k |-> all.k, j |-> all.j,
         node |-> IF Len(all.children) = 1 /\ ~all.starred /\ used[1] # "tuple"
                  THEN all.children[1]
                  ELSE SyntaxNode(used[1], IF all.plus THEN <<"!">> ELSE <<>>, all.children)]

\* parseTreeToRegex(): null is the letter 0 paired with the empty word.
RECURSIVE ToRegex(_)
ToRegex(node) ==
    LET kids == node.children
        Of(op) == Regex(op, [i \in 1 .. IF op \in {"+", "."} THEN 2 ELSE 1 |-> ToRegex(kids[i])])
    IN  CASE node.value \in {"union", "union'"} -> Of("+")
          [] node.value \in {"concat", "concat'"} -> Of(".")
          [] node.value = "star" -> Of(IF node.data = <<"!">> THEN "!" ELSE "*")
          [] node.value = "tuple" ->
                IF Len(kids) = 2 THEN TupleRegex(kids[1].data, kids[2].data)
                ELSE TupleRegex(IF kids[1].value = "null" THEN <<"0">> ELSE kids[1].data, <<>>)

\* A mistake toLeftAssoc() could make: the middle operand ends up on the left.
RECURSIVE LeftAssocSwapped(_)
LeftAssocSwapped(r) ==
    IF r.op \in {"+", "."} /\ r.kids[2].op = r.op
    THEN LET right == r.kids[2]
         IN  LeftAssocSwapped(Regex(r.op, <<Regex(r.op, <<right.kids[1], r.kids[1]>>), right.kids[2]>>))
    ELSE r

\* toLeftAssoc(): a + (b + c) is rotated to (a + b) + c.  It does not go below "!".
RECURSIVE LeftAssoc(_)
LeftAssoc(r) ==
    IF r.op \in {"+", "."}
    THEN LET right == r.kids[2]
         IN  IF right.op = r.op
             THEN LeftAssoc(Regex(r.op, <<Regex(r.op, <<r.kids[1], right.kids[1]>>), right.kids[2]>>))
             ELSE Regex(r.op, <<LeftAssoc(r.kids[1]), LeftAssoc(right)>>)
    ELSE IF r.op = "*" THEN Regex("*", <<LeftAssoc(r.kids[1])>>)
    ELSE r

MakeTree ==
    /\ ForRegexes /\ verdict = "accepted"
    /\ regex' = ToRegex(Subtree(1, 1).node)
    /\ verdict' = "built"
    /\ UNCHANGED <<buildVars, mode, word, q, offset, stack, productions, errorAt, treeVars,
                   text, means, names>>

ToLeftAssoc ==
    /\ ForRegexes /\ verdict = "built"
    /\ regex' = LeftAssoc(regex)
    /\ verdict' = "associated"
    /\ UNCHANGED <<buildVars, mode, word, q, offset, stack, productions, errorAt, treeVars,
                   text, means, names>>

\* The loops of the parser; what comes after them is recursion over a finite tree.
SyntaxLoops ==
    \/ BuildInOrder
    \/ (Drive \/ Stop) /\ UNCHANGED syntaxVars
--------------------------------------------------------------------------------
(* Texts that the module writes.                                             *)

\* print(): a name is put between quotes as it is.
Name(w) == <<Quote>> \o w \o <<Quote>>

RECURSIVE Printed(_)
Printed(r) ==
    CASE r.op = "tuple" -> <<"<">> \o Name(r.pair[1]) \o <<",">> \o Name(r.pair[2]) \o <<">">>
      [] r.op \in {"+", "."} -> <<"(">> \o Printed(r.kids[1]) \o <<r.op>> \o Printed(r.kids[2]) \o <<")">>
      [] r.op \in {"*", "!"} -> <<"(">> \o Printed(r.kids[1]) \o <<")", r.op>>

\* identity(): every letter of the alphabet beside itself.
Identity(alphabet) ==
    FoldLeft(LAMBDA t, c : (IF t = <<>> THEN t ELSE Append(t, "+"))
                             \o <<"<">> \o Name(<<c>>) \o <<",", " ">> \o Name(<<c>>) \o <<">">>,
             <<>>, alphabet)

\* optionalReplace(): ({id})*.(({regex}).({id})*)*
OptionalReplace(t, alphabet) ==
    LET ids == <<"(">> \o Identity(alphabet) \o <<")", "*">>
    IN  ids \o <<".", "(", "(">> \o t \o <<")", ".">> \o ids \o <<")", "*">>
--------------------------------------------------------------------------------
(* What a text means, by precedence and by counting parentheses.  Sums and   *)
(* products are kept flat, since how they associate says nothing.            *)

Parts(op, r) == IF r.op = op THEN r.kids ELSE <<r>>

\* A sum or product of regular expressions, Wrong when one of them is.
Join(op, rs) ==
    LET parts == FlattenSeq([i \in DOMAIN rs |-> Parts(op, rs[i])])
    IN  IF Wrong \in Range(parts) THEN Wrong
        ELSE IF Len(parts) = 1 THEN parts[1] ELSE Regex(op, parts)

RECURSIVE Flat(_)
Flat(r) ==
    IF r.op = "tuple" THEN r
    ELSE IF r.op \in {"+", "."} THEN Join(r.op, [i \in DOMAIN r.kids |-> Flat(r.kids[i])])
    ELSE Regex(r.op, <<Flat(r.kids[1])>>)

Count(x, tokens, i) == Cardinality({k \in 1 .. i : tokens[k].value = x})

\* The places where op stands outside parentheses.
Outside(op, tokens) ==
    {i \in DOMAIN tokens : tokens[i].value = op /\ Count("(", tokens, i) = Count(")", tokens, i)}

\* The token sequences between the places in cuts.
Between(tokens, cuts) ==
    LET ends == SetToSortSeq(cuts \cup {Len(tokens) + 1}, <)
        from == [i \in DOMAIN ends |-> IF i = 1 THEN 1 ELSE ends[i - 1] + 1]
    IN  [i \in DOMAIN ends |-> SubSeq(tokens, from[i], ends[i] - 1)]

Values(tokens) == [i \in DOMAIN tokens |-> tokens[i].value]

RECURSIVE Reading(_)
Reading(tokens) ==
    LET sums == Outside("+", tokens)
        products == Outside(".", tokens)
        cuts == IF sums # {} THEN sums ELSE products
        operands == Between(tokens, cuts)
        Atom(t) ==
            CASE Values(t) = <<"id">> -> TupleRegex(t[1].name, <<>>)
              [] Values(t) = <<"null">> -> TupleRegex(<<"0">>, <<>>)
              [] Values(t) = <<"<", "id", ",", "id", ">">> -> TupleRegex(t[2].name, t[4].name)
              [] Len(t) > 2 /\ t[1].value = "(" /\ Last(t).value = ")" -> Reading(Tail(Front(t)))
              [] OTHER -> Wrong
    IN  IF cuts # {}
        THEN Join(IF sums # {} THEN "+" ELSE ".",
                  [i \in DOMAIN operands |-> Reading(operands[i])])
        ELSE IF tokens # <<>> /\ IsStar(Last(tokens))
        THEN LET kid == Atom(Front(tokens)) IN IF kid = Wrong THEN Wrong ELSE Regex(Last(tokens).value, <<kid>>)
        ELSE Atom(tokens)

\* parseRegex() returns what the text means, up to the association of sums and
\* products, and throws exactly when it means nothing: what quotes, escapes and
\* blanks hide, what binds tighter, where a star or a pair belongs, survive the
\* tokens, the condensed tree and the rotations, and so does what the module
\* itself prints or assembles of letters that need no escape.
ParsedMeansText ==
    /\ verdict = "associated" => Flat(regex) = means
    /\ mode = "regex" /\ verdict = "rejected" => means = Wrong

\* The call under way, if the grammar is such that it has to end.
Bound == {m \in {mode} \ {"none"} : ForRegexes \/ LL1}

\* The automaton stops on every word with an LL(1) grammar and on every text of
\* parseRegex(), and a parse tree or syntax tree gets built.
ParseEnds ==
    [](mode \in Bound => <>(IF ForRegexes THEN verdict # "none" ELSE verdict \in {"rejected", "built"}))
================================================================================
