------------------------------ MODULE GrammarTools ------------------------------
(***************************************************************************)
(* What the library does with a context-free grammar: it makes an LL(1)    *)
(* parser of it and parses, it recognises a word with EarleyParser, and it *)
(* generates a word.  tests/language.cpp does all three with one grammar;  *)
(* a behaviour is about one of them.  Parsers are used with grammars       *)
(* written down rule by rule, with grammars put together by combinators,   *)
(* as tests/langdef.cpp and tests/language.cpp do, and inside              *)
(* parseRegex().                                                           *)
(***************************************************************************)
EXTENDS RegexSyntax, GrammarFactory

CONSTANTS
    Expressions,                        \* expressions of combinators
    Eof,                                \* Symbol::eof
    MaxDescribed,                       \* length of the described words that are parsed
    AnyGrammars,                        \* grammars for Earley and Generator
    MaxRoom, MaxCalls, SizeModulus,     \* of Generator
    Idle                                \* a variable of a tool that is not in use

VARIABLES
    tool,
    given,                              \* the grammar of the other two
    expectEof, input, scanned, Rp, R, half, added, recognized,
    min, max, skipped, calls, generated, outcome

--------------------------------------------------------------------------------
(* A parser.                                                                 *)

\* What the grammar of each expression should generate.
Described ==
    [g \in {Built(e, Eof) : e \in Expressions} |->
        UNION {Describes(e, MaxDescribed) : e \in {e \in Expressions : Built(e, Eof) = g}}]

Factory == DOMAIN Described

\* Words of the language, and words one token away from them.
Near ==
    [g \in Factory |->
        LET words == UpTo(MaxDescribed, Described[g])
        IN  words \cup UNION {{RemoveAt(w, i) : i \in DOMAIN w} : w \in words}
                  \cup UNION {{ReplaceAt(w, i, x) : i \in DOMAIN w, x \in g.terminals} : w \in words}]

Init ==
    /\ BuildInit(Grammars \cup Factory \cup {RegexGrammar})
    /\ NotParsing
    /\ text = <<>> /\ means = Wrong /\ names = <<>> /\ regex = Wrong

Call ==
    \/ /\ Free /\ grammar \in Grammars
       /\ \E w \in Words : Parse(w)
       /\ UNCHANGED syntaxVars
    \/ Free /\ grammar \in Factory /\ (\E w \in Near[grammar] : Parse(w)) /\ UNCHANGED syntaxVars
    \/ ForRegexes /\ ParseRegex

Loops == IF ForRegexes THEN SyntaxLoops ELSE Work /\ UNCHANGED syntaxVars

ParsersNext == Call \/ Loops \/ MakeTree \/ ToLeftAssoc
--------------------------------------------------------------------------------
(* All tools.                                                                *)

GeneratedWords == [g \in AnyGrammars |-> Languages(g, MaxWord)]

EarleyTool == INSTANCE Earley WITH
    Grammars <- AnyGrammars, Generated <- GeneratedWords,
    grammar <- given, word <- input, i <- scanned, verdict <- recognized
GeneratorTool == INSTANCE Generator WITH
    Grammars <- AnyGrammars, Generated <- GeneratedWords, grammar <- given

parserVars == <<vars, syntaxVars>>
earleyVars == <<expectEof, input, scanned, Rp, R, half, added, recognized>>
generatorVars == <<min, max, skipped, calls, generated, outcome>>
toolVars == <<tool, parserVars, given, earleyVars, generatorVars>>

ParserIdle ==
    /\ phase = "idle" /\ mode = "none" /\ verdict = "none"
    /\ grammar = NewGrammar(Idle, Idle) /\ todo = Idle /\ change = Idle
    /\ nullable = Idle /\ first = Idle /\ follow = Idle /\ delta = Idle
    /\ word = Idle /\ q = Idle /\ offset = Idle /\ stack = Idle
    /\ productions = Idle /\ errorAt = Idle
    /\ wordPosition = Idle /\ nextProduction = Idle /\ frames = Idle
    /\ text = Idle /\ means = Idle /\ names = Idle /\ regex = Idle
EarleyIdle ==
    /\ half = "idle"
    /\ expectEof = Idle /\ input = Idle /\ scanned = Idle /\ Rp = Idle /\ R = Idle
    /\ added = Idle /\ recognized = Idle
GeneratorIdle ==
    /\ outcome = "idle"
    /\ min = Idle /\ max = Idle /\ skipped = Idle /\ calls = Idle /\ generated = Idle

ToolsInit ==
    \/ tool = "Parser" /\ Init /\ given = Idle /\ EarleyIdle /\ GeneratorIdle
    \/ tool = "EarleyParser" /\ EarleyTool!Init /\ ParserIdle /\ GeneratorIdle
    \/ tool = "generate" /\ GeneratorTool!Init /\ ParserIdle /\ EarleyIdle

Parsing == tool = "Parser" /\ ParsersNext /\ UNCHANGED <<tool, given, earleyVars, generatorVars>>
Recognising == tool = "EarleyParser" /\ EarleyTool!Next /\ UNCHANGED <<tool, parserVars, generatorVars>>
Generating == tool = "generate" /\ GeneratorTool!Next /\ UNCHANGED <<tool, parserVars, earleyVars>>

ToolsNext == Parsing \/ Recognising \/ Generating

\* Nobody has to call a parser; the thread that has called it, or recognize(),
\* goes on.
ToolsSpec ==
    /\ ToolsInit /\ [][ToolsNext]_toolVars
    /\ WF_toolVars(tool = "Parser" /\ Loops /\ UNCHANGED <<tool, given, earleyVars, generatorVars>>)
    /\ WF_toolVars(Recognising)
--------------------------------------------------------------------------------
RECURSIVE Yield(_)
Yield(node) ==
    IF node.value \in grammar.terminals THEN <<node.value>>
    ELSE FlattenSeq([i \in DOMAIN node.children |-> Yield(node.children[i])])

RECURSIVE IsDerivation(_)
IsDerivation(node) ==
    \/ node.value \in grammar.terminals /\ node.children = <<>>
    \/ /\ \E r \in grammar.rules :
             /\ r.lhs = node.value
             /\ [i \in DOMAIN node.children |-> node.children[i].value]
                  = IF r.prod.rhs = <<>> THEN <<Eps>> ELSE r.prod.rhs
       /\ \A i \in DOMAIN node.children :
             node.children[i] = Node(Eps, <<>>) \/ IsDerivation(node.children[i])

\* The tokens of the derivation that lists the productions from the i-th on,
\* those marked `ignore` left out, with the index of the next production.
RECURSIVE Kept(_, _, _, _)
Kept(prod, j, i, tokens) ==
    IF j > Len(prod.rhs) THEN <<tokens, i>>
    ELSE IF prod.rhs[j] \in grammar.terminals
    THEN Kept(prod, j + 1, i, IF prod.ignore[j] THEN tokens ELSE Append(tokens, prod.rhs[j]))
    ELSE LET sub == Kept(productions[i][2], 1, i + 1, tokens)
         IN  Kept(prod, j + 1, sub[2], sub[1])

RECURSIVE Leaves(_)
Leaves(node) ==
    IF node.children # <<>>
    THEN FlattenSeq([i \in DOMAIN node.children |-> Leaves(node.children[i])])
    ELSE IF node.value \in grammar.terminals THEN <<node.value>> ELSE <<>>

\* The parse tree is a derivation of the word from the start symbol.  However the
\* syntax tree is pruned, collapsed and spilled upwards, its leaves are the tokens
\* of that derivation that are not ignored, in their order.
TreeIsDerivation ==
    verdict = "built" =>
        LET root == TopFrame.node
        IN  IF mode = "parse"
            THEN root.value = grammar.start /\ IsDerivation(root) /\ Yield(root) = Front(word)
            ELSE mode = "ASTparse" => Leaves(root) = Kept(productions[1][2], 1, 2, <<>>)[1]

\* Parser: that of a grammar that combinators put together accepts the words their
\* expression describes and no others.  A part may use another by name before
\* that one is there: combined, the grammar is never taken for one in which a
\* symbol is both terminal and nonterminal.
AcceptsTheExpression ==
    grammar \in Factory =>
        /\ phase # "threw"
        /\ verdict \in {"accepted", "built"} => Front(word) \in Described[grammar]
        /\ verdict = "rejected" => Front(word) \notin Described[grammar]

\* Earley: every closed set of items holds what derivations define.
ItemsAreValid == EarleyTool!ItemsAreValid

\* "An Earley Parser for Context-Free Grammars" accepts words of the language only.
AcceptsOnlyWords == EarleyTool!AcceptsOnlyWords

\* Earley: C() ends for every grammar, left recursive, cyclic or ambiguous, and
\* recognize() gives an answer.
RecognizeEnds == tool = "EarleyParser" => <>(half = "done")

\* Every call of a parser ends: with an answer, a tree or an error.
CallsEnd == ParseEnds /\ RecognizeEnds

\* Generator: what is generated is a word of the grammar.
GeneratesItsLanguage == GeneratorTool!GeneratesItsLanguage
================================================================================
