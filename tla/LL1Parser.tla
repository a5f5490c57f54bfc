------------------------------- MODULE LL1Parser -------------------------------
(***************************************************************************)
(* A Parser (include/parser.hpp).  It is built from a grammar: the three   *)
(* fixpoints of include/cfg.hpp, each a loop of passes over the rules,     *)
(* which are a hash multimap, so that a pass visits them in any order;     *)
(* then the transitions of the pushdown automaton (include/dpda.hpp).  It  *)
(* parses one word: the automaton runs over the word and lists the         *)
(* productions it used, and a second loop grows the parse tree or the      *)
(* syntax tree from that list.                                             *)
(***************************************************************************)
EXTENDS ContextFree, SequencesExt

CONSTANTS
    Grammars,   \* grammars all of whose short words are parsed
    MaxWord,    \* length of those words, the last eof aside
    Foreign,    \* tokens that are no terminals of the grammar
    MaxProductions  \* bound on the rules the automaton uses for each token

ASSUME GrammarsAssumption == \A g \in Grammars : IsGrammar(g)
ASSUME MaxWordAssumption == MaxWord \in Nat

VARIABLES
    grammar,
    phase,       \* which loop the construction is in
    todo,        \* the rules this pass has not visited
    change,      \* the flag of the pass
    nullable,    \* the nullable symbols
    first,
    follow,
    delta,       \* DPDA::delta: key <state, letter, top> to [to, prod]

    mode,         \* "parse" or "ASTparse"
    word,         \* the tokens, with the eof that parse() appends
    q, offset,    \* current_state and offset
    stack,        \* the stack, its top first
    productions,  \* the rules used so far, as <<A, production>>
    verdict,      \* "none" until the automaton stops; "built" when the tree is
    errorAt,      \* position of the ParseError
    wordPosition, nextProduction,
    frames        \* parseStack, its top last: [node, idx, prod]

tables == <<grammar, nullable, first, follow, delta>>
buildVars == <<tables, phase, todo, change>>
runVars == <<q, offset, stack, productions, verdict, errorAt>>
treeVars == <<wordPosition, nextProduction, frames>>
vars == <<buildVars, mode, word, runVars, treeVars>>

\* The states of the automaton: 0, 1 and f(l).
f(l) == <<"f", l>>
q0 == <<"0">>
q1 == <<"1">>
qFinal == f(grammar.eof)
--------------------------------------------------------------------------------
BuildInit(G) ==
    /\ grammar \in G
    /\ phase = "nullables"
    /\ todo = grammar.rules /\ change = FALSE
    /\ nullable = {r.lhs : r \in {r \in grammar.rules : r.prod.rhs = <<>>}}
    /\ first = [x \in Symbols(grammar) |-> IF x \in grammar.terminals THEN {x} ELSE {}]
    /\ follow = [A \in grammar.nonTerminals |-> IF A = grammar.start THEN {grammar.eof} ELSE {}]
    /\ delta = [k \in {<<q0, Eps, Eps>>} |-> [to |-> q1, prod |-> Production(<<grammar.start>>)]]
--------------------------------------------------------------------------------
(* The fixpoints.                                                            *)

Visited(r, changed) ==
    /\ r \in todo
    /\ todo' = todo \ {r}
    /\ change' = (change \/ changed)

VisitNullable(r) ==
    /\ phase = "nullables"
    /\ nullable' = nullable \cup (IF NullableWord(r.prod.rhs, nullable) THEN {r.lhs} ELSE {})
    /\ Visited(r, nullable' # nullable)
    /\ UNCHANGED <<grammar, phase, first, follow, delta>>

VisitFirst(r) ==
    /\ phase = "firsts"
    /\ first' = [first EXCEPT ![r.lhs] = @ \cup FirstOf(r.prod.rhs, nullable, first)]
    /\ Visited(r, first' # first)
    /\ UNCHANGED <<grammar, phase, nullable, follow, delta>>

\* What the i-th symbol of r hands to its FOLLOW set.
FollowFrom(r, i, fol) ==
    LET rest == After(r.prod.rhs, i)
    IN  FirstOf(rest, nullable, first) \cup (IF NullableWord(rest, nullable) THEN fol[r.lhs] ELSE {})

\* The symbols of a rule are gone through in order; a later one sees what an
\* earlier one added.
FollowThrough(r) ==
    LET through[i \in 0 .. Len(r.prod.rhs)] ==
            IF i = 0 THEN follow
            ELSE LET x == r.prod.rhs[i]
                     fol == through[i - 1]
                 IN  IF x \in grammar.nonTerminals
                     THEN [fol EXCEPT ![x] = @ \cup FollowFrom(r, i, fol)]
                     ELSE fol
    IN  through[Len(r.prod.rhs)]

VisitFollow(r) ==
    /\ phase = "follows"
    /\ follow' = FollowThrough(r)
    /\ Visited(r, follow' # follow)
    /\ UNCHANGED <<grammar, phase, nullable, first, delta>>

\* A pass that changed something is followed by another.
NextPass ==
    /\ phase \in {"nullables", "firsts", "follows"}
    /\ todo = {} /\ change
    /\ todo' = grammar.rules /\ change' = FALSE
    /\ UNCHANGED <<tables, phase>>

NextFixpoint ==
    /\ todo = {} /\ ~change
    /\ \/ phase = "nullables" /\ phase' = "firsts"
       \/ phase = "firsts" /\ phase' = "follows"
       \/ phase = "follows" /\ phase' =
            IF grammar.terminals \cap grammar.nonTerminals = {} THEN "table" ELSE "threw"
    /\ todo' = grammar.rules
    /\ UNCHANGED <<tables, change>>
--------------------------------------------------------------------------------
(* The transitions.                                                          *)

\* The lookaheads under which a rule is chosen.
Lookaheads(r) ==
    FirstOf(r.prod.rhs, nullable, first)
      \cup (IF NullableWord(r.prod.rhs, nullable) THEN follow[r.lhs] ELSE {})

\* addTransition() for the rule under each lookahead: a transition that is
\* there stays, and the conflict is only logged.
AddRule(r) ==
    /\ phase = "table" /\ r \in todo
    /\ LET keys == {<<f(l), Eps, r.lhs>> : l \in Lookaheads(r)}
       IN  delta' = [k \in DOMAIN delta \cup keys |->
                        IF k \in DOMAIN delta THEN delta[k]
                        ELSE [to |-> k[1], prod |-> r.prod]]
    /\ todo' = todo \ {r}
    /\ UNCHANGED <<grammar, phase, change, nullable, first, follow>>

\* The transitions that read a terminal and that match it on the stack.
AddTerminals ==
    /\ phase = "table" /\ todo = {}
    /\ LET reads == {<<q1, l, Eps>> : l \in grammar.terminals}
           matches == {<<f(l), Eps, l>> : l \in grammar.terminals \ {grammar.eof}}
       IN  delta' = [k \in DOMAIN delta \cup reads \cup matches |->
                        IF k \in reads THEN [to |-> f(k[2]), prod |-> Production(<<>>)]
                        ELSE IF k \in matches THEN [to |-> q1, prod |-> Production(<<>>)]
                        ELSE delta[k]]
    /\ phase' = "ready"
    /\ UNCHANGED <<grammar, todo, change, nullable, first, follow>>

Visit(r) == VisitNullable(r) \/ VisitFirst(r) \/ VisitFollow(r) \/ AddRule(r)

BuildNext ==
    \/ \E r \in todo : Visit(r)
    \/ NextPass
    \/ NextFixpoint
    \/ AddTerminals
--------------------------------------------------------------------------------
(* A word.                                                                   *)

WordsUpTo(S, n) == UNION {[1 .. k -> S] : k \in 0 .. n}

Node(x, children) == [value |-> x, children |-> children]

\* The ParsingState of a node that the production p of A expands.
Frame(x, A, p) == [node |-> Node(x, <<>>), idx |-> 0, lhs |-> A, prod |-> p]

NotParsing ==
    /\ mode = "none" /\ word = <<>>
    /\ q = q0 /\ offset = 0 /\ stack = <<>> /\ productions = <<>>
    /\ verdict = "none" /\ errorAt = 0
    /\ wordPosition = 0 /\ nextProduction = 0 /\ frames = <<>>

\* The parser is there and nobody is using it.
Free == phase = "ready" /\ mode = "none"

\* parse(w) or ASTparse(w) is called.
Parse(w) ==
    /\ Free
    /\ mode' \in {"parse", "ASTparse"}
    /\ word' = Append(w, grammar.eof)
    /\ UNCHANGED <<buildVars, runVars, treeVars>>
--------------------------------------------------------------------------------
(* The automaton.                                                            *)

\* The keys a step looks up, in this order.
Tries(l, s) == << <<q, l, s>>, <<q, l, Eps>>, <<q, Eps, s>>, <<q, Eps, Eps>> >>

Letter == IF offset < Len(word) THEN word[offset + 1] ELSE Eps
Top == IF stack = <<>> THEN Eps ELSE stack[1]

Found(i) ==
    /\ Tries(Letter, Top)[i] \in DOMAIN delta
    /\ \A j \in 1 .. i - 1 : Tries(Letter, Top)[j] \notin DOMAIN delta

Running == mode # "none" /\ verdict = "none" /\ (q # qFinal \/ stack # <<>>)

\* A mistake transition() could make: the expanded symbol stays.
PoppedNothing(top) == stack

\* transition(): what it takes off the stack.
Popped(top) == IF top = Eps THEN stack ELSE Tail(stack)

Transition(k) ==
    LET t == delta[k]
    IN  /\ stack' = t.prod.rhs \o Popped(k[3])
        /\ q' = t.to
        /\ offset' = IF k[2] = Eps THEN offset ELSE offset + 1
        /\ productions' = IF k[1] = t.to THEN Append(productions, <<k[3], t.prod>>) ELSE productions

Drive ==
    /\ Running /\ Len(productions) < MaxProductions * Len(word)
    /\ \E i \in 1 .. 4 : Found(i) /\ Transition(Tries(Letter, Top)[i])
    /\ UNCHANGED <<buildVars, mode, word, verdict, errorAt, treeVars>>

Accepted == q = qFinal /\ stack = <<>> /\ offset = Len(word)

\* A mistake detectMistake() could make: the position is off by one.
MistakeAfter ==
    /\ verdict' = "rejected"
    /\ errorAt' = offset

\* detectMistake(): the ParseError points at the last token read.
Mistake ==
    /\ verdict' = "rejected"
    /\ errorAt' = IF offset > 0 THEN offset - 1 ELSE 0

Stop ==
    /\ mode # "none" /\ verdict = "none"
    /\ ~Running \/ (\A i \in 1 .. 4 : ~Found(i))
    /\ IF Accepted THEN verdict' = "accepted" /\ UNCHANGED errorAt ELSE Mistake
    /\ UNCHANGED <<buildVars, mode, word, q, offset, stack, productions, treeVars>>
--------------------------------------------------------------------------------
(* The tree: one iteration of the loop of makeParseTree() or makeAST().      *)

Plant ==
    /\ verdict = "accepted" /\ frames = <<>>
    /\ frames' = <<Frame(grammar.start, productions[1][1], productions[1][2])>>
    /\ UNCHANGED <<buildVars, mode, word, runVars, wordPosition, nextProduction>>

TopFrame == frames[Len(frames)]
Parent == frames[Len(frames) - 1]

Finished == TopFrame.idx = Len(TopFrame.prod.rhs)

Growing == verdict = "accepted" /\ frames # <<>> /\ wordPosition < Len(word)

\* A mistake the loop could make: a child goes before its elder siblings.
ResumeInFront(x, more) ==
    Append(SubSeq(frames, 1, Len(frames) - 2),
           [Parent EXCEPT !.node = Node(x, more \o @.children), !.idx = @ + 1])

\* A mistake the loop could make: the parent stays at the symbol it waited at.
ResumeStays(x, more) ==
    Append(SubSeq(frames, 1, Len(frames) - 2),
           [Parent EXCEPT !.node = Node(x, @.children \o more)])

\* The frames below the top one, the last of which gets the children `more` and
\* the value x and goes on to its next symbol.
Resume(x, more) ==
    Append(SubSeq(frames, 1, Len(frames) - 2),
           [Parent EXCEPT !.node = Node(x, @.children \o more), !.idx = @ + 1])

\* makeParseTree() marks an empty production with an eps leaf.
ParseChild == IF TopFrame.prod.rhs = <<>>
              THEN Node(TopFrame.node.value, <<Node(Eps, <<>>)>>)
              ELSE TopFrame.node

\* makeAST(): the value a production gives to a node.
Renamed(x) == IF TopFrame.prod.replaceWith # Eps THEN TopFrame.prod.replaceWith ELSE x

\* makeAST(): an empty node is dropped; an only child takes the place of its
\* parent; a node with few children gives them to its own parent.
AstFrames ==
    LET child == TopFrame.node
        data == grammar.data[TopFrame.lhs]
        kids == child.children
    IN  IF data.ignoreEmpty /\ kids = <<>>
        THEN Resume(Parent.node.value, <<>>)
        ELSE IF data.ignoreSingleChild /\ Len(kids) = 1
        THEN Resume(Renamed(Parent.node.value), kids)
        ELSE IF Len(kids) <= data.upwardSpillThreshold
        THEN Resume(Parent.node.value, kids)
        ELSE Resume(Parent.node.value, <<Node(Renamed(child.value), kids)>>)

\* The root is finished: no rule of makeAST() is applied to it.
Finish ==
    /\ Growing /\ Finished /\ Len(frames) = 1
    /\ frames' = <<[TopFrame EXCEPT !.node = IF mode = "parse" THEN ParseChild ELSE @]>>
    /\ verdict' = "built"
    /\ UNCHANGED <<buildVars, mode, word, q, offset, stack, productions, errorAt,
                   wordPosition, nextProduction>>

Ascend ==
    /\ Growing /\ Finished /\ Len(frames) > 1
    /\ frames' = IF mode = "parse" THEN Resume(Parent.node.value, <<ParseChild>>) ELSE AstFrames
    /\ UNCHANGED <<buildVars, mode, word, runVars, wordPosition, nextProduction>>

NextSymbol == TopFrame.prod.rhs[TopFrame.idx + 1]

\* The next symbol is the next token; makeAST() leaves out ignored tokens.
Shift ==
    /\ Growing /\ ~Finished
    /\ NextSymbol = word[wordPosition + 1]
    /\ wordPosition' = wordPosition + 1
    /\ LET kept == mode = "parse" \/ ~TopFrame.prod.ignore[TopFrame.idx + 1]
           leaf == IF kept THEN <<Node(NextSymbol, <<>>)>> ELSE <<>>
       IN  frames' = [frames EXCEPT ![Len(frames)] =
                        [TopFrame EXCEPT !.node = Node(@.value, @.children \o leaf), !.idx = @ + 1]]
    /\ UNCHANGED <<buildVars, mode, word, runVars, nextProduction>>

\* The next symbol is a nonterminal, expanded by the next production used.
Descend ==
    /\ Growing /\ ~Finished
    /\ NextSymbol # word[wordPosition + 1]
    /\ nextProduction' = nextProduction + 1
    /\ LET used == productions[nextProduction' + 1]
       IN  frames' = Append(frames, Frame(NextSymbol, used[1], used[2]))
    /\ UNCHANGED <<buildVars, mode, word, runVars, wordPosition>>

\* What the parser does, once it is built or called, on its own.
Work ==
    \/ BuildNext /\ UNCHANGED <<mode, word, runVars, treeVars>>
    \/ Drive \/ Stop
    \/ Plant \/ Finish \/ Ascend \/ Shift \/ Descend

\* A Parser by itself.
Words == WordsUpTo(grammar.terminals \cup Foreign, MaxWord)
ParserInit == BuildInit(Grammars) /\ NotParsing
ParserNext == (\E w \in Words : Parse(w)) \/ Work
ParserSpec == ParserInit /\ [][ParserNext]_vars
--------------------------------------------------------------------------------
(* Properties.                                                               *)

\* The words the grammar generates, up to a length at which every word of at
\* most MaxWord tokens that can be completed is completed.
Reference == [g \in Grammars |-> Languages(g, 2 * MaxWord + 1)]
ReferenceFollow == [g \in Grammars |-> [A \in g.nonTerminals |-> FollowOf(g, A, 2 * MaxWord + 1)]]

Generates(w) == w \in Reference[grammar][grammar.start]
Viable(w) == \E u \in Reference[grammar][grammar.start] : Len(w) <= Len(u) /\ SubSeq(u, 1, Len(w)) = w

\* In an LL(1) grammar no lookahead chooses two rules of one nonterminal.
LL1 == \A r, s \in grammar.rules :
          r.lhs = s.lhs /\ r # s => Lookaheads(r) \cap Lookaheads(s) = {}

\* Whatever order the passes visit the rules in, the three fixpoints are what
\* derivations define: the symbols that derive the empty word, the first
\* letters of what they derive, and the terminals that can come after them.
TablesAreDerivable ==
    phase = "table" /\ grammar \in DOMAIN Reference =>
        \A A \in grammar.nonTerminals :
            /\ A \in nullable <=> <<>> \in Reference[grammar][A]
            /\ first[A] = {u[1] : u \in Reference[grammar][A] \ {<<>>}}
            /\ follow[A] = ReferenceFollow[grammar][A]

\* Whatever rules the table lost to a conflict, and whatever the order in which
\* the automaton tries its keys: the productions used for a word it accepts are a
\* leftmost derivation of that word.
ProductionsDerive ==
    verdict \in {"accepted", "built"} =>
        /\ IsLeftmostDerivation(grammar, productions)
        /\ Sentential(grammar, productions)[Len(productions)] = Front(word)

\* What the frames have yet to go through, from the top one down; those below it
\* wait at the symbol that the next one expands.
Waiting(stacked) ==
    LET behind[n \in 0 .. Len(stacked)] ==
            IF n = 0 THEN <<>> ELSE After(stacked[n].prod.rhs, stacked[n].idx + 1) \o behind[n - 1]
    IN  behind
Ahead == After(TopFrame.prod.rhs, TopFrame.idx) \o Waiting(frames)[Len(frames) - 1]

\* The second loop goes through the same derivation, by an index of its own that
\* knows only how often it has descended: at each of its steps the tokens placed
\* and what the frames wait for are the form that the productions taken so far
\* have derived.  In the end it has taken each of them and placed every token.
TreeRetraces ==
    verdict \in {"accepted", "built"} /\ frames # <<>> =>
        /\ nextProduction < Len(productions)
        /\ Sentential(grammar, productions)[nextProduction + 1] = SubSeq(word, 1, wordPosition) \o Ahead
        /\ verdict = "built" => nextProduction = Len(productions) - 1 /\ wordPosition = Len(word) - 1

DerivationIsKept == ProductionsDerive /\ TreeRetraces

\* A word of an LL(1) grammar is never rejected, and a ParseError comes at once:
\* what is before the position it reports is the beginning of a word of the
\* language.
RejectsOnlyMistakes ==
    verdict = "rejected" /\ grammar \in DOMAIN Reference /\ LL1 =>
        /\ ~Generates(Front(word))
        /\ Viable(SubSeq(word, 1, errorAt))
================================================================================
