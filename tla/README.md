# A verification development for formlang

formlang is a C++ library of formal-language machines: a pool of interned words,
context-free parsers, finite-state transducers built from regular expressions,
lexers, and rewriting transducers, with a few demo programs. This directory holds
TLA+ modules that model it, TLC configurations that check them on small
instances, and TLAPS proofs of what can be stated for every instance. Paths in this
file are relative to the repository (`include/...`, `src/...`, `tests/...`).

`PROJECT.json` is the index: components, runs, for each property a mutation of
the model it detects, the source lines of each definition, the hazards and the
listed theorems.

Contents: [inventory](#1-inventory), [modules](#2-modules-and-the-code),
[runs](#3-what-the-runs-check), [bounds](#4-bounds), [fairness](#5-fairness-and-deadlock),
[proofs](#6-proofs), [disagreements](#7-where-the-code-and-its-words-disagree),
[not modelled](#8-what-is-not-modelled), [plan](#9-plan).

## 1. Inventory

The library runs in one thread. The only concurrency is with child processes. What
is hard is aliasing inside the pools, order (hash tables decide it in many places),
termination of fixpoints and parses, and long pipelines in which every stage has to
keep a relation.

| component | state it keeps | operations | made correct by |
|---|---|---|---|
| String pool, `include/interning_monoid.hpp` | `words`, `wordsData` (slices), `temporaries` and its count, `wordMap`, `nextWordId`; the clients' Values and Operands | `from`, `mul`, `invMul`, `sub`, `gcp`, conversions, `operator=`, destruction, `compact`, `serialize`/reader | a word has one id; a live handle keeps its word; the scratch vector is cleared exactly when nothing points into it |
| Product, symbol, integer and letter monoids, `cartesian_monoid.hpp`, `symbol_monoid.hpp`, `integer_monoid.hpp`, `letter.hpp` | none of their own (the pools of the tapes, which several tapes may share) | the operations tape by tape, `compact`, streams | a label keeps its words, on every tape |
| Grammars, `cfg.hpp` | rules in a hash multimap, data of nonterminals | nullable, FIRST, FOLLOW; `generate` | tables are what derivations define, in any order of the rules; what is generated is a word |
| Grammar factory, `grammar_factory.hpp` | a CFG under construction | `Seq`, `Choice`, `Repeat`, `Optional`, `Word`, `Phrase`, `combine` | the grammar has the words the combinators describe |
| Pushdown automaton, `dpda.hpp` | transition table, first one stays | one step, four keys in turn | a step is the most specific transition |
| LL(1) parser, `parser.hpp`, `state.hpp` | the automaton; stack, offset, productions used | construct, run, `parse`, `ASTparse` | accepts the language; reports the first bad token; trees are derivations |
| Regular expression grammar, `regex_parser.hpp` | the module's grammar and parser | tokenize, parse, build, associate; `print`, `identity`, `optionalReplace` | the expression is the one the text means |
| Earley recogniser, `earley.hpp` | item sets `R`, the set being closed | predict/complete, scan, final test | closed sets are the valid items; accepts the language |
| Child processes, `pipes.hpp`, `src/pipes.cpp`, `drawFSA` in `utils.hpp` | buffers, descriptors, the child's state | start, print, flush, close, wait, read | nothing lost or reordered; a run ends |
| Transducers, `fst.hpp`, `expanded_fst.hpp` | states, initial and final states, transitions, `f_eps` | read as a relation | - |
| Constructions from expressions, `fst_from_regex.hpp` | - | Berry-Sethi and Thompson: union, concatenation, star, plus | the machine has the relation of the expression |
| Trimming and real time, `trim.hpp`, `realtime.hpp` | - | trim, remove silent transitions, expand, remove transitions that read nothing | the relation is kept |
| Pseudo-determinization and minimization, `expanded_fst.hpp` | - | subsets, reversal, partition refinement | the relation is kept; the result is minimal |
| Ambiguity and functionality, `ambiguity.hpp`, `src/ambiguity.cpp`, `functionality.hpp` | pairs of states with delays | `testInfiniteAmbiguity`, `isFunctional`, `testBoundedVariation` | verdicts agree with the relation |
| Subsequential transducers, `ssft.hpp` | states with delays, psi, the initial output | subsequentialize; `f` | the function is kept |
| Total and compressed transducers, `total_ssft.hpp`, `compressed_total_ssft.hpp`, `canonical.hpp`, `compose.hpp` | output words or their numbers with a flag; push values | canonicalize, compose, compress, trim, compact, streams | the function is kept; outputs are as early as possible |
| Marker rewriting, `replace_marker_ssft.hpp` | trie, the stack of its last path, what each state withholds | insert rules in order, merge, place the outputs, fill failures | the text is rewritten |
| Word sets, `wordset.hpp` | vectors, slices, a hash map | add, replace, extend, serialize | a number means the word it was given for |
| Tokenizer automata and lexer, `output_fsa.hpp`, `lex_traverser.hpp` | subsets with a priority; stream buffer, position, queued token | union, determinize; `++`, `*` | longest match, earlier rule first, every character accounted for |
| Test runner, `doctest.h` (vendored; the main program of every test executable) | options, the order of test cases, decision points of the traversal, flags and counts, what reporters have open | parse, select, run, reenter, judge, report | every path runs once; verdicts and reports are what happened |
| Tokens, utilities, demos, tests | - | naming, hashing, formatting, timing | - |

How they interact. Labels and outputs of transducers are Values of pools. A machine
owns its string pool by `unique_ptr`; a stage that consumes a machine takes over its
monoid, and one that builds a machine with another monoid interns the words again
(`MachineLabels`). The last stages call `compact()` with ranges over every place of the
machine that holds Values. The regular-expression demos (`src/regex2.cpp`,
`src/regex3.cpp`) tokenize with a lexer, parse with the LL(1) parser, build an
expression from its tree, turn that into a transducer by one of two constructions, and pass the transducer
through about a dozen stages; each stage consumes the machine of the one before,
and two stages may refuse it. Drawing a machine prints it into a child process and
reads back what the child wrote. The tests are linked with the runner of `doctest.h`, whose
reporters are the only account there is of what was tested.

Where it is hard, with its lines, is the list `hazards` of `PROJECT.json`. In
short: **stale handles** (ids and slices across `compact()`, an Operand across the
clearing of the scratch vector, a miscounted copy or assignment, a number with a flag in
it); **order** (the rules of a grammar, the transitions of a state, the pairs of a search all come
from hash tables; states of a trie are merged before all is known of them); **ends of ranges** (slices
that touch, nest or are empty; the last step of a word pair; the position of an error; room that wraps);
**termination** (a parse by a grammar that is not LL(1), closure under cyclic grammars, partition
refinement, test cases that are run again); **blocking** (a pipe that is full, an end of input held
back by a sibling, a child that is gone); **one step that fails** (an exception in a subcase, a signal
in the middle of a report).

## 2. Modules and the code

```
FreeMonoid  <== refined by ==  InterningMonoid ---- InterningMonoidProofs
                               /  (EXTENDS)
                       PoolLayout ------------------ PoolLayoutProofs
                               \
                                CompactLoop ---\
                                WordSets ------- WordPools -- WordPoolsProofs
                                MachineLabels -/

ContextFree -- LL1Parser -- RegexSyntax -- GrammarTools
       |  |      \------------------------------------- LL1ParserProofs
       |  \---- GrammarFactory -------------/     .   .
       |  \---- Earley . . . . . . . . . . . . . .    .
       |  \---- Generator . . . . . . . . . . . . . . .
                                        (INSTANCE)
RegexFST -- RealtimeFST -- Subsequential -- RegexPipeline
                    \
             Lexer -- RuleLexer                          ProcessPipes -- ProcessPipesProofs
               \ ---- LexerProofs

TotalSSFST -- Canonical -- CompressedSSFST -- TotalTransducers
        \                    /        \ ---------------- CompressedSSFSTProofs
         \        PoolLayout           /
          \ ----- MarkerRewriting ----/

CommandLine, Reporters, Traversal -- TestRunner -- TestRunnerProofs
```

A line is an `EXTENDS`, from left to right the extended module first (`RuleLexer` extends
`RealtimeFST` and `Lexer`; `TotalTransducers` extends `CompressedSSFST` and `MarkerRewriting`). The proof modules of the pool and
its clients, the total transducers, the LL(1) parser and the test runner extend `PoolLayoutProofs` too.

### Words that are known by a number

**PoolLayout**: slices of a vector, the offsets a set of slices covers (`Bytes`),
the vector of the covered symbols only (`Pack`) and the place an offset goes to
(`Rank`).

**InterningMonoid**: `include/interning_monoid.hpp`. Every member of `Storage` is a
variable. The client is a program with finitely many variables of the types Value
and Operand, calling the public operations in any order, so the *handles* are state
too: `value[v]` is an id, `operand[o]` a slice with the flag `fromTemporaries`.
An Operand's copy constructor, destructor, assignment and conversion are actions
because each moves the reference count. `AddUnique` and `AddUniqueInfix` are
the two ways to an id; `Mul`, `Own` and `Widen` build temporaries or infixes; `InvMul`,
`Sub` and `Gcp` return slices of what they are given. `Compact(L)` is the whole of
`compact()` with the ranges of Values the caller hands over (any subset `L`; a
Value left out is not used again, and the model resets it to the
identity). `Reload` is `serialize()` followed by the constructor from a
reader. Hash buckets are left out: a lookup is by content.

**CompactLoop** is the loop inside `compact()` (lines 336-385), one iteration a
step: live ids sorted by offset, the current run `[runOldStart, runOldEnd)` and
where it goes. Ids that start together may be visited in either order, as
`std::sort` is not stable. `InterningMonoid` states the outcome of that loop by
`Rank` and `Pack`; the theorems about the loop in `WordPoolsProofs` are why it may.

**FreeMonoid** is the abstract specification of the pool: a map from handles to
words and the operations of the monoid on words. There are no ids, no slices, no
scratch vector, no compaction.

**MachineLabels**: the labels of five types of transducers. First the monoid they are values of: it has two tapes, as
in every transducer here; a tape is a pool, letters with a neutral one, or natural numbers; the tapes may share a pool. Here a pool is the sequence of its words, which is what
`InterningMonoid` is shown to implement. `DiagonalMonoid` is the product whose tapes share one
pool. Pools are written in the order the product owns them and read as arguments of
one call, which C++ evaluates in any order (`Orders`). Then the machine: the state is the monoid, the
values in transitions and outputs, and the words the client meant; actions multiply labels on,
intern them again in another monoid (as `SparseSSFST` and the constructors from another machine do), trim
(any subset of transitions may go), compact (each type's own list of ranges), serialize and load.

**WordSets**: `WordSet`, `UniqueWordSet` and `ExtendableWordSet`. The hash map of the second keeps
nodes with the word they were hashed as, since a moved or replaced word must still be found. Two variables are
history: `says` has for each number the word the client asked for (`word \o extension` in both branches of
`extendWord()`), never what the set reads, and `displaced` the numbers whose vector had an extension put in front of it, and
those that were copied from one. The member `wordsData` is
the variable `slices` here, as `WordPools` has the compaction loop's too.

**WordPools** puts `CompactLoop`, `MachineLabels` and `WordSets` side by side, their variables in one state: a behaviour is about one of
the three.

### Grammars

**ContextFree**: rules, and the reference definitions the tools are compared
with: leftmost derivations, the words each nonterminal derives, up to a length, and FOLLOW by
derivation. **LL1Parser**: the constructor of `Parser`: the three fixpoints of `cfg.hpp`
as passes over the rules in an arbitrary order, the automaton's transitions with
`addTransition`'s rule that the first one stays. Then `DPDA::step` and the loop of
`generateProductions` in `Drive`, one step of the automaton each, the ParseError's position, then `parse()` and
`ASTparse()` as a walk with an explicit stack of frames: `Shift`, `Descend`, `Ascend`,
`Finish`. An ASTparse frame is spilled, renamed or dropped as `makeAST` does.

**RegexSyntax**: `parseRegex()`. Texts are sequences of characters; `Tokenize` cuts them as `tokenize()` does, with
quotes, escapes, blanks and `null`; the module's grammar is parsed by `LL1Parser`; `Condensed` is the
recursive pass over the productions, `Regex` the expression made of it and `toLeftAssoc` the rotation.
`print()`, `identity()` and `optionalReplace()` are modelled as makers of texts: what they return is parsed too.
**GrammarFactory**: each combinator is a function from grammars to a grammar, `Built` makes one of a term of combinators, and
`Describes` says what the term means without a grammar.

**Earley**: an iteration of `C()` has two halves: first predictions and the completion of
items that started in the same set, then the completion of items of earlier sets;
when neither adds anything the set is stored and the next symbol scanned. Sets of items
replace hash sets: what a half adds does not depend on the order of its elements.
**Generator**: `CFG::generate()` with its stack of calls, the room that is left in `size_t` and the
retry when nothing fits. **GrammarTools** is the composition: one of the three tools, with one of its grammars;
a parser is used with written grammars, with built ones and inside `parseRegex()`.

### Processes

**ProcessPipes**: the parent is one thread whose program is drawFSA()'s
statements; `call` is the system call it is blocked in. A `PipeBuffer` has its own
buffer (`overflow`, `sync`); a pipe of the kernel is a bounded queue; `writers`
is who holds a write end of a child's stdin, which a child started later inherits. A
child is a sequence of calls: read to the end, write to stdout, write to stderr.

### Transducers and lexers

**RegexFST**: a machine as a record, well-formedness, the relation of a
machine bounded by `MaxInput` and `MaxOutput`; expressions, their
meaning and infinite ambiguity (both by recursion on the expression, independent of
any machine) and the two constructions with the code's numbering of states.
**RealtimeFST**: `trim.hpp` and `realtime.hpp`. Where the code iterates a hash table and the
result depends on it (the search of `realtime.hpp:112`), the result is a set of machines,
one for each order. Then `expanded_fst.hpp`: subsets, the
double reversal, Crochemore's refinement. **Subsequential**: the delay of two outputs,
`testBoundedVariation` with its priority queue, `subsequentializeFST` with sets of states and what
each still owes, its two reasons to throw, and `f()`.
**RegexPipeline**: the state is the expression, the machine and the stage; each
stage of `test_regex()` is an action that replaces the machine:
`Build, Trim, TestAmbiguity, TrimAgain, RemoveEpsilon, Expand, RemoveUpperEpsilon,
TrimRealtime, Determinize, Minimize, TestFunctionality, TestBoundedVariation,
Subsequentialize`. `built` and `function` remember the relation of the first machine and of
the last one before it is made subsequential.

**Lexer**: the iterator of `LexerRange` and the range-for
loop that drives it (`pc`: "next" before `++`, "reading" in its loop, "token" before the test and `*`). Its
tokenizers are a constant, any deterministic transducers, so that it can be proved about.
**RuleLexer** makes the tokenizer from rules (an expression and a token) as
`output_fsa.hpp` does: an automaton for each rule through the stages above, their union,
subsets in which the first rule wins. It runs the lexer with it and states what the rules promise.
**MCRegularTools** is the composition that is checked: a behaviour is about the pipeline or about a lexer, the other stands still.

**TotalSSFST**: a total transducer, its function, and `composeFST` with the pair construction
(`Found`, a search that gives each pair it meets a number, and `Explore`, one step of it) and the helper that drives the
second machine. **Canonical**: `canonicalizeFST`: estimates are
seeded, the search for the shortest freezes one state a step (`Relax`), the machine is rebuilt
with the frozen values pushed towards the start, and may be composed with another.
**CompressedSSFST**: an output that ends in the letter that was read is stored as the number of its prefix with a flag
in the highest bit; what the canonical form or the composition returns may be asked for in this form (`Built`), which is then
evaluated by the `f()` that returns numbers (`Evaluated`: the pool grows), trimmed (`Trimmed`, into the same pool), compacted
(`CompactLabels`, by `Rank` and `Pack` of `PoolLayout`) and stored and loaded (`Reloaded`) in any order. What `PackValue()`
asserts is a guard (`LeavesTheFlag`): past `FlagBit` words the program ends.
**MarkerRewriting**: the rules are inserted into a minimal trie one by one (`Insert`: pop what the next rule no longer
shares, merge it, push the rest); then `Psi` and the outputs of a match are placed and each missing
transition follows the failure of its state. **TotalTransducers** is their composition: a transducer is
given or made from rules, handed over to `canonicalizeFST()`, and used as above.

### The test runner

**CommandLine**: which argument sets an option (the scan goes backwards, over empty values, `dt-` prefixed
or not), lists of filters with quotes and escapes, integers and flags, and the matcher of filters.
**Traversal**: `TraversalState`: decision points, `tryEnterSubcase`, `acquireGeneratorIndex`, `advance`.
**Reporters**: what the JUnit, XML and console reporters keep, and what each writes, call by call.
**TestRunner**: `Context::run()`; a step is one statement of a test case (`EnterSubcase`, `Generate`, `LogAssert`, `Throw`,
`Crash`, `LeaveSubcase`) or one step of `run()` (`Start`, `Skip`, `Count`, `StartTest`, `Reenter`, `EndTest`, `Report`). The history
`log` is what really happened; the properties compare everything that is reported with it.

The MC modules (`MC...`) give values to constants; `MCRegularTools` also puts the pipeline and the lexer together.

## 3. What the runs check

| run | asks | properties |
|---|---|---|
| `intern_pool` | Does interning with shared symbols survive compaction and reload? | `OneIdPerWord`: comparing ids is comparing words; `NoOrphanSymbols`: a reader that stops at the largest end of a slice has read all that was written; `ImplementsFreeMonoid`: the refinement, no step changes the word of a live handle but as an operation of the free monoid |
| `intern_scratch` | Is the scratch vector cleared at the right time? | `CountMatchesTemporaries`; `NoDanglingSlice`; `OperationsCompute`: each operation computes what its namesake computes on words, also when operands alias |
| `word_pools` | Does a number keep its word in the compaction loop, in the labels of a transducer and in the word sets? | `SharingIsKept`: the new vector is the old one without uncovered symbols; `ContentIsKept`; `OffsetIsRank`; `LabelsKeepTheirWords`; `IdsKeepTheirWords`: the word sets |
| `word_extensions` (violation) | Does an extended word mean the word and its extension? | `ExtensionsMeanWhatWasAsked` |
| `parsers` | Do tables, verdicts, error positions, trees, expressions, item sets and generated words follow from derivations and texts, and do the tools end? | `TablesAreDerivable`; `DerivationIsKept`: the productions listed for an accepted word derive it, and the tree retraces them; `RejectsOnlyMistakes`: no word is rejected, and an error comes at once; `TreeIsDerivation`: parse trees and syntax trees; `AcceptsTheExpression`: grammars of combinators; `ParsedMeansText`: `parseRegex()`; `ItemsAreValid`: Earley; `GeneratesItsLanguage`; `CallsEnd` |
| `earley_accepts` (violation) | Does Earley accept words only? | `AcceptsOnlyWords` |
| `process_pipes` | Is anything lost between processes, and when does it hang? | `StreamsAreWhole`: in both directions; `EndsOrHangs`: a run ends, or hangs for one of two named reasons |
| `regular_tools` | Does every stage of `test_regex()` keep the relation? Which tokens come out of a text, and does the lexer's loop end? | `ConstructionsAreExact`; `StagesKeepTheRelation`; `MinimalIsMinimal`; `VerdictsAreRight`: of ambiguity, functionality and bounded variation; `SubsequentialKeepsTheFunction`; `TokensTileTheText`: what is handed out, put together, is the text; `LongestMatchFirstRule`; `LexEnds` |
| `regex_berry_sethi` (violation) | Is the Berry-Sethi machine the expression? | `BerrySethiIsExact` |
| `regex_subsequential` (violation) | Is the subsequential transducer the function it was made from? | `SubsequentialIsTheFunction` |
| `total_transducers` | Does a transducer made from rules rewrite, and does its function survive canonicalization, composition, compression and storage? | `TrieHoldsTheRules`: at each insertion the trie has the rules inserted so far, and no two states that lead on alike; `MarkedTextsAreRewritten`; `CanonicalIsOnward`; `ComposedIsComposition`; `CompressedKeepsTheFunction` |
| `test_runner` | What does a test executable run, how often, and what does it report? | `RunsWhatWasAsked`: selection, order, range, queries and `abort-after`; `EveryPathOnce`; `VerdictsAreKept`; `ReportsAgree`; `RunEnds` |

Some properties are conditional, and the conditions say something about the code:

- `RejectsOnlyMistakes` and the parser's part of `CallsEnd` promise completeness and
  termination for LL(1) grammars only. That nothing outside the language
  is accepted (`DerivationIsKept`) holds for every grammar, also after the table lost a rule.
- `ParsedMeansText` is about letters without a quote or a backslash where the text is made by `print()`,
  `identity()` or `optionalReplace()`, which escape nothing; and up to the association of sums and products,
  since `toLeftAssoc()` does not go below `!`.
- `GeneratesItsLanguage` says what is returned, not that something is: the retry may go on for ever.
- `EndsOrHangs` names the two ways to hang rather than hiding them: a child whose
  output fills its pipe before the parent reads (drawFSA() waits first), and a
  child whose end of input is held back by a younger sibling. Both occur in the
  instance.
- `StagesKeepTheRelation` compares exactly up to `Expand`. `RemoveUpperEpsilon` keeps
  one output for each state it reaches without reading, so for an expression that is not
  a function pairs are lost; and it makes an initial state final for the empty
  word although that state may be entered again, so pairs can be gained. Hence
  "a function loses nothing" and "nothing is gained if no initial state can be entered
  again" (`StartsOnce`). `VerdictsAreRight` carries the same condition: `isFunctional`
  is right about the machine it gets, and never refuses an expression for outputs
  that it does not have when `StartsOnce` holds.
- In `VerdictsAreRight`, `ambiguous => Ambiguous(expression)` is one direction. The converse is false:
  `testInfiniteAmbiguity` starts at state 0 and does not search behind a transition
  that reads. A machine is refused for its variation only if two runs really drift
  apart, or if nothing is written at all (the bound is then 0 and `<` fails); and
  `subsequentializeFST` throws for nothing else. That every drift is found is false: see
  section 7.
- `SubsequentialKeepsTheFunction` asks that the initial state is not entered again or has
  nothing to write at the end (`StartOwesNothing`): f_eps is given to that state, also
  when words end there that are not empty.
- `IdsKeepTheirWords` leaves out the numbers of an `ExtendableWordSet` that are `displaced`: these really mean another
  word, which `word_extensions` shows. What it does say of them is that they are as long as the word that was asked for
  (`LengthsAreKept`): the new length is computed from the vector, and fits as long as no word is extended twice in one.
- `LongestMatchFirstRule` says for all rules what comes out: what can be read is read, then it is one token or one
  error. That an error means that nothing matches there holds for rules without gaps (`WithoutGaps`): the
  lexer does not return to a shorter token that it passed.
- `LexEnds` excludes rules with the empty word; with one, a symbol that cannot be read is never passed.
- `MarkedTextsAreRewritten` counts what is withheld for every text, and takes Psi for texts that end with
  a marker and rules that have a left half or no right one. For the others Psi is missing: see section 7.
- `ComposedIsComposition` asks that the second transducer writes nothing before its first
  letter.
- `CompressedKeepsTheFunction` and `LabelsKeepTheirWords` take the initial output to be empty once a machine was
  stored: `serialize()` leaves it out.
- `EveryPathOnce`, and what `ReportsAgree` says of the console, leave out bodies in which a generator stands behind a
  subcase of its own level (`Separate`). That all paths are run is promised only if no run throws and
  too many failures do not end it. `RunEnds` and the other two properties hold for all bodies.

## 4. Bounds

| run | instance | why it is enough |
|---|---|---|
| `intern_pool` | 2 Values, 1 Operand; words `ab`, `b`; at most 4 ids, 4 pool symbols, 2 scratch symbols | two words that share symbols, the empty word, one word dropped by compaction while another keeps part of its symbols, ids that are renumbered under a live Value |
| `intern_scratch` | 1 Value, 2 Operands; 3 ids, 2 pool symbols, 3 scratch symbols | two temporaries, one a view of the other, assigned over and destroyed in either order while the count is 1 or 2; products of a handle with itself |
| `word_pools`, the loop | 3 live ids at any slices of a vector of 4 different symbols | three words nest, touch, coincide, are empty or leave a gap in every combination; different symbols show a copy from a wrong place |
| `word_pools`, labels | 6 kinds of machine (one pool for two tapes, two pools, a pool and counts, a letter and a pool), 2 transitions, 1 state with an output; words of at most 2 letters (`MaxLength`), pools of 3 words (`MaxWords`); another machine with two labels | a pool on two tapes, a pool whose only value is an output, an id that another label keeps alive, words that are dropped and interned again; trimming keeps any subset |
| `word_pools`, sets | 4 ids (`MaxIds`), 4 symbols (`MaxSymbols`), inputs empty, `p`, `qp` | sub-words that exist and that do not, a word replaced by part of itself, a vector that is shared when one of its words grows, a word cut before it grows, a copy of one that has grown |
| `parsers`, grammars | 7 written grammars, words of at most 4 tokens and a foreign one; 3 grammars of combinators with the words they describe up to 5 tokens (`MaxDescribed`) and those one token away; `MaxProductions` is 5 rules a token | balanced words, sums, optional parts, an all-empty grammar, ambiguous, left recursive and overlapping rules; a list, sums in parentheses, statements with scopes. Five rules a token exceed what any parse of an LL(1) instance uses, or `CallsEnd` would fail; the runaway expansion of the left recursive grammar is cut there |
| `parsers`, texts | about 400 texts | every operator after every other, pairs that are complete or break off at each place, names that are empty or hold quotes, blanks and operators, text that ends inside quotes, all expressions of two levels printed |
| `parsers`, Earley and `generate` | 5 grammars, words of at most 4 tokens and a foreign one; room at most 3 (`MaxRoom`), 3 calls deep (`MaxCalls`), `SizeModulus` 8 | empty productions, hidden left recursion, ambiguity, cycles, a symbol that derives no word; room that wraps and is then larger than any word |
| `process_pipes` | 2 processes, 6 programs; text of 5, buffer of 2, pipe of 3 | text exceeds the buffer and the pipe, output fits or exceeds a pipe, a younger child inherits a descriptor. In the code these are 4096 and (Linux) 65536; only their order matters, and `PipesAssumption` keeps buffer <= pipe |
| `regular_tools`, the stages | about 1030 expressions, both constructions; inputs of at most 6 (`MaxInput`), outputs of at most 4 symbols (`MaxOutput`) | every pair of operators over pairs that read nothing, write nothing, do neither or differ in length, and eight deeper expressions for cycles met late, delayed outputs, and a drift that a longer delay hides |
| `regular_tools`, the lexer | 8 sets of rules; texts of at most 4 of four symbols, and of at most 3 before an eof; `MaxTokens` 6 | a keyword before and after identifiers, two rules of one token, gaps of one and two symbols, the empty word as a token, a newline in a token and in an error. No text gives more than 6 tokens unless the lexer stands still, which the bound cuts. `SizeModulus` is 1000 for 2^64: `position - 1` wraps at 0 only |
| `total_transducers`, rules | every pair of rules with left halves of up to 2 letters and right halves of up to 2, triples, with the marker's number above or below the letters'; minimized and not; texts of at most 6 letters after a marker (`MaxText`) | rules that are prefixes of each other, share suffixes (states are merged), overlap, have no left or no right half; a text in which a match fails inside another match |
| `total_transducers`, given | all total transducers of 2 states over 2 letters with outputs of one length difference, and of 3 states over 1 letter with three outputs that are prefixes of each other; 2 second transducers; words of at most 3 letters (`MaxRead`) | cycles of any shape through up to three states, states whose output must move over two edges, a second machine with state, with an initial output, and one that doubles |
| `total_transducers`, compressed | `FlagBit` 128 for 2^31, 2 calls (`MaxCalls`) of those that change it | each call before and after each other one; no pool comes near 128 words, as none comes near 2^31 |
| `test_runner` | 1 test case with 11 bodies and all decorators; 3 test cases with about 100 selections, each command line in 4 styles; `MaxRuns` 12 runs of a test case; `MaxUnsigned`, `MaxInt` for the limits of the types | subcases three deep and repeated by name and line, generators before, after and between them, exceptions at each level, a signal, failures up to and past `abort-after`; ranges that are empty, reversed or past the end; options given twice, empty, and under both names. `MaxRuns` is reached by none, or `RunEnds` would fail |

The references (`Languages`, `Meaning`, `Relation`) are bounded by length. In
`LL1Parser` the bound is `2 * MaxWord + 1`, at which every viable prefix of at most
`MaxWord` tokens is completed in these grammars. A relation is cut at `MaxInput` and
`MaxOutput` on both sides of every comparison.

In `RealtimeFST` the order in which transitions that read nothing leave a state is
some fixed order, its reverse everywhere, or that order changed at one state: to any order of
up to three entries (`MaxReordered`), to the reverse for more.

`SYMMETRY` is used for Values, Operands and live ids in runs that check no
liveness: the clients' variables are interchangeable in the code.

In `TestRunner` time is a choice: a test case with a timeout was over it or not. The random order is
any permutation.

## 5. Fairness and deadlock

- `GrammarTools`: `WF` of the loops of a parser (`Loops`) and of `recognize()` (`Recognising`). One thread runs a loop and
  nothing but the loop stops it. Calling a parser is up to the client and is not fair; `generate()` may
  retry for ever and has no liveness property.
- `Lexer`: `WF_vars(Next)`, for the same reason; in the composition with the pipeline, of `Lexing`, its step there.
- `TestRunner`: `WF_vars(Next)`. `main()` is one thread, and the statements of a test case are finite.
- `ProcessPipes`: weak fairness of the parent and of each child separately. The
  operating system runs every process that can run; a call that blocks is not
  enabled. No strong fairness: a blocked call stays enabled once it is.
- The pools, the regex pipeline and the total transducers are checked for
  safety and refinement only. Every stage of the pipeline is one action, and every step of the
  canonical form freezes a state, so ending is no question there.

`CHECK_DEADLOCK FALSE` is set where the program stops: a parse, a recognition or a generation is over
(`parsers`), all processes are gone or hang (`process_pipes`, where hanging is the
subject of `EndsOrHangs`), all ids are visited or a set is full (`word_pools`), the expression is judged
or refused, or a text is read (`regular_tools`), the calls are made (`total_transducers`), the run is over (`test_runner`).
The pool never stops, and its two runs check deadlock.

## 6. Proofs

Eight modules hold theorems; tlapm checks every leaf.

**PoolLayoutProofs.** Lemmas on slices, `Bytes`, `Rank` and `Pack`: `Rank` counts kept
offsets, is monotone, and does not skip inside a kept slice. `PackKeepsSlices`: a slice
that lies inside the kept offsets denotes the same word in the packed vector,
from the rank of its start.

**WordPoolsProofs, the loop.** For any vector, any set of live ids with slices inside it,
and any visiting order by offset (`WordsAssumption`, `LiveIdsAssumption`): after every
iteration the new vector is the packed one (`LoopKeepsSharing`), every visited word
reads the same symbols (`LoopKeepsContent`), the offset is the rank
(`LoopOffsets`). The invariant `LoopInv` adds to these that slices lie inside the
vector, that words to come start no earlier than any visited one nor than the run
(`VisitedInOrder`), and what the run registers mean (`RunIsLastBlock`): no kept offset is past
`runOldEnd`, the run covers every offset from its start to its end, and `runNewStart` is
the rank of its start.

**InterningMonoidProofs.** `Invariant`: `Spec => []IInv` with
`IInv = PoolInv /\ ScratchInv /\ OperandsFit /\ ValuesExist`, where

- `PoolInv`: the pool's types, slices inside `words`, ids = hash set, no two ids with the same
  word, id 0 is the empty word, every symbol covered;
- `ScratchInv`: the count is the number of live temporaries, and zero means empty;
- `OperandsFit`: each live Operand lies inside the vector it points into;
- `ValuesExist`: each Value is an existing id.

`OneIdPerWord` alone is not inductive: `addUniqueInfix` gives an id to a slice whose
word is new only if the slice lies inside the pool, which is `OperandsFit`; and
clearing the scratch vector keeps `OperandsFit` only if the count is exact. The proof
has one step for each operation; `Compact` is the longest and rests on
`PackKeepsSlices` and on `NthProperties`: renumbering the live ids in their order loses none.
From `IInv` follow `TypeCorrect` (`TypeOK`), `CountIsExact`
(`CountMatchesTemporaries`), `SlicesStayInside` (`NoDanglingSlice`), `IdsAreWords`
(`OneIdPerWord`) and `SerializedExactly` (`NoOrphanSymbols`).

Assumptions: `InputsAssumption` (inputs are words over the alphabet),
`HandlesAssumption` (finitely many handles, of two kinds; `NoOperand` is not an
Operand) and `BoundsAssumption` (bounds are naturals and there is room for one id). The proofs hold for
every value of the bounds, so for 2^32 - 1 too.

On the same invariant rests the refinement. `Implements` (`Spec => ImplementsFreeMonoid`): a pool whose handles
are read through `Word` behaves as `FreeMonoid`. Every operation has a lemma that says which words its handles have
afterwards (`AddUniqueComputes`, `MulComputes`, `InvMulComputes`, ...), and that the others keep theirs; those that write into
the scratch vector need that it only grows while an Operand lies in it, those that release the last temporary that no
live Operand does, `Compact` that a kept slice reads the same through `Rank`. `EachOperationComputes`
(`OperationsCompute`) follows from the same lemmas: it says which operation of the abstract specification
a step is, where the refinement only asks for some.

**WordPoolsProofs, the word sets.** `SetsInvariant` and `NumbersKeepTheirWords` (`IdsKeepTheirWords`),
for any alphabet and any size of a set.
For `WordSet` and `UniqueWordSet` the invariant has that each slice lies in the vector and is the word of its number
(`SlicesHold`), and for the second that the map has a node for each number in the bucket of its word
and no word two numbers (`NodesHold`); nodes of no use may stay, as the one of the empty word does after a
`Reload`. For `ExtendableWordSet` (`VectorsHold`) it has three parts. A number that is not `displaced` reads its word; since
`extendWord()` moves all symbols of a vector, the proof needs that numbers that share a vector are all displaced.
Every number is as long as its word; for the length `data[base].size() - start` of the new number that needs
that a word that can be extended ends its vector, and that no other word of the vector can be extended. Nothing is
proved of what a displaced number reads: it is not the word that was asked for.
The one assumption is that a client's words are over the alphabet (`InputsAssumption`).

**WordPoolsProofs, the labels.** `LabelsInvariant` and `LabelsKeepWords` (`LabelsKeepTheirWords`), for every type of transducer with any
number of transitions, states and words. The invariant: the monoids of a machine are those of its type, with pools in
which the empty word is the first and no word comes twice (`Monoids`); every value of a transition and of an output is one
its monoid holds (`HoldsValue`), and what the client meant is what the machine denotes now. That words are unique is what
makes the list f_eps say the same in numbers as in words, so that `addFEps()` may compare numbers. The argument
has two halves. Operations only add words at the end of a pool (`Grows`), the other tape's operation included when both share it
(`BothTapesGive`), so no value that is there changes its word. A compaction renumbers, so each value needs to be in the ranges
of its pool; `Ranges` of a pool that two tapes share has the values of both, and the new number has the old word (`PackedGives`).
Trimming drops labels first, so it compacts with less. For `ReloadMachine`, the one machine that is stored has one pool, so there is one
order to read it in. Assumptions: `TextsAssumption` (words are over the letters) and `ValuesAssumption` (the neutral letter is not a
letter, and the sign for "no value" is neither a number nor a word).

**WordPoolsProofs, the composition.** `ClientsKeepTheirWords`: the specification that `word_pools` checks keeps all five
of its properties. A step of one client leaves the variables of the others (`StepOfOne`), and a client that stands still is in a
state its invariant holds in (`LoopIdleHolds`, `LabelsIdleHolds`).

**LL1ParserProofs.** `Invariant` and `KeepsTheDerivation` (`DerivationIsKept`), for any set of grammars whose
rules use known symbols (`GrammarsAssumption`) and words of any length, whether or not a grammar is LL(1). The specification is `ParserSpec`,
a Parser by itself; the runs have the same actions in `GrammarTools`, where other tools stand beside it. The invariant has four parts.
`BuildInv`: each transition is the start, reads a terminal, matches one that is on the stack, or stands for a rule of the
nonterminal on top (`IsTransition`). Which lookaheads it is under does not matter: acceptance is sound whatever `first`, `follow` and conflicts
made of the table. `RunInv`: the productions used are a leftmost derivation, and what it has derived are
the tokens matched and the stack, where in state `f(l)` the last token read is not matched yet; `DerivesOneMore` is the step that expands.
`TreeInv`: the tokens placed and what the open frames have yet to go through are the form that the productions taken so far have derived
(`Grown`), which is what makes `productions[nextProduction]` the right one at each nonterminal. It says
why `makeParseTree` may tell a terminal from a nonterminal by comparing the next symbol with the next token: the forms of a derivation never lose a prefix of
terminals (`ReadStays`), so a terminal is the next token of the word (`TerminalIsNext`), and a nonterminal is expanded by
the next production (`NonterminalIsExpanded`). That terminals are not nonterminals is what the constructor throws for otherwise.

**ProcessPipesProofs.** `Invariant` and `StreamsWhole` (`StreamsAreWhole`), for any set of Process objects, any programs of
the children, any length of the text and any sizes with buffer <= pipe (`PipesAssumption`). Of every child it holds at
every moment that what it read, what is in the pipe and what is in the parent's buffer are, in this order, what was printed
(`InputCarried`), and that what the parent read and what is in the pipe are, in order, the calls that wrote
to that stream (`OutputCarried`, by `IsTrace`). To keep this when a child sees the end of its input the
proof needs what the parent's statement tells of the child (`StageTells`): nobody holds a write end while text is
left unless the program is gone, and a stage that reads a stream to the end leaves its pipe empty. `AtomicWrites`: the buffer never
has more than `BufferSize`, without which a write could be partial and `sync()` would drop the rest.

**CompressedSSFSTProofs, the canonical form.** `Invariant` and `CanonicalForm` (`CanonicalIsOnward`), for any total transducers
(`FirstsAssumption`: every state has a transition for every letter and an output) and words of any length. The first half is
about the search for the push values. `Estimates(t, est, frozen)`: each estimate is a prefix of
all that can be written from its state by one step and Psi; a frozen estimate is no longer than one that is not;
along a transition that leaves or enters a frozen state the estimate is a prefix of the output and the
next estimate; and what is a common prefix of all of these is one of the estimate. The step that matters
(`RelaxKeepsEstimates`): a frozen state is not looked at again when its other successors are
refined later. This is sound because all estimates that meet at a state are prefixes of one word, so the one
that is frozen, being the shortest, is a prefix of whatever the others become. The second half is about
the transducer that is built: `PushedIsCanonical` (greatest common prefixes have been taken off, so nothing is left in common) and
`PushedComputes`: after each letter the result is ahead of the given transducer by the push value of the state (`Ahead`).
The function `Read` is defined by recursion on the word; `RunExists` and `Counting`, an induction
by the largest counterexample (`LargestMember`), make it something to prove about without an induction theorem.

**CompressedSSFSTProofs, composition.** `CompositionIsRight` (`ComposedIsComposition`), for any first transducers, and any
second ones that have a transition for all the first can write (`SecondsAssumption`; `composeFST` is free of it only where it drops
transitions, and then the result is not total). It rests on the search: `FoundIsClosed` says that as many steps as there are pairs are
enough, because no pair is found twice (`Searched`) and a list without repetition is no longer than the set it is drawn from, so
each pair that was found had its turn and all its successors are found. Then each state of the result is a pair (`IsOrder`,
`NumberIs`), and by induction on the letters read (`StaysAlong`) it is the pair of the state of the first
transducer and the state of the second after the initial output and all the first has written; what the result has written, behind
the initial output, is what the second has written. `ReadConcat` (a word is read as its two parts are) is what lets the
second stop and go on between two outputs. `PushedWritesOver` keeps the canonical form within the letters of the second.

**CompressedSSFSTProofs, the compressed form.** `CompressedIsRight` (`CompressedKeepsTheFunction`), for any flag bit
(`FlagBitAssumption`: it is not 0) and any words that are asked for (`AskedAssumption`: over the letters of the transducer).
The invariant `CompressedInv`: the transducer a compressed one stands for (`Expanded`) writes after its beginning what the result
writes, on every word, and has its beginning or, once stored, none (`Represents`); and the table is in order (`Fits`):
each number without its flag is that of a word in the pool and below the flag, each target is a state, number 0 is the empty word.
Each call has a lemma. `BuiltExpands`: building and expanding give the transducer back, as a word that
ends in the letter is its front and the letter (`StoredIs`), all words are in the pool when their numbers are taken
(`SuppliesAll`), and the flag goes on and off (`FlagIs`). `CompactedIs`: a number's rank among the live ones is no greater
than the number (`RankBelow`), so it still leaves the flag free, and stands for the same word. `MaterializedIs`: a pool that grows keeps its words.
`TrimKeeps`: the reachable states are closed, and the part that is kept runs besides the whole
(`Besides`). `ReloadedRepresents`: only the initial output is lost, and that because 0 is the identity.
`CompressedUsesCanonical` says that what was proved of `Spec` holds of `CompressedSpec`.

**LexerProofs.** `LexerInvariant`: `Spec => []LexInv`, for any deterministic tokenizer, any texts over
any alphabet and any width of a position. From it follow `TokensTile`
(`TokensTileTheText`) and `LexerTypes` (`TypeOK`). `TokensTileTheText` says nothing between two
tokens, so `LexInv` adds where the next token begins (`TokenBegins`), that the buffer is what was read
since then or, after an error, its last symbol (`BufferHolds`), that the cursor and the
number of lines agree with the position (`CursorFits`), and that a loop that ends has read
everything (`EndIsEnd`). Each action has a lemma; `NextTile` shows that what `operator*`
hands out is the next tile. Of `LexerAssumption` the proofs use that texts are sequences over
`Symbols` and that `SizeModulus` is not 0.

**TestRunnerProofs.** `VerdictsKept`: `Spec => []VerdictsAreKept`, for any executables, bodies, decorators and command lines,
also when a signal ends the program. The runner adds up as it goes, in `current` over the runs of a test case and in `stats` over
the test cases, while the property reads the whole log at the end. So the invariant `VerdictInv` has
both halves: the statistics are those of the test cases that have been judged (`StatsOf`, of all but the one that runs), and of the one that
runs the counts are those of its runs, and a flag is set exactly when one of them ended by an exception (`OpenEntry`: this is what a runner that sets its flags
instead of adding to them breaks). The sums of the property are recursive functions of sequences; `TotalGrows` and `CountsGrow` say how they
grow, and `SameCounts` that a verdict depends on no later test case, though `abort-after` makes it depend on all earlier ones.
`VerdictIs` is about `finalizeTestCaseData()`: with the flags of a test case, what it decides is what the decorators mean,
in every combination of `should_fail`, `may_fail`, `expected_failures` and a timeout. `TestJudged` puts these together for the two
ways a test case ends, `EndTest` and `Crash`. Two more parts are needed on the way. The handler of a signal closes
as many subcases as are open before it reports, so `Course` ties the traversal's count to the open bodies; and the summary is the
last call the console hears, whatever came before (`ConsoleTold`, `NotifiedSums`). `InvocationsAssumption` is what is assumed: of the options the
verdict depends on, the parsed ones are those `asked` names. TLC evaluates it for the command lines of the run. It is what ties `asked`,
which is a description and no part of the code, to a command line; that all other options are read as they were meant is left to `RunsWhatWasAsked`.

**Only model-checked.** Everything about tables and completeness of the LL(1) parser, the nodes of its trees, the other uses of grammars, regular expressions and their machines,
marker rewriting, what a test executable runs and what JUnit and XML reports of it hold, and what the lexer promises of its rules; all liveness (`LexEnds`, `EndsOrHangs`, `CallsEnd`,
`RunEnds`): liveness
under fairness and ENABLED are beyond this prover. So are the library's theorems for induction over data:
derivations, expressions and fixpoints are RECURSIVE operators here, and no theorem can be
stated in a module that reaches one; the paths through a test case are a recursive function over the places in a body, and
what it gives for every body would need such an induction. What is proved
of total transducers is proved of `CompressedSpec`, for transducers that are given (`FirstsAssumption`); that those made from
rules are total is checked by the run only. The pools of `MachineLabels` and
`CompressedSSFST` are sequences of words; that the real pool behaves as one is what `IdsAreWords` and `Implements` say.

## 7. Where the code and its words disagree

Three of them have a run that fails as told.

1. `EarleyParser::recognize()` accepts a word if any complete item of the start symbol is
   in the last set, also one that started inside the word: with S -> aSb | eps it
   accepts `a` (`earley_accepts`).
2. `BS_UnionFSA` gives state 0 of its right operand to another state when it is final, so
   `<a,x> + <b,y>*` does not accept the empty word (`regex_berry_sethi`).
3. `subsequentializeFST` gives f_eps to its initial state (`include/ssft.hpp:254`), which minimization may have
   merged with a state inside a cycle: for `<a,x>! + <'',x>` (`!` is one or more) the word
   `a` gives `xx` and not `x` (`regex_subsequential`).

The others were met while modelling; the models behave as the code does.

*The library.*

4. `serialize()` asserts `temporaryCount == 0` "while a mul()/invMul() result
   (TemporaryId/InfixId) is still outstanding" (`include/interning_monoid.hpp:397-399`). An
   `invMul()` result that is a slice of the pool is not counted, so the assertion passes.
5. The Parser "Throws if grammar is not LL(1)" (`include/parser.hpp:139`). It does not: a
   conflict is logged and the first rule stays.
6. `removeUpperEpsilonFST` (`include/realtime.hpp:129`) makes an initial state final for
   the empty word although it may be entered again; Thompson's machine of
   `<a,x>*.<'',x>` then also accepts the pair `(a,x)`. It is the condition `StartsOnce`.
7. `testBoundedVariation` passes over a pair met with a shorter delay than before
   (`include/functionality.hpp:306`), so a drift hidden behind a longer constant delay is
   not found, and `subsequentializeFST` throws for a machine said to have bounded variation. It
   refuses a machine that writes nothing.
8. The end of a token is documented as exclusive (`include/lex_traverser.hpp:183`) but is
   `max(from, position - 1)`; a client that takes it as a range loses the last character.
   At position 0 the subtraction wraps.
9. `composeFST` puts the initial output of the second transducer in front each time it is
   driven (`include/compose.hpp:72`), not once.
10. Marker rewriting is for all rules `_α_β_ -> _αβ_` (`include/replace_marker_ssft.hpp:27`). A text that ends inside a
    right half, or in one whose rule has an empty α, loses the letters that were withheld: Psi is set for i > 1 only, and
    only behind the inner marker (line 345). Texts end with a marker in the uses there are.
11. `TotalSSFST::serialize()` (`include/total_ssft.hpp:181`) and the compressed one do not write the initial output.
12. `SharedCartesianMonoid` reads its pools as arguments of one call (`include/cartesian_monoid.hpp:162`), in no fixed order, and
    writes them in a fixed one. Only machines with one pool are stored.
13. `ExtendableWordSet::extendWord()` inserts the extension at the front of the vector (`include/wordset.hpp:353`), where the word
    itself begins, so the new number reads the extension first; the comment (line 356) says that only the length is new, and
    the copying branch appends it (`word_extensions`). The old number reads other symbols from then on. `clear()` of a `UniqueWordSet` does not put the empty word
    back that its constructor put there.
14. `optionalReplace()` with its default Alphabet makes a text that does not parse: there is a backslash in it
    (`include/regex_parser.hpp:325,337`), and `print()` escapes neither quotes nor backslashes. `null` prints as an empty
    name. `toLeftAssoc()` does not go below `!`.
15. `CFG::generate()` divides by zero for a nullable nonterminal with one rule (`include/cfg.hpp:391`), and its room wraps
    when more terminals were put down than it had (line 399).
16. `Epsilon` of the grammar factory gives `false` where a symbol is expected (`include/grammar_factory.hpp:43`): the rule is
    renamed to symbol 0. Nothing uses it.
17. In `trimFSA` the count that would return the machine as it is, is never increased (`include/trim.hpp:131,137`).

*The test runner.* It is vendored; the models follow it.

18. An exception in a subcase hides the siblings behind it, also those that an earlier run has met.
19. A generator behind a subcase of its own level shares the decision point of that subcase. A run may then enter two
    siblings, values are passed over, and the console heads both with the name of the first.
20. An integer option that is 0 counts as not given (`doctest.h:5616`), so `-scfl=0` filters at all levels; a range that
    ends before it begins has no end (line 6010).
21. `expected_failures` with the exact number of failed assertions passes a test case that also threw; with
    `may_fail` and no failure at all it fails one.
22. JUnit counts failing `WARN`s as failures, and reports an exception that leaves a subcase twice.
23. An option without `dt-` wins over a later one with it.

## 8. What is not modelled

- The rest of `doctest.h`: registration, the decomposition and printing of expressions, INFO and MESSAGE, strings,
  options that change only what is printed, the debugger, Windows, and the use inside a main() of one's own.
- `packInputOnly()` and `loadPackedInputOnly()` of `SparseSSFST`, and its use as an argument of `OutputFSA`: no program
  can instantiate them. `StupidUnionFSA` and `Epsilon`, which nothing uses.
- `canonicalizeFST` and `composeFST` for types other than total transducers: only these offer the
  list of transitions of a state.
- Negative numbers as options of a test executable, which `parseArgs()` makes unsigned; no command line of the runs has one.
- Skippers of the lexer, which no program attaches.
- Infixes held across `compact()`: nothing counts or checks them. The modelled client holds
  none, like the callers in the repository.
- Failing `pipe()` and `fork()`, leaked descriptors, moving a Process.
- Hash functions, formatting, wording of messages, printing, timing, debug macros, the numbering of tokens and letters:
  nothing in the state of the system. Tests are clients; what they
  expect is quoted where a property states it. The random expressions of the benchmarks.
- Machine-word overflow of the pools: lengths and ids are 32 bits wide and the code does not check
  for 2^32 words; the bounds of `InterningMonoid` are guards of the model.

## 9. Plan

Done, in this order: the pool, its loop and their proofs; LL(1); Earley; processes; the regex
pipeline up to the subsequential transducer; tokenizers and the lexer, with the proof that its tokens tile
the text; canonical form and composition; total and compressed transducers and marker rewriting; the grammar factory,
`parseRegex()` and `generate()`; labels and word sets; the test runner.

Then proofs: the refinement of `FreeMonoid`, the word sets, the streams of `ProcessPipes`, the canonical form,
the LL(1) parser's derivation, the labels of a transducer, the composition of what uses numbered words, the composition of
transducers and their compressed form, the verdicts of the test runner.

Next, proofs:

1. `MarkerRewriting`: what the rules are made into is total, so that the theorems above hold of it too; then `TrieHoldsTheRules`,
   for which its recursive definitions have to become functions first.
2. `Traversal`: a path that was taken is not chosen again, in the order on decisions that `advance()` follows.

Composition that is left: the lexer feeds `parseRegex()`, whose tokenizer is modelled there by what it does, and the
expressions `parseRegex()` returns are the constants of `RegexPipeline`.
