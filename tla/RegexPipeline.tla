----------------------------- MODULE RegexPipeline -----------------------------
(***************************************************************************)
(* The road from a regular expression to a subsequential transducer, as    *)
(* test_regex() of regex2.cpp drives it: build, trim, ask for infinite     *)
(* ambiguity, make real-time (include/trim.hpp, include/realtime.hpp),     *)
(* determinize and minimize by labels (include/expanded_fst.hpp), ask for  *)
(* functionality and bounded variation (include/functionality.hpp),        *)
(* subsequentialize (include/ssft.hpp).                                    *)
(*                                                                         *)
(* Each stage is one action.  Everything a stage does with the order of a  *)
(* hash table is a choice of that order.                                   *)
(***************************************************************************)
EXTENDS Subsequential

CONSTANTS
    Regexes         \* the expressions given to parseRegex()

VARIABLES
    expression,     \* what was asked for
    construction,   \* which of the two constructions was used
    built,          \* the relation of the machine it built
    function,       \* the relation of the machine that was judged
    stage,          \* what was done last
    machine,        \* the machine
    ambiguous,      \* what testInfiniteAmbiguity() said
    functional      \* what isFunctional() said

pipelineVars == <<expression, construction, built, function, stage, machine, ambiguous, functional>>

PipelineInit ==
    /\ expression \in Regexes
    /\ construction \in {"Berry-Sethi", "Thompson"}
    /\ stage = "parsed"
    /\ machine = Numbered(0, {}, {}, {})
    /\ built = {} /\ function = {}
    /\ ambiguous = FALSE /\ functional = FALSE

\* The stage after from gives the machine new.
Becomes(from, to, new) ==
    /\ stage = from
    /\ stage' = to
    /\ machine' = new
    /\ UNCHANGED <<expression, construction, built, function, ambiguous, functional>>

Build ==
    /\ stage = "parsed"
    /\ machine' =
          IF construction = "Thompson" THEN MakeFSA_Thompson(expression) ELSE MakeFSA_BerriSethi(expression)
    /\ built' = Relation(machine')
    /\ stage' = "built"
    /\ UNCHANGED <<expression, construction, function, ambiguous, functional>>
--------------------------------------------------------------------------------
(* The stages that turn one machine into another.                            *)

Trim == Becomes("built", "trimmed", TrimFSA(machine))
TrimAgain == Becomes("unambiguous", "trimmed again", TrimFSA(machine))
RemoveEpsilon == Becomes("trimmed again", "without silent", WithoutSilent(machine))
Expand == Becomes("without silent", "expanded", Expanded(machine))
RemoveUpperEpsilon ==
    \E order \in Orders(machine) : \E new \in WithoutUpper(machine, order) : Becomes("expanded", "realtime", new)
TrimRealtime == Becomes("realtime", "trimmed realtime", TrimFSA(machine))
Determinize == Becomes("trimmed realtime", "deterministic", PseudoDeterminize(machine))
Minimize == Becomes("deterministic", "minimal", Crochemore(machine))
--------------------------------------------------------------------------------
(* testInfiniteAmbiguity: cycles of transitions that read nothing, found by  *)
(* Tarjan's algorithm from state 0.                                          *)

SilentCycles(x) == Edges({t \in x.trans : SilentAbove(t)})

\* scc[i] = scc[k]: each reaches the other, and the search has seen them.
SameComponent(x, i, k) ==
    LET edges == SilentCycles(x)
    IN  /\ i \in Reach(edges, {0})
        /\ i \in Reach(edges, {k}) /\ k \in Reach(edges, {i})

InfinitelyAmbiguous(x) ==
    \E t \in x.trans :
        /\ SilentAbove(t) /\ t.out # <<>>
        /\ t.from = t.to \/ SameComponent(x, t.from, t.to)

\* regex2.cpp goes no further with an ambiguous machine.
TestAmbiguity ==
    /\ stage = "trimmed"
    /\ ambiguous' = InfinitelyAmbiguous(machine)
    /\ stage' = IF ambiguous' THEN "refused" ELSE "unambiguous"
    /\ UNCHANGED <<expression, construction, built, function, machine, functional>>
--------------------------------------------------------------------------------
(* isFunctional: pairs of states reached by one input, with what one of the  *)
(* two outputs is ahead of the other.                                        *)

\* Pairs that can still end together.
CoFinal(x) ==
    Reach({<<<<p[1].to, p[2].to>>, <<p[1].from, p[2].from>>>> :
              p \in {p \in x.trans \X x.trans : p[1].in = p[2].in}}, x.finals \X x.finals)

\* A mistake it could make: two outputs of one length are taken for equal.
FitsByLength(x, adm, a) ==
    /\ a.delay[1] = <<>> \/ a.delay[2] = <<>> \/ Len(a.delay[1]) = Len(a.delay[2])
    /\ \A b \in adm : b.at = a.at => Len(b.delay[1]) = Len(a.delay[1]) /\ Len(b.delay[2]) = Len(a.delay[2])

\* One output is a prefix of the other, they are equal at an end, and they are
\* as far apart as when the pair was met before.
Fits(x, adm, a) ==
    /\ a.delay[1] = <<>> \/ a.delay[2] = <<>>
    /\ a.at[1] \in x.finals /\ a.at[2] \in x.finals => a.delay = None
    /\ \A b \in adm : b.at = a.at => b.delay = a.delay

RECURSIVE Admissible(_, _, _, _)
Admissible(x, coFinal, adm, newest) ==
    LET fresh == UNION {Follows(x, coFinal, a) : a \in newest} \ adm
    IN  \/ fresh = {}
        \/ /\ \A a \in fresh : Fits(x, adm \cup fresh, a)
           /\ Admissible(x, coFinal, adm \cup fresh, fresh)

IsFunctional(x) ==
    /\ Cardinality(x.feps) <= 1
    /\ Admissible(x, CoFinal(x), Starts(x), Starts(x))

TestFunctionality ==
    /\ stage = "minimal"
    /\ functional' = IsFunctional(machine)
    /\ stage' = "judged"
    /\ UNCHANGED <<expression, construction, built, function, machine, ambiguous>>
--------------------------------------------------------------------------------
(* A function of bounded variation is made subsequential.                    *)

TestBoundedVariation ==
    /\ stage = "judged" /\ functional
    /\ \E back \in BOOLEAN :
          stage' = IF BoundedVariation(machine, back) THEN "bounded" ELSE "unbounded"
    /\ function' = RealtimeRelation(machine)
    /\ UNCHANGED <<expression, construction, built, machine, ambiguous, functional>>

Subsequentialize ==
    /\ stage = "bounded"
    /\ LET big == BigStates(machine, {Initial(machine)}, {Initial(machine)})
       IN  IF Throws(machine, big) THEN stage' = "threw" /\ machine' = machine
           ELSE stage' = "subsequential" /\ machine' = SubsequentializeFST(machine, big)
    /\ UNCHANGED <<expression, construction, built, function, ambiguous, functional>>
--------------------------------------------------------------------------------
PipelineNext ==
    \/ Build \/ Trim \/ TestAmbiguity
    \/ TrimAgain \/ RemoveEpsilon \/ Expand \/ RemoveUpperEpsilon \/ TrimRealtime
    \/ Determinize \/ Minimize \/ TestFunctionality
    \/ TestBoundedVariation \/ Subsequentialize

PipelineSpec == PipelineInit /\ [][PipelineNext]_pipelineVars
--------------------------------------------------------------------------------
(* Properties.                                                               *)

Realtime == {"realtime", "trimmed realtime", "deterministic", "minimal", "judged",
             "bounded", "unbounded", "threw"}

\* The machine has the relation of the expression: Thompson's always, and the
\* Berry-Sethi one when no union has an empty right side.  Even then it has no
\* pair too many.
ConstructionsAreExact ==
    stage = "built" =>
        /\ Relation(machine) \subseteq Meaning(expression)
        /\ construction = "Thompson" \/ ~EmptyOnTheRight(expression) => Relation(machine) = Meaning(expression)

\* "Berry-Sethi constructions": the machine has the relation of the expression.
BerrySethiIsExact ==
    stage = "built" /\ construction = "Berry-Sethi" => Relation(machine) = Meaning(expression)

\* The machine starts in one state that nothing enters, up to the real-time one.
StartsOnce == construction = "Berry-Sethi" /\ ~HasSilentPair(expression)

\* No stage changes the relation until the transitions that read nothing go.
\* Then a function loses nothing, and nothing is gained if no initial state can
\* be entered again: one that is made final for the empty word is final for all.
StagesKeepTheRelation ==
    /\ stage \notin Realtime \cup {"parsed", "subsequential"} => Relation(machine) = built
    /\ stage \in Realtime =>
           /\ Functional(built) => built \subseteq RealtimeRelation(machine)
           /\ StartsOnce => RealtimeRelation(machine) \subseteq built

\* Crochemore's refinement and the double reversal leave as many states, and
\* no state has two transitions with one label.
MinimalIsMinimal ==
    stage = "minimal" =>
        /\ \A t, u \in machine.trans : t.from = u.from /\ Label(t) = Label(u) => t.to = u.to
        /\ Size(machine) = Size(PseudoMinimizeFST_slow(machine))

\* What is refused for infinite ambiguity has it.  isFunctional() is right of the
\* machine it is given; the expression may lose its second answers before that,
\* but it is not refused for answers it has not got.  testBoundedVariation()
\* refuses a machine only if two runs drift apart for ever, or if nothing is
\* written at all: it asks for a delay below C * N * N, which is 0 then.  Some
\* that drift pass, when a longer delay that does not grow hides the one that
\* does; subsequentializeFST() throws for nothing else.
VerdictsAreRight ==
    /\ ambiguous => Ambiguous(expression)
    /\ stage = "judged" =>
           /\ functional = Functional(RealtimeRelation(machine))
           /\ StartsOnce /\ Functional(Meaning(expression)) => functional
    /\ stage = "unbounded" => ~Twinned(machine) \/ MaxDelay(machine) = 0
    /\ stage = "threw" => ~Twinned(machine)

\* Once the initial state is entered again, its output stands for the empty word
\* and for the words that lead back to it.
StartOwesNothing(y) == \A q \in y.firsts :
    \/ \A t \in y.trans : t.to # q
    \/ q \in y.finals => y.psi[q] = <<>>

\* The subsequential transducer computes the function it was made from, if its
\* initial state has one output to give.
SubsequentialKeepsTheFunction ==
    stage = "subsequential" /\ StartOwesNothing(machine) => SubsequentialRelation(machine) = function

\* "Subsequentialization of a real-time FST" (include/ssft.hpp): the function is
\* kept, at least for what the demo does with an expression that StartsOnce.
SubsequentialIsTheFunction ==
    stage = "subsequential" /\ StartsOnce => SubsequentialRelation(machine) = function
================================================================================
