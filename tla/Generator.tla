------------------------------- MODULE Generator -------------------------------
(***************************************************************************)
(* CFG::generate() (include/cfg.hpp): a random word of a grammar, put      *)
(* together by a recursive descent that gives up when its room is used up  *)
(* and starts again.  A step is one call, one return or one symbol.        *)
(***************************************************************************)
EXTENDS ContextFree, SequencesExt

CONSTANTS
    Grammars,
    MaxWord,        \* bound on the words that are looked at
    MaxRoom,        \* bound on max
    MaxCalls,       \* bound on the depth of the recursion
    SizeModulus,    \* of std::size_t, in which the room is counted
    Generated       \* for each grammar, what Languages(g, MaxWord) is

VARIABLES
    grammar,
    min, max,       \* the arguments of generate()
    skipped,        \* per nonterminal, the set of its last rule in the hash multimap
    calls,          \* the calls that have not returned, the innermost one last
    generated,      \* what generate() returns
    outcome         \* "none", "generated" or "divided by zero"

vars == <<grammar, min, max, skipped, calls, generated, outcome>>

RulesOf(A) == {r \in grammar.rules : r.lhs = A}

\* findNullables(), which LL1Parser models pass by pass.
RECURSIVE Nullables(_, _)
Nullables(rules, known) ==
    LET more == known \cup {r.lhs : r \in {r \in rules : NullableWord(r.prod.rhs, known)}}
    IN  IF more = known THEN known ELSE Nullables(rules, more)
IsNullable(A) == A \in Nullables(grammar.rules, {})

\* A call that has chosen its rule: the symbols of the rule that are left, the
\* word so far, and the room it was given.
Running(room, rest, result) == [room |-> room, rest |-> rest, result |-> result]
Inner == Last(calls)

Init ==
    /\ grammar \in Grammars
    /\ min \in 0 .. MaxWord /\ max \in 0 .. MaxRoom
    /\ skipped \in {f \in [grammar.nonTerminals -> {{}} \cup {{r} : r \in grammar.rules}] :
          \A A \in grammar.nonTerminals : f[A] \subseteq RulesOf(A) /\ (RulesOf(A) # {} => f[A] # {})}
    /\ calls = <<>> /\ generated = <<>> /\ outcome = "none"

\* The rules a call can choose: all of them, or all but one for a nullable
\* nonterminal, which leaves out the last and not the empty one.
ToChoose(A) == IF IsNullable(A) THEN RulesOf(A) \ skipped[A] ELSE RulesOf(A)

\* The call returns a word to the one below it, or to generate(), which tries
\* again if the word is too short.
Returned(below, word) ==
    IF below # <<>>
    THEN /\ calls' = [below EXCEPT ![Len(below)].result = @ \o word, ![Len(below)].rest = Tail(@)]
         /\ UNCHANGED <<generated, outcome>>
    ELSE /\ calls' = <<>>
         /\ generated' = IF Len(word) < min THEN <<>> ELSE word
         /\ outcome' = IF Len(word) < min THEN "none" ELSE "generated"

\* No room: this call fails, and all those below it; generate() tries again.
GiveUp(room) ==
    /\ room = 0
    /\ calls' = <<>>
    /\ UNCHANGED <<generated, outcome>>

\* A nullable nonterminal gives the empty word every other time.
Nothing(A, room, below) == room # 0 /\ IsNullable(A) /\ Returned(below, <<>>)

\* No rule is left to choose from, and rand() is divided by their number.
DivideByZero(A, room) ==
    /\ room # 0
    /\ ToChoose(A) = {}
    /\ outcome' = "divided by zero"
    /\ UNCHANGED <<calls, generated>>

Choose(A, room, below) ==
    /\ room # 0
    /\ Len(below) < MaxCalls
    /\ \E r \in ToChoose(A) : calls' = Append(below, Running(room, r.prod.rhs, <<>>))
    /\ UNCHANGED <<generated, outcome>>

\* generate(max, A, nullables), called with `below' on the stack.
Call(A, room, below) == GiveUp(room) \/ Nothing(A, room, below) \/ DivideByZero(A, room) \/ Choose(A, room, below)

Start == calls = <<>> /\ Call(grammar.start, max, <<>>)

\* max - result.size(), which wraps round once more terminals were put down than
\* there was room for.
RoomLeft == (Inner.room - Len(Inner.result)) % SizeModulus

\* A mistake it could make: a call that fails counts as one with no word.
DescendAnyway ==
    /\ calls # <<>> /\ Inner.rest # <<>> /\ Inner.rest[1] \in grammar.nonTerminals
    /\ IF RoomLeft = 0 THEN Returned(calls, <<>>) ELSE Call(Inner.rest[1], RoomLeft, calls)

Descend ==
    /\ calls # <<>> /\ Inner.rest # <<>> /\ Inner.rest[1] \in grammar.nonTerminals
    /\ Call(Inner.rest[1], RoomLeft, calls)

PutDown ==
    /\ calls # <<>> /\ Inner.rest # <<>> /\ Inner.rest[1] \notin grammar.nonTerminals
    /\ Len(Inner.result) < MaxWord
    /\ calls' = [calls EXCEPT ![Len(calls)].result = Append(@, Inner.rest[1]), ![Len(calls)].rest = Tail(@)]
    /\ UNCHANGED <<generated, outcome>>

Return == calls # <<>> /\ Inner.rest = <<>> /\ Returned(Front(calls), Inner.result)

Next ==
    /\ outcome = "none"
    /\ Start \/ Descend \/ PutDown \/ Return
    /\ UNCHANGED <<grammar, min, max, skipped>>
--------------------------------------------------------------------------------
\* What is generated is a word of the grammar and not shorter than asked for,
\* however often the descent had to be given up.  Only what is longer than the
\* bound of the reference is not looked at.
GeneratesItsLanguage ==
    outcome = "generated" /\ Len(generated) <= MaxWord =>
        generated \in Generated[grammar][grammar.start] /\ Len(generated) >= min
================================================================================
