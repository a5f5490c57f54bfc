-------------------------------- MODULE Earley ---------------------------------
(***************************************************************************)
(* EarleyParser::recognize() (include/earley.hpp): the item sets R'[i] and *)
(* R[i] of a word, each closed by C() before the next symbol is scanned.   *)
(* A step is one half of an iteration of C(), one scan or the last test.   *)
(***************************************************************************)
EXTENDS ContextFree, SequencesExt

CONSTANTS
    Grammars,   \* the grammars parsed with
    MaxWord,    \* length of the words
    Foreign,    \* tokens that are no symbols of the grammar
    Generated   \* for each grammar, what Languages(g, MaxWord) is

VARIABLES
    grammar,
    expectEof,  \* expect_eof: the last symbol of the word is not read
    word,
    i,          \* how many symbols are scanned
    Rp,         \* R'[i], which C() closes in place
    R,          \* the closed sets R[0 .. i - 1], as a sequence
    half,       \* what comes next: "first", "second", "scan" or "done"
    added,      \* C() inserted an item in this iteration
    verdict     \* what recognize() returns

vars == <<grammar, expectEof, word, i, Rp, R, half, added, verdict>>

\* A DottedRule; the rule stands for the pointer to its right side.
Item(r, dotPos, j) == [rule |-> r, dotPos |-> dotPos, j |-> j]

Rhs(item) == item.rule.prod.rhs
Complete(item) == item.dotPos = Len(Rhs(item))
Before(item, X) == ~Complete(item) /\ Rhs(item)[item.dotPos + 1] = X
Advance(item) == [item EXCEPT !.dotPos = @ + 1]

Size == Len(word) - (IF expectEof THEN 1 ELSE 0)

Init ==
    /\ grammar \in Grammars
    /\ expectEof \in BOOLEAN
    /\ word \in UNION {[1 .. n -> grammar.terminals \cup Foreign] : n \in 0 .. MaxWord}
    /\ expectEof => word # <<>>
    /\ i = 0
    /\ Rp = {Item(r, 0, 0) : r \in {r \in grammar.rules : r.lhs = grammar.start}}
    /\ R = <<>>
    /\ half = "first" /\ added = FALSE
    /\ verdict = "none"
--------------------------------------------------------------------------------
(* C(R, R'[i], i)                                                            *)

Predicted ==
    {Item(r, 0, i) : r \in {r \in grammar.rules : \E it \in Rp : Before(it, r.lhs)}}

\* Items completed by one that started in this very set.
CompletedHere ==
    {Advance(it) : it \in {it \in Rp :
        \E done \in Rp : /\ Complete(done) /\ done.j = i
                         /\ done.rule.lhs \in grammar.nonTerminals
                         /\ Before(it, done.rule.lhs)}}

\* A mistake C() could make: any earlier set is searched.
CompletedAnywhere ==
    {Advance(it) : it \in {it \in UNION Range(R) :
        \E done \in Rp : Complete(done) /\ Before(it, done.rule.lhs)}}

\* Items of R[k] completed by one that started there; R[i] is still empty.
CompletedEarlier ==
    UNION {{Advance(it) : it \in {it \in R[done.j + 1] : Before(it, done.rule.lhs)}} :
           done \in {done \in Rp : Complete(done) /\ done.j < i}}

Insert(items) ==
    /\ Rp' = Rp \cup items
    /\ added' = ~(items \subseteq Rp)

FirstHalf ==
    /\ half = "first"
    /\ Insert(Predicted \cup CompletedHere)
    /\ half' = "second"
    /\ UNCHANGED <<grammar, expectEof, word, i, R, verdict>>

SecondHalf ==
    /\ half = "second"
    /\ Rp' = Rp \cup CompletedEarlier
    /\ added' = FALSE
    /\ half' = IF added \/ ~(CompletedEarlier \subseteq Rp) THEN "first" ELSE "scan"
    /\ UNCHANGED <<grammar, expectEof, word, i, R, verdict>>
--------------------------------------------------------------------------------
\* The closed R[i] is stored, and R'[i + 1] is what one more symbol allows.
Scan ==
    /\ half = "scan" /\ i < Size
    /\ R' = Append(R, Rp)
    /\ Rp' = {Advance(it) : it \in {it \in Rp : Before(it, word[i + 1])}}
    /\ i' = i + 1
    /\ half' = "first"
    /\ UNCHANGED <<grammar, expectEof, word, added, verdict>>

\* The test at the end: it does not ask where the item started.
Accepting == \E it \in Rp : Complete(it) /\ it.rule.lhs = grammar.start

Finish ==
    /\ half = "scan" /\ i = Size
    /\ verdict' = IF Accepting THEN "accepted" ELSE "rejected"
    /\ half' = "done"
    /\ UNCHANGED <<grammar, expectEof, word, i, Rp, R, added>>

Next == FirstHalf \/ SecondHalf \/ Scan \/ Finish

\* The program is one thread that does not stop on its own.
Spec == Init /\ [][Next]_vars /\ WF_vars(Next)
--------------------------------------------------------------------------------
(* Properties.                                                               *)

\* The word read of j .. k, the symbols after the first j up to the k-th.
Segment(j, k) == SubSeq(word, j + 1, k)

RECURSIVE Derives(_, _)
Derives(form, u) ==
    IF form = <<>> THEN u = <<>>
    ELSE \E n \in 0 .. Len(u) :
            /\ SubSeq(u, 1, n) \in (IF form[1] \in Symbols(grammar) THEN Generated[grammar][form[1]] ELSE {})
            /\ Derives(Tail(form), SubSeq(u, n + 1, Len(u)))

\* The pairs <<A, j>> such that the start symbol derives a form that begins with
\* the first j symbols of the word and A.
RECURSIVE Reachable(_)
Reachable(pairs) ==
    LET more == pairs \cup {<<A, k>> \in grammar.nonTerminals \X (0 .. i) :
            \E p \in pairs : p[2] <= k /\
                \E r \in grammar.rules : r.lhs = p[1] /\
                    \E d \in DOMAIN r.prod.rhs :
                        /\ r.prod.rhs[d] = A
                        /\ Derives(SubSeq(r.prod.rhs, 1, d - 1), Segment(p[2], k))}
    IN  IF more = pairs THEN pairs ELSE Reachable(more)

ValidItems ==
    {Item(r, d, p[2]) : <<r, d, p>> \in {<<r, d, p>> \in
        grammar.rules \X (0 .. 8) \X Reachable({<<grammar.start, 0>>}) :
            /\ p[1] = r.lhs
            /\ d <= Len(r.prod.rhs)
            /\ Derives(SubSeq(r.prod.rhs, 1, d), Segment(p[2], i))}}

\* Every closed set holds exactly the items that derivations define: A -> u.v
\* from j is in R[i] if and only if the start symbol derives a form that begins
\* with the first j symbols and A, and u derives the symbols from there to i.
\* The two halves of C(), with the empty productions completed within one set,
\* miss nothing and invent nothing.
ItemsAreValid == half = "scan" => Rp = ValidItems

\* "An Earley Parser for Context-Free Grammars" accepts words of the language only.
AcceptsOnlyWords ==
    verdict = "accepted" => Segment(0, Size) \in Generated[grammar][grammar.start]
================================================================================
