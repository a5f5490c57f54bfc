------------------------------ MODULE RealtimeFST ------------------------------
(***************************************************************************)
(* What is done with a machine once it is built: trimming                  *)
(* (include/trim.hpp), the conversion to a real-time machine, which reads  *)
(* one symbol with every step (include/realtime.hpp),                      *)
(* pseudo-determinization and pseudo-minimization, for which a pair of     *)
(* symbol and output is one letter (include/expanded_fst.hpp).  What       *)
(* depends on the order of a hash table takes that order as an argument.   *)
(***************************************************************************)
EXTENDS RegexFST

CONSTANT
    MaxReordered    \* a hash table of at most this many entries is met in every order
--------------------------------------------------------------------------------
(* trimFSA: states on no path from an initial to a final one go, the others  *)
(* are renumbered in their order.                                            *)

TrimFSA(x) ==
    LET forward == Reach(Edges(x.trans), x.firsts)
        backward == Reach({<<e[2], e[1]>> : e \in Edges(x.trans)}, x.finals)
        useful == forward \cap backward
        New(q) == Cardinality({p \in useful : p < q})
    IN  IF x.finals = {} THEN Machine({}, {}, {}, {}, {})
        ELSE Machine({New(q) : q \in useful}, {New(q) : q \in x.firsts \cap useful},
                 {New(q) : q \in x.finals \cap useful},
                 Moved({t \in x.trans : {t.from, t.to} \subseteq useful}, New), x.feps)
--------------------------------------------------------------------------------
(* removeEpsilonFST: a transition also goes where silent ones go on to, and  *)
(* so does the start.  It adds to the initial states while it iterates over  *)
(* them; what it can meet there adds nothing new.                            *)

SilentClosure(x, S) == Reach(Edges({t \in x.trans : Silent(t)}), S)

WithoutSilent(x) ==
    [x EXCEPT
        !.trans = UNION {{[t EXCEPT !.to = q] : q \in SilentClosure(x, {t.to})} : t \in {t \in @ : ~Silent(t)}},
        !.firsts = SilentClosure(x, @)]
--------------------------------------------------------------------------------
(* expandFST: one symbol read at a time.  The words are written in step, the *)
(* last step writes what is left.                                            *)

Least(a, b) == IF a < b THEN a ELSE b

\* A mistake expandFST() could make: the last step writes one symbol.
WrittenInStep(t, j) == SubSeq(t.out, j, Least(j, Len(t.out)))

WrittenAt(t, j) == SubSeq(t.out, j, IF j < Len(t.in) THEN Least(j, Len(t.out)) ELSE Len(t.out))

\* The new states of a transition follow those of the transitions before it.
NewStates(t) == IF SilentAbove(t) THEN 0 ELSE Len(t.in) - 1

Chain(t, base) ==
    LET At(j) == IF j = 0 THEN t.from ELSE IF j = Len(t.in) THEN t.to ELSE base + j - 1
    IN  IF SilentAbove(t) THEN {t}
        ELSE {Arc(At(j - 1), <<t.in[j]>>, WrittenAt(t, j), At(j)) : j \in DOMAIN t.in}

Expanded(x) ==
    LET grow(y, t) == [y EXCEPT !.states = @ \cup (Size(y) .. Size(y) + NewStates(t) - 1),
                                !.trans = @ \cup Chain(t, Size(y))]
    IN  FoldLeft(grow, [x EXCEPT !.trans = {}], Listed(x.trans))
--------------------------------------------------------------------------------
(* removeUpperEpsilonFST.                                                    *)

\* Orders of a hash table; of a large one, two.
OrdersOf(S) ==
    IF Cardinality(S) <= MaxReordered THEN SetToSeqs(S) ELSE {Listed(S), Reverse(Listed(S))}

\* In which order the transitions that read nothing may leave the states: some
\* order, its reverse, or that order changed at one state.
Orders(x) ==
    LET above == {t \in x.trans : SilentAbove(t)}
        at(q) == {t \in above : t.from = q}
        some == [q \in {t.from : t \in above} |-> Listed(at(q))]
    IN  {some, [q \in DOMAIN some |-> Reverse(some[q])]}
          \cup UNION {{[some EXCEPT ![q] = s] : s \in OrdersOf(at(q))} : q \in DOMAIN some}

\* Depth first search from a state: what is written on the way to each state
\* that is reached, on the first way that is found.
RECURSIVE Search(_, _, _)
Search(order, stack, closure) ==
    IF stack = <<>> THEN closure
    ELSE LET top == stack[Len(stack)]
             arcs == IF top[1] \in DOMAIN order THEN order[top[1]] ELSE <<>>
             see(s, t) ==
                IF t.to \in {c[1] : c \in s.closure} THEN s
                ELSE LET c == <<t.to, top[2] \o t.out>>
                     IN  [stack |-> Append(s.stack, c), closure |-> s.closure \cup {c}]
             seen == FoldLeft(see, [stack |-> Front(stack), closure |-> closure], arcs)
         IN  Search(order, seen.stack, seen.closure)

UpperClosure(order, q) == Search(order, <<<<q, <<>>>>>>, {<<q, <<>>>>})

\* An initial state that reaches a final one becomes final, and what was
\* written on the way is an answer for the empty word.
EmptyWord(x, closure, inits) ==
    LET ends(y, i) ==
            LET c == {c \in closure[i] : c[1] \in y.finals}
            IN  IF c = {} THEN y
                ELSE [y EXCEPT !.finals = @ \cup {i}, !.feps = @ \cup {d[2] : d \in c}]
    IN  FoldLeft(ends, x, inits)

\* Nothing read, then a symbol, then nothing read, in one transition.
Shortcuts(x, closure) ==
    UNION {UNION {UNION {
        {Arc(q1, t.in, u[2] \o t.out \o w[2], w[1]) : w \in closure[t.to]}
            : t \in {t \in Leaving(x, u[1]) : ~SilentAbove(t)}} : u \in closure[q1]} : q1 \in x.states}

\* The machines that may come out, with one order of the transitions.
WithoutUpper(x, order) ==
    LET closure == [q \in x.states |-> UpperClosure(order, q)]
        ending == {q \in x.firsts : \E c \in closure[q] : c[1] \in x.finals}
    IN  {[EmptyWord(x, closure, inits) EXCEPT
              !.trans = Shortcuts(x, closure) \cup {t \in @ : ~SilentAbove(t)}] :
            inits \in OrdersOf(ending)}
--------------------------------------------------------------------------------
(* pseudoDeterminizeFST: deterministic in pairs of symbol and output.  A     *)
(* state is the set of states it stands for.                                 *)

Label(t) == <<t.in, t.out>>

After(x, S, l) == {t.to : t \in {t \in x.trans : t.from \in S /\ Label(t) = l}}

LabelsFrom(x, S) == {Label(t) : t \in {t \in x.trans : t.from \in S}}

RECURSIVE Subsets(_, _, _)
Subsets(x, known, newest) ==
    LET fresh == UNION {{After(x, S, l) : l \in LabelsFrom(x, S)} : S \in newest} \ known
    IN  IF fresh = {} THEN known ELSE Subsets(x, known \cup fresh, fresh)

PseudoDeterminize(x) ==
    LET states == Subsets(x, {x.firsts}, {x.firsts})
    IN  Machine(states, {x.firsts}, {S \in states : S \cap x.finals # {}},
            UNION {{Arc(S, l[1], l[2], After(x, S, l)) : l \in LabelsFrom(x, S)} : S \in states},
            x.feps)

ReverseFST(x) ==
    Machine(x.states, x.finals, x.firsts, {Arc(t.to, t.in, t.out, t.from) : t \in x.trans}, x.feps)

PseudoMinimizeFST_slow(x) ==
    PseudoDeterminize(ReverseFST(PseudoDeterminize(ReverseFST(x))))
--------------------------------------------------------------------------------
(* crochemorePseudoMinimizeFST: the blocks of final and of other states are  *)
(* split by where their labels lead, until no block splits.                  *)

BlockOf(P, q) == CHOOSE b \in P : q \in b

Signature(x, P, q) == <<BlockOf(P, q), {<<Label(t), BlockOf(P, t.to)>> : t \in Leaving(x, q)}>>

Grouped(S, key(_)) == {{p \in S : key(p) = key(q)} : q \in S}

\* A mistake it could make: one round of splitting.
RefinedOnce(x, P, count) == Grouped(UNION P, LAMBDA q : Signature(x, P, q))

RECURSIVE Refined(_, _, _)
Refined(x, P, count) ==
    LET next == Grouped(UNION P, LAMBDA q : Signature(x, P, q))
    IN  IF Cardinality(next) = count THEN next ELSE Refined(x, next, Cardinality(next))

Crochemore(x) ==
    LET reached == Reach(Edges(x.trans), x.firsts)
        P == Refined(x, Grouped(reached, LAMBDA q : q \in x.finals), 0)
    IN  Machine(P, {BlockOf(P, q) : q \in x.firsts}, {b \in P : The(b) \in x.finals},
            UNION {{Arc(b, t.in, t.out, BlockOf(P, t.to)) : t \in Leaving(x, The(b))} : b \in P},
            x.feps)
================================================================================
