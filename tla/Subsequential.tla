----------------------------- MODULE Subsequential -----------------------------
(***************************************************************************)
(* From a functional real-time transducer to a subsequential one: how far  *)
(* two runs over one input can drift apart (include/functionality.hpp),    *)
(* and the subset construction that carries the drift along                *)
(* (subsequentializeFST of include/ssft.hpp).                              *)
(***************************************************************************)
EXTENDS RealtimeFST

\* What each of two outputs is ahead of the other, their common prefix gone.
Delay(u, v) ==
    LET n == Len(LongestCommonPrefix({u, v}))
    IN  <<SubSeq(u, n + 1, Len(u)), SubSeq(v, n + 1, Len(v))>>

None == <<(<<>>), <<>>>>

\* The steps of two runs that read one symbol, to a pair of states in within.
Follows(x, within, a) ==
    {[at |-> <<p[1].to, p[2].to>>, delay |-> Delay(a.delay[1] \o p[1].out, a.delay[2] \o p[2].out)] :
        p \in {p \in Leaving(x, a.at[1]) \X Leaving(x, a.at[2]) :
                  p[1].in = p[2].in /\ <<p[1].to, p[2].to>> \in within}}

Pairs(x) == x.states \X x.states
Starts(x) == {[at |-> p, delay |-> None] : p \in x.firsts \X x.firsts}

Longest(W) == CHOOSE n \in {Len(w) : w \in W} : \A w \in W : Len(w) <= n

\* C * N * N.  C() is the longest word of the pool, which has the labels, f_eps
\* and the empty word, and may have more.
MaxDelay(x) == Longest({<<>>} \cup x.feps \cup {t.out : t \in x.trans}) * Size(x) * Size(x)
--------------------------------------------------------------------------------
(* testBoundedVariation.                                                     *)

Spread(a) == Len(a.delay[1]) + Len(a.delay[2])
Lead(a) == Longest({a.delay[1], a.delay[2]})

\* The search, with the pair a met: adm are the pairs seen, queue those of them
\* not followed yet, longest the longest delay met at each pair of states.  A
\* pair met with a shorter delay than that is passed over.
Meet(limit, s, a) ==
    LET bounded == s.bounded /\ Lead(a) < limit
    IN  IF s.longest[a.at] > Lead(a) \/ ~bounded
        THEN [s EXCEPT !.bounded = bounded]
        ELSE [s EXCEPT !.longest[a.at] = Lead(a),
                       !.adm = @ \cup {a},
                       !.queue = IF a \in s.adm THEN @ ELSE @ \cup {a}]

\* The longest delay is followed first; back turns the order of the
\* transitions, which come from a hash table.
RECURSIVE Explored(_, _, _)
Explored(x, back, s) ==
    IF s.queue = {} \/ ~s.bounded THEN s
    ELSE LET a == CHOOSE a \in s.queue : \A b \in s.queue : Spread(b) <= Spread(a)
             met == Listed(Follows(x, Pairs(x), a))
             limit == MaxDelay(x)
         IN  Explored(x, back,
                 FoldLeft(LAMBDA r, b : Meet(limit, r, b), [s EXCEPT !.queue = @ \ {a}],
                          IF back THEN Reverse(met) ELSE met))

BoundedVariation(x, back) ==
    /\ Cardinality(x.feps) <= 1
    /\ Explored(x, back, [adm |-> Starts(x), queue |-> Starts(x),
                          longest |-> [p \in Pairs(x) |-> 0], bounded |-> TRUE]).bounded

\* The reference: two runs over one input drift apart without bound if and only
\* if one pair of states is met with a delay that repeating a cycle has made
\* longer than any path without one could.
RECURSIVE Drifts(_, _, _)
Drifts(x, known, newest) ==
    LET fresh == UNION {Follows(x, Pairs(x), a) : a \in newest} \ known
    IN  \/ \E a \in fresh : Lead(a) > MaxDelay(x)
        \/ fresh # {} /\ Drifts(x, known \cup fresh, fresh)

Twinned(x) == ~Drifts(x, Starts(x), Starts(x))
--------------------------------------------------------------------------------
(* subsequentializeFST.  A state is a set of states of the transducer, each  *)
(* with the output it still owes.                                            *)

\* A mistake it could make: what was owed before is forgotten.
OwedAnew(x, S, a) == UNION {{<<t.to, t.out>> : t \in {t \in Leaving(x, p[1]) : t.in = a}} : p \in S}

\* Where the members of S go with the symbol a, and what they owe by then.
Owed(x, S, a) ==
    UNION {{<<t.to, p[2] \o t.out>> : t \in {t \in Leaving(x, p[1]) : t.in = a}} : p \in S}

\* The greatest common prefix of what they owe is given with the symbol.
Given(x, S, a) == LongestCommonPrefix({n[2] : n \in Owed(x, S, a)})

Rest(w, n) == SubSeq(w, n + 1, Len(w))

NextBig(x, S, a) == {<<n[1], Rest(n[2], Len(Given(x, S, a)))>> : n \in Owed(x, S, a)}

Letters(x, S) == {t.in : t \in {t \in x.trans : \E p \in S : p[1] = t.from}}

TooLong(x, S) == \E p \in S : Len(p[2]) > MaxDelay(x)

\* The states, up to the first that owe too much.
RECURSIVE BigStates(_, _, _)
BigStates(x, known, newest) ==
    LET fresh == UNION {{NextBig(x, S, a) : a \in Letters(x, S)} : S \in newest} \ known
    IN  IF fresh = {} \/ \E S \in fresh : TooLong(x, S) THEN known \cup fresh
        ELSE BigStates(x, known \cup fresh, fresh)

Initial(x) == {<<q, (<<>>)>> : q \in x.firsts}

Endings(x, S) == {p[2] : p \in {p \in S : p[1] \in x.finals}}

\* It throws for a delay too long, or for two outputs of one word.
Throws(x, big) ==
    \E S \in big : TooLong(x, S) \/ (S # Initial(x) /\ Cardinality(Endings(x, S)) > 1)

\* The initial state takes its output from f_eps, and none if that is empty.
Outputs(x, S) == IF S = Initial(x) THEN x.feps ELSE Endings(x, S)

SubsequentializeFST(x, big) ==
    LET finals == {S \in big : Endings(x, S) # {}}
    IN  [states |-> big, firsts |-> {Initial(x)}, finals |-> finals, feps |-> {},
         trans |-> UNION {{Arc(S, a, Given(x, S, a), NextBig(x, S, a)) : a \in Letters(x, S)} : S \in big},
         psi |-> [S \in {S \in finals : Outputs(x, S) # {}} |-> CHOOSE w \in Outputs(x, S) : TRUE]]

\* What f() computes, for every input: the outputs on the way, then psi.
SubsequentialRelation(y) ==
    LET start == {[at |-> q, pair |-> None] : q \in y.firsts}
        ends == {c \in Readings(y, start, start) : c.at \in y.finals}
    IN  {p \in {<<c.pair[1], c.pair[2] \o y.psi[c.at]>> : c \in ends} : Short(p)}
================================================================================
