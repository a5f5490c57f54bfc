------------------------------- MODULE TotalSSFST -------------------------------
(***************************************************************************)
(* Total subsequential transducers (include/total_ssft.hpp): every state   *)
(* has a transition for every letter, all states are final, and something  *)
(* is written before the first letter.  Composition of two of them         *)
(* (include/compose.hpp).                                                  *)
(***************************************************************************)
EXTENDS Integers, Sequences, FiniteSets, SequencesExt

\* delta[<<q, a>>] is what is written and where it goes.
Total(n, delta, psi, initialOut) == [n |-> n, delta |-> delta, psi |-> psi, initialOut |-> initialOut]

States(t) == 0 .. t.n - 1
Alphabet(t) == {c[2] : c \in DOMAIN t.delta}

\* A transition for every state and letter, and an output for every state.
IsTotal(t) ==
    /\ t.n \in Nat \ {0}
    /\ Alphabet(t) \subseteq Nat /\ IsFiniteSet(Alphabet(t))
    /\ t.delta \in [States(t) \X Alphabet(t) -> [out : Seq(Nat), to : States(t)]]
    /\ t.psi \in [States(t) -> Seq(Nat)]
    /\ t.initialOut \in Seq(Nat)

\* Where a word leads from a state, and what is written on the way.
Read(t, q, word) ==
    LET After[i \in 0 .. Len(word)] ==
            IF i = 0 THEN [out |-> <<>>, at |-> q]
            ELSE LET before == After[i - 1]
                     c == t.delta[<<before.at, word[i]>>]
                 IN  [out |-> before.out \o c.out, at |-> c.to]
    IN  After[Len(word)]

\* f(): the initial output, the outputs on the way, Psi.
F(t, word) ==
    LET end == Read(t, 0, word)
    IN  t.initialOut \o end.out \o t.psi[end.at]
--------------------------------------------------------------------------------
(* composeFST.                                                               *)

\* A mistake it could make: the second transducer starts anew with each word.
DriveAnew(second, q, mid) ==
    LET end == Read(second, 0, mid) IN [out |-> second.initialOut \o end.out, at |-> end.at]

\* driveSecond: a word of the first transducer is read by the second, whose
\* initial output comes first, each time and also for an empty word.
DriveSecond(second, q, mid) ==
    LET end == Read(second, q, mid) IN [out |-> second.initialOut \o end.out, at |-> end.at]

\* One step of a search: node number i, if there is one, is followed by those of
\* its successors that were not found before.
Explore(next, found, i) ==
    IF i > Len(found) THEN found ELSE found \o SetToSeq(next[found[i]] \ Range(found))

\* The nodes that can be reached from start, in an order in which a search finds
\* them; next[c] are the successors of c.
Found(next, start) ==
    LET After[i \in 0 .. Cardinality(DOMAIN next)] ==
            IF i = 0 THEN <<start>> ELSE Explore(next, After[i - 1], i)
    IN  After[Cardinality(DOMAIN next)]

\* What the pair c of states writes for a letter, and the pair it leads to.
DrivePair(first, second, c, a) == DriveSecond(second, c[2], first.delta[<<c[1], a>>].out)
PairAfter(first, second, c, a) == <<first.delta[<<c[1], a>>].to, DrivePair(first, second, c, a).at>>

\* A pair gets its number when it is first met, the initial one the number 0.
ComposeFST(first, second) ==
    LET begin == DriveSecond(second, 0, first.initialOut)
        order == Found([c \in States(first) \X States(second) |->
                           {PairAfter(first, second, c, a) : a \in Alphabet(first)}], <<0, begin.at>>)
        ID(c) == (CHOOSE i \in DOMAIN order : order[i] = c) - 1
    IN  Total(Len(order),
              [k \in (0 .. Len(order) - 1) \X Alphabet(first) |->
                  [out |-> DrivePair(first, second, order[k[1] + 1], k[2]).out,
                   to |-> ID(PairAfter(first, second, order[k[1] + 1], k[2]))]],
              [i \in 0 .. Len(order) - 1 |->
                  LET end == DriveSecond(second, order[i + 1][2], first.psi[order[i + 1][1]])
                  IN  end.out \o second.psi[end.at]],
              begin.out)
================================================================================
