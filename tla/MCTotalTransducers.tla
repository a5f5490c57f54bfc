--------------------------- MODULE MCTotalTransducers ---------------------------
(* Pairs of rules with halves of up to two letters, some triples, with a marker *)
(* before and behind the other letters; total transducers of two states over    *)
(* two letters and of three states over one, with outputs of which one is a     *)
(* prefix of another.                                                           *)
EXTENDS TotalTransducers

Letters0 == 0 .. 2

\* The halves of the rules over the letters that are no markers.
Rules(lefts, rights) == [left : lefts, right : rights]
PairsOver(p, q) ==
    kSubset(2, Rules({<<>>, <<p>>, <<q>>, <<p, q>>, <<q, q>>}, {<<>>, <<p>>, <<p, q>>, <<q, p>>}))
TriplesOver(p, q) == kSubset(3, Rules({<<p>>, <<q>>, <<p, q>>}, {<<p>>, <<p, q>>}))
Tasks0 ==
    {[marker |-> 2, rules |-> R] : R \in {{}} \cup PairsOver(0, 1) \cup TriplesOver(0, 1)}
        \cup {[marker |-> 0, rules |-> R] : R \in PairsOver(2, 1) \cup TriplesOver(1, 2)}
HandedOver0 == {[marker |-> 2, rules |-> R] : R \in {{}} \cup TriplesOver(0, 1)}

AllTotal(n, letters, outs, initial) ==
    LET ids == 0 .. n - 1
    IN  {Total(n, d, p, initial) : d \in [ids \X letters -> [out : outs, to : ids]], p \in [ids -> outs]}

Firsts0 == AllTotal(2, 0 .. 1, {<<>>, <<0>>}, <<>>) \cup AllTotal(3, {0}, {<<0>>, <<0, 1>>}, <<1>>)

\* Writes each other letter twice, or none of them, and something at the end.
Flip == Total(2, [c \in (0 .. 1) \X Letters0 |-> [out |-> IF c[1] = 0 THEN <<c[2], c[2]>> ELSE <<>>, to |-> 1 - c[1]]],
              [q \in 0 .. 1 |-> IF q = 0 THEN <<>> ELSE <<1>>], <<>>)

Seconds0 == {Flip, [Flip EXCEPT !.initialOut = <<1>>]}
Asked0 == {<<0, 0, 0>>}
================================================================================
