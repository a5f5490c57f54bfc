---------------------------- MODULE MCRegexPipeline ----------------------------
(* Pairs that read nothing, write nothing, do neither or are of unequal        *)
(* length, under one and two operators, and some expressions that are deeper.  *)
EXTENDS RegexPipeline

Silence == Pair(<<>>, <<>>)
Reads == Pair(<<"b">>, <<>>)
Writes == Pair(<<>>, <<"x">>)
Same == Pair(<<"a">>, <<"x">>)
Other == Pair(<<"a">>, <<"y">>)
Growing == Pair(<<"a", "b">>, <<"x", "y", "y">>)
Shrinking == Pair(<<"a", "b", "b">>, <<"x", "y">>)

Leaves == {Silence, Reads, Writes, Same, Other}

Repeated(R) == {Star(r) : r \in R} \cup {Plus(r) : r \in R}
Joined(R, S) == {Union(r, s) : r \in R, s \in S} \cup {Concat(r, s) : r \in R, s \in S}

Flat == Leaves \cup {Growing, Shrinking}
Level1 == Repeated(Flat) \cup Joined(Flat, Flat)
Level2 ==
    LET within == Repeated(Leaves) \cup Joined({Reads, Writes, Same}, Leaves)
    IN  Repeated(Joined(Leaves, Leaves)) \cup Joined(within, Leaves) \cup Joined(Leaves, within)

\* After a, two runs are two symbols apart and stay so; after b they are one
\* symbol apart and drift.
Drifting ==
    LET again == Star(Pair(<<"c">>, <<"x">>))
        first == Union(Pair(<<"a">>, <<"x", "x">>), Pair(<<"b">>, <<"y">>))
        second == Union(Pair(<<"a">>, <<>>), Pair(<<"b">>, <<>>))
    IN  Union(Concat(Concat(first, again), Pair(<<"d">>, <<>>)),
              Concat(Concat(second, again), Pair(<<"e">>, <<>>)))

\* A cycle that writes and is met only after a symbol; functions that need the
\* output to wait; alternatives that are the same function.
Deeper ==
    {Concat(Same, Star(Concat(Writes, Writes))),
     Union(Concat(Star(Same), Growing), Concat(Star(Same), Reads)),
     Union(Concat(Star(Same), Reads), Concat(Star(Other), Pair(<<"c">>, <<>>))),
     Concat(Union(Silence, Writes), Writes),
     Concat(Union(Writes, Other), Union(Same, Silence)),
     Star(Union(Growing, Concat(Same, Reads))),
     Star(Star(Union(Same, Reads))),
     Drifting}

Regexes0 == Flat \cup Level1 \cup Level2 \cup Deeper
================================================================================
