--------------------------- MODULE MCInterningMonoid ---------------------------
(* Small instances of InterningMonoid for TLC.                               *)
EXTENDS InterningMonoid, TLC

\* Two letters and two words of different lengths, one overlapping the other.
MCSymbols == {"a", "b"}
MCInputs == {<<"a", "b">>, <<"b">>}

Symmetry == Permutations(Values) \cup Permutations(Operands)
================================================================================
