------------------------------- MODULE MCWordPools -------------------------------
(* Three live words, any slices of a vector of four distinguishable symbols;  *)
(* a transducer with two transitions and one output; sets of four words.      *)
EXTENDS WordPools, TLC

CONSTANTS a, b

MCWords == <<"p", "q", "r", "s">>
MCSymbols == {"p", "q", "r", "s"}
MCTexts == {<<>>, <<a>>, <<a, b>>}
MCInputs == {<<>>, <<"p">>, <<"q", "p">>}
Symmetry == Permutations(LiveIds)
================================================================================
