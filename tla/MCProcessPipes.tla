----------------------------- MODULE MCProcessPipes ------------------------------
(* Two Process objects; children that read first or last, not at all, and write  *)
(* less or more than a pipe holds.                                               *)
EXTENDS ProcessPipes

MCPrograms == {
    <<>>,
    <<"rest">>,
    <<"rest", "out", "out", "out", "err">>,
    <<"err", "out", "rest">>,
    <<"rest", "out", "out", "out", "out">>,
    <<"err", "err", "err", "err", "rest">>}
================================================================================
