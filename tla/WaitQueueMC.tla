------------------------------ MODULE WaitQueueMC ------------------------------
(* c1 takes any capture, c2 only y, and c3's matcher raises on x.            *)
EXTENDS WaitQueue

MCMatches == {<<"c1", "x">>, <<"c1", "y">>, <<"c2", "y">>, <<"c3", "y">>}
MCRaises == {<<"c3", "x">>}
===============================================================================
