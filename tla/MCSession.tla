----------------------------- MODULE MCSession -----------------------------
(* Small instances of Session for TLC.                                      *)
EXTENDS Session, TLC

CONSTANTS w1, w2

Ev1(type, w, raws) == [type |-> type, w |-> w, raws |-> raws]

\* a window event with two raw events, a close request, quit
MCEvents == {Ev1("input", w1, 2), Ev1("close", w2, 0), Ev1("quit", NoWindow, 0)}

\* close requests only
MCCloseEvents == {Ev1("close", w, 0) : w \in Windows}

MCInput == {Ev1("input", w1, 1)}
==============================================================================
