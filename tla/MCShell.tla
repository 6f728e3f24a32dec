------------------------------ MODULE MCShell ------------------------------
(* Instances of Shell for TLC: all short lines, and some longer ones. *)
EXTENDS Shell

Chars == Symbols \cup {"x", " "}

AllLines == UNION {[1 .. n -> Chars] : n \in 0 .. 5}

\* x|x|x  x|x|x|x  (x;x)|x  (x|x)>x<x  x&;x|x  x;x;x  x x x  x>x>x  x>>x|x
LongLines == {
    <<"x", "|", "x", "|", "x">>,
    <<"x", "|", "x", "|", "x", "|", "x">>,
    <<"(", "x", ";", "x", ")", "|", "x">>,
    <<"(", "x", "|", "x", ")", ">", "x", "<", "x">>,
    <<"x", "&", ";", "x", "|", "x">>,
    <<"x", ";", "x", ";", "x">>,
    <<"x", " ", "x", " ", "x">>,
    <<"x", ">", "x", ">", "x">>,
    <<"x", ">", ">", "x", "|", "x">>,
    <<"(", "x", "&", ")", "|", "x">>,
    <<"x", "<", "x", "x", "|", "x", ">", "x">>}

MCLines == AllLines \cup LongLines
=============================================================================
