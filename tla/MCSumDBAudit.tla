---------------------------- MODULE MCSumDBAudit ----------------------------
(* Instance of SumDBAudit for TLC: a log of three, then eight leaves with   *)
(* tiles of two, so that there are three levels, and a split view at the    *)
(* straggler of the smaller tree.                                           *)
EXTENDS SumDBAudit

CONSTANTS a, b, c, d, x

MCLeaf == {a, b, c, d, x}
MCServed == {<<a, b, c>>, <<a, b, c, d, a, b, c, d>>, <<a, b, x, d, c>>}
=============================================================================
