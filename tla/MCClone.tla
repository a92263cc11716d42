------------------------------ MODULE MCClone ------------------------------
(* Instance of Clone for TLC: a log that grows from three to five leaves,   *)
(* and a second version of it that differs in a leaf.                       *)
EXTENDS Clone

CONSTANTS a, b, c, d, e, x

MCLeaf == {a, b, c, d, e, x}
MCServed == {<<a, b, c>>, <<a, b, c, d, e>>, <<a, b, x, d, e>>}
=============================================================================
