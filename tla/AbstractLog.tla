---------------------------- MODULE AbstractLog ----------------------------
(***************************************************************************)
(* What a log promises, however it is stored: entries are only ever added  *)
(* at the end, and the checkpoint, once there is one, is of the first      *)
(* entries and only moves to more of them.                                 *)
(***************************************************************************)
EXTENDS MerkleLog

CONSTANT None

VARIABLES
    log,        \* the entries that have a sequence number, in order
    checkpoint  \* the published tree, or None

absVars == <<log, checkpoint>>

AbsInit == log = <<>> /\ checkpoint = None

\* An entry gets the next number.
Sequence(x) ==
    /\ log' = Append(log, x)
    /\ UNCHANGED checkpoint

\* A checkpoint of the first n entries replaces one of no more.
Publish(n) ==
    /\ checkpoint # None => Size(checkpoint) <= n
    /\ checkpoint' = SubSeq(log, 1, n)
    /\ UNCHANGED log

AbsNext ==
    \/ \E x \in Leaf : Sequence(x)
    \/ \E n \in 0..Size(log) : Publish(n)

AbsSpec == AbsInit /\ [][AbsNext]_absVars
=============================================================================
