----------------------------- MODULE MerkleLog -----------------------------
(***************************************************************************)
(* The append-only Merkle log as its verifiers see it.                     *)
(*                                                                         *)
(* A tree is the sequence of its leaves.  Root hashes are collision        *)
(* resistant, so the root hash of a tree stands for the whole sequence:    *)
(* equal hashes are equal sequences, and a consistency proof or a compact  *)
(* range verifies exactly when the smaller tree is a prefix of the larger. *)
(* This is how the code uses github.com/transparency-dev/merkle (proof,    *)
(* compact), which is not part of the repository.                          *)
(***************************************************************************)
EXTENDS Naturals, Sequences

CONSTANT Leaf  \* the leaf hashes

Size(t) == Len(t)

\* s is a sequence, of whatever elements.
IsSequence(s) == s \in Seq({s[i] : i \in DOMAIN s})

\* The trees between which an append-only log can move.
Prefix(s, t) ==
    /\ Len(s) <= Len(t)
    /\ \A i \in 1..Len(s) : s[i] = t[i]

\* Two trees that one append-only log can both have had.
Comparable(s, t) == Prefix(s, t) \/ Prefix(t, s)

(***************************************************************************)
(* proof.VerifyConsistency on a proof built from size `from' up to the     *)
(* size of `next'.  A proof for any other pair of trees fails.             *)
(***************************************************************************)
VerifyConsistency(prev, next, from) ==
    /\ from = Size(prev)
    /\ Prefix(prev, next)

\* compact.Range.GetRootHash: an empty range has the root nil, which is not
\* the hash of the empty tree.
RangeHasRoot(range, t) == range # <<>> /\ range = t
=============================================================================
