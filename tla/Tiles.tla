------------------------------- MODULE Tiles -------------------------------
(***************************************************************************)
(* The arithmetic of tiles (serverless/api/layout, serverless/api): which  *)
(* tile a node of the tree is stored in, and how full a tile is.           *)
(*                                                                         *)
(* A node is a pair <<level, index>> of the binary tree.  Its hash is      *)
(* represented by the sequence of leaves below it.  A tile holds           *)
(* TileHeight levels of the tree (8 in the code, so tiles are 256 wide).   *)
(***************************************************************************)
EXTENDS MerkleLog, Integers

CONSTANT TileHeight

ASSUME TilesAssumption == TileHeight \in Nat \ {0}

\* 1 << n.
Pow2[n \in Nat] == IF n = 0 THEN 1 ELSE 2 * Pow2[n - 1]

TileWidth == Pow2[TileHeight]

\* A full tile is stored without a suffix, which 0 stands for.
PartialTileSize(level, index, logSize) ==
    LET sizeAtLevel == logSize \div Pow2[level * TileHeight]
        fullTiles == sizeAtLevel \div TileWidth
    IN  IF index < fullTiles THEN 0 ELSE sizeAtLevel % TileWidth

\* The tile <<level, index>> of a node, and the node's place in it.
NodeCoordsToTileAddress(node) ==
    LET tileRowWidth == Pow2[TileHeight - (node[1] % TileHeight)]
    IN  [tile |-> <<node[1] \div TileHeight, node[2] \div tileRowWidth>>,
         node |-> <<node[1] % TileHeight, node[2] % tileRowWidth>>]

\* The position of a node in the Nodes array of its tile.
TileNodeKey(node) == Pow2[node[1] + 1] * node[2] + Pow2[node[1]] - 1

-----------------------------------------------------------------------------
(* How the code uses github.com/transparency-dev/merkle/compact. *)

First(node) == node[2] * Pow2[node[1]]
Last(node) == (node[2] + 1) * Pow2[node[1]]

\* The levels that a tree of n leaves has a perfect subtree of.
Levels(n) == {k \in 0..n : Pow2[k] <= n}

\* compact.RangeNodes(0, s): one perfect subtree per bit of s.
RangeNodes(s) ==
    {<<l, (s \div Pow2[l]) - 1>> : l \in {k \in Levels(s) : (s \div Pow2[k]) % 2 = 1}}

\* The nodes that Range.Append and Range.AppendRange visit when a tree grows
\* from s to n leaves: the perfect subtrees that this completes.
VisitedNodes(s, n) ==
    {node \in Levels(n) \X (0..n) : s < Last(node) /\ Last(node) <= n}

\* The hash of a node of tree t.
NodeHash(t, node) == SubSeq(t, First(node) + 1, Last(node))
=============================================================================
