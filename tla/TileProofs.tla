----------------------------- MODULE TileProofs -----------------------------
(***************************************************************************)
(* Lemmas about numbers, tiles and ranges (module Tiles), for any height   *)
(* of tiles, and about the sequences that trees are.                       *)
(***************************************************************************)
EXTENDS Tiles, WellFoundedInduction, SequenceTheorems, FiniteSetTheorems, TLAPS

-----------------------------------------------------------------------------
(* Numbers. *)

\* Induction over the natural numbers, for a set.
LEMMA SetInduction ==
    ASSUME NEW S \in SUBSET Nat, 0 \in S, \A n \in S : n + 1 \in S
    PROVE  S = Nat
<1> SUFFICES ASSUME S # Nat PROVE FALSE
  OBVIOUS
<1> DEFINE U == Nat \ S
<1>1. U \subseteq Nat /\ U # {}
  OBVIOUS
<1>2. PICK u \in U : \A v \in U : ~ (<<v, u>> \in OpToRel(<, Nat))
  BY <1>1, NatLessThanWellFounded, WFMin
<1>3. u \in Nat /\ u \notin S /\ u # 0
  OBVIOUS
<1>4. u - 1 \in Nat /\ u - 1 < u /\ (u - 1) + 1 = u
  BY <1>3
<1>5. u - 1 \in U
  BY <1>3, <1>4
<1>6. <<u - 1, u>> \in OpToRel(<, Nat)
  <2>1. <<u - 1, u>> \in Nat \X Nat /\ <<u - 1, u>>[1] < <<u - 1, u>>[2]
    BY <1>3, <1>4
  <2> QED
    BY <2>1, Zenon DEF OpToRel
<1> QED
  BY <1>2, <1>5, <1>6

\* Products of natural numbers.
LEMMA ProductFacts ==
    /\ \A x, y \in Nat : x * y \in Nat /\ x * y = y * x
    /\ \A x, y \in Nat \ {0} : x * y \in Nat \ {0} /\ x * y >= y
    /\ \A x, y, z \in Nat : x <= y => x * z <= y * z
    /\ \A x, y, z \in Nat : (x + y) * z = x * z + y * z /\ x * (y * z) = (x * y) * z
  OBVIOUS

\* The first rows of Pow2.
Rows(g, n) ==
    /\ DOMAIN g = 0..n
    /\ \A i \in 0..n : g[i] = IF i = 0 THEN 1 ELSE 2 * g[i - 1]

\* There are as many as one wants, and all agree.
LEMMA RowsExist == \A n \in Nat : \E g : Rows(g, n)
<1> DEFINE S == {n \in Nat : \E g : Rows(g, n)}
<1>1. 0 \in S
  <2>1. Rows([i \in 0..0 |-> 1], 0)
    BY DEF Rows
  <2> QED
    BY <2>1
<1>2. ASSUME NEW n \in S PROVE n + 1 \in S
  <2>1. PICK g : Rows(g, n)
    OBVIOUS
  <2> DEFINE h == [i \in 0..(n + 1) |-> IF i = n + 1 THEN 2 * g[n] ELSE g[i]]
  <2>2. ASSUME NEW i \in 0..(n + 1)
        PROVE  h[i] = IF i = 0 THEN 1 ELSE 2 * h[i - 1]
    <3>1. CASE i = n + 1
      <4>1. i # 0 /\ i - 1 = n /\ n \in 0..(n + 1) /\ n # n + 1
        BY <3>1
      <4>2. h[i] = 2 * g[n] /\ h[n] = g[n]
        BY <3>1, <4>1
      <4> QED
        BY <4>1, <4>2
    <3>2. CASE i # n + 1
      <4>1. i \in 0..n /\ h[i] = g[i]
        BY <3>2
      <4>2. i # 0 => i - 1 \in 0..(n + 1) /\ i - 1 # n + 1 /\ h[i - 1] = g[i - 1]
        BY <4>1
      <4> QED
        BY <2>1, <4>1, <4>2 DEF Rows
    <3> QED
      BY <3>1, <3>2
  <2>3. Rows(h, n + 1)
    BY <2>2 DEF Rows
  <2> QED
    BY <2>3
<1>3. S = Nat
  <2> HIDE DEF S
  <2>1. S \in SUBSET Nat
    BY DEF S
  <2> QED
    BY <1>1, <1>2, <2>1, SetInduction
<1> QED
  BY <1>3

\* A recursive function is determined by its recursion: two functions with
\* the same rows agree where both are defined.
LEMMA RowsAgree ==
    ASSUME NEW n \in Nat, NEW m \in Nat, NEW g, Rows(g, n), NEW h, Rows(h, m)
    PROVE  \A i \in Nat : i <= n /\ i <= m => g[i] = h[i]
<1> DEFINE S == {i \in Nat : i <= n /\ i <= m => g[i] = h[i]}
<1>1. 0 \in S
  BY DEF Rows
<1>2. ASSUME NEW i \in S PROVE i + 1 \in S
  <2> SUFFICES ASSUME i + 1 <= n, i + 1 <= m PROVE g[i + 1] = h[i + 1]
    OBVIOUS
  <2>1. i + 1 \in 0..n /\ i + 1 \in 0..m /\ i + 1 # 0 /\ (i + 1) - 1 = i /\ g[i] = h[i]
    OBVIOUS
  <2> QED
    BY <2>1 DEF Rows
<1>3. S = Nat
  <2> HIDE DEF S
  <2>1. S \in SUBSET Nat
    BY DEF S
  <2> QED
    BY <1>1, <1>2, <2>1, SetInduction
<1> QED
  BY <1>3

\* Pow2 is what its definition says.
LEMMA Pow2Def ==
    Pow2 = [k \in Nat |-> IF k = 0 THEN 1 ELSE 2 * Pow2[k - 1]]
<1> DEFINE G(n) == CHOOSE g : Rows(g, n)
           f == [n \in Nat |-> G(n)[n]]
<1>1. \A n \in Nat : Rows(G(n), n)
  BY RowsExist
<1>2. ASSUME NEW n \in Nat PROVE f[n] = IF n = 0 THEN 1 ELSE 2 * f[n - 1]
  <2>0. f[n] = G(n)[n] /\ Rows(G(n), n) /\ n \in 0..n
    BY <1>1
  <2>1. CASE n = 0
    BY <2>0, <2>1 DEF Rows
  <2>2. CASE n # 0
    <3>1. n - 1 \in Nat /\ n - 1 <= n /\ n - 1 <= n - 1
      BY <2>2
    <3>2. f[n - 1] = G(n - 1)[n - 1] /\ Rows(G(n - 1), n - 1)
      BY <1>1, <3>1
    <3> HIDE DEF G
    <3>3. G(n)[n - 1] = G(n - 1)[n - 1]
      BY <2>0, <3>1, <3>2, RowsAgree
    <3>4. G(n)[n] = 2 * G(n)[n - 1]
      BY <2>0, <2>2 DEF Rows
    <3> QED
      BY <2>0, <2>2, <3>2, <3>3, <3>4
  <2> QED
    BY <2>1, <2>2
<1> HIDE DEF G
<1>3. f = [k \in Nat |-> IF k = 0 THEN 1 ELSE 2 * f[k - 1]]
  BY <1>2
<1> HIDE DEF f
<1> QED
  BY <1>3, Zenon DEF Pow2

\* The powers of two.
LEMMA Pow2Facts ==
    /\ Pow2[0] = 1
    /\ \A n \in Nat : Pow2[n + 1] = 2 * Pow2[n]
    /\ \A n \in Nat : Pow2[n] \in Nat \ {0} /\ n < Pow2[n]
<1>1. Pow2[0] = 1
  BY Pow2Def
<1>2. ASSUME NEW n \in Nat PROVE Pow2[n + 1] = 2 * Pow2[n]
  <2>1. n + 1 \in Nat /\ n + 1 # 0 /\ (n + 1) - 1 = n
    OBVIOUS
  <2> QED
    BY <2>1, Pow2Def
<1> DEFINE S == {n \in Nat : Pow2[n] \in Nat \ {0} /\ n < Pow2[n]}
<1>3. 0 \in S
  BY <1>1
<1>4. ASSUME NEW n \in S PROVE n + 1 \in S
  BY <1>2
<1>5. S = Nat
  <2> HIDE DEF S
  <2>1. S \in SUBSET Nat
    BY DEF S
  <2> QED
    BY <1>3, <1>4, <2>1, SetInduction
<1> QED
  BY <1>1, <1>2, <1>5

\* Powers of two multiply.
LEMMA Pow2Sum == \A m, n \in Nat : Pow2[m + n] = Pow2[m] * Pow2[n]
<1> SUFFICES ASSUME NEW m \in Nat PROVE \A n \in Nat : Pow2[m + n] = Pow2[m] * Pow2[n]
  OBVIOUS
<1> DEFINE S == {n \in Nat : Pow2[m + n] = Pow2[m] * Pow2[n]}
<1>1. 0 \in S
  <2>1. m + 0 = m /\ Pow2[m] \in Nat
    BY Pow2Facts
  <2> QED
    BY <2>1, Pow2Facts
<1>2. ASSUME NEW n \in S PROVE n + 1 \in S
  <2>1. m + (n + 1) = (m + n) + 1 /\ m + n \in Nat
    OBVIOUS
  <2>2. Pow2[m + (n + 1)] = 2 * Pow2[m + n] /\ Pow2[n + 1] = 2 * Pow2[n]
    BY <2>1, Pow2Facts
  <2>3. PICK x \in Nat, y \in Nat : x = Pow2[m] /\ y = Pow2[n]
    BY Pow2Facts
  <2>4. 2 * (x * y) = x * (2 * y)
    OBVIOUS
  <2> QED
    BY <2>2, <2>3, <2>4
<1>3. S = Nat
  <2> HIDE DEF S
  <2>1. S \in SUBSET Nat
    BY DEF S
  <2> QED
    BY <1>1, <1>2, <2>1, SetInduction
<1> QED
  BY <1>3

\* A larger exponent gives a larger power.
LEMMA Pow2Grows ==
    ASSUME NEW m \in Nat, NEW n \in Nat, m <= n
    PROVE  Pow2[m] <= Pow2[n]
<1>1. n - m \in Nat /\ n = m + (n - m)
  OBVIOUS
<1>2. PICK x \in Nat \ {0}, y \in Nat \ {0} : x = Pow2[m] /\ y = Pow2[n - m]
  BY <1>1, Pow2Facts
<1>3. Pow2[n] = x * y
  BY <1>1, <1>2, Pow2Sum
<1>4. x <= x * y
  OBVIOUS
<1> QED
  BY <1>2, <1>3, <1>4

\* Division with rest.
LEMMA DivMod ==
    ASSUME NEW n \in Nat, NEW d \in Nat \ {0}
    PROVE  /\ n \div d \in Nat /\ n % d \in 0..(d - 1)
           /\ n = (n \div d) * d + (n % d)
<1>1. n \div d \in Nat /\ n % d \in 0..(d - 1)
  OBVIOUS
<1>2. n = d * (n \div d) + (n % d)
  OBVIOUS
<1>3. PICK q \in Nat : q = n \div d
  BY <1>1
<1>4. d * q = q * d
  OBVIOUS
<1> QED
  BY <1>1, <1>2, <1>3, <1>4

\* Quotient and remainder are unique.
LEMMA DivUnique ==
    ASSUME NEW q \in Nat, NEW d \in Nat \ {0}, NEW r \in 0..(d - 1)
    PROVE  (q * d + r) \div d = q /\ (q * d + r) % d = r
  OBVIOUS

\* How division compares.
LEMMA DivAtLeast ==
    ASSUME NEW n \in Nat, NEW d \in Nat \ {0}, NEW x \in Nat
    PROVE  x <= n \div d <=> x * d <= n
  OBVIOUS

\* Dividing twice.
LEMMA DivTwice ==
    ASSUME NEW n \in Nat, NEW d \in Nat \ {0}, NEW e \in Nat \ {0}
    PROVE  (n \div d) \div e = n \div (d * e)
  OBVIOUS

-----------------------------------------------------------------------------
(* Tiles. *)

\* How many nodes of its bottom row node k of a tile spans, up to its own end.
Top(k) == (k[2] + 1) * Pow2[k[1]]

\* The nodes of a tile whose bottom row has f nodes.
Keys(f) == {k \in (0..(TileHeight - 1)) \X Nat : Top(k) <= f}

\* The node of the tree that node k of a tile is.
NodeAt(tile, k) ==
    <<tile[1] * TileHeight + k[1], tile[2] * Pow2[TileHeight - k[1]] + k[2]>>

\* The size of the bottom row of a tile in a tree of n leaves.
Fill(tile, n) ==
    LET sizeAtLevel == n \div Pow2[tile[1] * TileHeight]
        fullTiles == sizeAtLevel \div TileWidth
    IN  IF tile[2] < fullTiles THEN TileWidth
        ELSE IF tile[2] = fullTiles THEN sizeAtLevel % TileWidth ELSE 0

\* Tile heights and widths.
LEMMA TileFacts ==
    /\ TileHeight \in Nat \ {0} /\ TileWidth \in Nat \ {0}
    /\ \A l \in 0..(TileHeight - 1) :
          /\ TileHeight - l \in Nat
          /\ Pow2[l] \in Nat \ {0} /\ Pow2[TileHeight - l] \in Nat \ {0}
          /\ Pow2[TileHeight - l] * Pow2[l] = TileWidth
    /\ \A l \in Nat : l * TileHeight \in Nat /\ Pow2[l * TileHeight] \in Nat \ {0}
<1>1. TileHeight \in Nat \ {0} /\ TileWidth \in Nat \ {0}
  BY TilesAssumption, Pow2Facts DEF TileWidth
<1>2. ASSUME NEW l \in 0..(TileHeight - 1)
      PROVE  /\ TileHeight - l \in Nat
             /\ Pow2[l] \in Nat \ {0} /\ Pow2[TileHeight - l] \in Nat \ {0}
             /\ Pow2[TileHeight - l] * Pow2[l] = TileWidth
  <2>1. TileHeight - l \in Nat /\ l \in Nat /\ (TileHeight - l) + l = TileHeight
    BY <1>1
  <2> QED
    BY <2>1, Pow2Facts, Pow2Sum DEF TileWidth
<1>3. \A l \in Nat : l * TileHeight \in Nat
  BY <1>1
<1> QED
  BY <1>1, <1>2, <1>3, Pow2Facts

\* The nodes of a tile lie in it.
LEMMA KeyFacts ==
    ASSUME NEW k \in Keys(TileWidth)
    PROVE  /\ k[1] \in 0..(TileHeight - 1) /\ k[2] \in Nat /\ k = <<k[1], k[2]>>
           /\ k[2] < Pow2[TileHeight - k[1]] /\ Top(k) \in 1..TileWidth
<1>1. k[1] \in 0..(TileHeight - 1) /\ k[2] \in Nat /\ k = <<k[1], k[2]>> /\ Top(k) <= TileWidth
  BY DEF Keys
<1>2. PICK x \in Nat \ {0}, y \in Nat \ {0} :
         x = Pow2[k[1]] /\ y = Pow2[TileHeight - k[1]] /\ y * x = TileWidth
  BY <1>1, TileFacts
<1>3. PICK o \in Nat : o = k[2]
  BY <1>1
<1>4. (o + 1) * x <= y * x
  BY <1>1, <1>2, <1>3 DEF Top
<1>5. o + 1 <= y
  BY <1>4
<1>6. (o + 1) * x \in Nat \ {0}
  OBVIOUS
<1> QED
  BY <1>1, <1>2, <1>3, <1>5, <1>6, TileFacts DEF Top

\* The address of a node leads back to it.
LEMMA AddressOf ==
    ASSUME NEW node \in Nat \X Nat
    PROVE  LET a == NodeCoordsToTileAddress(node)
           IN  a.tile \in Nat \X Nat /\ a.node \in Keys(TileWidth) /\ NodeAt(a.tile, a.node) = node
<1>1. PICK l \in Nat, i \in Nat : node = <<l, i>>
  OBVIOUS
<1>2. PICK L \in Nat, r \in 0..(TileHeight - 1) :
         L = l \div TileHeight /\ r = l % TileHeight /\ l = L * TileHeight + r
  <2>1. l \div TileHeight \in Nat /\ l % TileHeight \in 0..(TileHeight - 1)
        /\ l = (l \div TileHeight) * TileHeight + (l % TileHeight)
    BY TilesAssumption, DivMod
  <2> QED
    BY <2>1
<1>3. PICK y \in Nat \ {0}, x \in Nat \ {0} :
         y = Pow2[TileHeight - r] /\ x = Pow2[r] /\ y * x = TileWidth
  BY TileFacts
<1>4. PICK I \in Nat, o \in 0..(y - 1) : I = i \div y /\ o = i % y /\ i = I * y + o
  BY DivMod
<1>5. NodeCoordsToTileAddress(node) = [tile |-> <<L, I>>, node |-> <<r, o>>]
  BY <1>1, <1>2, <1>3, <1>4 DEF NodeCoordsToTileAddress
<1>6. (o + 1) * x <= y * x
  OBVIOUS
<1>7. <<r, o>> \in Keys(TileWidth)
  BY <1>3, <1>6 DEF Keys, Top
<1>8. NodeAt(<<L, I>>, <<r, o>>) = node
  BY <1>1, <1>2, <1>3, <1>4 DEF NodeAt
<1> QED
  BY <1>5, <1>7, <1>8

\* And every place in a tile is the address of its node.
LEMMA AddressAt ==
    ASSUME NEW tile \in Nat \X Nat, NEW k \in Keys(TileWidth)
    PROVE  /\ NodeAt(tile, k) \in Nat \X Nat
           /\ NodeCoordsToTileAddress(NodeAt(tile, k)) = [tile |-> tile, node |-> k]
<1>1. PICK L \in Nat, I \in Nat : tile = <<L, I>>
  OBVIOUS
<1>2. PICK r \in 0..(TileHeight - 1), o \in Nat : k = <<r, o>> /\ o < Pow2[TileHeight - r]
  BY KeyFacts
<1>3. PICK y \in Nat \ {0} : y = Pow2[TileHeight - r]
  BY TileFacts
<1>4. NodeAt(tile, k) = <<L * TileHeight + r, I * y + o>>
  BY <1>1, <1>2, <1>3 DEF NodeAt
<1>5. L * TileHeight + r \in Nat /\ I * y + o \in Nat
  BY TileFacts
<1>6. (L * TileHeight + r) \div TileHeight = L /\ (L * TileHeight + r) % TileHeight = r
  BY TilesAssumption, DivUnique
<1>7. (I * y + o) \div y = I /\ (I * y + o) % y = o
  <2>1. o \in 0..(y - 1)
    BY <1>2, <1>3
  <2> QED
    BY <2>1, DivUnique
<1>8. PICK l \in Nat, i \in Nat : l = L * TileHeight + r /\ i = I * y + o
  BY <1>5
<1>9. NodeCoordsToTileAddress(<<l, i>>) = [tile |-> <<L, I>>, node |-> <<r, o>>]
  BY <1>3, <1>6, <1>7, <1>8 DEF NodeCoordsToTileAddress
<1> QED
  BY <1>1, <1>2, <1>4, <1>8, <1>9

\* Where the leaves below a node end.
LEMMA LastAt ==
    ASSUME NEW tile \in Nat \X Nat, NEW k \in Keys(TileWidth)
    PROVE  Last(NodeAt(tile, k)) = (tile[2] * TileWidth + Top(k)) * Pow2[tile[1] * TileHeight]
<1>1. PICK L \in Nat, I \in Nat : tile = <<L, I>>
  OBVIOUS
<1>2. PICK r \in 0..(TileHeight - 1), o \in Nat : k = <<r, o>>
  BY KeyFacts
<1>3. PICK y \in Nat \ {0}, x \in Nat \ {0} :
         y = Pow2[TileHeight - r] /\ x = Pow2[r] /\ y * x = TileWidth
  BY TileFacts
<1>4. PICK z \in Nat \ {0} : z = Pow2[L * TileHeight]
  BY TileFacts
<1>5. Pow2[L * TileHeight + r] = z * x
  BY <1>3, <1>4, TileFacts, Pow2Sum
<1>6. Last(NodeAt(tile, k)) = ((I * y + o) + 1) * (z * x)
  BY <1>1, <1>2, <1>3, <1>5 DEF Last, NodeAt
<1>7. ((I * y + o) + 1) * (z * x) = (I * (y * x) + (o + 1) * x) * z
  OBVIOUS
<1> QED
  BY <1>1, <1>2, <1>3, <1>4, <1>6, <1>7 DEF Top

\* The leaves below a node.
LEMMA NodeFacts ==
    ASSUME NEW node \in Nat \X Nat
    PROVE  /\ First(node) \in Nat /\ Last(node) \in Nat /\ Pow2[node[1]] \in Nat \ {0}
           /\ Last(node) = First(node) + Pow2[node[1]]
           /\ node[1] < Last(node) /\ node[2] < Last(node) /\ Pow2[node[1]] <= Last(node)
<1>1. PICK l \in Nat, i \in Nat : node = <<l, i>>
  OBVIOUS
<1>2. PICK x \in Nat \ {0} : x = Pow2[l] /\ l < x
  BY Pow2Facts
<1>3. First(node) = i * x /\ Last(node) = (i + 1) * x
  BY <1>1, <1>2 DEF First, Last
<1>4. /\ i * x \in Nat /\ (i + 1) * x = i * x + x
      /\ i + 1 <= (i + 1) * x
  OBVIOUS
<1> QED
  BY <1>1, <1>2, <1>3, <1>4

\* The end of a node of a tile is a number.
LEMMA LastIsNat ==
    ASSUME NEW tile \in Nat \X Nat, NEW k \in Keys(TileWidth)
    PROVE  Last(NodeAt(tile, k)) \in Nat
BY AddressAt, NodeFacts

\* The nodes of a tile that a tree of n leaves has.
LEMMA InTree ==
    ASSUME NEW tile \in Nat \X Nat, NEW k \in Keys(TileWidth), NEW n \in Nat
    PROVE  Last(NodeAt(tile, k)) <= n <=> Top(k) <= Fill(tile, n)
<1>1. PICK I \in Nat, z \in Nat \ {0}, W \in Nat \ {0}, c \in Nat :
         I = tile[2] /\ z = Pow2[tile[1] * TileHeight] /\ W = TileWidth /\ c = Top(k) /\ c \in 1..W
  BY TileFacts, KeyFacts
<1>2. PICK m \in Nat : m = n \div z
  BY DivMod
<1>3. PICK q \in Nat, r \in 0..(W - 1) : q = m \div W /\ r = m % W /\ m = q * W + r
  <2>1. m \div W \in Nat /\ m % W \in 0..(W - 1) /\ m = (m \div W) * W + (m % W)
    BY DivMod
  <2> QED
    BY <2>1
<1>4. Last(NodeAt(tile, k)) = (I * W + c) * z
  BY <1>1, LastAt
<1>5. Last(NodeAt(tile, k)) <= n <=> I * W + c <= q * W + r
  <2>1. I * W + c \in Nat
    OBVIOUS
  <2> QED
    BY <1>2, <1>3, <1>4, <2>1, DivAtLeast
<1>6. Fill(tile, n) = IF I < q THEN W ELSE IF I = q THEN r ELSE 0
  BY <1>1, <1>2, <1>3 DEF Fill
<1>7. CASE I < q
  <2>1. (I + 1) * W <= q * W
    BY <1>7
  <2>2. I * W + c <= q * W + r
    BY <1>1, <2>1
  <2> QED
    BY <1>1, <1>5, <1>6, <1>7, <2>2
<1>8. CASE I = q
  BY <1>1, <1>5, <1>6, <1>8
<1>9. CASE I > q
  <2>1. (q + 1) * W <= I * W
    BY <1>9
  <2>2. ~ (I * W + c <= q * W + r)
    BY <1>1, <2>1
  <2> QED
    BY <1>1, <1>5, <1>6, <1>9, <2>2
<1> QED
  BY <1>7, <1>8, <1>9

\* The file of a tile of a tree of n leaves is named after its fill.
LEMMA FillFacts ==
    ASSUME NEW tile \in Nat \X Nat, NEW n \in Nat
    PROVE  /\ Fill(tile, n) \in 0..TileWidth
           /\ PartialTileSize(tile[1], tile[2], n) \in 0..(TileWidth - 1)
           /\ Fill(tile, n) > 0 => PartialTileSize(tile[1], tile[2], n) = Fill(tile, n) % TileWidth
<1>1. PICK I \in Nat, z \in Nat \ {0}, W \in Nat \ {0} :
         I = tile[2] /\ z = Pow2[tile[1] * TileHeight] /\ W = TileWidth
  BY TileFacts
<1>2. PICK m \in Nat : m = n \div z
  BY DivMod
<1>3. PICK q \in Nat, r \in 0..(W - 1) : q = m \div W /\ r = m % W
  <2>1. m \div W \in Nat /\ m % W \in 0..(W - 1)
    BY DivMod
  <2> QED
    BY <2>1
<1>4. Fill(tile, n) = IF I < q THEN W ELSE IF I = q THEN r ELSE 0
  BY <1>1, <1>2, <1>3 DEF Fill
<1>5. PartialTileSize(tile[1], tile[2], n) = IF I < q THEN 0 ELSE r
  BY <1>1, <1>2, <1>3 DEF PartialTileSize
<1>6. W % W = 0
  <2>1. (1 * W + 0) % W = 0
    BY DivUnique
  <2> QED
    BY <2>1
<1>7. r % W = r
  <2>1. (0 * W + r) % W = r
    BY DivUnique
  <2> QED
    BY <2>1
<1> QED
  BY <1>1, <1>4, <1>5, <1>6, <1>7

\* The bottom row of a tile, whose last node has all the leaves that the tile has.
LEMMA RowFacts ==
    ASSUME NEW f \in 0..TileWidth
    PROVE  /\ Keys(f) \subseteq Keys(TileWidth)
           /\ \A o \in Nat : <<0, o>> \in Keys(f) <=> o < f
           /\ \A o \in Nat : Top(<<0, o>>) = o + 1
<1>1. \A o \in Nat : Top(<<0, o>>) = o + 1
  BY Pow2Facts DEF Top
<1>2. ASSUME NEW k \in Keys(f) PROVE k \in Keys(TileWidth)
  <2>1. k \in (0..(TileHeight - 1)) \X Nat /\ Top(k) <= f
    BY DEF Keys
  <2>2. PICK x \in Nat, o \in Nat : x = Pow2[k[1]] /\ o = k[2]
    BY <2>1, TileFacts
  <2>3. Top(k) \in Nat
    BY <2>2 DEF Top
  <2> QED
    BY <2>1, <2>3, TileFacts DEF Keys
<1>3. 0 \in 0..(TileHeight - 1)
  BY TilesAssumption
<1> QED
  BY <1>1, <1>2, <1>3 DEF Keys

\* Fill grows with the tree, and stays while no node is added to the tile.
LEMMA FillGrows ==
    ASSUME NEW tile \in Nat \X Nat, NEW m \in Nat, NEW n \in Nat, m <= n
    PROVE  /\ Fill(tile, m) <= Fill(tile, n)
           /\ \/ Fill(tile, n) = Fill(tile, m)
              \/ \E k \in Keys(Fill(tile, n)) : m < Last(NodeAt(tile, k))
<1>1. Fill(tile, m) \in 0..TileWidth /\ Fill(tile, n) \in 0..TileWidth
  BY FillFacts
<1>2. ASSUME NEW f \in 1..TileWidth
      PROVE  /\ <<0, f - 1>> \in Keys(f) /\ <<0, f - 1>> \in Keys(TileWidth)
             /\ Top(<<0, f - 1>>) = f
  BY <1>2, RowFacts
<1>3. Fill(tile, m) <= Fill(tile, n)
  <2>1. CASE Fill(tile, m) = 0
    BY <1>1, <2>1
  <2>2. CASE Fill(tile, m) > 0
    <3> DEFINE k == <<0, Fill(tile, m) - 1>>
    <3>1. k \in Keys(TileWidth) /\ Top(k) = Fill(tile, m)
      BY <1>1, <1>2, <2>2
    <3> HIDE DEF k
    <3>2. Last(NodeAt(tile, k)) \in Nat
      BY <3>1, LastIsNat
    <3>3. Last(NodeAt(tile, k)) <= m
      BY <1>1, <3>1, InTree
    <3>4. Last(NodeAt(tile, k)) <= n
      BY <3>2, <3>3
    <3> QED
      BY <3>1, <3>4, InTree
  <2> QED
    BY <1>1, <2>1, <2>2
<1>4. ASSUME Fill(tile, m) < Fill(tile, n)
      PROVE  \E k \in Keys(Fill(tile, n)) : m < Last(NodeAt(tile, k))
  <2> DEFINE k == <<0, Fill(tile, n) - 1>>
  <2>1. k \in Keys(Fill(tile, n)) /\ k \in Keys(TileWidth) /\ Top(k) = Fill(tile, n)
    BY <1>1, <1>2, <1>4
  <2> HIDE DEF k
  <2>2. Last(NodeAt(tile, k)) \in Nat
    BY <2>1, LastIsNat
  <2>3. ~ (Last(NodeAt(tile, k)) <= m)
    BY <1>1, <1>4, <2>1, InTree
  <2> QED
    BY <2>1, <2>2, <2>3
<1> QED
  BY <1>1, <1>3, <1>4

-----------------------------------------------------------------------------
(* Ranges. *)

\* The nodes of a range are nodes of the tree.
LEMMA RangeNodesInTree ==
    ASSUME NEW s \in Nat, NEW node \in RangeNodes(s)
    PROVE  node \in Nat \X Nat /\ Last(node) <= s
<1>1. PICK l \in Levels(s) : (s \div Pow2[l]) % 2 = 1 /\ node = <<l, (s \div Pow2[l]) - 1>>
  BY DEF RangeNodes
<1>2. l \in Nat
  BY DEF Levels
<1>3. PICK x \in Nat \ {0} : x = Pow2[l]
  BY <1>2, Pow2Facts
<1>4. PICK q \in Nat : q = s \div x /\ q * x <= s
  <2>1. s \div x \in Nat /\ s % x \in 0..(x - 1) /\ s = (s \div x) * x + (s % x)
    BY DivMod
  <2>2. PICK q \in Nat, r \in Nat : q = s \div x /\ s = q * x + r
    BY <2>1
  <2> QED
    BY <2>2
<1>5. q % 2 = 1
  BY <1>1, <1>3, <1>4
<1>6. q # 0
  BY <1>5
<1>7. node = <<l, q - 1>> /\ q - 1 \in Nat /\ (q - 1) + 1 = q
  BY <1>1, <1>3, <1>4, <1>6
<1> QED
  BY <1>2, <1>3, <1>4, <1>7 DEF Last

\* They cover the tree: a leaf at which the levels up to l end, and those up to
\* l + 1 do not, is below the node that stands for bit l.
LEMMA RangeCovers ==
    ASSUME NEW s \in Nat, NEW i \in 1..s
    PROVE  \E node \in RangeNodes(s) : First(node) < i /\ i <= Last(node)
<1> SUFFICES ASSUME ~ \E node \in RangeNodes(s) : First(node) < i /\ i <= Last(node)
             PROVE  FALSE
  OBVIOUS
<1> DEFINE S == {l \in Nat : i <= (s \div Pow2[l]) * Pow2[l]}
<1>1. 0 \in S
  <2>1. s \div 1 = s
    OBVIOUS
  <2> QED
    BY <2>1, Pow2Facts
<1>2. ASSUME NEW l \in S PROVE l + 1 \in S
  <2>1. PICK x \in Nat \ {0} : x = Pow2[l] /\ Pow2[l + 1] = 2 * x /\ l < x
    BY Pow2Facts
  <2>2. PICK q \in Nat : q = s \div x /\ q * x <= s
    <3>1. s \div x \in Nat /\ s % x \in 0..(x - 1) /\ s = (s \div x) * x + (s % x)
      BY DivMod
    <3>2. PICK q \in Nat, r \in Nat : q = s \div x /\ s = q * x + r
      BY <3>1
    <3> QED
      BY <3>2
  <2>3. PICK h \in Nat, b \in 0..1 : h = q \div 2 /\ b = q % 2 /\ q = h * 2 + b
    <3>1. q \div 2 \in Nat /\ q % 2 \in 0..(2 - 1) /\ q = (q \div 2) * 2 + (q % 2)
      BY DivMod
    <3> QED
      BY <3>1
  <2>4. s \div (2 * x) = h
    <3>1. x * 2 = 2 * x /\ (s \div x) \div 2 = s \div (x * 2)
      BY DivTwice
    <3> QED
      BY <2>2, <2>3, <3>1
  <2>5. i <= q * x
    BY <2>1, <2>2
  <2>6. CASE b = 0
    <3>1. q * x = h * (2 * x)
      BY <2>3, <2>6
    <3> QED
      BY <2>1, <2>4, <2>5, <3>1
  <2>7. CASE b = 1
    <3>1. q \in Nat \ {0} /\ q - 1 = h * 2 /\ (q - 1) + 1 = q
      BY <2>3, <2>7
    <3>2. x <= q * x
      BY <3>1
    <3>3. l \in Levels(s)
      BY <2>1, <2>2, <3>2 DEF Levels
    <3>4. <<l, q - 1>> \in RangeNodes(s)
      BY <2>1, <2>2, <2>3, <2>7, <3>3 DEF RangeNodes
    <3>5. Last(<<l, q - 1>>) = q * x /\ First(<<l, q - 1>>) = (q - 1) * x
      BY <2>1, <3>1 DEF First, Last
    <3>6. ~ ((q - 1) * x < i)
      BY <2>5, <3>4, <3>5
    <3>7. (q - 1) * x = h * (2 * x) /\ h * (2 * x) \in Nat
      BY <3>1
    <3>8. i <= h * (2 * x)
      BY <3>6, <3>7
    <3> QED
      BY <2>1, <2>4, <3>8
  <2> QED
    BY <2>6, <2>7
<1>3. S = Nat
  <2> HIDE DEF S
  <2>1. S \in SUBSET Nat
    BY DEF S
  <2> QED
    BY <1>1, <1>2, <2>1, SetInduction
<1>4. i <= (s \div Pow2[s]) * Pow2[s]
  BY <1>3
<1>5. PICK x \in Nat \ {0} : x = Pow2[s] /\ s < x
  BY Pow2Facts
<1>6. s \div x = 0
  <2>1. s = 0 * x + s /\ s \in 0..(x - 1)
    BY <1>5
  <2> QED
    BY <2>1, DivUnique
<1> QED
  BY <1>4, <1>5, <1>6

\* A tile that is not full has a node of the range: the leaves that it ends
\* with are covered, and by no node of a lower or a higher tile.
LEMMA PartialInRange ==
    ASSUME NEW tile \in Nat \X Nat, NEW n \in Nat,
           Fill(tile, n) > 0, Fill(tile, n) < TileWidth
    PROVE  \E node \in RangeNodes(n) : NodeCoordsToTileAddress(node).tile = tile
<1>1. PICK L \in Nat, I \in Nat, H \in Nat \ {0}, W \in Nat \ {0} :
         tile = <<L, I>> /\ H = TileHeight /\ W = TileWidth
  BY TileFacts
<1>2. PICK B \in Nat, z \in Nat \ {0} : B = L * H /\ z = Pow2[B] /\ Pow2[L * TileHeight] = z
  BY <1>1, TileFacts
<1>3. PICK m \in Nat : m = n \div z
  BY DivMod
<1>4. PICK q \in Nat, r \in 0..(W - 1) : q = m \div W /\ r = m % W /\ m = q * W + r
  <2>1. m \div W \in Nat /\ m % W \in 0..(W - 1) /\ m = (m \div W) * W + (m % W)
    BY DivMod
  <2> QED
    BY <2>1
<1>Twice. (n \div z) \div W = n \div (z * W)
  BY DivTwice
<1>5. I = q /\ r > 0
  <2>1. Fill(tile, n) = IF I < q THEN W ELSE IF I = q THEN r ELSE 0
    BY <1>1, <1>2, <1>3, <1>4 DEF Fill
  <2> QED
    BY <1>1, <2>1
<1>6. PICK i \in Nat : i = m * z
  OBVIOUS
<1>7. i \in 1..n
  <2>1. m \in Nat \ {0}
    BY <1>4, <1>5
  <2>2. i >= 1
    BY <1>6, <2>1, ProductFacts
  <2>3. m * z <= n
    BY <1>3, DivAtLeast
  <2> QED
    BY <1>6, <2>2, <2>3
<1>8. PICK node \in RangeNodes(n) : First(node) < i /\ i <= Last(node)
  BY <1>7, RangeCovers
<1>9. node \in Nat \X Nat /\ Last(node) <= n
  BY RangeNodesInTree
<1>10. PICK l \in Nat : (n \div Pow2[l]) % 2 = 1 /\ node = <<l, (n \div Pow2[l]) - 1>>
  BY DEF RangeNodes, Levels
<1>11. PICK x \in Nat \ {0} : x = Pow2[l] /\ Pow2[l + 1] = 2 * x
  BY Pow2Facts
<1>12. PICK Q \in Nat : Q = n \div x
  BY DivMod
<1>13. PICK h \in Nat : h = Q \div 2 /\ Q = 2 * h + 1
  <2>1. Q \div 2 \in Nat /\ Q = (Q \div 2) * 2 + (Q % 2) /\ Q % 2 = 1
    <3>1. Q \div 2 \in Nat /\ Q % 2 \in 0..(2 - 1) /\ Q = (Q \div 2) * 2 + (Q % 2)
      BY DivMod
    <3> QED
      BY <1>10, <1>11, <1>12, <3>1
  <2> QED
    BY <2>1
<1>14. First(node) = (2 * h) * x /\ Last(node) = Q * x
  BY <1>10, <1>11, <1>12, <1>13 DEF First, Last
<1>15. ~ (l + 1 <= B)
  <2> SUFFICES ASSUME l + 1 <= B PROVE FALSE
    OBVIOUS
  <2>1. B - (l + 1) \in Nat /\ B = (l + 1) + (B - (l + 1))
    OBVIOUS
  <2>2. PICK y \in Nat \ {0} : y = Pow2[B - (l + 1)]
    BY <2>1, Pow2Facts
  <2>3. z = (2 * x) * y
    BY <1>2, <1>11, <2>1, <2>2, Pow2Sum
  <2>4. n \div (2 * x) = h
    <3>1. x * 2 = 2 * x /\ (n \div x) \div 2 = n \div (x * 2)
      BY DivTwice
    <3> QED
      BY <1>12, <1>13, <3>1
  <2>5. PICK u \in Nat : u = m * y
    OBVIOUS
  <2>6. PICK v \in Nat \ {0} : v = 2 * x
    OBVIOUS
  <2>7. i = u * v
    <3>1. m * (v * y) = (m * y) * v
      BY <2>6
    <3> QED
      BY <1>6, <2>3, <2>5, <2>6, <3>1
  <2>8. u <= h
    <3>1. u * v <= n
      BY <1>7, <2>7
    <3>2. n \div v = h
      BY <2>4, <2>6
    <3> QED
      BY <3>1, <3>2, DivAtLeast
  <2>9. u * v <= h * v
    BY <2>8, ProductFacts
  <2>10. h * v = (2 * h) * x
    BY <2>6
  <2> QED
    BY <1>8, <1>14, <2>7, <2>9, <2>10
<1>16. ~ (B + H <= l)
  <2> SUFFICES ASSUME B + H <= l PROVE FALSE
    OBVIOUS
  <2>1. l - (B + H) \in Nat /\ l = (B + H) + (l - (B + H)) /\ B + H \in Nat
    OBVIOUS
  <2>2. PICK y \in Nat \ {0} : y = Pow2[l - (B + H)]
    BY <2>1, Pow2Facts
  <2>3. Pow2[B + H] = z * W
    BY <1>1, <1>2, Pow2Sum DEF TileWidth
  <2>4. PICK v \in Nat \ {0} : v = z * W
    BY ProductFacts
  <2>5. x = v * y
    BY <1>11, <2>1, <2>2, <2>3, <2>4, Pow2Sum
  <2>6. n \div v = q
    BY <1>3, <1>4, <2>4, <1>Twice
  <2>7. PICK u \in Nat : u = Q * y
    OBVIOUS
  <2>8. Last(node) = u * v
    <3>1. Q * (v * y) = (Q * y) * v
      OBVIOUS
    <3> QED
      BY <1>14, <2>5, <2>7, <3>1
  <2>9. u <= q
    BY <1>9, <2>6, <2>8, DivAtLeast
  <2>10. u * v <= q * v
    BY <2>9, ProductFacts
  <2>11. q * v = (q * W) * z
    BY <2>4
  <2>12. m * z = (q * W) * z + r * z
    <3>1. q * W \in Nat
      OBVIOUS
    <3> QED
      BY <1>4, <3>1, ProductFacts
  <2>13. r * z >= 1
    <3>1. r \in Nat \ {0}
      BY <1>5
    <3> QED
      BY <3>1, ProductFacts
  <2>14. q * v \in Nat /\ (q * W) * z \in Nat /\ r * z \in Nat /\ u * v \in Nat
    OBVIOUS
  <2> QED
    BY <1>6, <1>8, <2>8, <2>10, <2>11, <2>12, <2>13, <2>14
<1>17. PICK t \in Nat \X Nat, k \in Keys(TileWidth) :
          t = NodeCoordsToTileAddress(node).tile /\ NodeAt(t, k) = node
  BY <1>9, AddressOf
<1>18. PICK T \in Nat, J \in Nat : t = <<T, J>>
  OBVIOUS
<1>19. PICK d \in 0..(H - 1), c \in 1..W : d = k[1] /\ c = Top(k)
  BY <1>1, KeyFacts
<1>20. T = L
  <2>1. l = T * H + d
    BY <1>1, <1>10, <1>17, <1>18, <1>19 DEF NodeAt
  <2>2. L * H <= T * H + d /\ T * H + d < L * H + H
    BY <1>2, <1>15, <1>16, <2>1
  <2>3. CASE T < L
    <3>1. (T + 1) * H <= L * H
      BY <2>3
    <3> QED
      BY <2>2, <3>1
  <2>4. CASE L < T
    <3>1. (L + 1) * H <= T * H
      BY <2>4
    <3> QED
      BY <2>2, <3>1
  <2> QED
    BY <2>3, <2>4
<1>21. q <= J
  <2>1. Last(node) = (J * W + c) * z
    BY <1>1, <1>2, <1>17, <1>18, <1>19, <1>20, LastAt
  <2>2. m * z <= (J * W + c) * z
    BY <1>6, <1>8, <2>1
  <2>3. m <= J * W + c
    <3> SUFFICES ASSUME J * W + c + 1 <= m PROVE FALSE
      OBVIOUS
    <3>1. PICK e \in Nat : e = J * W + c
      OBVIOUS
    <3>2. (e + 1) * z <= m * z
      BY <3>1, ProductFacts
    <3>3. (e + 1) * z = e * z + z
      BY <3>1
    <3>4. e * z \in Nat /\ m * z \in Nat
      BY <3>1
    <3> QED
      BY <2>2, <3>1, <3>2, <3>3, <3>4
  <2> SUFFICES ASSUME J + 1 <= q PROVE FALSE
    OBVIOUS
  <2>4. (J + 1) * W <= q * W
    BY ProductFacts
  <2> QED
    BY <1>4, <1>5, <2>3, <2>4
<1>22. J <= q
  <2>1. c <= Fill(t, n)
    BY <1>9, <1>17, <1>19, InTree
  <2>2. Fill(t, n) = IF J < q THEN W ELSE IF J = q THEN r ELSE 0
    BY <1>1, <1>2, <1>3, <1>4, <1>18, <1>20 DEF Fill
  <2> QED
    BY <2>1, <2>2
<1> QED
  <2>1. J = I
    BY <1>5, <1>21, <1>22
  <2>2. t = tile
    BY <1>1, <1>18, <1>20, <2>1
  <2> QED
    BY <1>17, <2>2

\* The nodes that a growing tree completes.
LEMMA VisitedIs ==
    ASSUME NEW s \in Nat, NEW n \in Nat, NEW node
    PROVE  node \in VisitedNodes(s, n) <=>
              node \in Nat \X Nat /\ s < Last(node) /\ Last(node) <= n
<1>1. ASSUME node \in Nat \X Nat, Last(node) <= n
      PROVE  node \in Levels(n) \X (0..n)
  <2>1. PICK l \in Nat, i \in Nat, m \in Nat, x \in Nat :
           /\ l = node[1] /\ i = node[2] /\ m = Last(node) /\ x = Pow2[l] /\ node = <<l, i>>
           /\ l < m /\ i < m /\ x <= m
    BY <1>1, NodeFacts
  <2>2. m <= n
    BY <1>1, <2>1
  <2>3. l \in 0..n /\ i \in 0..n /\ x <= n
    BY <2>1, <2>2
  <2> QED
    BY <2>1, <2>3 DEF Levels
<1>2. ASSUME node \in Levels(n) \X (0..n) PROVE node \in Nat \X Nat
  BY <1>2 DEF Levels
<1> QED
  BY <1>1, <1>2 DEF VisitedNodes

\* A tree of no leaves has no tiles.
LEMMA FillOfEmpty == \A tile \in Nat \X Nat : Fill(tile, 0) = 0
<1> SUFFICES ASSUME NEW tile \in Nat \X Nat PROVE Fill(tile, 0) = 0
  OBVIOUS
<1>1. PICK z \in Nat \ {0}, W \in Nat \ {0}, I \in Nat :
         z = Pow2[tile[1] * TileHeight] /\ W = TileWidth /\ I = tile[2]
  BY TileFacts
<1>2. 0 \div z = 0 /\ 0 \div W = 0 /\ 0 % W = 0
  OBVIOUS
<1> QED
  BY <1>1, <1>2 DEF Fill

\* A tile of the larger tree is as it was, or gets one of the new nodes.
LEMMA VisitedTiles ==
    ASSUME NEW tile \in Nat \X Nat, NEW m \in Nat, NEW n \in Nat, m <= n, Fill(tile, n) > 0
    PROVE  \/ Fill(tile, n) = Fill(tile, m)
           \/ \E node \in VisitedNodes(m, n) : NodeCoordsToTileAddress(node).tile = tile
<1> SUFFICES ASSUME NEW k \in Keys(Fill(tile, n)), m < Last(NodeAt(tile, k))
             PROVE  \E node \in VisitedNodes(m, n) : NodeCoordsToTileAddress(node).tile = tile
  BY FillGrows
<1>1. k \in Keys(TileWidth) /\ Top(k) <= Fill(tile, n)
  BY FillFacts, RowFacts DEF Keys
<1>2. /\ NodeAt(tile, k) \in Nat \X Nat /\ Last(NodeAt(tile, k)) <= n
      /\ NodeCoordsToTileAddress(NodeAt(tile, k)).tile = tile
  BY <1>1, InTree, AddressAt
<1>3. NodeAt(tile, k) \in VisitedNodes(m, n)
  BY <1>2, VisitedIs
<1> QED
  BY <1>2, <1>3

\* And a new node is in a tile of the larger tree.
LEMMA VisitedAddress ==
    ASSUME NEW m \in Nat, NEW n \in Nat, NEW node \in VisitedNodes(m, n)
    PROVE  LET a == NodeCoordsToTileAddress(node)
           IN  /\ a.tile \in Nat \X Nat /\ a.node \in Keys(TileWidth)
               /\ NodeAt(a.tile, a.node) = node /\ node \in Nat \X Nat
               /\ Top(a.node) \in 1..Fill(a.tile, n) /\ Fill(a.tile, n) \in 1..TileWidth
<1> DEFINE tile == NodeCoordsToTileAddress(node).tile
           k == NodeCoordsToTileAddress(node).node
<1>1. node \in Nat \X Nat /\ Last(node) <= n
  BY VisitedIs
<1>2. tile \in Nat \X Nat /\ k \in Keys(TileWidth) /\ NodeAt(tile, k) = node
  BY <1>1, AddressOf
<1> HIDE DEF tile, k
<1>3. Top(k) <= Fill(tile, n) /\ Top(k) \in 1..TileWidth
  BY <1>1, <1>2, InTree, KeyFacts
<1>4. Fill(tile, n) \in 0..TileWidth /\ TileWidth \in Nat
  BY <1>2, FillFacts, TileFacts
<1>5. Top(k) \in 1..Fill(tile, n) /\ Fill(tile, n) \in 1..TileWidth
  BY <1>3, <1>4
<1> QED
  BY <1>1, <1>2, <1>5 DEF tile, k

-----------------------------------------------------------------------------
(* Sequences. *)

\* A function on 1..n is a sequence of length n.
LEMMA FunctionIsSequence ==
    ASSUME NEW n \in Nat, NEW f, f = [i \in 1..n |-> f[i]]
    PROVE  IsSequence(f) /\ Len(f) = n
<1>1. DOMAIN f = 1..n
  OBVIOUS
<1>2. f \in [1..n -> {f[i] : i \in 1..n}]
  OBVIOUS
<1>3. f \in Seq({f[i] : i \in 1..n})
  BY <1>2
<1> QED
  BY <1>1, <1>3 DEF IsSequence

\* Appending keeps a sequence a sequence and makes it one longer.
LEMMA AppendIsSequence ==
    ASSUME NEW s, IsSequence(s), NEW x
    PROVE  /\ IsSequence(Append(s, x)) /\ Len(Append(s, x)) = Len(s) + 1
           /\ Len(s) \in Nat
<1> DEFINE V == {s[i] : i \in DOMAIN s}
           t == Append(s, x)
<1>1. s \in Seq(V \cup {x})
  <2>1. s \in Seq(V)
    BY DEF IsSequence
  <2>2. Len(s) \in Nat /\ s \in [1..Len(s) -> V]
    BY <2>1
  <2>3. s \in [1..Len(s) -> V \cup {x}]
    BY <2>2
  <2> QED
    BY <2>2, <2>3
<1>2. /\ t \in Seq(V \cup {x}) /\ Len(t) = Len(s) + 1 /\ Len(s) \in Nat
      /\ DOMAIN t = 1..Len(t)
  <2>1. ASSUME NEW W, s \in Seq(W), x \in W
        PROVE  /\ Append(s, x) \in Seq(W) /\ Len(Append(s, x)) = Len(s) + 1
               /\ Len(s) \in Nat
               /\ DOMAIN Append(s, x) = 1..Len(Append(s, x))
    BY <2>1
  <2> QED
    BY <1>1, <2>1
<1> HIDE DEF t
<1>3. t = [i \in 1..Len(t) |-> t[i]]
  <2>1. t \in [1..Len(t) -> V \cup {x}]
    BY <1>2
  <2> QED
    BY <2>1
<1>4. IsSequence(t)
  BY <1>2, <1>3, FunctionIsSequence
<1> QED
  BY <1>2, <1>4 DEF t

\* The empty tuple is the sequence of length 0.
LEMMA EmptyIsSequence == IsSequence(<<>>) /\ Len(<<>>) = 0
  BY DEF IsSequence

\* The length of a sequence is a number.
LEMMA LenIsNat == ASSUME NEW s, IsSequence(s) PROVE Len(s) \in Nat
  BY DEF IsSequence

-----------------------------------------------------------------------------
(* Trees of sequenced entries. *)

\* The hash of a node, of the entries that are sequenced.
Part(sq, a, x) == [j \in 1..x |-> sq[a + (j - 1)]]
HashOf(sq, node) == Part(sq, First(node), Pow2[node[1]])

\* The size of the bottom row, as a file name says.
RowOf(p) == IF p[3] = 0 THEN TileWidth ELSE p[3]

\* The leaves of tree t are the sequenced entries.
Agrees(sq, t) ==
    IsSequence(t) /\ \A i \in 1..Len(t) : i - 1 \in DOMAIN sq /\ sq[i - 1] = t[i]

\* A part of a sequence.
LEMMA SubSeqIs ==
    ASSUME NEW V, NEW t \in Seq(V), NEW a \in Nat, NEW x \in Nat \ {0}, a + x <= Len(t)
    PROVE  SubSeq(t, a + 1, a + x) = [j \in 1..x |-> t[a + j]]
<1> DEFINE s == SubSeq(t, a + 1, a + x)
<1>1. Len(t) \in Nat
  OBVIOUS
<1>2. s \in Seq(V) /\ Len(s) = x
  BY <1>1
<1>3. \A j \in 1..x : s[j] = t[a + j]
  BY <1>1
<1> HIDE DEF s
<1>4. s = [j \in 1..x |-> t[a + j]]
  BY <1>2, <1>3
<1> QED
  BY <1>4 DEF s

\* A part of a tree that agrees with the entries.
LEMMA PartIs ==
    ASSUME NEW sq, NEW t, Agrees(sq, t), NEW a \in Nat, NEW x \in Nat \ {0},
           NEW n \in Nat, n = Len(t), a + x <= n
    PROVE  SubSeq(t, a + 1, a + x) = Part(sq, a, x)
<1>1. PICK V : t \in Seq(V)
  BY DEF IsSequence, Agrees
<1>2. SubSeq(t, a + 1, a + x) = [j \in 1..x |-> t[a + j]]
  BY <1>1, SubSeqIs
<1>3. ASSUME NEW j \in 1..x PROVE t[a + j] = sq[a + (j - 1)]
  <2>1. a + j \in 1..n /\ (a + j) - 1 = a + (j - 1)
    OBVIOUS
  <2> QED
    BY <2>1 DEF Agrees
<1> QED
  BY <1>2, <1>3 DEF Part

\* A node of such a tree has the hash of the entries.
LEMMA NodeHashIs ==
    ASSUME NEW sq, NEW t, Agrees(sq, t), NEW node \in Nat \X Nat,
           NEW n \in Nat, n = Len(t), NEW m \in Nat, m = Last(node), m <= n
    PROVE  NodeHash(t, node) = HashOf(sq, node)
<1>1. PICK a \in Nat, x \in Nat \ {0} :
         a = First(node) /\ x = Pow2[node[1]] /\ Last(node) = a + x
  BY NodeFacts
<1>2. a + x <= n
  BY <1>1
<1>3. SubSeq(t, a + 1, a + x) = Part(sq, a, x)
  BY <1>2, PartIs
<1>4. NodeHash(t, node) = SubSeq(t, a + 1, a + x)
  BY <1>1, Zenon DEF NodeHash
<1>5. HashOf(sq, node) = Part(sq, a, x)
  BY <1>1, Zenon DEF HashOf
<1> QED
  BY <1>3, <1>4, <1>5, Zenon

\* The size of the bottom row of a file.
LEMMA RowOfFacts ==
    ASSUME NEW p \in Nat \X Nat \X (0..(TileWidth - 1))
    PROVE  RowOf(p) \in 1..TileWidth /\ <<p[1], p[2]>> \in Nat \X Nat
BY TileFacts DEF RowOf

\* And so do trees.
LEMMA AgreesStays ==
    ASSUME NEW sq, NEW sr, \A i \in DOMAIN sq : i \in DOMAIN sr /\ sr[i] = sq[i],
           NEW t, Agrees(sq, t)
    PROVE  Agrees(sr, t)
BY DEF Agrees

-----------------------------------------------------------------------------
(* The entries with the numbers 0 to n - 1, in their order. *)

\* There are n of them.
LEMMA CountIs == ASSUME NEW n \in Nat PROVE Cardinality(0..(n - 1)) = n
  BY FS_Interval

InOrder(sq, n) == [i \in 1..n |-> sq[i - 1]]

\* They make a sequence.
LEMMA InOrderFacts ==
    ASSUME NEW sq, NEW n \in Nat
    PROVE  /\ InOrder(sq, n) \in Seq({sq[i - 1] : i \in 1..n}) /\ Len(InOrder(sq, n)) = n
           /\ \A i \in 1..n : InOrder(sq, n)[i] = sq[i - 1]
<1> DEFINE f == InOrder(sq, n)
           V == {sq[i - 1] : i \in 1..n}
<1>1. f = [i \in 1..n |-> sq[i - 1]]
  BY DEF InOrder
<1> HIDE DEF f
<1>2. \A i \in 1..n : f[i] = sq[i - 1]
  BY <1>1
<1>3. f \in [1..n -> V]
  BY <1>1
<1>4. f \in Seq(V) /\ Len(f) = n
  <2> HIDE DEF V
  <2> QED
    BY <1>3
<1> QED
  BY <1>2, <1>4 DEF f

\* The next number makes it longer by one entry.
LEMMA InOrderGrows ==
    ASSUME NEW sq, NEW sr, NEW n \in Nat,
           \A i \in 0..(n - 1) : sr[i] = sq[i]
    PROVE  InOrder(sr, n + 1) = Append(InOrder(sq, n), sr[n])
<1> DEFINE f == InOrder(sq, n)
           g == InOrder(sr, n + 1)
           x == sr[n]
           V == {sq[i - 1] : i \in 1..n} \cup {x}
<1>1. f \in Seq({sq[i - 1] : i \in 1..n}) /\ Len(f) = n /\ \A i \in 1..n : f[i] = sq[i - 1]
  BY InOrderFacts
<1>2. Len(g) = n + 1 /\ DOMAIN g = 1..(n + 1) /\ \A i \in 1..(n + 1) : g[i] = sr[i - 1]
  BY InOrderFacts, n + 1 \in Nat DEF InOrder
<1>3. g = [i \in 1..(n + 1) |-> g[i]]
  BY <1>2 DEF InOrder
<1> HIDE DEF f, g, x
<1>4. f \in Seq(V)
  <2> DEFINE W == {sq[i - 1] : i \in 1..n}
  <2>1. W \subseteq V
    OBVIOUS
  <2> HIDE DEF W, V
  <2>2. f \in [1..n -> W]
    <3>1. f \in Seq(W) /\ Len(f) = n
      BY <1>1 DEF W
    <3> QED
      BY <3>1
  <2>3. f \in [1..n -> V]
    BY <2>1, <2>2
  <2> QED
    BY <2>3
<1>5. x \in V
  OBVIOUS
<1> HIDE DEF V
<1>6. /\ Append(f, x) \in Seq(V) /\ Len(Append(f, x)) = n + 1
      /\ \A i \in 1..n : Append(f, x)[i] = f[i]
      /\ Append(f, x)[n + 1] = x
  <2>1. ASSUME NEW W, NEW s \in Seq(W), NEW y \in W, Len(s) = n
        PROVE  /\ Append(s, y) \in Seq(W) /\ Len(Append(s, y)) = n + 1
               /\ \A i \in 1..n : Append(s, y)[i] = s[i]
               /\ Append(s, y)[n + 1] = y
    BY <2>1, AppendProperties
  <2> QED
    BY <1>1, <1>4, <1>5, <2>1
<1>7. \A i \in 1..(n + 1) : g[i] = Append(f, x)[i]
  <2> SUFFICES ASSUME NEW i \in 1..(n + 1) PROVE g[i] = Append(f, x)[i]
    OBVIOUS
  <2>1. CASE i = n + 1
    BY <1>2, <1>6, <2>1 DEF x
  <2>2. CASE i # n + 1
    <3>1. i \in 1..n /\ i - 1 \in 0..(n - 1)
      BY <2>2
    <3> QED
      BY <1>1, <1>2, <1>6, <3>1
  <2> QED
    BY <2>1, <2>2
<1>8. Append(f, x) = [i \in 1..(n + 1) |-> Append(f, x)[i]]
  <2>1. PICK h : h = Append(f, x)
    OBVIOUS
  <2>2. h \in Seq(V) /\ Len(h) = n + 1
    BY <1>6, <2>1
  <2>3. h \in [1..(n + 1) -> V]
    BY <2>2
  <2>4. h = [i \in 1..(n + 1) |-> h[i]]
    BY <2>3
  <2> QED
    BY <2>1, <2>4
<1> QED
  BY <1>3, <1>7, <1>8 DEF f, g, x

\* A tree that agrees with them is their beginning.
LEMMA AgreesIsBeginning ==
    ASSUME NEW sq, NEW n \in Nat, DOMAIN sq = 0..(n - 1), NEW t, Agrees(sq, t)
    PROVE  Len(t) \in 0..n /\ t = SubSeq(InOrder(sq, n), 1, Len(t))
<1> DEFINE f == InOrder(sq, n)
           V == {sq[i - 1] : i \in 1..n}
<1>1. f \in Seq(V) /\ Len(f) = n /\ \A i \in 1..n : f[i] = sq[i - 1]
  BY InOrderFacts
<1> HIDE DEF f, V
<1>2. PICK m \in Nat : m = Len(t)
  BY LenIsNat DEF Agrees
<1>3. \A i \in 1..m : i - 1 \in 0..(n - 1) /\ sq[i - 1] = t[i]
  BY <1>2 DEF Agrees
<1>4. m <= n
  <2>1. CASE m = 0
    BY <2>1
  <2>2. CASE m # 0
    BY <1>3, <2>2
  <2> QED
    BY <2>1, <2>2
<1>5. t = [i \in 1..m |-> t[i]]
  BY <1>2 DEF Agrees, IsSequence
<1>6. SubSeq(f, 1, m) = [i \in 1..m |-> f[i]]
  <2>1. CASE m = 0
    BY <1>1, <2>1
  <2>2. CASE m # 0
    <3>1. SubSeq(f, 0 + 1, 0 + m) = [i \in 1..m |-> f[0 + i]]
      BY <1>1, <1>4, <2>2, SubSeqIs
    <3>2. 0 + 1 = 1 /\ 0 + m = m /\ \A i \in 1..m : 0 + i = i
      OBVIOUS
    <3> QED
      BY <3>1, <3>2
  <2> QED
    BY <2>1, <2>2
<1>7. \A i \in 1..m : f[i] = t[i]
  BY <1>1, <1>3, <1>4
<1>8. t = SubSeq(f, 1, m)
  BY <1>5, <1>6, <1>7
<1> QED
  BY <1>2, <1>4, <1>8 DEF f
=============================================================================
