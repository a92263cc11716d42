-------------------------- MODULE SumDBAuditProofs --------------------------
(***************************************************************************)
(* For any trees the log may show, any width of the tiles and any number   *)
(* of golden checkpoints, failures and restarts: the tiles of the auditor  *)
(* are those of its leaves, the golden checkpoints are backed by them, and *)
(* what the witness calls consistent is stored.                            *)
(***************************************************************************)
EXTENDS SumDBAudit, WellFoundedInduction, TLAPS

-----------------------------------------------------------------------------
(* Numbers. *)

\* Induction over the natural numbers, for a set.
LEMMA SetInduction ==
    ASSUME NEW S \in SUBSET Nat, 0 \in S, \A n \in S : n + 1 \in S
    PROVE  S = Nat
<1> SUFFICES ASSUME S # Nat PROVE FALSE
  OBVIOUS
<1> DEFINE U == Nat \ S
<1>1. U \subseteq Nat /\ U # {}
  OBVIOUS
<1>2. PICK u \in U : \A v \in U : ~ (<<v, u>> \in OpToRel(<, Nat))
  BY <1>1, NatLessThanWellFounded, WFMin
<1>3. u \in Nat /\ u \notin S /\ u # 0
  OBVIOUS
<1>4. u - 1 \in Nat /\ u - 1 < u /\ (u - 1) + 1 = u
  BY <1>3
<1>5. u - 1 \in U
  BY <1>3, <1>4
<1>6. <<u - 1, u>> \in OpToRel(<, Nat)
  <2>1. <<u - 1, u>> \in Nat \X Nat /\ <<u - 1, u>>[1] < <<u - 1, u>>[2]
    BY <1>3, <1>4
  <2> QED
    BY <2>1, Zenon DEF OpToRel
<1> QED
  BY <1>2, <1>5, <1>6

\* Products of natural numbers.
LEMMA ProductFacts ==
    /\ \A x, y \in Nat : x * y \in Nat /\ x * y = y * x
    /\ \A x, y \in Nat \ {0} : x * y \in Nat \ {0} /\ x * y >= y
    /\ \A x, y, z \in Nat : x <= y => x * z <= y * z
    /\ \A x, y, z \in Nat : (x + y) * z = x * z + y * z /\ x * (y * z) = (x * y) * z
  OBVIOUS

\* The first rows of Covers.
Rows(g, n) ==
    /\ DOMAIN g = 0..n
    /\ \A i \in 0..n : g[i] = IF i = 0 THEN Width ELSE Width * g[i - 1]

\* There are as many as one wants, and all agree.
LEMMA RowsExist == \A n \in Nat : \E g : Rows(g, n)
<1> DEFINE S == {n \in Nat : \E g : Rows(g, n)}
<1>1. 0 \in S
  <2>1. Rows([i \in 0..0 |-> Width], 0)
    BY DEF Rows
  <2> QED
    BY <2>1
<1>2. ASSUME NEW n \in S PROVE n + 1 \in S
  <2>1. PICK g : Rows(g, n)
    OBVIOUS
  <2> DEFINE h == [i \in 0..(n + 1) |-> IF i = n + 1 THEN Width * g[n] ELSE g[i]]
  <2>2. ASSUME NEW i \in 0..(n + 1)
        PROVE  h[i] = IF i = 0 THEN Width ELSE Width * h[i - 1]
    <3>1. CASE i = n + 1
      <4>1. i # 0 /\ i - 1 = n /\ n \in 0..(n + 1) /\ n # n + 1
        BY <3>1
      <4>2. h[i] = Width * g[n] /\ h[n] = g[n]
        BY <3>1, <4>1
      <4> QED
        BY <4>1, <4>2
    <3>2. CASE i # n + 1
      <4>1. i \in 0..n /\ h[i] = g[i]
        BY <3>2
      <4>2. i # 0 => i - 1 \in 0..(n + 1) /\ i - 1 # n + 1 /\ h[i - 1] = g[i - 1]
        BY <4>1
      <4> QED
        BY <2>1, <4>1, <4>2 DEF Rows
    <3> QED
      BY <3>1, <3>2
  <2>3. Rows(h, n + 1)
    BY <2>2 DEF Rows
  <2> QED
    BY <2>3
<1>3. S = Nat
  <2> HIDE DEF S
  <2>1. S \in SUBSET Nat
    BY DEF S
  <2> QED
    BY <1>1, <1>2, <2>1, SetInduction
<1> QED
  BY <1>3

\* A recursive function is determined by its recursion: two functions with
\* the same rows agree where both are defined.
LEMMA RowsAgree ==
    ASSUME NEW n \in Nat, NEW m \in Nat, NEW g, Rows(g, n), NEW h, Rows(h, m)
    PROVE  \A i \in Nat : i <= n /\ i <= m => g[i] = h[i]
<1> DEFINE S == {i \in Nat : i <= n /\ i <= m => g[i] = h[i]}
<1>1. 0 \in S
  BY DEF Rows
<1>2. ASSUME NEW i \in S PROVE i + 1 \in S
  <2> SUFFICES ASSUME i + 1 <= n, i + 1 <= m PROVE g[i + 1] = h[i + 1]
    OBVIOUS
  <2>1. i + 1 \in 0..n /\ i + 1 \in 0..m /\ i + 1 # 0 /\ (i + 1) - 1 = i /\ g[i] = h[i]
    OBVIOUS
  <2> QED
    BY <2>1 DEF Rows
<1>3. S = Nat
  <2> HIDE DEF S
  <2>1. S \in SUBSET Nat
    BY DEF S
  <2> QED
    BY <1>1, <1>2, <2>1, SetInduction
<1> QED
  BY <1>3

\* Covers is what its definition says.
LEMMA CoversDef ==
    Covers = [level \in Nat |-> IF level = 0 THEN Width ELSE Width * Covers[level - 1]]
<1> DEFINE G(n) == CHOOSE g : Rows(g, n)
           f == [n \in Nat |-> G(n)[n]]
<1>1. \A n \in Nat : Rows(G(n), n)
  BY RowsExist
<1>2. ASSUME NEW n \in Nat PROVE f[n] = IF n = 0 THEN Width ELSE Width * f[n - 1]
  <2>0. f[n] = G(n)[n] /\ Rows(G(n), n) /\ n \in 0..n
    BY <1>1
  <2>1. CASE n = 0
    BY <2>0, <2>1 DEF Rows
  <2>2. CASE n # 0
    <3>1. n - 1 \in Nat /\ n - 1 <= n /\ n - 1 <= n - 1
      BY <2>2
    <3>2. f[n - 1] = G(n - 1)[n - 1] /\ Rows(G(n - 1), n - 1)
      BY <1>1, <3>1
    <3> HIDE DEF G
    <3>3. G(n)[n - 1] = G(n - 1)[n - 1]
      BY <2>0, <3>1, <3>2, RowsAgree
    <3>4. G(n)[n] = Width * G(n)[n - 1]
      BY <2>0, <2>2 DEF Rows
    <3> QED
      BY <2>0, <2>2, <3>2, <3>3, <3>4
  <2> QED
    BY <2>1, <2>2
<1> HIDE DEF G
<1>3. f = [level \in Nat |-> IF level = 0 THEN Width ELSE Width * f[level - 1]]
  BY <1>2
<1> HIDE DEF f
<1> QED
  BY <1>3, Zenon DEF Covers

\* The number of leaves of a tile by level.
LEMMA CoversFacts ==
    /\ Covers[0] = Width
    /\ \A l \in Nat : Covers[l + 1] = Width * Covers[l]
    /\ \A l \in Nat : Covers[l] \in Nat \ {0} /\ Covers[l] > l
<1>0. Width \in Nat \ {0, 1}
  BY AuditAssumption
<1>1. \A l \in Nat : Covers[l] = IF l = 0 THEN Width ELSE Width * Covers[l - 1]
  BY CoversDef
<1>2. Covers[0] = Width
  BY <1>1
<1>3. ASSUME NEW l \in Nat PROVE Covers[l + 1] = Width * Covers[l]
  <2>1. l + 1 \in Nat /\ l + 1 # 0 /\ (l + 1) - 1 = l
    OBVIOUS
  <2> QED
    BY <1>1, <2>1
<1> DEFINE S == {l \in Nat : Covers[l] \in Nat \ {0} /\ Covers[l] > l}
<1>4. 0 \in S
  BY <1>0, <1>2
<1>5. ASSUME NEW l \in S PROVE l + 1 \in S
  <2>1. PICK c \in Nat \ {0} : c = Covers[l] /\ c > l
    OBVIOUS
  <2>2. Width * c \in Nat /\ Width * c >= 2 * c
    BY <1>0
  <2>3. Covers[l + 1] = Width * c
    BY <1>3, <2>1
  <2> QED
    BY <2>1, <2>2, <2>3
<1>6. S = Nat
  <2> HIDE DEF S
  <2>1. S \in SUBSET Nat
    BY DEF S
  <2> QED
    BY <1>4, <1>5, <2>1, SetInduction
<1> QED
  BY <1>2, <1>3, <1>6

\* Cancellation.
LEMMA LessFacts ==
    ASSUME NEW x \in Nat, NEW y \in Nat, NEW z \in Nat, x * z < y * z
    PROVE  x < y
<1> SUFFICES ASSUME y <= x PROVE FALSE
  OBVIOUS
<1>1. y * z <= x * z
  BY ProductFacts
<1>2. x * z \in Nat /\ y * z \in Nat
  BY ProductFacts, Zenon
<1> QED
  BY <1>1, <1>2

\* Division.
LEMMA DivFacts ==
    ASSUME NEW n \in Nat, NEW d \in Nat \ {0}
    PROVE  n \div d \in Nat /\ (n \div d) * d <= n /\ n < ((n \div d) + 1) * d
<1>1. n \div d \in Nat /\ n % d \in 0..(d - 1)
  OBVIOUS
<1>2. n = d * (n \div d) + (n % d)
  OBVIOUS
<1>3. PICK q \in Nat, r \in 0..(d - 1) : q = n \div d /\ r = n % d
  BY <1>1
<1>4. n = d * q + r
  BY <1>2, <1>3
<1>5. q * d <= n /\ n < (q + 1) * d
  BY <1>4
<1> QED
  BY <1>1, <1>3, <1>5

\* Numbers below a bound have a largest one.
LEMMA MaxFacts ==
    ASSUME NEW S, NEW n \in Nat, S \subseteq 0..(n - 1), S # {}
    PROVE  Max(S) \in S /\ \A y \in S : Max(S) >= y
<1> DEFINE T == {m \in Nat : (S \cap (0..m)) # {} => \E x \in S : \A y \in S \cap (0..m) : x >= y /\ x <= m}
<1>1. 0 \in T
  <2> SUFFICES ASSUME S \cap (0..0) # {}
               PROVE  \E x \in S : \A y \in S \cap (0..0) : x >= y /\ x <= 0
    OBVIOUS
  <2>1. 0 \in S
    OBVIOUS
  <2> QED
    BY <2>1
<1>2. ASSUME NEW m \in T PROVE m + 1 \in T
  <2> SUFFICES ASSUME S \cap (0..(m + 1)) # {}
               PROVE  \E x \in S : \A y \in S \cap (0..(m + 1)) : x >= y /\ x <= m + 1
    OBVIOUS
  <2>1. CASE m + 1 \in S
    <3>1. \A y \in S \cap (0..(m + 1)) : m + 1 >= y /\ m + 1 <= m + 1
      OBVIOUS
    <3> QED
      BY <2>1, <3>1
  <2>2. CASE m + 1 \notin S
    <3>1. S \cap (0..(m + 1)) = S \cap (0..m)
      BY <2>2
    <3>2. PICK x \in S : \A y \in S \cap (0..m) : x >= y /\ x <= m
      BY <3>1
    <3>3. x \in Nat
      OBVIOUS
    <3>4. \A y \in S \cap (0..(m + 1)) : x >= y /\ x <= m + 1
      BY <3>1, <3>2, <3>3
    <3> QED
      BY <3>4
  <2> QED
    BY <2>1, <2>2
<1>3. T = Nat
  <2> HIDE DEF T
  <2>1. T \in SUBSET Nat
    BY DEF T
  <2> QED
    BY <1>1, <1>2, <2>1, SetInduction
<1>4. S \cap (0..n) = S
  <2>1. \A x \in 0..(n - 1) : x \in 0..n
    OBVIOUS
  <2> QED
    BY <2>1, Zenon
<1>5. \E x \in S : \A y \in S : x >= y
  BY <1>3, <1>4
<1> QED
  BY <1>5 DEF Max

\* The highest level is a number.
LEMMA TopLevelType == \A n \in Nat : TopLevel(n) \in Int
<1> SUFFICES ASSUME NEW n \in Nat PROVE TopLevel(n) \in Int
  OBVIOUS
<1>0. Width \in Nat
  BY AuditAssumption
<1>1. CASE n < Width
  BY <1>1 DEF TopLevel
<1>2. CASE ~ (n < Width)
  <2> DEFINE L == {k \in 0..n : Covers[k] <= n}
  <2>1. 0 \in L
    BY <1>0, <1>2, CoversFacts
  <2>2. L \subseteq 0..((n + 1) - 1) /\ n + 1 \in Nat /\ L \subseteq Int
    OBVIOUS
  <2>3. TopLevel(n) = Max(L)
    BY <1>2 DEF TopLevel
  <2> HIDE DEF L
  <2>4. Max(L) \in L
    BY <2>1, <2>2, MaxFacts
  <2> QED
    BY <2>2, <2>3, <2>4, Zenon
<1> QED
  BY <1>1, <1>2

\* The tiles that checkCheckpoint uses cover all leaves in complete tiles.
LEMMA TilesCover ==
    ASSUME NEW n \in Nat, NEW i \in Nat, i < (n \div Width) * Width
    PROVE  \E l, o \in Nat : /\ <<l, o>> \in TilesFor(n)
                             /\ o * Covers[l] <= i /\ i < (o + 1) * Covers[l]
                             /\ (o + 1) * Covers[l] <= n
<1>0. Width \in Nat \ {0, 1}
  BY AuditAssumption
<1> DEFINE E(l) == (n \div Covers[l]) * Covers[l]
           S == {l \in Nat : i < E(l)}
<1>1. 0 \in S
  BY CoversFacts
<1>2. n \notin S
  <2>1. PICK c \in Nat \ {0} : c = Covers[n] /\ c > n
    BY CoversFacts
  <2>2. n \div c = 0
    BY <2>1
  <2>3. E(n) = 0
    BY <2>1, <2>2
  <2> QED
    BY <2>3
<1>3. PICK l \in Nat : l \in S /\ l + 1 \notin S
  <2> HIDE DEF S
  <2>1. S \in SUBSET Nat
    BY DEF S
  <2>2. S # Nat
    BY <1>2
  <2> QED
    BY <1>1, <2>1, <2>2, SetInduction
<1>4. PICK c \in Nat \ {0} : c = Covers[l] /\ c > l
  BY CoversFacts
<1>5. PICK d \in Nat \ {0} : d = Covers[l + 1] /\ d = Width * c
  BY <1>4, CoversFacts
<1>6. PICK q \in Nat : q = n \div c /\ q * c <= n
  BY <1>4, DivFacts
<1>7. PICK r \in Nat : r = n \div d
  BY <1>5, DivFacts
<1>8. PICK o \in Nat : o = i \div c /\ o * c <= i /\ i < (o + 1) * c
  BY <1>4, DivFacts
<1>9. i < q * c /\ ~ (i < r * d)
  <2>1. i < E(l) /\ ~ (i < E(l + 1))
    BY <1>3
  <2>2. E(l) = q * c /\ E(l + 1) = r * d
    BY <1>4, <1>5, <1>6, <1>7
  <2> HIDE DEF E
  <2> QED
    BY <2>1, <2>2
<1>10. o < q
  <2>1. o * c < q * c
    <3>1. o * c \in Nat /\ q * c \in Nat
      BY <1>4, ProductFacts, Zenon
    <3> QED
      BY <1>8, <1>9, <3>1
  <2> QED
    BY <1>4, <2>1, LessFacts
<1>11. (o + 1) * c <= n
  <2>1. o + 1 <= q /\ o + 1 \in Nat
    BY <1>10
  <2>2. (o + 1) * c <= q * c
    BY <1>4, <2>1, ProductFacts
  <2>3. (o + 1) * c \in Nat /\ q * c \in Nat
    BY <1>4, <2>1, ProductFacts, Zenon
  <2> QED
    BY <1>6, <2>2, <2>3
<1>12. r * Width <= o
  <2>1. r * Width \in Nat /\ r * d = (r * Width) * c
    BY <1>0, <1>5, <1>4, ProductFacts
  <2>2. (r * Width) * c < (o + 1) * c
    <3>1. (r * Width) * c \in Nat /\ (o + 1) * c \in Nat
      BY <1>4, <2>1, ProductFacts
    <3> QED
      BY <1>8, <1>9, <2>1, <3>1
  <2>3. r * Width < o + 1
    BY <1>4, <2>1, <2>2, LessFacts
  <2> QED
    BY <2>1, <2>3
<1>13. l \in 0..TopLevel(n)
  <2>1. c <= n
    <3>1. (o + 1) * c >= c /\ (o + 1) * c \in Nat
      BY <1>4, ProductFacts
    <3> QED
      BY <1>4, <1>11, <3>1
  <2>2. n >= Width
    <3>1. PICK x \in Nat : x = n \div Width /\ x * Width <= n
      BY <1>0, DivFacts
    <3>2. x # 0
      BY <1>0, <3>1
    <3>3. x * Width >= Width /\ x * Width \in Nat
      BY <1>0, <3>2, ProductFacts
    <3> QED
      BY <1>0, <3>1, <3>3
  <2> DEFINE L == {k \in 0..n : Covers[k] <= n}
  <2>3. l \in L
    BY <1>4, <2>1
  <2>4. L \subseteq 0..((n + 1) - 1) /\ n + 1 \in Nat
    OBVIOUS
  <2>5. TopLevel(n) = Max(L)
    BY <1>0, <2>2 DEF TopLevel
  <2> HIDE DEF L
  <2>6. Max(L) \in L /\ Max(L) >= l
    BY <2>3, <2>4, MaxFacts
  <2>7. Max(L) \in Nat
    <3>1. L \subseteq Nat
      BY DEF L
    <3> QED
      BY <2>6, <3>1, Zenon
  <2> QED
    BY <2>5, <2>6, <2>7
<1>14. o \in ((n \div Covers[l + 1]) * Width)..(n \div Covers[l] - 1)
  <2>1. r * Width \in Nat
    BY <1>0, ProductFacts
  <2>2. o \in (r * Width)..(q - 1)
    BY <1>10, <1>12, <2>1
  <2> QED
    BY <1>4, <1>5, <1>6, <1>7, <2>2
<1>15. <<l, o>> \in TilesFor(n)
  BY <1>13, <1>14 DEF TilesFor
<1> QED
  BY <1>4, <1>8, <1>11, <1>15

-----------------------------------------------------------------------------
(* The invariant. *)

\* Table T has the leaves of s from index i on.
At(T, s, i) == \A k \in 1..Len(s) : i + k - 1 \in DOMAIN T /\ T[i + k - 1] = s[k]

\* The rows of T are in U.
Within(T, U) == \A i \in DOMAIN T : i \in DOMAIN U /\ U[i] = T[i]

\* A table of leaves by their index.
TableOK(T) ==
    /\ \E n \in Nat : DOMAIN T \subseteq 0..(n - 1)
    /\ \A i \in DOMAIN T : T[i] \in Leaf

\* The first m leaves of t are stored.
Stored(t, m) == \A i \in 1..m : i - 1 \in DOMAIN leaves /\ leaves[i - 1] = t[i]

Verdict == {"none", "consistent", "inconsistent", "too fresh", "error"}

TypeInv ==
    /\ TableOK(leaves) /\ TableOK(metadata)
    /\ goldens \in Seq(Seq(Leaf)) /\ \A g \in DOMAIN goldens : goldens[g] \in Served
    /\ lost \in BOOLEAN /\ served \in Served /\ (pc # "idle" => target \in Served)
    /\ pc \in {"idle", "clone", "hash", "consistency", "root", "metadata"}
    /\ target \in Seq(Leaf) /\ next \in Nat /\ left \in Nat
    /\ req \in [pc : {"idle", "head", "tiles"}, cp : Seq(Leaf), golden : Seq(Leaf) \cup {None}]
    /\ reply \in [cp : Seq(Leaf), golden : Seq(Leaf) \cup {None}, verdict : Verdict]

\* Every tile is that of the leaves.
TileOK(T, p, s) ==
    /\ p \in Nat \X Nat /\ s \in Seq(Leaf) /\ Len(s) = Covers[p[1]]
    /\ At(T, s, p[2] * Covers[p[1]])

TileInv == \A p \in DOMAIN tiles : TileOK(leaves, p, tiles[p])

\* The number of roots that a goroutine has sent.
Sent(h) == IF h.out = <<>> THEN h.off ELSE h.off - 1

\* The goroutine h of level l, and the channel c that it sends to: what it has
\* received, what it is about to send and what is in the channel are the leaves
\* at the tiles it counts.
LevelOK(T, h, c, l) ==
    /\ h \in [st : {"run", "failed"}, off : Nat, in : Seq(Leaf), out : Seq(Leaf)]
    /\ c \in Seq(Seq(Leaf)) /\ Len(c) <= Sent(h)
    /\ At(T, h.in, h.off * Covers[l])
    /\ h.out # <<>> => h.off > 0 /\ TileOK(T, <<l, h.off - 1>>, h.out)
    /\ \A j \in 1..Len(c) : TileOK(T, <<l, (Sent(h) - Len(c)) + (j - 1)>>, c[j])

\* The goroutine g above it goes on where the channel starts.
LinkOK(h, c, g, l) ==
    (Sent(h) - Len(c)) * Covers[l] = g.off * Covers[l + 1] + Len(g.in)

HashInv ==
    pc = "hash" =>
        /\ DOMAIN chan = DOMAIN hash /\ DOMAIN hash \subseteq Nat /\ 0 \in DOMAIN hash
        /\ \A l \in DOMAIN hash :
              /\ LevelOK(leaves, hash[l], chan[l], l)
              /\ l > 0 => l - 1 \in DOMAIN hash /\ LinkOK(hash[l - 1], chan[l - 1], hash[l], l - 1)

\* The golden checkpoints, and the one that is about to be.
GoldInv ==
    /\ GoldenBacked /\ GoldenSuccession /\ MetadataVerified
    /\ pc = "metadata" => goldens # <<>> /\ target = goldens[Len(goldens)]
    /\ pc = "root" /\ goldens # <<>> =>
          \/ Stored(goldens[Len(goldens)], Size(goldens[Len(goldens)]))
          \/ \A i \in DOMAIN leaves : i < Size(goldens[Len(goldens)])

AInv == TypeInv /\ TileInv /\ HashInv /\ GoldInv /\ ConsistentMeansStored

-----------------------------------------------------------------------------
(* The tables. *)

\* What is in a table stays in a larger one.
LEMMA AtGrows ==
    ASSUME NEW T, NEW U, Within(T, U)
    PROVE  /\ \A s, i : At(T, s, i) => At(U, s, i)
           /\ \A p, s : TileOK(T, p, s) => TileOK(U, p, s)
           /\ \A h, c, l : LevelOK(T, h, c, l) => LevelOK(U, h, c, l)
<1>1. \A s, i : At(T, s, i) => At(U, s, i)
  BY DEF Within, At
<1>2. \A p, s : TileOK(T, p, s) => TileOK(U, p, s)
  BY <1>1 DEF TileOK
<1>3. \A h, c, l : LevelOK(T, h, c, l) => LevelOK(U, h, c, l)
  BY <1>1, <1>2 DEF LevelOK
<1> QED
  BY <1>1, <1>2, <1>3

\* Two sequences, one behind the other.
LEMMA AtConcat ==
    ASSUME NEW T, NEW s \in Seq(Leaf), NEW u \in Seq(Leaf), NEW i \in Nat,
           At(T, s, i), At(T, u, i + Len(s))
    PROVE  s \o u \in Seq(Leaf) /\ Len(s \o u) = Len(s) + Len(u) /\ At(T, s \o u, i)
<1>1. /\ s \o u \in Seq(Leaf) /\ Len(s \o u) = Len(s) + Len(u) /\ Len(s) \in Nat /\ Len(u) \in Nat
      /\ \A k \in 1..(Len(s) + Len(u)) :
            (s \o u)[k] = IF k <= Len(s) THEN s[k] ELSE u[k - Len(s)]
  OBVIOUS
<1>2. ASSUME NEW k \in 1..(Len(s) + Len(u))
      PROVE  i + k - 1 \in DOMAIN T /\ T[i + k - 1] = (s \o u)[k]
  <2>1. CASE k <= Len(s)
    <3>1. k \in 1..Len(s)
      BY <1>1, <2>1
    <3> QED
      BY <1>1, <2>1, <3>1 DEF At
  <2>2. CASE k > Len(s)
    <3>1. k - Len(s) \in 1..Len(u) /\ (i + Len(s)) + (k - Len(s)) - 1 = i + k - 1
      BY <1>1, <2>2
    <3> QED
      BY <1>1, <2>2, <3>1 DEF At
  <2> QED
    BY <1>1, <2>1, <2>2
<1> QED
  BY <1>1, <1>2 DEF At

\* Rows are only added by an INSERT.
LEMMA InsertFacts ==
    ASSUME NEW T, TableOK(T), NEW s \in Nat, NEW data \in Seq(Leaf),
           NEW ok \in SUBSET (1..Len(data)), NEW U, U = Insert(T, s, data, ok)
    PROVE  /\ TableOK(U) /\ Within(T, U)
           /\ \A i \in DOMAIN U : i \in DOMAIN T \/ \E k \in 1..Len(data) : i = s + k - 1 /\ U[i] = data[k]
<1>1. Len(data) \in Nat /\ \A k \in 1..Len(data) : data[k] \in Leaf
  OBVIOUS
<1>2. DOMAIN U = DOMAIN T \cup {s + k - 1 : k \in ok}
  BY DEF Insert
<1>3. Within(T, U)
  BY <1>2 DEF Insert, Within
<1>4. ASSUME NEW i \in DOMAIN U, i \notin DOMAIN T
      PROVE  \E k \in 1..Len(data) : i = s + k - 1 /\ U[i] = data[k]
  <2>1. PICK k \in ok : i = s + k - 1
    BY <1>2, <1>4
  <2>2. i - s + 1 = k /\ k \in 1..Len(data)
    BY <1>1, <2>1
  <2>3. U[i] = data[i - s + 1]
    BY <1>2, <1>4 DEF Insert
  <2> QED
    BY <2>1, <2>2, <2>3
<1>5. \E n \in Nat : DOMAIN U \subseteq 0..(n - 1)
  <2>1. PICK n \in Nat : DOMAIN T \subseteq 0..(n - 1)
    BY DEF TableOK
  <2>2. n + s + Len(data) \in Nat
    BY <1>1
  <2>3. DOMAIN U \subseteq 0..((n + s + Len(data)) - 1)
    BY <1>1, <1>2, <2>1
  <2> QED
    BY <2>2, <2>3
<1>6. \A i \in DOMAIN U : U[i] \in Leaf
  BY <1>1, <1>3, <1>4 DEF TableOK, Within
<1> QED
  BY <1>3, <1>4, <1>5, <1>6 DEF TableOK

\* The largest index of a table.
LEMMA HeadFacts ==
    ASSUME NEW T, TableOK(T)
    PROVE  /\ HeadIndex(T) \in Nat \cup {-1}
           /\ \A i \in DOMAIN T : i \in Nat /\ i <= HeadIndex(T)
<1>1. PICK n \in Nat : DOMAIN T \subseteq 0..(n - 1)
  BY DEF TableOK
<1>2. CASE DOMAIN T = {}
  BY <1>2 DEF HeadIndex
<1>3. CASE DOMAIN T # {}
  <2>1. Max(DOMAIN T) \in DOMAIN T /\ \A y \in DOMAIN T : Max(DOMAIN T) >= y
    BY <1>1, <1>3, MaxFacts
  <2>2. HeadIndex(T) = Max(DOMAIN T)
    BY <1>3 DEF HeadIndex
  <2>3. DOMAIN T \subseteq Nat
    BY <1>1
  <2>4. Max(DOMAIN T) \in Nat
    BY <2>1, <2>3, Zenon
  <2> QED
    BY <2>1, <2>2, <2>3, <2>4
<1> QED
  BY <1>2, <1>3

\* The leaves of a tile of a tree.
LEMMA UnderFacts ==
    ASSUME NEW t \in Seq(Leaf), NEW l \in Nat, NEW o \in Nat, (o + 1) * Covers[l] <= Len(t)
    PROVE  /\ Under(t, l, o) \in Seq(Leaf) /\ Len(Under(t, l, o)) = Covers[l]
           /\ \A k \in 1..Covers[l] : Under(t, l, o)[k] = t[o * Covers[l] + k]
<1>1. PICK c \in Nat \ {0} : c = Covers[l]
  BY CoversFacts
<1>2. PICK a \in Nat : a = o * c /\ (o + 1) * c = a + c
  <2>1. o * c \in Nat /\ (o + 1) * c = o * c + c
    OBVIOUS
  <2> QED
    BY <2>1
<1>3. Under(t, l, o) = SubSeq(t, a + 1, a + c)
  BY <1>1, <1>2 DEF Under
<1>4. a + 1 \in 1..Len(t) /\ a + c \in 1..Len(t) /\ a + 1 <= a + c
  <2>1. (o + 1) * Covers[l] = a + c
    BY <1>1, <1>2
  <2>2. a + c <= Len(t)
    BY <2>1
  <2> QED
    BY <2>2
<1>5. SubSeq(t, a + 1, a + c) \in Seq(Leaf) /\ Len(SubSeq(t, a + 1, a + c)) = c
  BY <1>4
<1>6. \A k \in 1..c : SubSeq(t, a + 1, a + c)[k] = t[a + k]
  BY <1>4, <1>5
<1> QED
  BY <1>1, <1>2, <1>3, <1>5, <1>6

\* A checkpoint that matches the tiles is one of the leaves, up to its last
\* incomplete tile.
LEMMA TilesBack ==
    ASSUME TileInv, NEW t \in Seq(Leaf), TilesMatch(t)
    PROVE  Stored(t, Whole(t))
<1>0. Len(t) \in Nat /\ Width \in Nat \ {0}
  BY AuditAssumption
<1> SUFFICES ASSUME NEW i \in 1..Whole(t)
             PROVE  i - 1 \in DOMAIN leaves /\ leaves[i - 1] = t[i]
  BY DEF Stored
<1>1. PICK w \in Nat : w = (Len(t) \div Width) * Width
  <2>1. Len(t) \div Width \in Nat
    BY <1>0, DivFacts
  <2> QED
    BY <1>0, <2>1, ProductFacts
<1>2. i \in 1..w /\ i - 1 \in Nat /\ i - 1 < w
  BY <1>1 DEF Whole, Size
<1>3. PICK l, o \in Nat : /\ <<l, o>> \in TilesFor(Len(t))
                          /\ o * Covers[l] <= i - 1 /\ i - 1 < (o + 1) * Covers[l]
                          /\ (o + 1) * Covers[l] <= Len(t)
  BY <1>0, <1>1, <1>2, TilesCover
<1> DEFINE p == <<l, o>>
<1>4. p[1] = l /\ p[2] = o
  OBVIOUS
<1>5. p \in DOMAIN tiles /\ tiles[p] = Under(t, l, o)
  BY <1>3, <1>4 DEF TilesMatch, Size
<1>6. PICK c \in Nat \ {0} : c = Covers[l]
  BY CoversFacts
<1>7. PICK a \in Nat : a = o * c /\ (o + 1) * c = a + c
  <2>1. o * c \in Nat /\ (o + 1) * c = o * c + c
    OBVIOUS
  <2> QED
    BY <2>1
<1>8. At(leaves, tiles[p], a) /\ Len(tiles[p]) = c
  BY <1>4, <1>5, <1>6, <1>7 DEF TileInv, TileOK
<1>9. PICK k \in 1..c : k = i - a
  <2>1. o * Covers[l] = a /\ (o + 1) * Covers[l] = a + c
    BY <1>6, <1>7
  <2>2. a <= i - 1 /\ i - 1 < a + c
    BY <1>3, <2>1
  <2>3. i - a \in 1..c
    BY <1>2, <2>2
  <2> QED
    BY <2>3
<1>10. tiles[p][k] = t[a + k]
  <2>1. \A m \in 1..Covers[l] : Under(t, l, o)[m] = t[o * Covers[l] + m]
    BY <1>3, UnderFacts
  <2>2. o * Covers[l] = a
    BY <1>6, <1>7
  <2> QED
    BY <1>5, <1>6, <2>1, <2>2
<1>11. a + k - 1 = i - 1 /\ a + k = i
  BY <1>2, <1>9
<1> QED
  BY <1>8, <1>10, <1>11 DEF At

\* If the rest of it matches the local tile too, all of it is.
LEMMA StragglersBack ==
    ASSUME TileInv, NEW t \in Seq(Leaf), TilesMatch(t), LocalStragglersMatch(t)
    PROVE  Stored(t, Size(t))
<1>0. Len(t) \in Nat /\ Width \in Nat \ {0}
  BY AuditAssumption
<1>1. PICK o \in Nat : o = Len(t) \div Width /\ o * Width <= Len(t) /\ Len(t) < (o + 1) * Width
  BY <1>0, DivFacts
<1>2. PICK w \in Nat : w = o * Width /\ (o + 1) * Width = w + Width
  <2>1. o * Width \in Nat /\ (o + 1) * Width = o * Width + Width
    BY <1>0
  <2> QED
    BY <2>1
<1>3. Whole(t) = w
  BY <1>1, <1>2 DEF Whole, Size
<1> SUFFICES ASSUME NEW i \in 1..Len(t)
             PROVE  i - 1 \in DOMAIN leaves /\ leaves[i - 1] = t[i]
  BY DEF Stored, Size
<1>4. CASE i <= w
  <2>1. i \in 1..Whole(t)
    BY <1>3, <1>4
  <2> QED
    BY <2>1, TilesBack DEF Stored
<1>5. CASE i > w
  <2>1. i \in Stragglers(t)
    BY <1>3, <1>5 DEF Stragglers, Size
  <2> DEFINE p == <<0, o>>
  <2>2. p \in DOMAIN tiles /\ tiles[p][i - w] = t[i] /\ p[1] = 0 /\ p[2] = o
    BY <1>1, <1>2, <2>1 DEF LocalStragglersMatch, Size
  <2>3. TileOK(leaves, p, tiles[p])
    BY <2>2 DEF TileInv
  <2>4. At(leaves, tiles[p], w) /\ Len(tiles[p]) = Width
    BY <1>2, <2>2, <2>3, CoversFacts DEF TileOK
  <2>5. i - w \in 1..Width /\ w + (i - w) - 1 = i - 1
    BY <1>0, <1>1, <1>2, <1>5
  <2> QED
    BY <2>2, <2>4, <2>5 DEF At
<1> QED
  BY <1>2, <1>4, <1>5

-----------------------------------------------------------------------------
(* Steps of the mirror that change no table. *)

\* The invariant holds at first.
LEMMA InitAInv == Init => AInv
<1> SUFFICES ASSUME Init PROVE AInv
  OBVIOUS
<1>1. /\ DOMAIN leaves = {} /\ DOMAIN tiles = {} /\ DOMAIN metadata = {} /\ goldens = <<>>
      /\ served \in Served /\ pc = "idle" /\ target = <<>> /\ next = 0 /\ left = 0
      /\ req = NoReq /\ reply = NoReply
  BY DEF Init
<1>2. lost \in BOOLEAN
  BY Zenon DEF Init
<1>3. TableOK(leaves) /\ TableOK(metadata)
  <2>1. 0 \in Nat /\ {} \subseteq 0..(0 - 1)
    OBVIOUS
  <2> QED
    BY <1>1, <2>1 DEF TableOK
<1>4. /\ req \in [pc : {"idle", "head", "tiles"}, cp : Seq(Leaf), golden : Seq(Leaf) \cup {None}]
      /\ reply \in [cp : Seq(Leaf), golden : Seq(Leaf) \cup {None}, verdict : Verdict]
      /\ reply.verdict = "none"
  <2>1. <<>> \in Seq(Leaf)
    OBVIOUS
  <2> QED
    BY <1>1, <2>1 DEF NoReq, NoReply, Verdict
<1>5. TypeInv
  BY <1>1, <1>2, <1>3, <1>4 DEF TypeInv
<1>6. GoldInv
  BY <1>1 DEF GoldInv, GoldenBacked, GoldenSuccession, MetadataVerified
<1>7. TileInv /\ HashInv /\ ConsistentMeansStored
  BY <1>1, <1>4 DEF TileInv, HashInv, ConsistentMeansStored
<1> QED
  BY <1>5, <1>6, <1>7 DEF AInv

\* The tables are left alone.
LEMMA TablesSame ==
    ASSUME AInv, leaves' = leaves, tiles' = tiles, goldens' = goldens, metadata' = metadata,
           pc' = "metadata" => pc = "metadata" /\ target' = target,
           pc' = "root" => pc = "root"
    PROVE  TileInv' /\ GoldInv'
<1>1. TileInv'
  BY DEF AInv, TileInv
<1>2. GoldenBacked' /\ GoldenSuccession' /\ MetadataVerified'
  BY DEF AInv, GoldInv, GoldenBacked, GoldenSuccession, MetadataVerified
<1>3. \A t, m : Stored(t, m)' = Stored(t, m)
  BY DEF Stored
<1> QED
  BY <1>1, <1>2, <1>3 DEF AInv, GoldInv, Stored

\* The mirror goes on to a place where nothing depends on what came before.
LEMMA MoveKeeps ==
    ASSUME AInv, UNCHANGED <<leaves, tiles, goldens, metadata, lost, req, reply>>,
           served' \in Served, target' \in Seq(Leaf), next' \in Nat, left' \in Nat,
           pc' \in {"idle", "clone", "consistency"}, pc' # "idle" => target' \in Served
    PROVE  AInv'
<1>1. TypeInv'
  BY DEF AInv, TypeInv
<1>2. TileInv' /\ GoldInv'
  BY TablesSame
<1>3. HashInv' /\ ConsistentMeansStored'
  BY DEF AInv, HashInv, ConsistentMeansStored
<1> QED
  BY <1>1, <1>2, <1>3 DEF AInv

\* The mirror ends or is killed.
LEMMA ExitKeeps ==
    ASSUME AInv, Exit, UNCHANGED db
    PROVE  AInv'
<1>1. /\ UNCHANGED <<leaves, tiles, goldens, metadata, lost, req, reply>> /\ served' = served
      /\ pc' = "idle" /\ target' = <<>> /\ next' = 0 /\ left' = 0
  BY DEF Exit, db, witness
<1>2. served' \in Served /\ target' \in Seq(Leaf) /\ next' \in Nat /\ left' \in Nat
  BY <1>1 DEF AInv, TypeInv
<1> QED
  BY <1>1, <1>2, MoveKeeps

\* A round starts.
LEMMA StartKeeps ==
    ASSUME AInv, NEW force \in BOOLEAN, Start(force)
    PROVE  AInv'
<1> DEFINE local == HeadIndex(leaves) + 1
<1>1. /\ UNCHANGED <<leaves, tiles, goldens, metadata, lost, req, reply>> /\ served' = served
      /\ pc' = "clone" /\ target' = served /\ next' = local \div Width
      /\ left' = IF local < Size(served) THEN (Size(served) - local) \div Width ELSE 0
  BY DEF Start, db, witness
<1>2. served \in Served /\ served \in Seq(Leaf) /\ Size(served) \in Nat /\ Width \in Nat \ {0}
  BY AuditAssumption DEF AInv, TypeInv, Size
<1>3. local \in Nat
  <2>1. TableOK(leaves)
    BY DEF AInv, TypeInv
  <2>2. HeadIndex(leaves) \in Nat \cup {-1}
    BY <2>1, HeadFacts
  <2> QED
    BY <2>2
<1> HIDE DEF local
<1>4. next' \in Nat
  BY <1>1, <1>2, <1>3, DivFacts
<1>5. left' \in Nat
  <2>1. CASE local < Size(served)
    <3>1. Size(served) - local \in Nat
      BY <1>2, <1>3, <2>1
    <3> QED
      BY <1>1, <1>2, <2>1, <3>1, DivFacts
  <2>2. CASE ~ (local < Size(served))
    BY <1>1, <2>2
  <2> QED
    BY <2>1, <2>2
<1> QED
  BY <1>1, <1>2, <1>4, <1>5, MoveKeeps

\* hashTiles starts: nothing is hashed or sent.
LEMMA StartHashKeeps ==
    ASSUME AInv, StartHash
    PROVE  AInv'
<1> DEFINE levels == {0} \cup 1..TopLevel(Size(target))
           fresh == [st |-> "run", off |-> 0, in |-> <<>>, out |-> <<>>]
<1>1. /\ UNCHANGED <<leaves, tiles, goldens, metadata, lost, served, target, next, left, req, reply>>
      /\ pc = "clone" /\ pc' = "hash" /\ hash' = [l \in levels |-> fresh] /\ chan' = [l \in levels |-> <<>>]
  BY DEF StartHash, db, witness
<1>2. levels \subseteq Nat /\ 0 \in levels /\ \A l \in levels : l > 0 => l - 1 \in levels
  <2>1. Size(target) \in Nat
    BY DEF AInv, TypeInv, Size
  <2>2. PICK top \in Int : top = TopLevel(Size(target))
    BY <2>1, TopLevelType
  <2>3. levels = {0} \cup 1..top
    BY <2>2
  <2> QED
    BY <2>3
<1>3. \A l \in Nat : LevelOK(leaves, fresh, <<>>, l)
  <2>1. <<>> \in Seq(Leaf) /\ <<>> \in Seq(Seq(Leaf)) /\ Len(<<>>) = 0
    OBVIOUS
  <2>2. fresh \in [st : {"run", "failed"}, off : Nat, in : Seq(Leaf), out : Seq(Leaf)]
        /\ fresh.in = <<>> /\ fresh.out = <<>> /\ fresh.off = 0 /\ Sent(fresh) = 0
    BY <2>1 DEF Sent
  <2>3. \A i : At(leaves, <<>>, i)
    BY DEF At
  <2> HIDE DEF fresh
  <2> QED
    BY <2>1, <2>2, <2>3 DEF LevelOK
<1>4. \A l \in Nat : LinkOK(fresh, <<>>, fresh, l)
  <2>1. fresh.off = 0 /\ Sent(fresh) = 0 /\ fresh.in = <<>> /\ Len(<<>>) = 0
    BY DEF Sent
  <2>2. \A l \in Nat : Covers[l] \in Nat /\ Covers[l + 1] \in Nat
    BY CoversFacts
  <2> HIDE DEF fresh
  <2>3. ASSUME NEW x \in Nat, NEW y \in Nat PROVE (0 - 0) * x = 0 * y + 0
    OBVIOUS
  <2> QED
    BY <2>1, <2>2, <2>3 DEF LinkOK
<1> HIDE DEF fresh, levels
<1>5. DOMAIN hash' = levels /\ DOMAIN chan' = levels
      /\ \A l \in levels : hash'[l] = fresh /\ chan'[l] = <<>>
  BY <1>1
<1>6. HashInv'
  <2>1. ASSUME NEW l \in levels
        PROVE  /\ LevelOK(leaves', hash'[l], chan'[l], l)
               /\ l > 0 => l - 1 \in levels /\ LinkOK(hash'[l - 1], chan'[l - 1], hash'[l], l - 1)
    <3>1. l \in Nat /\ LevelOK(leaves', hash'[l], chan'[l], l)
      BY <1>1, <1>2, <1>3, <1>5
    <3>2. ASSUME l > 0 PROVE l - 1 \in levels /\ LinkOK(hash'[l - 1], chan'[l - 1], hash'[l], l - 1)
      <4>1. l - 1 \in levels /\ l - 1 \in Nat
        BY <1>2, <3>1, <3>2
      <4> QED
        BY <1>4, <1>5, <4>1
    <3> QED
      BY <3>1, <3>2
  <2> QED
    BY <1>2, <1>5, <2>1 DEF HashInv
<1>7. TypeInv' /\ ConsistentMeansStored'
  BY <1>1 DEF AInv, TypeInv, ConsistentMeansStored
<1>8. TileInv' /\ GoldInv'
  BY <1>1, TablesSame
<1> QED
  BY <1>6, <1>7, <1>8 DEF AInv

\* The last golden checkpoint matches what is there, as far as it is checked.
LEMMA GoldenOKKeeps ==
    ASSUME AInv, GoldenOK
    PROVE  AInv'
<1>1. /\ UNCHANGED <<leaves, tiles, goldens, metadata, lost, served, target, next, left, req, reply>>
      /\ pc = "consistency" /\ pc' = "root"
      /\ (GoldenChecked => TilesMatch(Golden) /\ LocalStragglersMatch(Golden))
  BY DEF GoldenOK, GoldenConsistent, db, witness
<1>2. TypeInv' /\ HashInv' /\ ConsistentMeansStored'
  BY <1>1 DEF AInv, TypeInv, HashInv, ConsistentMeansStored
<1>3. TileInv'
  BY <1>1 DEF AInv, TileInv
<1> DEFINE g == goldens[Len(goldens)]
<1>4. ASSUME goldens # <<>>
      PROVE  Stored(g, Size(g)) \/ \A i \in DOMAIN leaves : i < Size(g)
  <2>1. Golden = g /\ g \in Seq(Leaf) /\ Size(g) \in Nat
    BY <1>4 DEF Golden, Last, AInv, TypeInv, Size
  <2>2. CASE GoldenChecked
    BY <1>1, <2>1, <2>2, StragglersBack DEF AInv
  <2>3. CASE ~GoldenChecked
    <3>0. HeadIndex(leaves) \in Nat \cup {-1} /\ \A i \in DOMAIN leaves : i \in Nat /\ i <= HeadIndex(leaves)
      BY HeadFacts DEF AInv, TypeInv
    <3>1. Golden # None
      <4>1. g \in Served
        BY <1>4 DEF AInv, TypeInv
      <4> QED
        BY <2>1, <4>1, AuditAssumption
    <3> QED
      BY <2>1, <2>3, <3>0, <3>1 DEF GoldenChecked
  <2> QED
    BY <2>2, <2>3
<1>5. GoldInv'
  <2>1. GoldenBacked' /\ GoldenSuccession' /\ MetadataVerified'
    BY <1>1 DEF AInv, GoldInv, GoldenBacked, GoldenSuccession, MetadataVerified
  <2> QED
    BY <1>1, <1>4, <2>1 DEF GoldInv, Stored
<1> QED
  BY <1>2, <1>3, <1>5 DEF AInv

-----------------------------------------------------------------------------
(* The pipeline of hashTiles. *)

\* A step of the pipeline touches nothing but tiles, goroutines and channels.
Pipeline ==
    pc = "hash" /\ UNCHANGED <<leaves, goldens, metadata, lost, served, pc, target, next, left, req, reply>>

\* A step of the tile pipeline touches neither heads, checkpoints nor
\* answers, so that it is enough to look at tiles and hashes.
LEMMA PipelineKeeps ==
    ASSUME AInv, Pipeline, TileInv', HashInv'
    PROVE  AInv'
<1>1. TypeInv' /\ ConsistentMeansStored'
  BY DEF AInv, Pipeline, TypeInv, ConsistentMeansStored
<1>2. GoldInv'
  BY DEF AInv, Pipeline, GoldInv, GoldenBacked, GoldenSuccession, MetadataVerified, Stored
<1> QED
  BY <1>1, <1>2 DEF AInv

\* What the invariant says of a level, and of the one below it.
LEMMA LevelFacts ==
    ASSUME AInv, pc = "hash"
    PROVE  /\ DOMAIN chan = DOMAIN hash /\ 0 \in DOMAIN hash
           /\ \A l \in DOMAIN hash : l \in Nat /\ LevelOK(leaves, hash[l], chan[l], l)
           /\ \A l \in DOMAIN hash : l > 0 =>
                 l - 1 \in DOMAIN hash /\ LinkOK(hash[l - 1], chan[l - 1], hash[l], l - 1)
  BY DEF AInv, HashInv

\* One goroutine changes, and the channels stay: its level and its two links are
\* to be shown.
LEMMA OneLevel ==
    ASSUME AInv, Pipeline, NEW l \in DOMAIN hash, NEW h,
           hash' = [hash EXCEPT ![l] = h], chan' = chan,
           LevelOK(leaves, h, chan[l], l), Sent(h) = Sent(hash[l]),
           l > 0 => LinkOK(hash[l - 1], chan[l - 1], h, l - 1)
    PROVE  HashInv'
<1>1. /\ DOMAIN hash' = DOMAIN hash /\ hash'[l] = h
      /\ \A m \in DOMAIN hash : m # l => hash'[m] = hash[m]
  OBVIOUS
<1>2. /\ DOMAIN chan = DOMAIN hash /\ 0 \in DOMAIN hash /\ pc = "hash" /\ leaves' = leaves
      /\ \A m \in DOMAIN hash : m \in Nat /\ LevelOK(leaves, hash[m], chan[m], m)
      /\ \A m \in DOMAIN hash : m > 0 =>
            m - 1 \in DOMAIN hash /\ LinkOK(hash[m - 1], chan[m - 1], hash[m], m - 1)
  BY LevelFacts DEF Pipeline
<1>3. ASSUME NEW m \in DOMAIN hash
      PROVE  /\ LevelOK(leaves, hash'[m], chan[m], m)
             /\ m > 0 => m - 1 \in DOMAIN hash /\ LinkOK(hash'[m - 1], chan[m - 1], hash'[m], m - 1)
  <2>1. LevelOK(leaves, hash'[m], chan[m], m)
    BY <1>1, <1>2
  <2>2. ASSUME m > 0 PROVE m - 1 \in DOMAIN hash /\ LinkOK(hash'[m - 1], chan[m - 1], hash'[m], m - 1)
    <3>0. m \in Nat /\ m - 1 # m /\ m - 1 \in DOMAIN hash /\ LinkOK(hash[m - 1], chan[m - 1], hash[m], m - 1)
      BY <1>2, <2>2
    <3>1. CASE m = l
      <4>1. hash'[m - 1] = hash[m - 1] /\ hash'[m] = h
        BY <1>1, <3>0, <3>1
      <4> QED
        BY <2>2, <3>0, <3>1, <4>1
    <3>2. CASE m - 1 = l
      <4>1. hash'[m] = hash[m] /\ Sent(hash'[m - 1]) = Sent(hash[m - 1])
        BY <1>1, <3>0, <3>2
      <4> QED
        BY <3>0, <4>1 DEF LinkOK
    <3>3. CASE m # l /\ m - 1 # l
      BY <1>1, <3>0, <3>3
    <3> QED
      BY <3>1, <3>2, <3>3
  <2> QED
    BY <2>1, <2>2
<1> QED
  BY <1>1, <1>2, <1>3 DEF HashInv, Pipeline

\* A tile is hashed and stored, and its root is to be sent.
LEMMA HashedKeeps ==
    ASSUME AInv, Pipeline, NEW l \in DOMAIN hash, NEW content, Busy(l), Hashed(l, content),
           chan' = chan, TileOK(leaves, <<l, hash[l].off>>, content),
           l > 0 => Len(hash[l].in) = Covers[l]
    PROVE  AInv'
<1>1. /\ l \in Nat /\ LevelOK(leaves, hash[l], chan[l], l) /\ leaves' = leaves
      /\ l > 0 => l - 1 \in DOMAIN hash /\ LinkOK(hash[l - 1], chan[l - 1], hash[l], l - 1)
  BY LevelFacts DEF Pipeline
<1> DEFINE off == hash[l].off
           h == [st |-> "run", off |-> off + 1, in |-> <<>>, out |-> content]
<1>2. off \in Nat /\ hash[l].out = <<>> /\ Sent(hash[l]) = off
  BY <1>1 DEF LevelOK, Busy, Sent
<1>3. content \in Seq(Leaf) /\ Len(content) = Covers[l] /\ Covers[l] \in Nat \ {0}
  BY <1>1, CoversFacts DEF TileOK
<1>4. content # <<>>
  BY <1>3
<1>5. TileInv'
  <2>0. PICK q : q = <<l, off>>
    OBVIOUS
  <2>1. tiles' = [p \in DOMAIN tiles \cup {q} |->
                     IF p \in DOMAIN tiles THEN tiles[p] ELSE content]
    BY <2>0 DEF Hashed
  <2>2. TileOK(leaves, q, content)
    BY <2>0
  <2>3. ASSUME NEW p \in DOMAIN tiles' PROVE TileOK(leaves', p, tiles'[p])
    <3>1. CASE p \in DOMAIN tiles
      <4>1. tiles'[p] = tiles[p] /\ TileOK(leaves, p, tiles[p])
        BY <2>1, <3>1 DEF AInv, TileInv
      <4> QED
        BY <1>1, <4>1
    <3>2. CASE p \notin DOMAIN tiles
      <4>1. p = q /\ tiles'[p] = content
        BY <2>1, <3>2
      <4> QED
        BY <1>1, <2>2, <4>1
    <3> QED
      BY <3>1, <3>2
  <2> QED
    BY <2>3 DEF TileInv
<1>6. hash' = [hash EXCEPT ![l] = h]
  BY DEF Hashed
<1>7. /\ h \in [st : {"run", "failed"}, off : Nat, in : Seq(Leaf), out : Seq(Leaf)]
      /\ h.off = off + 1 /\ h.in = <<>> /\ h.out = content /\ h.out # <<>>
  <2>1. <<>> \in Seq(Leaf)
    OBVIOUS
  <2> QED
    BY <1>2, <1>3, <1>4, <2>1
<1>8. Sent(h) = off /\ h.off - 1 = off
  BY <1>2, <1>7 DEF Sent
<1>9. LevelOK(leaves, h, chan[l], l)
  <2>1. \A i : At(leaves, <<>>, i)
    BY DEF At
  <2> HIDE DEF h, off
  <2>2. TileOK(leaves, <<l, off>>, content) /\ h.off > 0
    BY <1>2, <1>7 DEF off
  <2> QED
    BY <1>1, <1>2, <1>7, <1>8, <2>1, <2>2 DEF LevelOK
<1>10. ASSUME l > 0 PROVE LinkOK(hash[l - 1], chan[l - 1], h, l - 1)
  <2>1. (l - 1) + 1 = l
    BY <1>1
  <2>2. PICK c \in Nat : c = Covers[l] /\ Len(hash[l].in) = c
    BY <1>3, <1>10
  <2>3. (Sent(hash[l - 1]) - Len(chan[l - 1])) * Covers[l - 1] = off * c + c
    BY <1>1, <1>10, <2>1, <2>2 DEF LinkOK
  <2>4. off * c + c = (off + 1) * c + 0
    BY <1>2
  <2> HIDE DEF h, off
  <2>5. Len(<<>>) = 0
    OBVIOUS
  <2> QED
    BY <1>7, <2>1, <2>2, <2>3, <2>4, <2>5 DEF LinkOK
<1> HIDE DEF h
<1>11. HashInv'
  BY <1>2, <1>6, <1>8, <1>9, <1>10, OneLevel
<1> QED
  BY <1>5, <1>11, PipelineKeeps

\* A goroutine fails.
LEMMA FailsKeeps ==
    ASSUME AInv, Pipeline, NEW l \in DOMAIN hash, Fails(l), chan' = chan
    PROVE  AInv'
<1>1. /\ l \in Nat /\ LevelOK(leaves, hash[l], chan[l], l)
      /\ l > 0 => l - 1 \in DOMAIN hash /\ LinkOK(hash[l - 1], chan[l - 1], hash[l], l - 1)
  BY LevelFacts DEF Pipeline
<1> DEFINE h == [hash[l] EXCEPT !.st = "failed"]
<1>2. hash' = [hash EXCEPT ![l] = h] /\ tiles' = tiles
  BY DEF Fails
<1>3. /\ h \in [st : {"run", "failed"}, off : Nat, in : Seq(Leaf), out : Seq(Leaf)]
      /\ h.off = hash[l].off /\ h.in = hash[l].in /\ h.out = hash[l].out
  BY <1>1 DEF LevelOK
<1> HIDE DEF h
<1>4. Sent(h) = Sent(hash[l])
  BY <1>3 DEF Sent
<1>5. LevelOK(leaves, h, chan[l], l)
  BY <1>1, <1>3, <1>4 DEF LevelOK
<1>6. l > 0 => LinkOK(hash[l - 1], chan[l - 1], h, l - 1)
  BY <1>1, <1>3 DEF LinkOK
<1>7. HashInv'
  BY <1>2, <1>4, <1>5, <1>6, OneLevel
<1>8. TileInv'
  BY <1>2 DEF AInv, TileInv, Pipeline
<1> QED
  BY <1>7, <1>8, PipelineKeeps

\* The goroutine of the lowest level takes a tile, or makes it from the leaves.
LEMMA HashLeafKeeps ==
    ASSUME AInv, HashLeafLevel
    PROVE  AInv'
<1>1. Pipeline /\ chan' = chan /\ Busy(0) /\ pc = "hash"
  BY DEF HashLeafLevel, Pipeline, witness
<1>2. 0 \in DOMAIN hash
  BY <1>1, LevelFacts
<1> DEFINE o == hash[0].off
<1>3. o \in Nat /\ LevelOK(leaves, hash[0], chan[0], 0)
  BY <1>1, <1>2, LevelFacts DEF LevelOK
<1>4. CASE <<0, o>> \in DOMAIN tiles /\ Hashed(0, tiles[<<0, o>>])
  <2>1. TileOK(leaves, <<0, o>>, tiles[<<0, o>>])
    BY <1>4 DEF AInv, TileInv
  <2> QED
    BY <1>1, <1>2, <1>4, <2>1, HashedKeeps
<1>5. CASE HasBlock(o) /\ Hashed(0, LeafBlock(o))
  <2>0. PICK w \in Nat \ {0} : w = Width
    BY AuditAssumption
  <2>1. PICK a \in Nat : a = o * Width /\ (o + 1) * Width = a + w
    <3>1. o * w \in Nat /\ (o + 1) * w = o * w + w
      BY <1>3
    <3> QED
      BY <2>0, <3>1
  <2>2. \A k \in 1..w : a + k - 1 \in DOMAIN leaves
    <3>1. a..(a + w - 1) \subseteq DOMAIN leaves
      BY <1>5, <2>1 DEF HasBlock, Block
    <3> QED
      BY <2>0, <3>1
  <2>3. \A k \in 1..w : leaves[a + k - 1] \in Leaf
    BY <2>2 DEF AInv, TypeInv, TableOK
  <2>4. LeafBlock(o) = [k \in 1..w |-> leaves[a + k - 1]]
    BY <2>0, <2>1 DEF LeafBlock
  <2>5. LeafBlock(o) \in Seq(Leaf) /\ Len(LeafBlock(o)) = w
    BY <2>3, <2>4
  <2>6. At(leaves, LeafBlock(o), a)
    BY <2>2, <2>4, <2>5 DEF At
  <2>7. TileOK(leaves, <<0, o>>, LeafBlock(o))
    <3>1. <<0, o>> \in Nat \X Nat /\ <<0, o>>[1] = 0 /\ <<0, o>>[2] = o
      BY <1>3
    <3> HIDE DEF o
    <3> QED
      BY <2>0, <2>1, <2>5, <2>6, <3>1, CoversFacts DEF TileOK
  <2> QED
    BY <1>1, <1>2, <1>5, <2>7, HashedKeeps
<1>6. CASE Fails(0)
  BY <1>1, <1>2, <1>6, FailsKeeps
<1> QED
  BY <1>4, <1>5, <1>6 DEF HashLeafLevel

\* A tile of a higher level is complete.
LEMMA HashUpperKeeps ==
    ASSUME AInv, NEW l \in DOMAIN hash, l > 0, HashUpperTile(l)
    PROVE  AInv'
<1>1. Pipeline /\ chan' = chan /\ Busy(l) /\ pc = "hash" /\ Len(hash[l].in) = Covers[l]
  BY DEF HashUpperTile, Pipeline, witness
<1>2. l \in Nat /\ LevelOK(leaves, hash[l], chan[l], l)
  BY <1>1, LevelFacts
<1> DEFINE p == <<l, hash[l].off>>
<1>3. p \in Nat \X Nat /\ p[1] = l /\ p[2] = hash[l].off
  BY <1>2 DEF LevelOK
<1>4. TileOK(leaves, p, hash[l].in)
  <2> HIDE DEF p
  <2> QED
    BY <1>1, <1>2, <1>3 DEF LevelOK, TileOK
<1>5. CASE Hashed(l, hash[l].in)
  BY <1>1, <1>4, <1>5, HashedKeeps
<1>6. CASE Fails(l)
  BY <1>1, <1>6, FailsKeeps
<1> QED
  BY <1>5, <1>6 DEF HashUpperTile

\* The first root leaves a channel.
LEMMA TailLevel ==
    ASSUME NEW T, NEW h, NEW c, NEW l \in Nat, LevelOK(T, h, c, l), c # <<>>
    PROVE  /\ Head(c) \in Seq(Leaf) /\ Len(Head(c)) = Covers[l]
           /\ At(T, Head(c), (Sent(h) - Len(c)) * Covers[l])
           /\ LevelOK(T, h, Tail(c), l) /\ Len(Tail(c)) = Len(c) - 1
           /\ Len(c) \in Nat /\ Sent(h) \in Nat /\ Sent(h) - Len(c) \in Nat
<1>1. /\ c \in Seq(Seq(Leaf)) /\ Len(c) \in Nat \ {0} /\ Len(c) <= Sent(h) /\ Sent(h) \in Nat
      /\ \A j \in 1..Len(c) : TileOK(T, <<l, (Sent(h) - Len(c)) + (j - 1)>>, c[j])
  <2>1. c \in Seq(Seq(Leaf)) /\ Len(c) <= Sent(h) /\ Sent(h) \in Nat
    BY DEF LevelOK, Sent
  <2> QED
    BY <2>1 DEF LevelOK
<1>2. PICK d \in Nat : d = Sent(h) - Len(c)
  BY <1>1
<1>3. /\ Head(c) = c[1] /\ Tail(c) \in Seq(Seq(Leaf)) /\ Len(Tail(c)) = Len(c) - 1
      /\ \A j \in 1..(Len(c) - 1) : Tail(c)[j] = c[j + 1]
  BY <1>1
<1>4. \A j \in 1..Len(c) : TileOK(T, <<l, d + (j - 1)>>, c[j])
  BY <1>1, <1>2
<1>5. TileOK(T, <<l, d>>, Head(c))
  <2>1. 1 \in 1..Len(c) /\ d + (1 - 1) = d
    BY <1>1
  <2> QED
    BY <1>3, <1>4, <2>1
<1>6. Head(c) \in Seq(Leaf) /\ Len(Head(c)) = Covers[l] /\ At(T, Head(c), d * Covers[l])
  <2>1. <<l, d>>[1] = l /\ <<l, d>>[2] = d
    OBVIOUS
  <2> QED
    BY <1>5, <2>1 DEF TileOK
<1>7. Sent(h) - Len(Tail(c)) = d + 1
  BY <1>1, <1>2, <1>3
<1>8. ASSUME NEW j \in 1..Len(Tail(c))
      PROVE  TileOK(T, <<l, (Sent(h) - Len(Tail(c))) + (j - 1)>>, Tail(c)[j])
  <2>1. j + 1 \in 1..Len(c) /\ d + ((j + 1) - 1) = (d + 1) + (j - 1) /\ j \in 1..(Len(c) - 1)
    BY <1>1, <1>3
  <2>2. TileOK(T, <<l, d + ((j + 1) - 1)>>, c[j + 1])
    BY <1>4, <2>1
  <2>3. TileOK(T, <<l, (d + 1) + (j - 1)>>, Tail(c)[j])
    BY <1>3, <2>1, <2>2
  <2> QED
    BY <1>7, <2>3
<1>9. LevelOK(T, h, Tail(c), l)
  BY <1>1, <1>3, <1>8 DEF LevelOK
<1> QED
  BY <1>1, <1>2, <1>3, <1>6, <1>9

\* A goroutine receives a root.
LEMMA ReceiveKeeps ==
    ASSUME AInv, NEW l \in DOMAIN hash, l > 0, ReceiveRoot(l)
    PROVE  AInv'
<1> DEFINE b == l - 1
           c == chan[b]
           g == hash[b]
           s == hash[l].in \o Head(c)
           h == [hash[l] EXCEPT !.in = s]
<1>1. /\ Pipeline /\ c # <<>> /\ pc = "hash" /\ tiles' = tiles
      /\ hash' = [hash EXCEPT ![l] = h] /\ chan' = [chan EXCEPT ![b] = Tail(c)]
  BY DEF ReceiveRoot, Pipeline, witness, db
<1>2. /\ l \in Nat /\ b \in Nat /\ b + 1 = l /\ b # l /\ b \in DOMAIN hash /\ DOMAIN chan = DOMAIN hash
      /\ 0 \in DOMAIN hash
      /\ LevelOK(leaves, hash[l], chan[l], l) /\ LevelOK(leaves, g, c, b)
      /\ LinkOK(g, c, hash[l], b)
  BY <1>1, LevelFacts
<1>3. /\ Head(c) \in Seq(Leaf) /\ Len(Head(c)) = Covers[b]
      /\ At(leaves, Head(c), (Sent(g) - Len(c)) * Covers[b])
      /\ LevelOK(leaves, g, Tail(c), b) /\ Len(Tail(c)) = Len(c) - 1
      /\ Len(c) \in Nat /\ Sent(g) \in Nat /\ Sent(g) - Len(c) \in Nat
  BY <1>1, <1>2, TailLevel
<1>4. PICK x \in Nat \ {0}, y \in Nat \ {0} : x = Covers[b] /\ y = Covers[l]
  BY <1>2, CoversFacts
<1>5. PICK i \in Nat : i = hash[l].off * y
  BY <1>2, ProductFacts DEF LevelOK
<1>6. /\ hash[l].in \in Seq(Leaf) /\ Len(hash[l].in) \in Nat /\ At(leaves, hash[l].in, i)
      /\ (Sent(g) - Len(c)) * Covers[b] = i + Len(hash[l].in)
  BY <1>2, <1>4, <1>5 DEF LevelOK, LinkOK
<1>7. s \in Seq(Leaf) /\ Len(s) = Len(hash[l].in) + x /\ At(leaves, s, i)
  <2>1. At(leaves, Head(c), i + Len(hash[l].in))
    BY <1>3, <1>6
  <2>2. Head(c) \in Seq(Leaf) /\ Len(Head(c)) = x
    BY <1>3, <1>4
  <2> HIDE DEF c
  <2> QED
    BY <1>6, <2>1, <2>2, AtConcat
<1>8. /\ h \in [st : {"run", "failed"}, off : Nat, in : Seq(Leaf), out : Seq(Leaf)]
      /\ h.off = hash[l].off /\ h.out = hash[l].out /\ h.in = s
  <2> HIDE DEF s
  <2> QED
    BY <1>2, <1>7 DEF LevelOK
<1> HIDE DEF h, s
<1>9. Sent(h) = Sent(hash[l])
  BY <1>8 DEF Sent
<1>10. LevelOK(leaves, h, chan[l], l)
  BY <1>2, <1>4, <1>5, <1>7, <1>8, <1>9 DEF LevelOK
<1>11. LinkOK(g, Tail(c), h, b)
  <2>1. PICK d \in Nat : d = Sent(g) - Len(c)
    BY <1>3
  <2>2. Sent(g) - Len(Tail(c)) = d + 1
    BY <1>3, <2>1
  <2>3. d * x = i + Len(hash[l].in)
    BY <1>4, <1>6, <2>1
  <2>4. (d + 1) * x = d * x + x
    OBVIOUS
  <2>5. (d + 1) * x = i + Len(s)
    <3>1. PICK n \in Nat : n = Len(hash[l].in)
      BY <1>6
    <3>2. (d + 1) * x = (i + n) + x /\ Len(s) = n + x
      BY <1>7, <2>3, <2>4, <3>1
    <3>3. (i + n) + x = i + (n + x)
      OBVIOUS
    <3> QED
      BY <3>2, <3>3
  <2> QED
    BY <1>2, <1>4, <1>5, <1>8, <2>2, <2>5 DEF LinkOK
<1>12. /\ DOMAIN hash' = DOMAIN hash /\ DOMAIN chan' = DOMAIN hash /\ hash'[l] = h /\ chan'[b] = Tail(c)
       /\ \A m \in DOMAIN hash : (m # l => hash'[m] = hash[m]) /\ (m # b => chan'[m] = chan[m])
  BY <1>1, <1>2
<1>13. ASSUME NEW m \in DOMAIN hash
       PROVE  /\ LevelOK(leaves, hash'[m], chan'[m], m)
              /\ m > 0 => m - 1 \in DOMAIN hash /\ LinkOK(hash'[m - 1], chan'[m - 1], hash'[m], m - 1)
  <2>0. m \in Nat /\ LevelOK(leaves, hash[m], chan[m], m)
        /\ (m > 0 => m - 1 \in DOMAIN hash /\ LinkOK(hash[m - 1], chan[m - 1], hash[m], m - 1))
    BY <1>1, LevelFacts
  <2>1. LevelOK(leaves, hash'[m], chan'[m], m)
    <3>1. CASE m = l
      BY <1>2, <1>10, <1>12, <3>1
    <3>2. CASE m = b
      BY <1>2, <1>3, <1>12, <3>2
    <3>3. CASE m # l /\ m # b
      BY <1>12, <2>0, <3>3
    <3> QED
      BY <3>1, <3>2, <3>3
  <2>2. ASSUME m > 0 PROVE m - 1 \in DOMAIN hash /\ LinkOK(hash'[m - 1], chan'[m - 1], hash'[m], m - 1)
    <3>0. m - 1 \in DOMAIN hash /\ LinkOK(hash[m - 1], chan[m - 1], hash[m], m - 1)
      BY <2>0, <2>2
    <3>1. CASE m = l
      BY <1>2, <1>11, <1>12, <3>0, <3>1
    <3>2. CASE m - 1 = l
      <4>1. m # l /\ m - 1 # b
        BY <1>2, <2>0, <3>2
      <4>2. hash'[m - 1] = h /\ hash'[m] = hash[m] /\ chan'[m - 1] = chan[m - 1]
        BY <1>12, <3>0, <3>2, <4>1
      <4> QED
        BY <1>9, <3>0, <3>2, <4>2 DEF LinkOK
    <3>3. CASE m # l /\ m - 1 # l
      <4>1. m - 1 # b
        BY <1>2, <2>0, <3>3
      <4> QED
        BY <1>12, <3>0, <3>3, <4>1
    <3> QED
      BY <3>1, <3>2, <3>3
  <2> QED
    BY <2>1, <2>2
<1>14. HashInv'
  <2>1. leaves' = leaves /\ \A m \in DOMAIN hash : m \in Nat
    BY <1>1, LevelFacts DEF Pipeline
  <2> QED
    BY <1>2, <1>12, <1>13, <2>1 DEF HashInv
<1>15. TileInv'
  BY <1>1 DEF AInv, TileInv, Pipeline
<1> QED
  BY <1>1, <1>14, <1>15, PipelineKeeps

\* A goroutine sends a root.
LEMMA SendKeeps ==
    ASSUME AInv, NEW l \in DOMAIN hash, SendRoot(l)
    PROVE  AInv'
<1> DEFINE c == chan[l]
           u == hash[l].out
           d == Append(c, u)
           h == [hash[l] EXCEPT !.out = <<>>]
<1>1. /\ Pipeline /\ u # <<>> /\ pc = "hash" /\ tiles' = tiles
      /\ hash' = [hash EXCEPT ![l] = h] /\ chan' = [chan EXCEPT ![l] = d]
  BY DEF SendRoot, Pipeline, witness, db
<1>2. /\ l \in Nat /\ DOMAIN chan = DOMAIN hash /\ 0 \in DOMAIN hash
      /\ LevelOK(leaves, hash[l], c, l)
  BY <1>1, LevelFacts
<1>3. /\ hash[l].off \in Nat \ {0} /\ Sent(hash[l]) = hash[l].off - 1 /\ c \in Seq(Seq(Leaf))
      /\ u \in Seq(Leaf) /\ Len(c) \in Nat /\ Len(c) <= hash[l].off - 1
      /\ TileOK(leaves, <<l, hash[l].off - 1>>, u)
      /\ \A j \in 1..Len(c) : TileOK(leaves, <<l, (Sent(hash[l]) - Len(c)) + (j - 1)>>, c[j])
  BY <1>1, <1>2 DEF LevelOK, Sent
<1>4. /\ h \in [st : {"run", "failed"}, off : Nat, in : Seq(Leaf), out : Seq(Leaf)]
      /\ h.off = hash[l].off /\ h.out = <<>> /\ h.in = hash[l].in
  <2>1. <<>> \in Seq(Leaf)
    OBVIOUS
  <2> QED
    BY <1>2, <2>1 DEF LevelOK
<1> HIDE DEF h
<1>5. /\ d \in Seq(Seq(Leaf)) /\ Len(d) = Len(c) + 1 /\ d[Len(c) + 1] = u
      /\ \A j \in 1..Len(c) : d[j] = c[j]
  BY <1>3
<1> HIDE DEF d
<1>6. Sent(h) = hash[l].off /\ Sent(h) - Len(d) = Sent(hash[l]) - Len(c) /\ Len(d) <= Sent(h)
  <2>1. Sent(h) = hash[l].off
    BY <1>4 DEF Sent
  <2>2. /\ hash[l].off \in Nat \ {0} /\ Len(c) \in Nat /\ Len(c) <= hash[l].off - 1
        /\ Sent(hash[l]) = hash[l].off - 1 /\ Len(d) = Len(c) + 1
    BY <1>3, <1>5
  <2> QED
    BY <2>1, <2>2
<1>7. ASSUME NEW j \in 1..Len(d)
      PROVE  TileOK(leaves, <<l, (Sent(h) - Len(d)) + (j - 1)>>, d[j])
  <2>1. CASE j \in 1..Len(c)
    BY <1>3, <1>5, <1>6, <2>1
  <2>2. CASE j = Len(c) + 1
    <3>1. (Sent(h) - Len(d)) + (j - 1) = hash[l].off - 1
      BY <1>3, <1>5, <1>6, <2>2
    <3> QED
      BY <1>3, <1>5, <2>2, <3>1
  <2> QED
    BY <1>3, <1>5, <2>1, <2>2
<1>8. LevelOK(leaves, h, d, l)
  BY <1>2, <1>4, <1>5, <1>6, <1>7 DEF LevelOK
<1>9. /\ DOMAIN hash' = DOMAIN hash /\ DOMAIN chan' = DOMAIN hash /\ hash'[l] = h /\ chan'[l] = d
      /\ \A m \in DOMAIN hash : m # l => hash'[m] = hash[m] /\ chan'[m] = chan[m]
  BY <1>1, <1>2
<1>10. ASSUME NEW m \in DOMAIN hash
       PROVE  /\ LevelOK(leaves, hash'[m], chan'[m], m)
              /\ m > 0 => m - 1 \in DOMAIN hash /\ LinkOK(hash'[m - 1], chan'[m - 1], hash'[m], m - 1)
  <2>0. m \in Nat /\ LevelOK(leaves, hash[m], chan[m], m)
        /\ (m > 0 => m - 1 \in DOMAIN hash /\ LinkOK(hash[m - 1], chan[m - 1], hash[m], m - 1))
    BY <1>1, LevelFacts
  <2>1. LevelOK(leaves, hash'[m], chan'[m], m)
    BY <1>8, <1>9, <2>0
  <2>2. ASSUME m > 0 PROVE m - 1 \in DOMAIN hash /\ LinkOK(hash'[m - 1], chan'[m - 1], hash'[m], m - 1)
    <3>0. m - 1 \in DOMAIN hash /\ LinkOK(hash[m - 1], chan[m - 1], hash[m], m - 1) /\ m - 1 # m
      BY <2>0, <2>2
    <3>1. CASE m = l
      <4>1. hash'[m] = h /\ hash'[m - 1] = hash[m - 1] /\ chan'[m - 1] = chan[m - 1]
        BY <1>9, <3>0, <3>1
      <4> QED
        BY <1>4, <3>0, <3>1, <4>1 DEF LinkOK
    <3>2. CASE m - 1 = l
      <4>1. hash'[m - 1] = h /\ hash'[m] = hash[m] /\ chan'[m - 1] = d
        BY <1>9, <3>0, <3>2
      <4> QED
        BY <1>6, <3>0, <3>2, <4>1 DEF LinkOK
    <3>3. CASE m # l /\ m - 1 # l
      BY <1>9, <3>0, <3>3
    <3> QED
      BY <3>1, <3>2, <3>3
  <2> QED
    BY <2>1, <2>2
<1>11. HashInv'
  <2>1. leaves' = leaves /\ \A m \in DOMAIN hash : m \in Nat
    BY <1>1, LevelFacts DEF Pipeline
  <2> QED
    BY <1>2, <1>9, <1>10, <2>1 DEF HashInv
<1>12. TileInv'
  BY <1>1 DEF AInv, TileInv, Pipeline
<1> QED
  BY <1>1, <1>11, <1>12, PipelineKeeps

-----------------------------------------------------------------------------
(* Steps that write a table. *)

\* Leaves are added while the mirror clones.
LEMMA GrowKeeps ==
    ASSUME AInv, Within(leaves, leaves'), UNCHANGED <<tiles, goldens, metadata, reply>>
    PROVE  TileInv' /\ GoldenBacked' /\ GoldenSuccession' /\ MetadataVerified' /\ ConsistentMeansStored'
<1>1. \A i \in DOMAIN leaves : i \in DOMAIN leaves' /\ leaves'[i] = leaves[i]
  BY DEF Within
<1>2. TileInv'
  <2>1. \A p, s : TileOK(leaves, p, s) => TileOK(leaves', p, s)
    BY AtGrows
  <2> QED
    BY <2>1 DEF AInv, TileInv
<1>3. GoldenBacked' /\ ConsistentMeansStored'
  <2>1. \A t : Whole(t)' = Whole(t)
    BY DEF Whole
  <2> QED
    BY <1>1, <2>1 DEF AInv, GoldInv, GoldenBacked, ConsistentMeansStored, Whole
<1>4. GoldenSuccession' /\ MetadataVerified'
  BY DEF AInv, GoldInv, GoldenSuccession, MetadataVerified
<1> QED
  BY <1>2, <1>3, <1>4

\* A tile of leaves is written.
LEMMA CloneTileKeeps ==
    ASSUME AInv, CloneTile
    PROVE  AInv'
<1> DEFINE d == Under(served, 0, next)
           s == next * Width
<1>0. /\ served \in Seq(Leaf) /\ next \in Nat /\ left \in Nat /\ Width \in Nat \ {0}
      /\ TableOK(leaves) /\ lost \in BOOLEAN
  BY AuditAssumption DEF AInv, TypeInv
<1>1. /\ pc = "clone" /\ left > 0 /\ Size(served) >= (next + 1) * Width
      /\ InsertAll(leaves, s, d) /\ next' = next + 1 /\ left' = left - 1
      /\ UNCHANGED <<tiles, goldens, metadata, served, pc, target, req, reply>>
  BY DEF CloneTile, witness
<1>2. d \in Seq(Leaf)
  <2>1. (next + 1) * Covers[0] <= Len(served)
    <3>1. PICK z \in Nat : z = (next + 1) * Width
      BY <1>0, ProductFacts
    <3>2. Len(served) >= z /\ Len(served) \in Nat
      BY <1>0, <1>1, <3>1 DEF Size
    <3> QED
      BY <3>1, <3>2, CoversFacts
  <2> QED
    BY <1>0, <2>1, UnderFacts
<1>3. s \in Nat
  BY <1>0, ProductFacts
<1> HIDE DEF s, d
<1>4. PICK ok \in SUBSET (1..Len(d)) : leaves' = Insert(leaves, s, d, ok)
  <2>1. CASE leaves' = Insert(leaves, s, d, 1..Len(d))
    BY <2>1
  <2>2. ASSUME NEW k \in 1..Len(d), leaves' = Insert(leaves, s, d, (1..Len(d)) \ {k})
        PROVE  \E ok \in SUBSET (1..Len(d)) : leaves' = Insert(leaves, s, d, ok)
    BY <2>2
  <2> QED
    BY <1>1, <2>1, <2>2 DEF InsertAll
<1>5. TableOK(leaves') /\ Within(leaves, leaves')
  BY <1>0, <1>2, <1>3, <1>4, InsertFacts
<1>6. lost' \in BOOLEAN
  <2>1. lost' = lost \/ lost' = TRUE
    BY <1>1 DEF InsertAll
  <2> QED
    BY <1>0, <2>1
<1>7. TypeInv'
  BY <1>0, <1>1, <1>5, <1>6 DEF AInv, TypeInv
<1>8. TileInv' /\ GoldenBacked' /\ GoldenSuccession' /\ MetadataVerified' /\ ConsistentMeansStored'
  BY <1>1, <1>5, GrowKeeps
<1>9. GoldInv' /\ HashInv'
  BY <1>1, <1>8 DEF GoldInv, HashInv
<1> QED
  BY <1>7, <1>8, <1>9 DEF AInv

\* The golden checkpoint agrees with a new one that matches the tiles.
LEMMA SuccessionFacts ==
    ASSUME TypeInv, TileInv, NEW u \in Seq(Leaf), NEW t \in Seq(Leaf), TilesMatch(t),
           Stored(u, Whole(u)),
           Stored(u, Size(u)) \/ \A i \in DOMAIN leaves : i < Size(u)
    PROVE  \A i \in 1..Min({Size(u), Whole(t)}) : u[i] = t[i]
<1>0. Size(u) \in Nat /\ Size(t) \in Nat /\ Width \in Nat \ {0}
  BY AuditAssumption DEF Size
<1>1. PICK x \in Nat : x = Size(t) \div Width
  BY <1>0, DivFacts
<1>2. PICK n \in Nat : n = Whole(t) /\ n = x * Width
  BY <1>0, <1>1, ProductFacts DEF Whole
<1>3. Stored(t, n)
  BY <1>2, TilesBack
<1>4. Min({Size(u), n}) = IF Size(u) <= n THEN Size(u) ELSE n
  <2>1. PICK m \in Nat : m = Size(u)
    BY <1>0
  <2>2. \A y \in {m, n} : (IF m <= n THEN m ELSE n) <= y
    OBVIOUS
  <2>3. Min({m, n}) = IF m <= n THEN m ELSE n
    BY <2>2 DEF Min
  <2> QED
    BY <2>1, <2>3
<1> SUFFICES ASSUME NEW i \in Nat, 1 <= i, i <= Size(u), i <= n PROVE u[i] = t[i]
  <2>1. \A i \in 1..Min({Size(u), n}) : i \in Nat /\ 1 <= i /\ i <= Size(u) /\ i <= n
    BY <1>0, <1>4
  <2> QED
    BY <1>2, <2>1
<1>5. i \in 1..n /\ leaves[i - 1] = t[i]
  BY <1>3 DEF Stored
<1>6. CASE Stored(u, Size(u))
  <2>1. i \in 1..Size(u)
    BY <1>0
  <2> QED
    BY <1>5, <1>6, <2>1 DEF Stored
<1>7. CASE \A j \in DOMAIN leaves : j < Size(u)
  <2>0. n \in 1..n
    BY <1>5
  <2>1. n - 1 \in DOMAIN leaves
    BY <1>3, <2>0 DEF Stored
  <2>2. n <= Size(u)
    BY <1>0, <1>7, <2>1
  <2>3. PICK y \in Nat : y = Size(u) \div Width /\ Size(u) < (y + 1) * Width
    BY <1>0, DivFacts
  <2>4. x < y + 1
    <3>1. x * Width < (y + 1) * Width
      <4>1. PICK z \in Nat : z = (y + 1) * Width
        BY <1>0, ProductFacts
      <4> QED
        BY <1>0, <1>2, <2>2, <2>3, <4>1
    <3> QED
      BY <1>0, <3>1, LessFacts
  <2>5. n <= Whole(u)
    <3>1. x * Width <= y * Width
      BY <1>0, <2>4, ProductFacts
    <3> QED
      BY <1>2, <2>3, <3>1 DEF Whole
  <2>6. Whole(u) \in Nat
    BY <1>0, <2>3, ProductFacts DEF Whole
  <2>7. i \in 1..Whole(u)
    BY <2>5, <2>6
  <2> QED
    BY <1>5, <2>7 DEF Stored
<1> QED
  BY <1>6, <1>7

\* The checkpoint of a round becomes golden.
LEMMA RootOKKeeps ==
    ASSUME AInv, RootOK
    PROVE  AInv'
<1>0. /\ goldens \in Seq(Seq(Leaf)) /\ target \in Seq(Leaf) /\ Width \in Nat \ {0}
      /\ \A g \in DOMAIN goldens : goldens[g] \in Served /\ goldens[g] \in Seq(Leaf)
  BY AuditAssumption DEF AInv, TypeInv
<1>1. /\ pc = "root" /\ TilesMatch(target) /\ goldens' = Append(goldens, target)
      /\ pc' = "metadata" /\ next' = (HeadIndex(metadata) + 1) \div Width
      /\ UNCHANGED <<leaves, tiles, metadata, lost, served, target, left, req, reply>>
  BY DEF RootOK, witness
<1>2. /\ goldens' \in Seq(Seq(Leaf)) /\ Len(goldens) \in Nat /\ Len(goldens') = Len(goldens) + 1
      /\ DOMAIN goldens' = 1..(Len(goldens) + 1) /\ DOMAIN goldens = 1..Len(goldens)
      /\ goldens'[Len(goldens) + 1] = target /\ goldens' # <<>>
      /\ \A g \in 1..Len(goldens) : goldens'[g] = goldens[g]
  BY <1>0, <1>1
<1>3. next' \in Nat
  <2>1. TableOK(metadata)
    BY DEF AInv, TypeInv
  <2>2. PICK x \in Nat : x = HeadIndex(metadata) + 1
    <3>1. HeadIndex(metadata) \in Nat \cup {-1}
      BY <2>1, HeadFacts
    <3> QED
      BY <3>1
  <2> QED
    BY <1>0, <1>1, <2>2, DivFacts
<1>4. TypeInv'
  <2>1. target \in Served
    BY <1>1 DEF AInv, TypeInv
  <2>2. \A g \in DOMAIN goldens' : goldens'[g] \in Served
    <3>1. ASSUME NEW g \in DOMAIN goldens' PROVE goldens'[g] \in Served
      <4>1. g \in 1..Len(goldens) \/ g = Len(goldens) + 1
        BY <1>2
      <4> QED
        BY <1>0, <1>2, <2>1, <4>1
    <3> QED
      BY <3>1
  <2> QED
    BY <1>1, <1>2, <1>3, <2>1, <2>2 DEF AInv, TypeInv
<1>5. TileInv' /\ HashInv' /\ ConsistentMeansStored'
  BY <1>1 DEF AInv, TileInv, HashInv, ConsistentMeansStored
<1>6. GoldenBacked'
  <2>1. ASSUME NEW g \in DOMAIN goldens' PROVE Stored(goldens'[g], Whole(goldens'[g]))
    <3>1. CASE g \in 1..Len(goldens)
      BY <1>2, <3>1 DEF AInv, GoldInv, GoldenBacked, Stored
    <3>2. CASE g = Len(goldens) + 1
      BY <1>0, <1>1, <1>2, <3>2, TilesBack DEF AInv
    <3> QED
      BY <1>2, <3>1, <3>2
  <2> QED
    BY <1>1, <2>1 DEF GoldenBacked, Stored, Whole
<1>7. GoldenSuccession'
  <2>1. ASSUME NEW g \in 1..(Len(goldens') - 1)
        PROVE  \A i \in 1..Min({Size(goldens'[g]), Whole(goldens'[g + 1])}) :
                   goldens'[g][i] = goldens'[g + 1][i]
    <3>1. CASE g \in 1..(Len(goldens) - 1)
      <4>1. g \in 1..Len(goldens) /\ g + 1 \in 1..Len(goldens)
        BY <1>2, <3>1
      <4> QED
        BY <1>2, <3>1, <4>1 DEF AInv, GoldInv, GoldenSuccession
    <3>2. CASE g = Len(goldens)
      <4>1. g \in 1..Len(goldens) /\ goldens # <<>>
        BY <1>2, <3>2
      <4>2. goldens'[g] = goldens[g] /\ goldens'[g + 1] = target /\ goldens[g] \in Seq(Leaf)
        BY <1>0, <1>2, <3>2, <4>1
      <4>3. Stored(goldens[g], Whole(goldens[g]))
        BY <1>2, <4>1 DEF AInv, GoldInv, GoldenBacked, Stored
      <4>4. \/ Stored(goldens[g], Size(goldens[g]))
            \/ \A i \in DOMAIN leaves : i < Size(goldens[g])
        BY <1>1, <3>2, <4>1 DEF AInv, GoldInv
      <4>5. \A i \in 1..Min({Size(goldens[g]), Whole(target)}) : goldens[g][i] = target[i]
        BY <1>0, <1>1, <4>2, <4>3, <4>4, SuccessionFacts DEF AInv
      <4> QED
        BY <4>2, <4>5
    <3>3. PICK n \in Nat : n = Len(goldens)
      BY <1>2
    <3>4. g \in 1..(n - 1) \/ g = n
      <4>1. Len(goldens') = n + 1
        BY <1>2, <3>3
      <4>2. g \in 1..((n + 1) - 1)
        BY <4>1
      <4> QED
        BY <4>2
    <3> QED
      BY <3>1, <3>2, <3>3, <3>4
  <2> QED
    BY <2>1 DEF GoldenSuccession, Whole
<1>8. MetadataVerified'
  <2>1. ASSUME NEW i \in DOMAIN metadata
        PROVE  \E g \in DOMAIN goldens' : Size(goldens'[g]) > i /\ goldens'[g][i + 1] = metadata[i]
    <3>1. PICK g \in DOMAIN goldens : Size(goldens[g]) > i /\ goldens[g][i + 1] = metadata[i]
      BY DEF AInv, GoldInv, MetadataVerified
    <3>2. g \in DOMAIN goldens' /\ goldens'[g] = goldens[g]
      BY <1>2
    <3> QED
      BY <3>1, <3>2
  <2> QED
    BY <1>1, <2>1 DEF MetadataVerified
<1>9. GoldInv'
  BY <1>1, <1>2, <1>6, <1>7, <1>8 DEF GoldInv
<1> QED
  BY <1>4, <1>5, <1>9 DEF AInv

\* Metadata is unpacked from the leaves of a tile.
LEMMA ProcessMetadataKeeps ==
    ASSUME AInv, ProcessMetadata
    PROVE  AInv'
<1> DEFINE d == LeafBlock(next)
           s == next * Width
<1>0. /\ next \in Nat /\ Width \in Nat \ {0} /\ TableOK(metadata) /\ TableOK(leaves)
      /\ lost \in BOOLEAN /\ target \in Seq(Leaf) /\ Size(target) \in Nat
  BY AuditAssumption DEF AInv, TypeInv, Size
<1>1. /\ pc = "metadata" /\ next < Size(target) \div Width /\ HasBlock(next)
      /\ InsertAll(metadata, s, d) /\ next' = next + 1
      /\ UNCHANGED <<leaves, tiles, goldens, served, pc, target, left, req, reply>>
  BY DEF ProcessMetadata, witness
<1>2. s \in Nat
  BY <1>0, ProductFacts
<1>3. PICK q \in Nat : q = Size(target) \div Width
  BY <1>0, DivFacts
<1>4. Whole(target) \in Nat /\ s + Width <= Whole(target)
  <2>1. (next + 1) * Width <= q * Width
    BY <1>0, <1>1, <1>3, ProductFacts
  <2>2. (next + 1) * Width = s + Width
    BY <1>0
  <2>3. q * Width \in Nat
    BY <1>0, ProductFacts
  <2> QED
    BY <1>2, <1>3, <2>1, <2>2, <2>3 DEF Whole
<1>5. Whole(target) <= Size(target)
  BY <1>0, DivFacts DEF Whole
<1>6. /\ goldens # <<>> /\ target = goldens[Len(goldens)] /\ Len(goldens) \in DOMAIN goldens
      /\ Stored(target, Whole(target))
  <2>1. goldens # <<>> /\ target = goldens[Len(goldens)] /\ goldens \in Seq(Seq(Leaf))
    BY <1>1 DEF AInv, GoldInv, TypeInv
  <2>2. Len(goldens) \in DOMAIN goldens
    BY <2>1
  <2> QED
    BY <2>1, <2>2 DEF AInv, GoldInv, GoldenBacked, Stored
<1>7. \A k \in 1..Width : d[k] = leaves[s + k - 1] /\ d[k] = target[s + k]
  <2> SUFFICES ASSUME NEW k \in 1..Width PROVE d[k] = leaves[s + k - 1] /\ d[k] = target[s + k]
    OBVIOUS
  <2>1. d[k] = leaves[s + k - 1]
    BY DEF LeafBlock
  <2>2. s + k \in 1..Whole(target)
    <3> HIDE DEF s
    <3> QED
      BY <1>0, <1>2, <1>4
  <2>3. leaves[s + k - 1] = target[s + k]
    <3> HIDE DEF s, d
    <3>1. \A j \in 1..Whole(target) : leaves[j - 1] = target[j]
      BY <1>6 DEF Stored
    <3>2. leaves[(s + k) - 1] = target[s + k]
      BY <2>2, <3>1, Zenon
    <3>3. (s + k) - 1 = s + k - 1
      BY <1>2
    <3> QED
      BY <3>2, <3>3
  <2> HIDE DEF s, d
  <2> QED
    BY <2>1, <2>3
<1>8. d \in Seq(Leaf) /\ Len(d) = Width
  <2>1. \A k \in 1..Width : d[k] \in Leaf
    <3> SUFFICES ASSUME NEW k \in 1..Width PROVE d[k] \in Leaf
      OBVIOUS
    <3>1. s + k \in 1..Len(target)
      <4> HIDE DEF s
      <4> QED
        BY <1>0, <1>2, <1>4, <1>5 DEF Size
    <3>2. target[s + k] \in Leaf
      BY <1>0, <3>1
    <3> QED
      BY <1>7, <3>2
  <2>2. d = [k \in 1..Width |-> d[k]]
    BY DEF LeafBlock
  <2>3. d \in [1..Width -> Leaf]
    <3> HIDE DEF d
    <3> QED
      BY <2>1, <2>2
  <2> HIDE DEF d
  <2> QED
    BY <1>0, <2>3
<1> HIDE DEF s, d
<1>9. PICK ok \in SUBSET (1..Len(d)) : metadata' = Insert(metadata, s, d, ok)
  <2>1. CASE metadata' = Insert(metadata, s, d, 1..Len(d))
    BY <2>1
  <2>2. ASSUME NEW k \in 1..Len(d), metadata' = Insert(metadata, s, d, (1..Len(d)) \ {k})
        PROVE  \E ok \in SUBSET (1..Len(d)) : metadata' = Insert(metadata, s, d, ok)
    BY <2>2
  <2> QED
    BY <1>1, <2>1, <2>2 DEF InsertAll
<1>10. /\ TableOK(metadata') /\ Within(metadata, metadata')
       /\ \A i \in DOMAIN metadata' :
             i \in DOMAIN metadata \/ \E k \in 1..Len(d) : i = s + k - 1 /\ metadata'[i] = d[k]
  BY <1>0, <1>2, <1>8, <1>9, InsertFacts
<1>11. lost' \in BOOLEAN
  <2>1. lost' = lost \/ lost' = TRUE
    BY <1>1 DEF InsertAll
  <2> QED
    BY <1>0, <2>1
<1>12. TypeInv'
  BY <1>0, <1>1, <1>10, <1>11 DEF AInv, TypeInv
<1>13. MetadataVerified'
  <2>1. ASSUME NEW i \in DOMAIN metadata'
        PROVE  \E g \in DOMAIN goldens : Size(goldens[g]) > i /\ goldens[g][i + 1] = metadata'[i]
    <3>1. CASE i \in DOMAIN metadata
      <4>1. metadata'[i] = metadata[i]
        BY <1>10, <3>1 DEF Within
      <4> QED
        BY <3>1, <4>1 DEF AInv, GoldInv, MetadataVerified
    <3>2. CASE i \notin DOMAIN metadata
      <4>1. PICK k \in 1..Len(d) : i = s + k - 1 /\ metadata'[i] = d[k]
        BY <1>10, <3>2
      <4>2. k \in 1..Width
        BY <1>8
      <4>3. i + 1 = s + k /\ Size(target) > i
        BY <1>0, <1>2, <1>4, <1>5, <4>1, <4>2
      <4>4. target[i + 1] = metadata'[i]
        BY <1>7, <4>1, <4>2, <4>3
      <4> QED
        BY <1>6, <4>3, <4>4
    <3> QED
      BY <3>1, <3>2
  <2> QED
    BY <1>1, <2>1 DEF MetadataVerified
<1>14. TileInv' /\ HashInv' /\ ConsistentMeansStored'
  BY <1>1 DEF AInv, TileInv, HashInv, ConsistentMeansStored
<1>15. GoldenBacked' /\ GoldenSuccession'
  BY <1>1 DEF AInv, GoldInv, GoldenBacked, GoldenSuccession
<1>16. GoldInv'
  BY <1>1, <1>6, <1>13, <1>15 DEF GoldInv
<1> QED
  BY <1>12, <1>14, <1>16 DEF AInv

-----------------------------------------------------------------------------
(* The witness. *)

\* A request and an answer that is sound leave the rest as it is.
LEMMA RequestKeeps ==
    ASSUME AInv, UNCHANGED <<db, served, mirror>>,
           req' \in [pc : {"idle", "head", "tiles"}, cp : Seq(Leaf), golden : Seq(Leaf) \cup {None}],
           reply' \in [cp : Seq(Leaf), golden : Seq(Leaf) \cup {None}, verdict : Verdict],
           ConsistentMeansStored'
    PROVE  AInv'
<1>1. /\ UNCHANGED <<leaves, tiles, goldens, metadata, lost, served>>
      /\ UNCHANGED <<pc, target, next, left, hash, chan>>
  BY DEF db, mirror
<1>2. TypeInv'
  BY <1>1 DEF AInv, TypeInv
<1>3. TileInv' /\ GoldInv'
  BY <1>1, TablesSame
<1>4. HashInv'
  BY <1>1 DEF AInv, HashInv
<1> QED
  BY <1>2, <1>3, <1>4 DEF AInv

\* CheckConsistency reads the golden checkpoint.
LEMMA QueryGoldenKeeps ==
    ASSUME AInv, NEW t \in Served, QueryGolden(t)
    PROVE  AInv'
<1>1. t \in Seq(Leaf) /\ t # None
  BY AuditAssumption
<1>2. Golden \in Seq(Leaf)
  <2>1. goldens \in Seq(Seq(Leaf)) /\ goldens # <<>>
    BY DEF AInv, TypeInv, QueryGolden
  <2>2. Golden = goldens[Len(goldens)] /\ Len(goldens) \in 1..Len(goldens)
    BY <2>1 DEF Golden, Last
  <2> QED
    BY <2>1, <2>2
<1>3. UNCHANGED <<db, served, mirror>> /\ leaves' = leaves
  BY DEF QueryGolden, db
<1>4. CASE t = Golden /\ reply' = [cp |-> t, golden |-> Golden, verdict |-> "consistent"] /\ UNCHANGED req
  <2>1. reply' \in [cp : Seq(Leaf), golden : Seq(Leaf) \cup {None}, verdict : Verdict]
    BY <1>1, <1>2, <1>4 DEF Verdict
  <2>2. req' \in [pc : {"idle", "head", "tiles"}, cp : Seq(Leaf), golden : Seq(Leaf) \cup {None}]
    BY <1>4 DEF AInv, TypeInv
  <2>3. ConsistentMeansStored'
    BY <1>4 DEF ConsistentMeansStored
  <2> QED
    BY <1>3, <2>1, <2>2, <2>3, RequestKeeps
<1>5. CASE req' = [pc |-> "head", cp |-> t, golden |-> Golden] /\ UNCHANGED reply
  <2>1. reply' \in [cp : Seq(Leaf), golden : Seq(Leaf) \cup {None}, verdict : Verdict]
    BY <1>5 DEF AInv, TypeInv
  <2>2. req' \in [pc : {"idle", "head", "tiles"}, cp : Seq(Leaf), golden : Seq(Leaf) \cup {None}]
    BY <1>1, <1>2, <1>5
  <2>3. ConsistentMeansStored'
    BY <1>3, <1>5 DEF AInv, ConsistentMeansStored
  <2> QED
    BY <1>3, <2>1, <2>2, <2>3, RequestKeeps
<1> QED
  BY <1>4, <1>5 DEF QueryGolden

\* An answer is given.
LEMMA AnswerKeeps ==
    ASSUME AInv, NEW v \in Verdict, Answer(v), UNCHANGED <<db, served, mirror>>,
           v = "consistent" => Stored(req.cp, Size(req.cp))
    PROVE  AInv'
<1>1. req \in [pc : {"idle", "head", "tiles"}, cp : Seq(Leaf), golden : Seq(Leaf) \cup {None}]
  BY DEF AInv, TypeInv
<1>2. reply' = [cp |-> req.cp, golden |-> req.golden, verdict |-> v] /\ req' = NoReq /\ leaves' = leaves
  BY DEF Answer, db
<1>3. reply' \in [cp : Seq(Leaf), golden : Seq(Leaf) \cup {None}, verdict : Verdict]
  BY <1>1, <1>2
<1>4. req' \in [pc : {"idle", "head", "tiles"}, cp : Seq(Leaf), golden : Seq(Leaf) \cup {None}]
  BY <1>2 DEF NoReq
<1>5. ConsistentMeansStored'
  BY <1>2 DEF ConsistentMeansStored, Stored
<1> QED
  BY <1>3, <1>4, <1>5, RequestKeeps

\* CheckConsistency compares the checkpoint with the tiles that are there now.
LEMMA QueriesKeep ==
    ASSUME AInv, QueryHead \/ QueryTiles
    PROVE  AInv'
<1>1. req \in [pc : {"idle", "head", "tiles"}, cp : Seq(Leaf), golden : Seq(Leaf) \cup {None}]
  BY DEF AInv, TypeInv
<1>2. UNCHANGED <<db, served, mirror>> /\ leaves' = leaves
  BY DEF QueryHead, QueryTiles, db
<1>3. CASE Answer("too fresh") \/ Answer("error")
  BY <1>2, <1>3, AnswerKeeps DEF Verdict
<1>4. CASE req' = [req EXCEPT !.pc = "tiles"] /\ UNCHANGED reply
  <2>1. reply' \in [cp : Seq(Leaf), golden : Seq(Leaf) \cup {None}, verdict : Verdict]
    BY <1>4 DEF AInv, TypeInv
  <2>2. req' \in [pc : {"idle", "head", "tiles"}, cp : Seq(Leaf), golden : Seq(Leaf) \cup {None}]
    BY <1>1, <1>4
  <2>3. ConsistentMeansStored'
    BY <1>2, <1>4 DEF AInv, ConsistentMeansStored
  <2> QED
    BY <1>2, <2>1, <2>2, <2>3, RequestKeeps
<1>5. CASE QueryTiles
  <2> DEFINE v == IF TilesMatch(req.cp) /\ LocalStragglersMatch(req.cp) THEN "consistent" ELSE "inconsistent"
  <2>1. Answer(v)
    BY <1>5 DEF QueryTiles
  <2>2. v \in Verdict
    BY DEF Verdict
  <2>3. v = "consistent" => Stored(req.cp, Size(req.cp))
    BY <1>1, StragglersBack DEF AInv
  <2> HIDE DEF v
  <2> QED
    BY <1>2, <2>1, <2>2, <2>3, AnswerKeeps
<1> QED
  BY <1>3, <1>4, <1>5 DEF QueryHead

-----------------------------------------------------------------------------
(* Every step. *)

\* The log shows another tree, or the roots are all there.
LEMMA OtherKeeps ==
    ASSUME AInv, (\E t \in Served : Serve(t)) \/ HashDone
    PROVE  AInv'
<1>1. CASE HashDone
  <2>1. /\ pc' = "consistency" /\ UNCHANGED <<leaves, tiles, goldens, metadata, lost, req, reply>>
        /\ UNCHANGED <<served, target, next, left>> /\ pc = "hash"
    BY <1>1 DEF HashDone, db, witness
  <2>2. served' \in Served /\ target' \in Seq(Leaf) /\ next' \in Nat /\ left' \in Nat /\ target' \in Served
    BY <2>1 DEF AInv, TypeInv
  <2> QED
    BY <2>1, <2>2, MoveKeeps
<1>2. ASSUME NEW t \in Served, Serve(t) PROVE AInv'
  <2>1. /\ served' = t /\ UNCHANGED <<leaves, tiles, goldens, metadata, lost, req, reply>>
        /\ UNCHANGED <<pc, target, next, left, hash, chan>>
    BY <1>2 DEF Serve, db, mirror, witness
  <2>2. TypeInv'
    BY <2>1 DEF AInv, TypeInv
  <2>3. TileInv' /\ GoldInv'
    BY <2>1, TablesSame
  <2>4. HashInv' /\ ConsistentMeansStored'
    BY <2>1 DEF AInv, HashInv, ConsistentMeansStored
  <2> QED
    BY <2>2, <2>3, <2>4 DEF AInv
<1> QED
  BY <1>1, <1>2

\* Nothing happens.
LEMMA StutterKeeps ==
    ASSUME AInv, UNCHANGED vars
    PROVE  AInv'
<1>1. UNCHANGED <<db, served, mirror>> /\ req' = req /\ reply' = reply /\ leaves' = leaves
  BY DEF vars, db, witness
<1>2. ConsistentMeansStored'
  BY <1>1 DEF AInv, ConsistentMeansStored
<1> QED
  BY <1>1, <1>2, RequestKeeps DEF AInv, TypeInv

\* Every step of the mirror, of its goroutines, of the log and of the witness
\* keeps the invariant.
LEMMA NextAInv == AInv /\ [Next]_vars => AInv'
<1> SUFFICES ASSUME AInv, [Next]_vars PROVE AInv'
  OBVIOUS
<1>1. ASSUME NEW force \in BOOLEAN, Start(force) PROVE AInv'
  BY <1>1, StartKeeps
<1>2. CASE Sync
  <2>1. CASE CloneTile
    BY <2>1, CloneTileKeeps
  <2>2. CASE CloneFails \/ HashFails \/ GoldenFails \/ RootFails \/ Finish
    <3>1. Exit /\ UNCHANGED db
      BY <2>2 DEF CloneFails, HashFails, GoldenFails, RootFails, Finish
    <3> QED
      BY <3>1, ExitKeeps
  <2>3. CASE StartHash
    BY <2>3, StartHashKeeps
  <2>4. CASE HashDone
    BY <2>4, OtherKeeps
  <2>5. CASE GoldenOK
    BY <2>5, GoldenOKKeeps
  <2>6. CASE RootOK
    BY <2>6, RootOKKeeps
  <2>7. CASE ProcessMetadata
    BY <2>7, ProcessMetadataKeeps
  <2> QED
    BY <1>2, <2>1, <2>2, <2>3, <2>4, <2>5, <2>6, <2>7 DEF Sync
<1>3. CASE Hashing
  <2>1. CASE HashLeafLevel
    BY <2>1, HashLeafKeeps
  <2>2. ASSUME NEW l \in DOMAIN hash, SendRoot(l) PROVE AInv'
    BY <2>2, SendKeeps
  <2>3. ASSUME NEW l \in DOMAIN hash, l > 0, ReceiveRoot(l) PROVE AInv'
    BY <2>3, ReceiveKeeps
  <2>4. ASSUME NEW l \in DOMAIN hash, l > 0, HashUpperTile(l) PROVE AInv'
    BY <2>4, HashUpperKeeps
  <2> QED
    BY <1>3, <2>1, <2>2, <2>3, <2>4 DEF Hashing
<1>4. CASE Kill
  BY <1>4, ExitKeeps DEF Kill
<1>5. ASSUME NEW t \in Served, Serve(t) \/ QueryGolden(t) PROVE AInv'
  BY <1>5, OtherKeeps, QueryGoldenKeeps
<1>6. CASE QueryHead \/ QueryTiles
  BY <1>6, QueriesKeep
<1>7. CASE UNCHANGED vars
  BY <1>7, StutterKeeps
<1> QED
  BY <1>1, <1>2, <1>3, <1>4, <1>5, <1>6, <1>7 DEF Next

-----------------------------------------------------------------------------
(* The results. *)

\* hashTiles: for every width and every number of levels, a tile is that of
\* the leaves in the database, although its roots went through the channels of
\* all levels below, some runs were killed or failed and INSERT errors were
\* dropped.
THEOREM TilesAlwaysMatch == Spec => []TilesMatchLeaves
<1>1. AInv => TilesMatchLeaves
  <2> SUFFICES ASSUME AInv, NEW p \in DOMAIN tiles, NEW k \in 1..Covers[p[1]]
               PROVE  LET i == p[2] * Covers[p[1]] + k - 1
                      IN  i \in DOMAIN leaves /\ leaves[i] = tiles[p][k]
    BY DEF TilesMatchLeaves
  <2>1. Len(tiles[p]) = Covers[p[1]] /\ At(leaves, tiles[p], p[2] * Covers[p[1]])
    BY DEF AInv, TileInv, TileOK
  <2> QED
    BY <2>1 DEF At
<1> QED
  BY <1>1, InitAInv, NextAInv, PTL DEF Spec

\* Sync and checkCheckpoint: every golden checkpoint is backed by the leaves in
\* the database and agrees with the next one, and metadata is only unpacked
\* from what a golden checkpoint commits to.
THEOREM GoldensAlwaysSound == Spec => []GoldensSound
<1>1. AInv => GoldensSound
  <2> SUFFICES ASSUME AInv PROVE GoldensSound
    OBVIOUS
  <2>1. \A T : TableOK(T) => \A i \in DOMAIN T : i \in Nat /\ T[i] \in Leaf
    <3> SUFFICES ASSUME NEW T, TableOK(T), NEW i \in DOMAIN T PROVE i \in Nat /\ T[i] \in Leaf
      OBVIOUS
    <3>1. PICK n \in Nat : DOMAIN T \subseteq 0..(n - 1)
      BY DEF TableOK
    <3>2. i \in 0..(n - 1)
      BY <3>1
    <3> QED
      BY <3>2 DEF TableOK
  <2>2. TypeInv /\ TileInv
    BY DEF AInv
  <2>3. /\ \A i \in DOMAIN leaves : i \in Nat /\ leaves[i] \in Leaf
        /\ \A i \in DOMAIN metadata : i \in Nat /\ metadata[i] \in Leaf
    BY <2>1, <2>2 DEF TypeInv
  <2>4. \A p \in DOMAIN tiles : tiles[p] \in Seq(Leaf) /\ Len(tiles[p]) = Covers[p[1]]
    BY <2>2 DEF TileInv, TileOK
  <2>5. req.pc \in {"idle", "head", "tiles"} /\ reply.verdict \in Verdict
    BY <2>2 DEF TypeInv
  <2>6. AuditTypeOK
    BY <2>2, <2>3, <2>4, <2>5 DEF TypeInv, AuditTypeOK, Verdict
  <2> QED
    BY <2>6 DEF AInv, GoldInv, GoldensSound
<1> QED
  BY <1>1, InitAInv, NextAInv, PTL DEF Spec

\* CheckConsistency: whatever the mirror does between the queries of the
\* witness, a checkpoint that is not golden is called consistent only if all
\* its leaves are in the database.
THEOREM ConsistentAnswersStored == Spec => []ConsistentMeansStored
<1>1. AInv => ConsistentMeansStored
  BY DEF AInv
<1> QED
  BY <1>1, InitAInv, NextAInv, PTL DEF Spec
=============================================================================
