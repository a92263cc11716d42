---------------------------- MODULE CloneProofs ----------------------------
(* Proof that every checkpoint the cloner stores is one of the leaves it    *)
(* stores, for any log, any number of workers and any sizes of the batches. *)
EXTENDS Clone, SequenceTheorems, WellFoundedInduction, TLAPS

\* What is stored, and what is about to be.
CInv ==
    /\ cps \in Seq(Seq(Leaf)) /\ target \in Seq(Leaf) /\ served \in Seq(Leaf)
    /\ CheckpointsVerified
    /\ pc = "write" => Stored(target)

\* The table only ever gains rows.
Gains == \A i \in DOMAIN leaves : i \in DOMAIN leaves' /\ leaves'[i] = leaves[i]

\* An INSERT only adds rows: it replaces and removes none.
LEMMA InsertKeeps ==
    ASSUME NEW s, NEW data, NEW ok, leaves' = Insert(s, data, ok)
    PROVE  Gains
BY DEF Insert, Gains

\* WriteLeaves only adds rows to the leaf table, however many of its
\* INSERTs succeed, and leaves the checkpoint table alone.
LEMMA WriteLeavesKeeps ==
    ASSUME NEW s, NEW data, WriteLeaves(s, data)
    PROVE  Gains /\ cps' = cps
<1>1. CASE leaves' = Insert(s, data, 1..Len(data))
  BY <1>1, InsertKeeps DEF WriteLeaves
<1>2. ASSUME NEW k \in 1..Len(data), leaves' = Insert(s, data, (1..Len(data)) \ {k})
      PROVE  Gains
  BY <1>2, InsertKeeps
<1>. QED  BY <1>1, <1>2 DEF WriteLeaves

\* A step that adds rows and writes no checkpoint.
LEMMA GainsKeeps ==
    ASSUME CInv, Gains, cps' = cps, target' \in Seq(Leaf), served' \in Seq(Leaf),
           pc' = "write" => target' = target /\ Stored(target)
    PROVE  CInv'
BY DEF CInv, Gains, CheckpointsVerified, Stored, Size

\* An action that leaves the table alone loses no row.
LEMMA SameTable == leaves' = leaves => Gains
BY DEF Gains

\* The root is computed from the latest checkpoint and the rows after it.
LEMMA RootMatchesStored ==
    ASSUME CInv, RootMatches
    PROVE  Stored(target)
<1>. SUFFICES ASSUME NEW i \in 1..Len(target)
              PROVE  i - 1 \in DOMAIN leaves /\ leaves[i - 1] = target[i]
  BY DEF Stored, Size
<1>0. Len(target) \in Nat /\ i - 1 \in Nat
  BY DEF CInv
<1>1. CASE From = 0
  <2>1. i - 1 \in From..(Size(target) - 1)
    BY <1>0, <1>1 DEF Size
  <2>. QED  BY <2>1, <1>0 DEF RootMatches
<1>2. CASE From # 0
  <2>1. cps # <<>> /\ From = Size(cps[Len(cps)])
    BY <1>2 DEF From, Verified
  <2>2. Len(cps) \in DOMAIN cps /\ cps[Len(cps)] \in Seq(Leaf)
    BY <2>1 DEF CInv
  <2>3. From \in Nat /\ From > 0
    BY <2>1, <2>2, <1>2 DEF Size
  <2>4. CASE i - 1 < From
    <3>1. i \in 1..Len(cps[Len(cps)])
      BY <2>1, <2>2, <2>3, <2>4, <1>0 DEF Size
    <3>2. cps[Len(cps)][i] = target[i]
      BY <3>1, <2>3 DEF RootMatches, Prefix
    <3>3. Stored(cps[Len(cps)])
      BY <2>2 DEF CInv, CheckpointsVerified
    <3>. QED  BY <3>1, <3>2, <3>3 DEF Stored, Size
  <2>5. CASE i - 1 >= From
    <3>1. i - 1 \in From..(Size(target) - 1)
      BY <2>3, <2>5, <1>0 DEF Size
    <3>. QED  BY <3>1, <1>0 DEF RootMatches
  <2>. QED  BY <2>3, <2>4, <2>5, <1>0
<1>. QED  BY <1>1, <1>2

\* Every step keeps CInv.
LEMMA CInvNext ==
    ASSUME CInv, [Next]_vars
    PROVE  CInv'
<1>a. target \in Seq(Leaf) /\ served \in Seq(Leaf) /\ <<>> \in Seq(Leaf)
  BY DEF CInv
<1>b. \A t \in Served : t \in Seq(Leaf)
  BY CloneAssumption
<1>. USE DEF vars, db, log, pipe
<1>1. CASE NoWork
  BY <1>1, <1>a, SameTable, GainsKeeps DEF NoWork
<1>2. CASE Aligned
  BY <1>2, <1>a, SameTable, GainsKeeps DEF Aligned
<1>3. CASE Prefetch
  BY <1>3, <1>a, WriteLeavesKeeps, GainsKeeps DEF Prefetch
<1>4. CASE PrefetchFails
  BY <1>4, <1>a, SameTable, GainsKeeps DEF PrefetchFails, Exit
<1>5. CASE StartBulk
  BY <1>5, <1>a, SameTable, GainsKeeps DEF StartBulk
<1>6. CASE TakeLeaf
  BY <1>6, <1>a, SameTable, GainsKeeps DEF TakeLeaf
<1>7. CASE TakeError
  BY <1>7, <1>a, SameTable, GainsKeeps DEF TakeError, Exit
<1>8. CASE WriteFull
  BY <1>8, <1>a, WriteLeavesKeeps, GainsKeeps DEF WriteFull
<1>9. CASE WriteFails
  BY <1>9, <1>a, SameTable, GainsKeeps DEF WriteFails, Exit
<1>10. CASE FinalWrite
  BY <1>10, <1>a, WriteLeavesKeeps, GainsKeeps DEF FinalWrite
<1>11. CASE VerifyOK
  BY <1>11, <1>a, RootMatchesStored, SameTable, GainsKeeps DEF VerifyOK
<1>12. CASE VerifyFails
  BY <1>12, <1>a, SameTable, GainsKeeps DEF VerifyFails, Exit
<1>13. CASE StreamFails
  BY <1>13, <1>a, SameTable, GainsKeeps DEF StreamFails, Exit
<1>14. CASE WriteCheckpoint
  <2>1. CASE cps' = Append(cps, target)
    <3>1. leaves' = leaves /\ target' = <<>> /\ served' = served /\ pc' = "idle"
      BY <1>14 DEF WriteCheckpoint, Exit
    <3>2. Stored(target)
      BY <1>14 DEF WriteCheckpoint, CInv
    <3>3. cps' \in Seq(Seq(Leaf)) /\ DOMAIN cps' = 1..(Len(cps) + 1)
      BY <2>1, <1>a DEF CInv
    <3>4. ASSUME NEW n \in DOMAIN cps'
          PROVE  Stored(cps'[n])
      <4>1. CASE n \in DOMAIN cps
        BY <4>1, <2>1 DEF CInv, CheckpointsVerified
      <4>2. CASE n = Len(cps) + 1
        BY <4>2, <2>1, <3>2 DEF CInv
      <4>. QED  BY <3>3, <4>1, <4>2 DEF CInv
    <3>5. ASSUME NEW n \in DOMAIN cps'
          PROVE  Stored(cps[n])'
      BY <3>4, <3>1 DEF Stored
    <3>. QED  BY <3>1, <3>3, <3>5, <1>a DEF CInv, CheckpointsVerified
  <2>2. CASE cps' = cps
    BY <1>14, <2>2, <1>a, SameTable, GainsKeeps DEF WriteCheckpoint, Exit
  <2>. QED  BY <1>14, <2>1, <2>2 DEF WriteCheckpoint
<1>15. CASE Start
  BY <1>15, <1>a, SameTable, GainsKeeps DEF Start
<1>16. CASE Kill \/ Interrupt
  BY <1>16, <1>a, SameTable, GainsKeeps DEF Kill, Interrupt, Exit
<1>17. ASSUME NEW t \in Served, Serve(t)
       PROVE  CInv'
  BY <1>17, <1>a, <1>b, SameTable, GainsKeeps DEF Serve, CInv
<1>18. ASSUME NEW t \in Served, StartVerify(t)
       PROVE  CInv'
  BY <1>18, <1>a, <1>b, SameTable, GainsKeeps DEF StartVerify
<1>19. CASE BulkStep
  BY <1>19, <1>a, SameTable, GainsKeeps
     DEF CInv, BulkStep, BulkReceive, BulkError, BulkSend, BulkTurn, BulkEnds
<1>20. ASSUME NEW w \in W, Worker(w)
       PROVE  CInv'
  BY <1>20, <1>a, SameTable, GainsKeeps DEF CInv, Worker, Fetched, GivesUp, WorkerEnds
<1>21. CASE UNCHANGED vars
  BY <1>21, <1>a, SameTable, GainsKeeps DEF CInv
<1>. QED
  BY <1>1, <1>2, <1>3, <1>4, <1>5, <1>6, <1>7, <1>8, <1>9, <1>10, <1>11, <1>12, <1>13,
     <1>14, <1>15, <1>16, <1>17, <1>18, <1>19, <1>20, <1>21 DEF Next, Command

\* A checkpoint in the database is that of the leaves in the database
\* (MerkleRoot, WriteCheckpoint), for every log and every configuration.
THEOREM CheckpointsVerifiedAlways == Spec => []CheckpointsVerified
<1>1. Init => CInv
  BY CloneAssumption DEF Init, CInv, CheckpointsVerified
<1>2. CInv /\ [Next]_vars => CInv'
  BY CInvNext
<1>3. CInv => CheckpointsVerified
  BY DEF CInv
<1>. QED  BY <1>1, <1>2, <1>3, PTL DEF Spec

-----------------------------------------------------------------------------
(* Where the leaves are on their way into the table. *)

\* A tree of the log has x at index i.
LeafOfLog(x, i) == \E t \in Served : Size(t) > i /\ t[i + 1] = x

\* The results in s are those for the indices from i on, up to an error.
InPlace(s, i) == \A k \in 1..Len(s) : s[k] = Err \/ LeafOfLog(s[k], i + k - 1)

HasErr(s) == \E k \in 1..Len(s) : s[k] = Err

Multiple(n) == \E m \in Nat : n = m * FetchBatch

\* The index that the next result of a worker is for.
Position == next + Len(rc) + Len(out)

\* The worker whose result is the next one, and how many results a worker's own
\* is behind that.
Front == IF bulk = "recv" THEN turn ELSE IF turn + 1 = Workers THEN 0 ELSE turn + 1
Behind(w) == IF w >= Front THEN w - Front ELSE w - Front + Workers

\* Type invariant.
Typed ==
    /\ CloneTypeOK
    /\ worker \in [W -> [pc : {"fetch", "offer", "failed", "closed"}, start : Nat,
                         data : Seq(Leaf)]]
    /\ served \in Served /\ (target = <<>> \/ target \in Served)

\* The table has a last row, no gap unless an INSERT was lost, and every leaf at
\* its index.
TableInv ==
    /\ \E n \in Nat : DOMAIN leaves \subseteq 0..(n - 1)
    /\ LeavesContiguous
    /\ LeavesInPlace

\* What a worker offers is the batch at its start.
WorkersInv ==
    /\ \A w \in W : worker[w].pc = "offer" =>
          /\ worker[w].start < Size(target)
          /\ Len(worker[w].data) = Count(worker[w].start)
          /\ InPlace(worker[w].data, worker[w].start)
    /\ bulk \in {"recv", "send"} =>
          \A w \in W : worker[w].start = Position + FetchBatch * Behind(w)

\* The results from the table on: the batch, the channel and those to send.
PipeInv ==
    /\ Len(batch) <= next
    /\ InPlace(batch, next - Len(batch))
    /\ InPlace(rc, next)
    /\ InPlace(out, next + Len(rc))
    /\ bulk \in {"recv", "closed"} => out = <<>>
    /\ bulk = "closed" => worker = Idle
    /\ pc = "loop" /\ bulk \in {"last", "closed"} =>
          Position >= Size(target) \/ HasErr(rc) \/ HasErr(out)
    /\ pc = "loop" /\ ~lost => Next1 = next - Len(batch)

\* Only the download has goroutines and results.
QuietInv ==
    /\ pc # "loop" => rc = <<>> /\ bulk = "closed" /\ batch = <<>>
    /\ pc \in {"idle", "prefetch", "clone"} => next = 0

\* A download of tiles starts at one.
AlignInv ==
    ~lost /\ tiled =>
        /\ pc = "clone" => Next1 >= Size(target) \/ Multiple(Next1)
        /\ \A w \in W : worker[w].pc # "closed" => Multiple(worker[w].start)

LInv ==
    Typed /\ TableInv /\ WorkersInv /\ PipeInv /\ QuietInv /\ AlignInv /\ CloneComplete

-----------------------------------------------------------------------------
(* Lemmas about the operators. *)

\* Numbers below a bound have a largest one.
LEMMA MaxFacts ==
    ASSUME NEW S, NEW n \in Nat, S \subseteq 0..(n - 1), S # {}
    PROVE  Max(S) \in S /\ \A y \in S : Max(S) >= y
<1> DEFINE U == {m \in Nat : \A y \in S : y <= m}
<1>1. U \subseteq Nat /\ n \in U
  OBVIOUS
<1>2. PICK u \in U : \A v \in U : ~ (<<v, u>> \in OpToRel(<, Nat))
  BY <1>1, NatLessThanWellFounded, WFMin
<1>3. \A v \in Nat : v < u => <<v, u>> \in OpToRel(<, Nat)
  <2> SUFFICES ASSUME NEW v \in Nat, v < u
               PROVE  <<v, u>> \in OpToRel(<, Nat)
    OBVIOUS
  <2>1. <<v, u>> \in Nat \X Nat /\ <<v, u>>[1] < <<v, u>>[2]
    OBVIOUS
  <2> QED
    BY <2>1, Zenon DEF OpToRel
<1>4. \A v \in U : ~ (v < u)
  BY <1>1, <1>2, <1>3, Zenon
<1>5. u \in S
  <2> SUFFICES ASSUME u \notin S PROVE FALSE
    OBVIOUS
  <2>1. \A y \in S : y \in Nat /\ y < u
    OBVIOUS
  <2>2. PICK z \in S : z \in Nat /\ z < u
    BY <2>1
  <2>3. u - 1 \in Nat /\ u - 1 < u
    BY <1>1, <2>2
  <2>4. u - 1 \in U
    BY <1>1, <2>1, <2>3
  <2> QED
    BY <2>3, <2>4, <1>4
<1>6. \E x \in S : \A y \in S : x >= y
  BY <1>5
<1> QED
  BY <1>6 DEF Max

\* Next1 as a function of the indices in the table; it is past the last row.
NextOf(D) == IF D = {} THEN 0 ELSE Max(D) + 1

\* The first index behind those of the table.
LEMMA NextOfFacts ==
    ASSUME NEW D, \E n \in Nat : D \subseteq 0..(n - 1)
    PROVE  /\ NextOf(D) \in Nat /\ D \subseteq 0..(NextOf(D) - 1)
           /\ \A n \in Nat : D = 0..(n - 1) => NextOf(D) = n
<1>1. PICK n \in Nat : D \subseteq 0..(n - 1)
  OBVIOUS
<1>2. CASE D = {}
  <2>1. NextOf(D) = 0
    BY <1>2 DEF NextOf
  <2>2. ASSUME NEW m \in Nat, D = 0..(m - 1)
        PROVE  m = 0
    <3>1. ASSUME m > 0 PROVE FALSE
      <4>1. 0 \in 0..(m - 1)
        BY <3>1
      <4> QED
        BY <4>1, <1>2, <2>2
    <3> QED
      BY <3>1
  <2> QED
    BY <1>2, <2>1, <2>2
<1>3. CASE D # {}
  <2>1. Max(D) \in D /\ \A y \in D : Max(D) >= y
    BY <1>1, <1>3, MaxFacts
  <2>2. NextOf(D) = Max(D) + 1
    BY <1>3 DEF NextOf
  <2>3. Max(D) \in Nat
    <3>1. D \subseteq Nat
      BY <1>1
    <3> QED
      BY <2>1, <3>1, Zenon
  <2>4. ASSUME NEW m \in Nat, D = 0..(m - 1)
        PROVE  NextOf(D) = m
    <3>1. m - 1 \in D
      BY <1>3, <2>4
    <3>2. Max(D) <= m - 1 /\ Max(D) >= m - 1
      BY <2>1, <2>4, <3>1
    <3> QED
      BY <2>2, <2>3, <3>2
  <2>5. D \subseteq 0..(NextOf(D) - 1)
    BY <1>1, <2>1, <2>2, <2>3
  <2> QED
    BY <2>2, <2>3, <2>4, <2>5
<1> QED
  BY <1>2, <1>3

\* Next1 in this state.
LEMMA Next1Facts ==
    ASSUME TableInv
    PROVE  Next1 \in Nat /\ DOMAIN leaves \subseteq 0..(Next1 - 1)
<1>1. Next1 = NextOf(DOMAIN leaves)
  BY DEF Next1, NextOf
<1> QED
  BY <1>1, NextOfFacts DEF TableInv

\* The number of leaves of a fetch.
LEMMA FetchFacts ==
    ASSUME target \in Seq(Leaf), NEW s \in Nat, s < Size(target)
    PROVE  /\ Count(s) \in Nat \ {0} /\ Count(s) <= FetchBatch
           /\ s + Count(s) <= Size(target)
           /\ s + FetchBatch <= Size(target) => Count(s) = FetchBatch
           /\ s + FetchBatch >= Size(target) => s + Count(s) = Size(target)
<1>1. Size(target) \in Nat /\ FetchBatch \in Nat \ {0}
  BY CloneAssumption DEF Size
<1> DEFINE r == Size(target) - s
<1>2. r \in Nat \ {0}
  BY <1>1
<1>3. Count(s) = IF FetchBatch <= r THEN FetchBatch ELSE r
  <2> HIDE DEF r
  <2>1. \A y \in {FetchBatch, r} : (IF FetchBatch <= r THEN FetchBatch ELSE r) <= y
    BY <1>1, <1>2
  <2>2. Min({FetchBatch, r}) = IF FetchBatch <= r THEN FetchBatch ELSE r
    BY <1>1, <1>2, <2>1 DEF Min
  <2> QED
    BY <2>2 DEF Count, r
<1> QED
  BY <1>1, <1>2, <1>3

\* A part of a tree of the log is in place.
LEMMA SubSeqInPlace ==
    ASSUME served \in Served, NEW i \in Nat, NEW c \in Nat, i + c <= Size(served)
    PROVE  /\ SubSeq(served, i + 1, i + c) \in Seq(Leaf)
           /\ Len(SubSeq(served, i + 1, i + c)) = c
           /\ InPlace(SubSeq(served, i + 1, i + c), i)
<1> DEFINE s == SubSeq(served, i + 1, i + c)
<1>1. served \in Seq(Leaf)
  BY CloneAssumption
<1>2. s \in Seq(Leaf) /\ Len(s) = c /\ \A k \in 1..c : s[k] = served[i + k]
  <2>1. CASE c = 0
    <3>1. s = <<>>
      BY <1>1, <2>1
    <3> QED
      BY <2>1, <3>1
  <2>2. CASE c > 0
    <3>1. i + 1 \in 1..Len(served) /\ i + c \in 1..Len(served) /\ i + 1 <= i + c
      BY <1>1, <2>2 DEF Size
    <3>2. s \in Seq(Leaf) /\ Len(s) = c
      BY <1>1, <3>1
    <3>3. \A k \in 1..c : s[k] = served[i + k]
      BY <1>1, <3>1, <3>2
    <3> QED
      BY <3>2, <3>3
  <2> QED
    BY <2>1, <2>2
<1> HIDE DEF s
<1>3. ASSUME NEW k \in 1..c PROVE LeafOfLog(s[k], i + k - 1)
  <2>0. Size(served) \in Nat /\ (i + k - 1) + 1 = i + k
    BY <1>1 DEF Size
  <2>1. s[k] = served[(i + k - 1) + 1] /\ Size(served) > i + k - 1
    BY <1>2, <2>0
  <2> QED
    BY <2>1 DEF LeafOfLog
<1>4. InPlace(s, i)
  BY <1>2, <1>3 DEF InPlace
<1> QED
  BY <1>2, <1>4 DEF s

\* A result is added behind the others.
LEMMA AppendInPlace ==
    ASSUME NEW s \in Seq(Leaf \cup {Err}), NEW i \in Nat, InPlace(s, i), NEW x,
           x = Err \/ LeafOfLog(x, i + Len(s))
    PROVE  InPlace(Append(s, x), i)
<1>1. Len(Append(s, x)) = Len(s) + 1
  OBVIOUS
<1>2. \A k \in 1..Len(s) : Append(s, x)[k] = s[k]
  OBVIOUS
<1>3. Append(s, x)[Len(s) + 1] = x /\ i + (Len(s) + 1) - 1 = i + Len(s)
  OBVIOUS
<1>4. ASSUME NEW k \in 1..(Len(s) + 1)
      PROVE  Append(s, x)[k] = Err \/ LeafOfLog(Append(s, x)[k], i + k - 1)
  <2>1. CASE k \in 1..Len(s)
    BY <1>2, <2>1 DEF InPlace
  <2>2. CASE k = Len(s) + 1
    BY <1>3, <2>2
  <2> QED
    BY <2>1, <2>2
<1> QED
  BY <1>1, <1>4 DEF InPlace

\* The first result is taken.
LEMMA TailInPlace ==
    ASSUME NEW s \in Seq(Leaf \cup {Err}), NEW i \in Nat, InPlace(s, i), s # <<>>
    PROVE  /\ Head(s) = Err \/ LeafOfLog(Head(s), i)
           /\ InPlace(Tail(s), i + 1)
           /\ HasErr(s) => Head(s) = Err \/ HasErr(Tail(s))
<1>1. Len(Tail(s)) = Len(s) - 1 /\ Len(s) \in Nat \ {0} /\ Head(s) = s[1]
      /\ \A k \in 1..(Len(s) - 1) : Tail(s)[k] = s[k + 1]
  OBVIOUS
<1>2. Head(s) = Err \/ LeafOfLog(Head(s), i)
  <2>1. s[1] = Err \/ LeafOfLog(s[1], i + 1 - 1)
    BY <1>1 DEF InPlace
  <2> QED
    BY <1>1, <2>1
<1>3. ASSUME NEW k \in 1..(Len(s) - 1)
      PROVE  s[k + 1] = Err \/ LeafOfLog(s[k + 1], (i + 1) + k - 1)
  <2>1. k + 1 \in 1..Len(s) /\ i + (k + 1) - 1 = (i + 1) + k - 1
    BY <1>1
  <2> QED
    BY <2>1 DEF InPlace
<1>4. HasErr(s) => Head(s) = Err \/ HasErr(Tail(s))
  <2> SUFFICES ASSUME NEW k \in 1..Len(s), s[k] = Err, k # 1 PROVE HasErr(Tail(s))
    BY <1>1 DEF HasErr
  <2>1. k - 1 \in 1..Len(Tail(s)) /\ Tail(s)[k - 1] = Err
    BY <1>1
  <2> QED
    BY <2>1 DEF HasErr
<1> QED
  BY <1>1, <1>2, <1>3, <1>4 DEF InPlace

\* Division with remainder.
LEMMA DivFacts ==
    ASSUME NEW n \in Nat, NEW d \in Nat, d > 0
    PROVE  /\ n \div d \in Nat /\ n % d \in 0..(d - 1)
           /\ n = d * (n \div d) + (n % d)
<1>1. n \div d \in Nat /\ n % d \in 0..(d - 1)
  OBVIOUS
<1>2. n = d * (n \div d) + (n % d)
  OBVIOUS
<1> QED
  BY <1>1, <1>2

\* Products of natural numbers.
LEMMA ProductFacts == ASSUME NEW a \in Nat, NEW b \in Nat PROVE a * b \in Nat
  OBVIOUS

\* Multiples of the size of a tile.
LEMMA MultipleFacts ==
    /\ Multiple(0)
    /\ \A n \in Nat : Multiple(n) => n % FetchBatch = 0
    /\ \A n \in Nat : n % FetchBatch = 0 => Multiple(n)
    /\ \A n \in Nat : Multiple(n - (n % FetchBatch)) /\ n % FetchBatch \in 0..(FetchBatch - 1)
                      /\ n - (n % FetchBatch) \in Nat
    /\ \A n, k \in Nat : Multiple(n) => Multiple(n + k * FetchBatch)
<1>0. FetchBatch \in Nat \ {0}
  BY CloneAssumption
<1>1. Multiple(0)
  BY <1>0 DEF Multiple
<1>2. ASSUME NEW n \in Nat, NEW k \in Nat, Multiple(n) PROVE Multiple(n + k * FetchBatch)
  <2>1. PICK m \in Nat : n = m * FetchBatch
    BY <1>2 DEF Multiple
  <2>2. n + k * FetchBatch = (m + k) * FetchBatch /\ m + k \in Nat
    BY <1>0, <2>1
  <2> QED
    BY <2>2 DEF Multiple
<1>3. ASSUME NEW n \in Nat PROVE n % FetchBatch \in 0..(FetchBatch - 1)
  BY <1>0, DivFacts
<1>4. ASSUME NEW n \in Nat
      PROVE  Multiple(n - (n % FetchBatch)) /\ n - (n % FetchBatch) \in Nat
  <2>1. /\ n \div FetchBatch \in Nat /\ n % FetchBatch \in 0..(FetchBatch - 1)
        /\ n = FetchBatch * (n \div FetchBatch) + (n % FetchBatch)
    BY <1>0, DivFacts
  <2>2. PICK q \in Nat : q = n \div FetchBatch
    BY <2>1
  <2>3. PICK r \in 0..(FetchBatch - 1) : r = n % FetchBatch
    BY <2>1
  <2>4. n = FetchBatch * q + r
    BY <2>1, <2>2, <2>3
  <2>5. n - r = q * FetchBatch
    BY <1>0, <2>4
  <2>6. q * FetchBatch \in Nat
    BY <1>0, ProductFacts, Zenon
  <2>7. Multiple(n - r) /\ n - r \in Nat
    BY <2>2, <2>5, <2>6, Zenon DEF Multiple
  <2> QED
    BY <2>3, <2>7, Zenon
<1>5. ASSUME NEW n \in Nat, n % FetchBatch = 0 PROVE Multiple(n)
  <2>1. n - (n % FetchBatch) = n
    BY <1>5
  <2> QED
    BY <1>4, <2>1, Zenon
<1>6. ASSUME NEW n \in Nat, Multiple(n) PROVE n % FetchBatch = 0
  <2>1. PICK m \in Nat : n = m * FetchBatch
    BY <1>6 DEF Multiple
  <2> QED
    BY <1>0, <2>1
<1> QED
  BY <1>1, <1>2, <1>3, <1>4, <1>5, <1>6

-----------------------------------------------------------------------------
(* The table. *)

\* Inserting leaves that are in place keeps all leaves in place; inserting all of
\* them behind the last row leaves no gap.
LEMMA InsertFacts ==
    ASSUME Typed, TableInv, NEW s \in Nat, NEW data \in Seq(Leaf), InPlace(data, s),
           NEW ok \in SUBSET (1..Len(data)), leaves' = Insert(s, data, ok)
    PROVE  /\ \A i \in DOMAIN leaves' : i \in Nat /\ leaves'[i] \in Leaf
           /\ LeavesInPlace'
           /\ \E n \in Nat : DOMAIN leaves' \subseteq 0..(n - 1)
           /\ DOMAIN leaves = 0..(s - 1) /\ ok = 1..Len(data) =>
                DOMAIN leaves' = 0..(s + Len(data) - 1)
<1>1. Len(data) \in Nat /\ \A k \in 1..Len(data) : data[k] \in Leaf
  OBVIOUS
<1>2. DOMAIN leaves' = DOMAIN leaves \cup {s + k - 1 : k \in ok}
  BY DEF Insert
<1>3. \A i \in DOMAIN leaves : i \in Nat /\ leaves[i] \in Leaf /\ leaves'[i] = leaves[i]
  BY <1>2 DEF Insert, Typed, CloneTypeOK
<1>4. ASSUME NEW i \in DOMAIN leaves', i \notin DOMAIN leaves
      PROVE  \E k \in 1..Len(data) : i = s + k - 1 /\ leaves'[i] = data[k]
  <2>1. PICK k \in ok : i = s + k - 1
    BY <1>2, <1>4
  <2>2. i - s + 1 = k /\ k \in 1..Len(data)
    BY <1>1, <2>1
  <2>3. leaves'[i] = data[i - s + 1]
    BY <1>2, <1>4 DEF Insert
  <2> QED
    BY <2>1, <2>2, <2>3
<1>5. ASSUME NEW i \in DOMAIN leaves'
      PROVE  i \in Nat /\ leaves'[i] \in Leaf /\ LeafOfLog(leaves'[i], i)
  <2>1. CASE i \in DOMAIN leaves
    <3>1. LeafOfLog(leaves[i], i)
      BY <2>1 DEF TableInv, LeavesInPlace, LeafOfLog
    <3> QED
      BY <1>3, <2>1, <3>1
  <2>2. CASE i \notin DOMAIN leaves
    <3>1. PICK k \in 1..Len(data) : i = s + k - 1 /\ leaves'[i] = data[k]
      BY <1>4, <2>2
    <3>2. data[k] = Err \/ LeafOfLog(data[k], s + k - 1)
      BY DEF InPlace
    <3> QED
      BY <1>1, <3>1, <3>2, CloneAssumption
  <2> QED
    BY <2>1, <2>2
<1>6. LeavesInPlace'
  BY <1>5 DEF LeavesInPlace, LeafOfLog
<1>7. \E n \in Nat : DOMAIN leaves' \subseteq 0..(n - 1)
  <2>1. PICK n \in Nat : DOMAIN leaves \subseteq 0..(n - 1)
    BY DEF TableInv
  <2>2. n + s + Len(data) \in Nat
    BY <1>1
  <2>3. DOMAIN leaves' \subseteq 0..((n + s + Len(data)) - 1)
    BY <1>1, <1>2, <2>1
  <2> QED
    BY <2>2, <2>3
<1>8. ASSUME DOMAIN leaves = 0..(s - 1), ok = 1..Len(data)
      PROVE  DOMAIN leaves' = 0..(s + Len(data) - 1)
  <2>1. ASSUME NEW i \in 0..(s + Len(data) - 1), i \notin 0..(s - 1)
        PROVE  i \in {s + k - 1 : k \in 1..Len(data)}
    <3>1. i - s + 1 \in 1..Len(data) /\ i = s + (i - s + 1) - 1
      BY <1>1, <2>1
    <3> QED
      BY <3>1
  <2>2. \A k \in 1..Len(data) : s + k - 1 \in 0..(s + Len(data) - 1)
    BY <1>1
  <2>3. 0..(s - 1) \subseteq 0..(s + Len(data) - 1)
    BY <1>1
  <2> QED
    BY <1>2, <1>8, <2>1, <2>2, <2>3
<1> QED
  BY <1>5, <1>6, <1>7, <1>8

\* A transaction keeps the table sound, and if none of its INSERTs is lost it ends
\* with the last of its leaves.
LEMMA WriteFacts ==
    ASSUME Typed, TableInv, NEW s \in Nat, NEW data \in Seq(Leaf), InPlace(data, s),
           ~lost => s = Next1, WriteLeaves(s, data)
    PROVE  /\ TableInv' /\ cps' = cps /\ lost' \in BOOLEAN /\ faults' \in 0..MaxFaults
           /\ \A i \in DOMAIN leaves' : i \in Nat /\ leaves'[i] \in Leaf
           /\ ~lost' => ~lost /\ Next1' = s + Len(data) /\ DOMAIN leaves' = 0..(Next1' - 1)
<1>0. lost \in BOOLEAN /\ faults \in 0..MaxFaults /\ cps' = cps /\ Len(data) \in Nat
  BY DEF Typed, CloneTypeOK, WriteLeaves
<1>1. CASE leaves' = Insert(s, data, 1..Len(data)) /\ UNCHANGED <<lost, faults>>
  <2>1. /\ \A i \in DOMAIN leaves' : i \in Nat /\ leaves'[i] \in Leaf
        /\ LeavesInPlace' /\ \E n \in Nat : DOMAIN leaves' \subseteq 0..(n - 1)
        /\ DOMAIN leaves = 0..(s - 1) => DOMAIN leaves' = 0..(s + Len(data) - 1)
    BY <1>1, InsertFacts
  <2>2. ASSUME ~lost
        PROVE  Next1' = s + Len(data) /\ DOMAIN leaves' = 0..(Next1' - 1)
    <3>1. DOMAIN leaves = 0..(s - 1)
      BY <2>2 DEF TableInv, LeavesContiguous
    <3>2. DOMAIN leaves' = 0..((s + Len(data)) - 1)
      BY <2>1, <3>1
    <3>3. Next1' = s + Len(data)
      <4>1. Next1' = NextOf(DOMAIN leaves')
        BY DEF Next1, NextOf
      <4>2. s + Len(data) \in Nat
        BY <1>0
      <4> QED
        BY <2>1, <3>2, <4>1, <4>2, NextOfFacts
    <3> QED
      BY <3>2, <3>3
  <2> QED
    BY <1>0, <1>1, <2>1, <2>2 DEF TableInv, LeavesContiguous
<1>2. ASSUME NEW k \in 1..Len(data), Fault,
             leaves' = Insert(s, data, (1..Len(data)) \ {k}), lost' = TRUE
      PROVE  /\ TableInv' /\ lost' \in BOOLEAN /\ faults' \in 0..MaxFaults
             /\ \A i \in DOMAIN leaves' : i \in Nat /\ leaves'[i] \in Leaf
  <2>1. /\ \A i \in DOMAIN leaves' : i \in Nat /\ leaves'[i] \in Leaf
        /\ LeavesInPlace' /\ \E n \in Nat : DOMAIN leaves' \subseteq 0..(n - 1)
    BY <1>2, InsertFacts
  <2>2. faults' \in 0..MaxFaults
    BY <1>0, <1>2, CloneAssumption DEF Fault
  <2>3. lost' \in BOOLEAN /\ lost'
    BY <1>2, Zenon
  <2> QED
    BY <2>1, <2>2, <2>3 DEF TableInv, LeavesContiguous
<1>3. \/ leaves' = Insert(s, data, 1..Len(data)) /\ UNCHANGED <<lost, faults>>
      \/ \E k \in 1..Len(data) :
            Fault /\ leaves' = Insert(s, data, (1..Len(data)) \ {k}) /\ lost' = TRUE
  BY DEF WriteLeaves
<1>4. CASE leaves' # Insert(s, data, 1..Len(data)) \/ ~UNCHANGED <<lost, faults>>
  <2>1. PICK k \in 1..Len(data) :
            Fault /\ leaves' = Insert(s, data, (1..Len(data)) \ {k}) /\ lost' = TRUE
    BY <1>3, <1>4
  <2> QED
    BY <1>0, <1>2, <2>1
<1> QED
  BY <1>1, <1>4

\* The table is left alone.
LEMMA SameTableInv ==
    ASSUME TableInv, leaves' = leaves, lost' = lost
    PROVE  TableInv' /\ Next1' = Next1
  BY DEF TableInv, LeavesContiguous, LeavesInPlace, Next1

-----------------------------------------------------------------------------
(* The steps. *)

\* The invariant holds at first.
LEMMA InitLInv == Init => LInv
<1> SUFFICES ASSUME Init PROVE LInv
  OBVIOUS
<1>0. /\ Workers \in Nat \ {0} /\ Served \subseteq Seq(Leaf) /\ <<>> \in Seq(Leaf)
      /\ MaxFaults \in Nat /\ 0 \in W
  BY CloneAssumption DEF W
<1>1. DOMAIN leaves = {} /\ cps = <<>> /\ served \in Served /\ tiled \in BOOLEAN
      /\ pc = "idle" /\ target = <<>> /\ next = 0 /\ batch = <<>> /\ rc = <<>>
      /\ bulk = "closed" /\ turn = 0 /\ out = <<>> /\ worker = Idle /\ faults = 0
  BY DEF Init
<1>2. lost \in BOOLEAN
  BY Zenon DEF Init
<1>3. worker \in [W -> [pc : {"fetch", "offer", "failed", "closed"}, start : Nat,
                        data : Seq(Leaf)]]
      /\ \A w \in W : worker[w].pc = "closed" /\ worker[w].start = 0 /\ worker[w].data = <<>>
  BY <1>0, <1>1 DEF Idle
<1>4. CloneTypeOK
  BY <1>0, <1>1, <1>2, <1>3 DEF CloneTypeOK
<1>5. Typed
  BY <1>1, <1>3, <1>4 DEF Typed
<1>6. TableInv
  <2>1. DOMAIN leaves \subseteq 0..(0 - 1) /\ Next1 = 0
    BY <1>1 DEF Next1
  <2> QED
    BY <1>1, <2>1 DEF TableInv, LeavesContiguous, LeavesInPlace
<1>7. WorkersInv /\ QuietInv /\ AlignInv /\ CloneComplete
  BY <1>1, <1>3 DEF WorkersInv, QuietInv, AlignInv, CloneComplete
<1>8. PipeInv
  BY <1>1 DEF PipeInv, InPlace
<1> QED
  BY <1>5, <1>6, <1>7, <1>8 DEF LInv

\* A command that ends keeps the invariant.
LEMMA ExitKeeps ==
    ASSUME LInv, Exit, leaves' = leaves, lost' = lost, cps' \in Seq(Seq(Leaf)),
           faults' \in 0..MaxFaults
    PROVE  LInv'
<1>0. Workers \in Nat \ {0} /\ <<>> \in Seq(Leaf) /\ 0 \in W
  BY CloneAssumption DEF W
<1>1. /\ pc' = "idle" /\ target' = <<>> /\ next' = 0 /\ batch' = <<>> /\ rc' = <<>>
      /\ bulk' = "closed" /\ turn' = 0 /\ out' = <<>> /\ worker' = Idle
      /\ served' = served /\ tiled' = tiled
  BY DEF Exit, log
<1>2. worker' \in [W -> [pc : {"fetch", "offer", "failed", "closed"}, start : Nat,
                         data : Seq(Leaf)]]
      /\ \A w \in W : worker'[w].pc = "closed" /\ worker'[w].start = 0 /\ worker'[w].data = <<>>
  BY <1>0, <1>1 DEF Idle
<1>3. Typed'
  BY <1>0, <1>1, <1>2 DEF LInv, Typed, CloneTypeOK
<1>4. TableInv'
  BY SameTableInv DEF LInv
<1>5. WorkersInv' /\ QuietInv' /\ AlignInv' /\ CloneComplete'
  BY <1>1, <1>2 DEF WorkersInv, QuietInv, AlignInv, CloneComplete
<1>6. PipeInv'
  BY <1>1 DEF PipeInv, InPlace, Idle, W
<1> QED
  BY <1>3, <1>4, <1>5, <1>6 DEF LInv

\* The ways a command ends.
LEMMA EndsKeep ==
    ASSUME LInv,
           \/ Kill \/ Interrupt \/ PrefetchFails \/ TakeError \/ WriteFails
           \/ VerifyFails \/ WriteCheckpoint \/ (StreamFails /\ Exit)
    PROVE  LInv'
<1>1. cps \in Seq(Seq(Leaf)) /\ faults \in 0..MaxFaults /\ target \in Seq(Leaf)
  BY DEF LInv, Typed, CloneTypeOK
<1>2. Exit /\ leaves' = leaves /\ lost' = lost
  BY DEF Kill, Interrupt, PrefetchFails, TakeError, WriteFails, VerifyFails,
         WriteCheckpoint, StreamFails, db
<1>3. faults' = faults \/ Fault
  BY DEF Kill, Interrupt, PrefetchFails, TakeError, WriteFails, VerifyFails,
         WriteCheckpoint, StreamFails, db
<1>4. faults' \in 0..MaxFaults
  BY <1>1, <1>3, CloneAssumption DEF Fault
<1>5. cps' = cps \/ cps' = Append(cps, target)
  BY DEF Kill, Interrupt, PrefetchFails, TakeError, WriteFails, VerifyFails,
         WriteCheckpoint, StreamFails, db
<1>6. cps' \in Seq(Seq(Leaf))
  BY <1>1, <1>5
<1> QED
  BY <1>2, <1>4, <1>6, ExitKeeps

\* A step of a command that has no goroutines and touches nothing but its place
\* and its target.
LEMMA MoveKeeps ==
    ASSUME LInv, pc # "loop", faults' \in 0..MaxFaults,
           UNCHANGED <<leaves, lost, cps, served, tiled, next, batch, rc, bulk, turn, out, worker>>,
           target' = target \/ target' \in Served,
           pc' \in {"prefetch", "clone", "verify", "write", "hung"},
           pc' \in {"prefetch", "clone"} => pc \in {"idle", "prefetch", "clone"},
           pc' = "verify" => pc \in {"idle", "prefetch", "clone"},
           pc' = "clone" /\ ~lost /\ tiled => Next1 >= Size(target') \/ Multiple(Next1)
    PROVE  LInv'
<1>1. bulk = "closed" /\ worker = Idle /\ out = <<>> /\ rc = <<>> /\ batch = <<>>
  BY DEF LInv, QuietInv, PipeInv
<1>2. \A w \in W : worker'[w].pc = "closed"
  BY <1>1 DEF Idle
<1>3. target' \in Seq(Leaf) /\ (target' = <<>> \/ target' \in Served)
  BY CloneAssumption DEF LInv, Typed, CloneTypeOK
<1>4. Typed'
  BY <1>3 DEF LInv, Typed, CloneTypeOK
<1>5. TableInv' /\ Next1' = Next1
  BY SameTableInv DEF LInv
<1>6. WorkersInv' /\ QuietInv'
  BY <1>1, <1>2 DEF LInv, WorkersInv, QuietInv
<1>7. PipeInv'
  <2>1. Idle' = Idle
    BY DEF Idle, W
  <2> QED
    BY <1>1, <2>1 DEF LInv, PipeInv, InPlace
<1>8. AlignInv'
  BY <1>2, <1>5 DEF AlignInv
<1>9. CloneComplete'
  BY DEF LInv, QuietInv, CloneComplete
<1> QED
  BY <1>4, <1>5, <1>6, <1>7, <1>8, <1>9 DEF LInv

\* Such steps.
LEMMA MovesKeep ==
    ASSUME LInv,
           \/ Start \/ NoWork \/ Aligned \/ VerifyOK \/ (StreamFails /\ pc' = "hung")
           \/ \E t \in Served : StartVerify(t)
    PROVE  LInv'
<1>0. faults \in 0..MaxFaults /\ served \in Served
  BY DEF LInv, Typed, CloneTypeOK
<1> USE DEF db, log, pipe
<1>1. CASE Start
  <2>1. pc = "idle" /\ pc' = "prefetch" /\ target' = served /\ faults' = faults
        /\ UNCHANGED <<leaves, lost, cps, served, tiled, next, batch, rc, bulk, turn, out, worker>>
    BY <1>1 DEF Start
  <2> QED
    BY <1>0, <2>1, MoveKeeps
<1>2. CASE NoWork
  <2>1. pc \in {"prefetch", "clone"} /\ pc' = "verify" /\ target' = target /\ faults' = faults
        /\ UNCHANGED <<leaves, lost, cps, served, tiled, next, batch, rc, bulk, turn, out, worker>>
    BY <1>2 DEF NoWork
  <2> QED
    BY <1>0, <2>1, MoveKeeps
<1>3. CASE Aligned
  <2>1. pc = "prefetch" /\ pc' = "clone" /\ target' = target /\ faults' = faults /\ Rem = 0
        /\ UNCHANGED <<leaves, lost, cps, served, tiled, next, batch, rc, bulk, turn, out, worker>>
    BY <1>3 DEF Aligned
  <2>2. tiled => Multiple(Next1)
    <3>1. Next1 \in Nat
      BY Next1Facts DEF LInv
    <3> QED
      BY <2>1, <3>1, MultipleFacts DEF Rem
  <2> QED
    BY <1>0, <2>1, <2>2, MoveKeeps
<1>4. CASE VerifyOK
  <2>1. pc = "verify" /\ pc' = "write" /\ target' = target /\ faults' = faults
        /\ UNCHANGED <<leaves, lost, cps, served, tiled, next, batch, rc, bulk, turn, out, worker>>
    BY <1>4 DEF VerifyOK
  <2> QED
    BY <1>0, <2>1, MoveKeeps
<1>5. CASE StreamFails /\ pc' = "hung"
  <2>1. pc = "verify" /\ target' = target /\ Fault
        /\ UNCHANGED <<leaves, lost, cps, served, tiled, next, batch, rc, bulk, turn, out, worker>>
    BY <1>5 DEF StreamFails, Exit
  <2>2. faults' \in 0..MaxFaults
    BY <1>0, <2>1, CloneAssumption DEF Fault
  <2> QED
    BY <1>5, <2>1, <2>2, MoveKeeps
<1>6. ASSUME NEW t \in Served, StartVerify(t) PROVE LInv'
  <2>1. pc = "idle" /\ pc' = "verify" /\ target' = t /\ faults' = faults
        /\ UNCHANGED <<leaves, lost, cps, served, tiled, next, batch, rc, bulk, turn, out, worker>>
    BY <1>6 DEF StartVerify
  <2> QED
    BY <1>0, <2>1, MoveKeeps
<1> QED
  BY <1>1, <1>2, <1>3, <1>4, <1>5, <1>6

\* The log shows another tree.
LEMMA ServeKeeps ==
    ASSUME LInv, \/ UNCHANGED vars
                 \/ \E t \in Served : Serve(t)
    PROVE  LInv'
<1>1. served' \in Served /\ served' \in Seq(Leaf)
  BY CloneAssumption DEF LInv, Typed, CloneTypeOK, Serve, vars, log
<1>2. UNCHANGED <<leaves, cps, lost, tiled, pc, target, next, batch, rc, bulk, turn, out,
                  worker, faults>>
  BY DEF Serve, vars, db, log, pipe
<1>3. Typed'
  BY <1>1, <1>2 DEF LInv, Typed, CloneTypeOK
<1>4. TableInv' /\ Next1' = Next1
  BY <1>2, SameTableInv DEF LInv
<1>5. WorkersInv' /\ QuietInv'
  BY <1>2 DEF LInv, WorkersInv, QuietInv, Count, Position, Behind, Front
<1>6. PipeInv' /\ AlignInv' /\ CloneComplete'
  BY <1>2, <1>4 DEF LInv, PipeInv, AlignInv, CloneComplete, Position
<1> QED
  BY <1>3, <1>4, <1>5, <1>6 DEF LInv

\* The records of the workers.
WorkerRecord == [pc : {"fetch", "offer", "failed", "closed"}, start : Nat, data : Seq(Leaf)]

\* A worker goes from a fetch to its result, which is in place if it is an offer.
WorkerMoves(w, a, d) ==
    /\ worker[w].pc = "fetch"
    /\ worker' = [worker EXCEPT ![w] = [pc |-> a, start |-> worker[w].start, data |-> d]]
    /\ UNCHANGED <<leaves, cps, lost, served, tiled, pc, target, next, batch, rc, bulk, turn, out>>

Offered(a, s, d) ==
    a = "offer" => s < Size(target) /\ Len(d) = Count(s) /\ InPlace(d, s)

\* This keeps the invariant.
LEMMA WorkerMovesKeep ==
    ASSUME LInv, NEW w \in W, NEW a \in {"offer", "failed", "closed"}, NEW d \in Seq(Leaf),
           WorkerMoves(w, a, d), faults' \in 0..MaxFaults,
           Offered(a, worker[w].start, d)
    PROVE  LInv'
<1>1. worker \in [W -> WorkerRecord]
  BY DEF LInv, Typed, WorkerRecord
<1>2. worker' \in [W -> WorkerRecord]
  BY <1>1 DEF WorkerMoves, WorkerRecord
<1>3. /\ worker'[w].pc = a /\ worker'[w].start = worker[w].start /\ worker'[w].data = d
      /\ \A v \in W : v # w => worker'[v] = worker[v]
  BY <1>1 DEF WorkerMoves
<1>4. bulk # "closed"
  <2>1. Idle[w].pc = "closed"
    BY DEF Idle
  <2> QED
    BY <2>1 DEF LInv, PipeInv, WorkerMoves
<1>5. UNCHANGED <<leaves, cps, lost, served, tiled, pc, target, next, batch, rc, bulk, turn, out>>
  BY DEF WorkerMoves
<1>6. Typed'
  BY <1>2, <1>5 DEF LInv, Typed, CloneTypeOK, WorkerRecord
<1>7. TableInv' /\ Next1' = Next1
  BY <1>5, SameTableInv DEF LInv
<1>8. WorkersInv'
  <2>1. ASSUME NEW v \in W, worker'[v].pc = "offer"
        PROVE  /\ worker'[v].start < Size(target)
               /\ Len(worker'[v].data) = Count(worker'[v].start)
               /\ InPlace(worker'[v].data, worker'[v].start)
    <3>1. CASE v = w
      BY <1>3, <2>1, <3>1 DEF Offered
    <3>2. CASE v # w
      BY <1>3, <2>1, <3>2 DEF LInv, WorkersInv
    <3> QED
      BY <3>1, <3>2
  <2>2. ASSUME NEW v \in W PROVE worker'[v].start = worker[v].start
    BY <1>3
  <2>3. Position' = Position /\ \A v \in W : Behind(v)' = Behind(v)
    BY <1>5 DEF Position, Behind, Front
  <2> QED
    BY <1>5, <2>1, <2>2, <2>3 DEF LInv, WorkersInv, Count
<1>9. PipeInv' /\ QuietInv' /\ CloneComplete'
  BY <1>4, <1>5, <1>7 DEF LInv, PipeInv, QuietInv, CloneComplete, Position
<1>10. AlignInv'
  <2>1. ASSUME NEW v \in W, worker'[v].pc # "closed"
        PROVE  worker[v].pc # "closed" /\ worker'[v].start = worker[v].start
    BY <1>3, <2>1 DEF WorkerMoves
  <2> QED
    BY <1>5, <1>7, <2>1 DEF LInv, AlignInv
<1> QED
  BY <1>6, <1>7, <1>8, <1>9, <1>10 DEF LInv

\* A fetch, its failure and the end of a worker keep the invariant.
LEMMA WorkerKeeps ==
    ASSUME LInv, NEW w \in W, Worker(w)
    PROVE  LInv'
<1>0. /\ worker \in [W -> WorkerRecord] /\ worker[w] \in WorkerRecord
      /\ served \in Served /\ target \in Seq(Leaf) /\ faults \in 0..MaxFaults
  BY DEF LInv, Typed, CloneTypeOK, WorkerRecord
<1> DEFINE s == worker[w].start
<1>1. s \in Nat /\ worker[w].data \in Seq(Leaf)
  BY <1>0 DEF WorkerRecord
<1> USE DEF db, log
<1>2. CASE Fetched(w)
  <2> DEFINE d == SubSeq(served, s + 1, s + Count(s))
  <2>1. s < Size(target) /\ Fetchable(s) /\ worker[w].pc = "fetch"
    BY <1>2 DEF Fetched
  <2>2. Count(s) \in Nat /\ s + Count(s) <= Size(served)
    <3>1. Count(s) \in Nat
      BY <1>0, <1>1, <2>1, FetchFacts
    <3>2. Size(served) \in Nat
      BY <1>0, CloneAssumption DEF Size
    <3> QED
      BY <1>1, <2>1, <3>1, <3>2 DEF Fetchable
  <2>3. d \in Seq(Leaf) /\ Len(d) = Count(s) /\ InPlace(d, s)
    BY <1>0, <1>1, <2>2, SubSeqInPlace
  <2>4. worker' = [worker EXCEPT ![w] = [pc |-> "offer", start |-> s, data |-> d]]
    BY <1>0, <1>2 DEF Fetched, WorkerRecord
  <2>5. WorkerMoves(w, "offer", d) /\ faults' = faults
    BY <1>2, <2>1, <2>4 DEF Fetched, WorkerMoves
  <2>6. Offered("offer", s, d)
    BY <2>1, <2>3 DEF Offered
  <2> HIDE DEF d
  <2> QED
    BY <1>0, <2>3, <2>5, <2>6, WorkerMovesKeep
<1>3. CASE GivesUp(w)
  <2>1. worker' = [worker EXCEPT ![w] = [pc |-> "failed", start |-> s, data |-> worker[w].data]]
    <3>1. worker' = [worker EXCEPT ![w] = [worker[w] EXCEPT !.pc = "failed"]]
      BY <1>0, <1>3 DEF GivesUp
    <3>2. [worker[w] EXCEPT !.pc = "failed"] = [pc |-> "failed", start |-> s, data |-> worker[w].data]
      BY <1>0 DEF WorkerRecord
    <3> QED
      BY <3>1, <3>2
  <2>2. WorkerMoves(w, "failed", worker[w].data)
    BY <1>3, <2>1 DEF GivesUp, WorkerMoves
  <2>3. faults' \in 0..MaxFaults
    BY <1>0, <1>3, CloneAssumption DEF GivesUp, Fault
  <2>4. Offered("failed", s, worker[w].data)
    BY DEF Offered
  <2> QED
    BY <1>1, <2>2, <2>3, <2>4, WorkerMovesKeep
<1>4. CASE WorkerEnds(w)
  <2>1. worker' = [worker EXCEPT ![w] = [pc |-> "closed", start |-> s, data |-> worker[w].data]]
    <3>1. worker' = [worker EXCEPT ![w] = [worker[w] EXCEPT !.pc = "closed"]]
      BY <1>0, <1>4 DEF WorkerEnds
    <3>2. [worker[w] EXCEPT !.pc = "closed"] = [pc |-> "closed", start |-> s, data |-> worker[w].data]
      BY <1>0 DEF WorkerRecord
    <3> QED
      BY <3>1, <3>2
  <2>2. WorkerMoves(w, "closed", worker[w].data) /\ faults' = faults
    BY <1>4, <2>1 DEF WorkerEnds, WorkerMoves
  <2>3. Offered("closed", s, worker[w].data)
    BY DEF Offered
  <2> QED
    BY <1>0, <1>1, <2>2, <2>3, WorkerMovesKeep
<1> QED
  BY <1>2, <1>3, <1>4 DEF Worker

\* Where Bulk is in its round.
LEMMA RoundFacts ==
    ASSUME LInv
    PROVE  /\ Workers \in Nat \ {0} /\ FetchBatch \in Nat \ {0} /\ turn \in 0..(Workers - 1)
           /\ next \in Nat /\ Len(rc) \in Nat /\ Len(out) \in Nat /\ Len(batch) \in Nat
           /\ Size(target) \in Nat /\ Position \in Nat
           /\ \A w \in W : Behind(w) \in 0..(Workers - 1)
           /\ bulk = "recv" => Behind(turn) = 0
<1>1. /\ Workers \in Nat \ {0} /\ FetchBatch \in Nat \ {0} /\ turn \in 0..(Workers - 1)
      /\ next \in Nat /\ Len(rc) \in Nat /\ Len(out) \in Nat /\ Len(batch) \in Nat
      /\ Size(target) \in Nat
  BY CloneAssumption DEF LInv, Typed, CloneTypeOK, W, Size
<1>2. Position \in Nat
  BY <1>1 DEF Position
<1>3. Front \in 0..(Workers - 1)
  BY <1>1 DEF Front
<1>4. \A w \in W : Behind(w) \in 0..(Workers - 1)
  BY <1>1, <1>3 DEF Behind, W
<1>5. bulk = "recv" => Behind(turn) = 0
  BY <1>1 DEF Behind, Front
<1> QED
  BY <1>1, <1>2, <1>4, <1>5

\* Bulk takes the offer of the worker whose turn it is.
LEMMA BulkReceiveKeeps ==
    ASSUME LInv, BulkReceive
    PROVE  LInv'
<1>0. /\ Workers \in Nat \ {0} /\ FetchBatch \in Nat \ {0} /\ turn \in 0..(Workers - 1)
      /\ next \in Nat /\ Len(rc) \in Nat /\ Size(target) \in Nat /\ Position \in Nat
      /\ \A w \in W : Behind(w) \in 0..(Workers - 1)
      /\ Behind(turn) = 0 /\ turn \in W
  BY RoundFacts DEF BulkReceive, W
<1> DEFINE s == worker[turn].start
           d == worker[turn].data
<1>1. /\ worker \in [W -> WorkerRecord] /\ worker[turn] \in WorkerRecord /\ s \in Nat
      /\ d \in Seq(Leaf) /\ target \in Seq(Leaf)
  BY <1>0 DEF LInv, Typed, CloneTypeOK, WorkerRecord
<1>2. /\ bulk = "recv" /\ worker[turn].pc = "offer" /\ out' = d
      /\ bulk' = IF s >= LastStart THEN "last" ELSE "send"
      /\ worker' = [worker EXCEPT ![turn] =
             [pc |-> "fetch", start |-> s + Workers * FetchBatch, data |-> <<>>]]
      /\ UNCHANGED <<leaves, cps, lost, served, tiled, pc, target, next, batch, rc, turn, faults>>
  BY DEF BulkReceive, db, log
<1>3. out = <<>> /\ Position = next + Len(rc)
  BY <1>0, <1>2 DEF LInv, PipeInv, Position
<1>4. s = Position
  <2>1. s = Position + FetchBatch * Behind(turn)
    BY <1>0, <1>2 DEF LInv, WorkersInv
  <2> QED
    BY <1>0, <2>1
<1>5. s < Size(target) /\ Len(d) = Count(s) /\ InPlace(d, s)
  BY <1>0, <1>2 DEF LInv, WorkersInv
<1>6. s + Workers * FetchBatch \in Nat
  <2>1. Workers * FetchBatch \in Nat
    BY <1>0, ProductFacts, Zenon
  <2> QED
    BY <1>1, <2>1
<1>7. worker' \in [W -> WorkerRecord]
  BY <1>0, <1>1, <1>2, <1>6 DEF WorkerRecord
<1>8. /\ worker'[turn].pc = "fetch" /\ worker'[turn].start = s + Workers * FetchBatch
      /\ \A v \in W : v # turn => worker'[v] = worker[v]
  BY <1>0, <1>1, <1>2
<1>9. Count(s) \in Nat \ {0} /\ Count(s) <= FetchBatch /\ s + Count(s) <= Size(target)
      /\ (s + FetchBatch <= Size(target) => Count(s) = FetchBatch)
      /\ (s + FetchBatch >= Size(target) => s + Count(s) = Size(target))
  BY <1>1, <1>5, FetchFacts
<1>10. Position' = s + Count(s)
  BY <1>2, <1>3, <1>4, <1>5 DEF Position
<1>11. Typed'
  BY <1>1, <1>2, <1>7 DEF LInv, Typed, CloneTypeOK, WorkerRecord
<1>12. TableInv' /\ Next1' = Next1
  BY <1>2, SameTableInv DEF LInv
<1>13. WorkersInv'
  <2>1. ASSUME NEW v \in W, worker'[v].pc = "offer"
        PROVE  /\ worker'[v].start < Size(target)
               /\ Len(worker'[v].data) = Count(worker'[v].start)
               /\ InPlace(worker'[v].data, worker'[v].start)
    BY <1>8, <2>1 DEF LInv, WorkersInv
  <2>2. ASSUME NEW v \in W, bulk' \in {"recv", "send"}
        PROVE  worker'[v].start = Position' + FetchBatch * Behind(v)'
    <3>1. bulk' = "send" /\ ~ (s >= LastStart)
      BY <1>2, <2>2
    <3>2. s + FetchBatch <= Size(target)
      BY <1>0, <1>1, <3>1 DEF LastStart
    <3>3. Position' = s + FetchBatch
      BY <1>9, <1>10, <3>2
    <3>4. Front = turn /\ Front' = IF turn + 1 = Workers THEN 0 ELSE turn + 1
      BY <1>2, <3>1 DEF Front
    <3>5. CASE v = turn
      <4>1. Behind(v)' = Workers - 1
        BY <1>0, <3>4, <3>5 DEF Behind
      <4>2. s + Workers * FetchBatch = (s + FetchBatch) + FetchBatch * (Workers - 1)
        BY <1>0, <1>1
      <4> QED
        BY <1>8, <3>3, <3>5, <4>1, <4>2
    <3>6. CASE v # turn
      <4>1. Behind(v)' = Behind(v) - 1 /\ Behind(v) \in Nat
        BY <1>0, <3>4, <3>6 DEF Behind, W
      <4>2. worker'[v].start = s + FetchBatch * Behind(v)
        BY <1>2, <1>4, <1>8, <3>6 DEF LInv, WorkersInv
      <4>3. PICK b \in Nat : b = Behind(v)
        BY <4>1
      <4>4. s + FetchBatch * b = (s + FetchBatch) + FetchBatch * (b - 1)
        BY <1>0, <1>1
      <4> QED
        BY <3>3, <4>1, <4>2, <4>3, <4>4
    <3> QED
      BY <3>5, <3>6
  <2>3. \A i : Count(i)' = Count(i)
    BY <1>2 DEF Count
  <2> QED
    BY <1>2, <2>1, <2>2, <2>3 DEF WorkersInv
<1>14. QuietInv' /\ CloneComplete'
  BY <1>2 DEF LInv, QuietInv, CloneComplete
<1>15. PipeInv'
  <2>1. bulk' = "last" => Position' >= Size(target)
    <3> SUFFICES ASSUME s >= LastStart PROVE Position' >= Size(target)
      BY <1>2
    <3>1. s + FetchBatch >= Size(target)
      BY <1>0, <1>1 DEF LastStart
    <3> QED
      BY <1>0, <1>9, <1>10, <3>1
  <2>2. InPlace(out', next + Len(rc))
    BY <1>2, <1>3, <1>4, <1>5
  <2> QED
    BY <1>2, <1>12, <2>1, <2>2 DEF LInv, PipeInv
<1>16. AlignInv'
  <2>1. ASSUME ~lost, tiled, NEW v \in W, worker'[v].pc # "closed"
        PROVE  Multiple(worker'[v].start)
    <3>1. CASE v = turn
      <4>1. Multiple(s)
        BY <1>2, <2>1, <3>1 DEF LInv, AlignInv
      <4> QED
        BY <1>0, <1>1, <1>8, <3>1, <4>1, MultipleFacts
    <3>2. CASE v # turn
      BY <1>8, <2>1, <3>2 DEF LInv, AlignInv
    <3> QED
      BY <3>1, <3>2
  <2> QED
    BY <1>2, <1>12, <2>1 DEF LInv, AlignInv
<1> QED
  BY <1>11, <1>12, <1>13, <1>14, <1>15, <1>16 DEF LInv

\* A step of Bulk that leaves the workers and the table alone.
LEMMA BulkStepKeeps ==
    ASSUME LInv, UNCHANGED <<leaves, cps, lost, served, tiled, pc, target, next, batch, worker, faults>>,
           bulk \in {"recv", "send", "last"}, bulk' \in {"recv", "send", "last"},
           turn' \in W, rc' \in Seq(Leaf \cup {Err}), out' \in Seq(Leaf \cup {Err}),
           PipeInv',
           bulk' \in {"recv", "send"} =>
              bulk \in {"recv", "send"} /\ Position' = Position /\ \A w \in W : Behind(w)' = Behind(w)
    PROVE  LInv'
<1>1. Typed'
  BY DEF LInv, Typed, CloneTypeOK
<1>2. TableInv' /\ Next1' = Next1
  BY SameTableInv DEF LInv
<1>3. WorkersInv'
  BY DEF LInv, WorkersInv, Count
<1>4. pc = "loop"
  BY DEF LInv, QuietInv
<1>5. QuietInv' /\ AlignInv' /\ CloneComplete'
  BY <1>2, <1>4 DEF LInv, QuietInv, AlignInv, CloneComplete
<1> QED
  BY <1>1, <1>2, <1>3, <1>5 DEF LInv

\* Bulk passes on the error of a worker.
LEMMA BulkErrorKeeps ==
    ASSUME LInv, BulkError
    PROVE  LInv'
<1>1. /\ bulk = "recv" /\ out' = <<Err>> /\ bulk' = "last"
      /\ UNCHANGED <<leaves, cps, lost, served, tiled, pc, target, next, batch, worker, faults>>
      /\ rc' = rc /\ turn' = turn
  BY DEF BulkError, db, log
<1>2. HasErr(out')
  <2>1. Len(<<Err>>) = 1 /\ <<Err>>[1] = Err /\ 1 \in 1..1
    OBVIOUS
  <2> QED
    BY <1>1, <2>1 DEF HasErr
<1>3. InPlace(out', next + Len(rc))
  BY <1>1 DEF InPlace
<1>4. Next1' = Next1
  BY <1>1, SameTableInv DEF LInv
<1>5. PipeInv'
  BY <1>1, <1>2, <1>3, <1>4 DEF LInv, PipeInv
<1>6. turn' \in W /\ rc' \in Seq(Leaf \cup {Err}) /\ out' \in Seq(Leaf \cup {Err})
  BY <1>1 DEF LInv, Typed, CloneTypeOK
<1> QED
  BY <1>1, <1>5, <1>6, BulkStepKeeps

\* An error stays in a sequence that another result is added to.
LEMMA AppendHasErr ==
    ASSUME NEW s \in Seq(Leaf \cup {Err}), NEW x, HasErr(s) \/ x = Err
    PROVE  HasErr(Append(s, x))
<1>1. Len(Append(s, x)) = Len(s) + 1 /\ Append(s, x)[Len(s) + 1] = x
      /\ \A k \in 1..Len(s) : Append(s, x)[k] = s[k]
  OBVIOUS
<1>2. CASE x = Err
  <2>1. Len(s) + 1 \in 1..(Len(s) + 1)
    OBVIOUS
  <2> QED
    BY <1>1, <1>2, <2>1 DEF HasErr
<1>3. CASE HasErr(s)
  <2>1. PICK k \in 1..Len(s) : s[k] = Err
    BY <1>3 DEF HasErr
  <2>2. k \in 1..(Len(s) + 1)
    OBVIOUS
  <2> QED
    BY <1>1, <2>1, <2>2 DEF HasErr
<1> QED
  BY <1>2, <1>3

\* Bulk sends a result to the channel.
LEMMA BulkSendKeeps ==
    ASSUME LInv, BulkSend
    PROVE  LInv'
<1>1. /\ bulk \in {"send", "last"} /\ out # <<>> /\ bulk' = bulk /\ turn' = turn
      /\ rc' = Append(rc, Head(out)) /\ out' = Tail(out)
      /\ UNCHANGED <<leaves, cps, lost, served, tiled, pc, target, next, batch, worker, faults>>
  BY DEF BulkSend, db, log
<1>2. /\ rc \in Seq(Leaf \cup {Err}) /\ out \in Seq(Leaf \cup {Err}) /\ turn \in W
      /\ next \in Nat /\ InPlace(rc, next) /\ InPlace(out, next + Len(rc))
      /\ Len(rc) \in Nat /\ Len(out) \in Nat
  BY DEF LInv, Typed, CloneTypeOK, PipeInv
<1>3. next + Len(rc) \in Nat
  BY <1>2
<1>4. /\ Head(out) = Err \/ LeafOfLog(Head(out), next + Len(rc))
      /\ InPlace(Tail(out), (next + Len(rc)) + 1)
      /\ HasErr(out) => Head(out) = Err \/ HasErr(Tail(out))
  BY <1>1, <1>2, <1>3, TailInPlace
<1>5. /\ rc' \in Seq(Leaf \cup {Err}) /\ Len(rc') = Len(rc) + 1
      /\ out' \in Seq(Leaf \cup {Err}) /\ Len(out') = Len(out) - 1
  BY <1>1, <1>2
<1>6. InPlace(rc', next)
  BY <1>1, <1>2, <1>4, AppendInPlace
<1>7. next + Len(rc') = (next + Len(rc)) + 1 /\ Position' = Position
  BY <1>1, <1>2, <1>5 DEF Position
<1>8. HasErr(rc) \/ HasErr(out) => HasErr(rc') \/ HasErr(out')
  BY <1>1, <1>2, <1>4, AppendHasErr
<1>9. Next1' = Next1
  BY <1>1, SameTableInv DEF LInv
<1>10. PipeInv'
  BY <1>1, <1>4, <1>6, <1>7, <1>8, <1>9 DEF LInv, PipeInv
<1>11. \A w \in W : Behind(w)' = Behind(w)
  BY <1>1 DEF Behind, Front
<1> QED
  BY <1>1, <1>2, <1>5, <1>7, <1>10, <1>11, BulkStepKeeps

\* Bulk goes on to the next worker, whose result is the next one.
LEMMA BulkTurnKeeps ==
    ASSUME LInv, BulkTurn
    PROVE  LInv'
<1>1. /\ bulk = "send" /\ bulk' = "recv" /\ turn' = (turn + 1) % Workers
      /\ out = <<>> /\ out' = out /\ rc' = rc
      /\ UNCHANGED <<leaves, cps, lost, served, tiled, pc, target, next, batch, worker, faults>>
  BY DEF BulkTurn, db, log
<1>2. Workers \in Nat \ {0} /\ turn \in 0..(Workers - 1)
  BY RoundFacts
<1>3. turn' = IF turn + 1 = Workers THEN 0 ELSE turn + 1
  <2>1. CASE turn + 1 = Workers
    BY <1>1, <1>2, <2>1
  <2>2. CASE turn + 1 # Workers
    <3>1. turn + 1 \in Nat /\ turn + 1 < Workers
      BY <1>2, <2>2
    <3>2. (turn + 1) % Workers = turn + 1
      BY <1>2, <3>1
    <3> QED
      BY <1>1, <2>2, <3>2
  <2> QED
    BY <2>1, <2>2
<1>4. turn' \in W
  BY <1>2, <1>3 DEF W
<1>5. Front' = Front
  BY <1>1, <1>3 DEF Front
<1>6. Position' = Position /\ \A w \in W : Behind(w)' = Behind(w)
  BY <1>1, <1>5 DEF Position, Behind
<1>7. Next1' = Next1
  BY <1>1, SameTableInv DEF LInv
<1>8. PipeInv'
  BY <1>1, <1>6, <1>7 DEF LInv, PipeInv
<1>9. rc' \in Seq(Leaf \cup {Err}) /\ out' \in Seq(Leaf \cup {Err})
  BY <1>1 DEF LInv, Typed, CloneTypeOK
<1> QED
  BY <1>1, <1>4, <1>6, <1>8, <1>9, BulkStepKeeps

\* Bulk returns.
LEMMA BulkEndsKeeps ==
    ASSUME LInv, BulkEnds
    PROVE  LInv'
<1>1. /\ bulk = "last" /\ bulk' = "closed" /\ out = <<>> /\ out' = <<>> /\ worker' = Idle
      /\ UNCHANGED <<leaves, cps, lost, served, tiled, pc, target, next, batch, rc, turn, faults>>
  BY DEF BulkEnds, db, log
<1>2. worker' \in [W -> WorkerRecord] /\ \A w \in W : worker'[w].pc = "closed"
  <2>1. <<>> \in Seq(Leaf)
    OBVIOUS
  <2> QED
    BY <1>1, <2>1 DEF Idle, WorkerRecord
<1>3. Typed'
  BY <1>1, <1>2 DEF LInv, Typed, CloneTypeOK, WorkerRecord
<1>4. TableInv' /\ Next1' = Next1
  BY <1>1, SameTableInv DEF LInv
<1>5. WorkersInv' /\ QuietInv' /\ AlignInv' /\ CloneComplete'
  <2>1. pc = "loop"
    BY <1>1 DEF LInv, QuietInv
  <2> QED
    BY <1>1, <1>2, <2>1 DEF LInv, WorkersInv, QuietInv, AlignInv, CloneComplete
<1>6. PipeInv'
  <2>1. Idle' = Idle /\ Position' = Position
    BY <1>1 DEF Idle, W, Position
  <2> QED
    BY <1>1, <1>4, <2>1 DEF LInv, PipeInv
<1> QED
  BY <1>3, <1>4, <1>5, <1>6 DEF LInv

\* Clone takes a leaf from the channel.
LEMMA TakeLeafKeeps ==
    ASSUME LInv, TakeLeaf
    PROVE  LInv'
<1>1. /\ pc = "loop" /\ rc # <<>> /\ Head(rc) # Err
      /\ batch' = Append(batch, Head(rc)) /\ rc' = Tail(rc) /\ next' = next + 1
      /\ UNCHANGED <<leaves, cps, lost, served, tiled, pc, target, bulk, turn, out, worker, faults>>
  BY DEF TakeLeaf, db, log
<1>2. /\ batch \in Seq(Leaf) /\ batch \in Seq(Leaf \cup {Err}) /\ rc \in Seq(Leaf \cup {Err})
      /\ next \in Nat /\ Len(rc) \in Nat /\ Len(out) \in Nat /\ Len(batch) \in Nat
      /\ Len(batch) <= next /\ InPlace(batch, next - Len(batch)) /\ InPlace(rc, next)
  BY DEF LInv, Typed, CloneTypeOK, PipeInv
<1>3. /\ Head(rc) = Err \/ LeafOfLog(Head(rc), next)
      /\ InPlace(Tail(rc), next + 1)
      /\ HasErr(rc) => Head(rc) = Err \/ HasErr(Tail(rc))
  BY <1>1, <1>2, TailInPlace
<1>4. Head(rc) \in Leaf /\ rc' \in Seq(Leaf \cup {Err}) /\ Len(rc') = Len(rc) - 1
  BY <1>1, <1>2
<1>5. batch' \in Seq(Leaf) /\ Len(batch') = Len(batch) + 1
  BY <1>1, <1>2, <1>4
<1>6. InPlace(batch', next - Len(batch))
  <2>1. next - Len(batch) \in Nat /\ (next - Len(batch)) + Len(batch) = next
    BY <1>2
  <2> QED
    BY <1>1, <1>2, <1>3, <2>1, AppendInPlace
<1>7. next' - Len(batch') = next - Len(batch) /\ Len(batch') <= next'
      /\ next' + Len(rc') = next + Len(rc) /\ Position' = Position
  BY <1>1, <1>2, <1>4, <1>5 DEF Position
<1>8. Typed'
  BY <1>1, <1>2, <1>4, <1>5 DEF LInv, Typed, CloneTypeOK
<1>9. TableInv' /\ Next1' = Next1
  BY <1>1, SameTableInv DEF LInv
<1>10. WorkersInv'
  BY <1>1, <1>7 DEF LInv, WorkersInv, Count, Behind, Front
<1>11. PipeInv'
  BY <1>1, <1>3, <1>6, <1>7, <1>9 DEF LInv, PipeInv
<1>12. QuietInv' /\ AlignInv' /\ CloneComplete'
  BY <1>1, <1>9 DEF LInv, QuietInv, AlignInv, CloneComplete
<1> QED
  BY <1>8, <1>9, <1>10, <1>11, <1>12 DEF LInv

\* What a transaction of Clone does to the table.
LEMMA CloneWrites ==
    ASSUME LInv, pc = "loop", WriteLeaves(next - Len(batch), batch)
    PROVE  /\ TableInv' /\ cps' = cps /\ lost' \in BOOLEAN /\ faults' \in 0..MaxFaults
           /\ \A i \in DOMAIN leaves' : i \in Nat /\ leaves'[i] \in Leaf
           /\ ~lost' => ~lost /\ Next1' = next /\ DOMAIN leaves' = 0..(next - 1)
<1>1. /\ Typed /\ TableInv /\ batch \in Seq(Leaf) /\ next \in Nat /\ Len(batch) \in Nat
      /\ Len(batch) <= next /\ InPlace(batch, next - Len(batch))
  BY DEF LInv, Typed, CloneTypeOK, PipeInv
<1>2. next - Len(batch) \in Nat /\ (next - Len(batch)) + Len(batch) = next
  BY <1>1
<1>3. ~lost => next - Len(batch) = Next1
  BY DEF LInv, PipeInv
<1> QED
  BY <1>1, <1>2, <1>3, WriteFacts

\* A full batch is written.
LEMMA WriteFullKeeps ==
    ASSUME LInv, WriteFull
    PROVE  LInv'
<1>1. /\ pc = "loop" /\ WriteLeaves(next - Len(batch), batch) /\ batch' = <<>>
      /\ UNCHANGED <<served, tiled, pc, target, next, rc, bulk, turn, out, worker>>
  BY DEF WriteFull, log, pipe
<1>2. /\ TableInv' /\ cps' = cps /\ lost' \in BOOLEAN /\ faults' \in 0..MaxFaults
      /\ \A i \in DOMAIN leaves' : i \in Nat /\ leaves'[i] \in Leaf
      /\ ~lost' => ~lost /\ Next1' = next
  BY <1>1, CloneWrites
<1>3. Typed'
  <2>1. <<>> \in Seq(Leaf)
    OBVIOUS
  <2> QED
    BY <1>1, <1>2, <2>1 DEF LInv, Typed, CloneTypeOK
<1>4. next \in Nat /\ Len(<<>>) = 0
  BY DEF LInv, Typed, CloneTypeOK
<1>5. WorkersInv'
  BY <1>1 DEF LInv, WorkersInv, Count, Position, Behind, Front
<1>6. PipeInv'
  <2>1. Len(batch') <= next' /\ next' - Len(batch') = next /\ InPlace(batch', next)
    BY <1>1, <1>4 DEF InPlace
  <2>2. Position' = Position /\ Idle' = Idle
    BY <1>1 DEF Position, Idle, W
  <2> QED
    BY <1>1, <1>2, <2>1, <2>2 DEF LInv, PipeInv
<1>7. QuietInv' /\ AlignInv' /\ CloneComplete'
  BY <1>1, <1>2 DEF LInv, QuietInv, AlignInv, CloneComplete
<1> QED
  BY <1>2, <1>3, <1>5, <1>6, <1>7 DEF LInv

\* The channel is closed, and the rest of the leaves is written.
LEMMA FinalWriteKeeps ==
    ASSUME LInv, FinalWrite
    PROVE  LInv'
<1>1. /\ pc = "loop" /\ pc' = "verify" /\ rc = <<>> /\ bulk = "closed" /\ batch' = <<>>
      /\ WriteLeaves(next - Len(batch), batch)
      /\ UNCHANGED <<served, tiled, target, next, rc, bulk, turn, out, worker>>
  BY DEF FinalWrite, log, pipe
<1>2. /\ TableInv' /\ cps' = cps /\ lost' \in BOOLEAN /\ faults' \in 0..MaxFaults
      /\ \A i \in DOMAIN leaves' : i \in Nat /\ leaves'[i] \in Leaf
      /\ ~lost' => ~lost /\ Next1' = next /\ DOMAIN leaves' = 0..(next - 1)
  BY <1>1, CloneWrites
<1>3. Typed'
  <2>1. <<>> \in Seq(Leaf)
    OBVIOUS
  <2> QED
    BY <1>1, <1>2, <2>1 DEF LInv, Typed, CloneTypeOK
<1>4. next \in Nat /\ Size(target) \in Nat /\ Len(<<>>) = 0
  BY RoundFacts
<1>5. out = <<>> /\ worker = Idle /\ next >= Size(target)
  <2>1. out = <<>> /\ worker = Idle /\ Position = next
    BY <1>1, <1>4 DEF LInv, PipeInv, Position
  <2>2. ~HasErr(<<>>)
    BY DEF HasErr
  <2> QED
    BY <1>1, <2>1, <2>2 DEF LInv, PipeInv
<1>6. \A w \in W : worker'[w].pc = "closed"
  BY <1>1, <1>5 DEF Idle
<1>7. WorkersInv' /\ QuietInv' /\ AlignInv'
  BY <1>1, <1>6 DEF WorkersInv, QuietInv, AlignInv
<1>8. PipeInv'
  <2>1. Len(batch') <= next' /\ InPlace(batch', next' - Len(batch'))
    BY <1>1, <1>4 DEF InPlace
  <2>2. Idle' = Idle
    BY DEF Idle, W
  <2> QED
    BY <1>1, <1>5, <2>1, <2>2 DEF LInv, PipeInv
<1>9. CloneComplete'
  <2>1. ~lost' => 0..(Size(target) - 1) \subseteq DOMAIN leaves'
    BY <1>2, <1>4, <1>5
  <2> QED
    BY <1>1, <2>1 DEF CloneComplete
<1> QED
  BY <1>2, <1>3, <1>7, <1>8, <1>9 DEF LInv

\* The rest of a tile is fetched and written: the download starts at the next tile,
\* or has nothing left to do.
LEMMA PrefetchKeeps ==
    ASSUME LInv, Prefetch
    PROVE  LInv'
<1> DEFINE first == Next1 - Rem
           c == first + Count(first) - Next1
           d == SubSeq(served, Next1 + 1, first + Count(first))
<1>1. /\ pc = "prefetch" /\ pc' = "clone" /\ Next1 < Size(target) /\ Rem > 0
      /\ Fetchable(first) /\ WriteLeaves(Next1, d)
      /\ UNCHANGED <<served, tiled, target, next, batch, rc, bulk, turn, out, worker>>
  BY DEF Prefetch, log, pipe
<1>2. /\ Next1 \in Nat /\ Typed /\ TableInv /\ served \in Served /\ target \in Seq(Leaf)
      /\ FetchBatch \in Nat \ {0} /\ Size(target) \in Nat
  BY Next1Facts, RoundFacts DEF LInv, Typed, CloneTypeOK
<1>3. Rem = Next1 % FetchBatch
  BY <1>1 DEF Rem
<1>4. first \in Nat /\ Multiple(first) /\ Rem \in 0..(FetchBatch - 1)
  <2>1. Multiple(Next1 - (Next1 % FetchBatch)) /\ Next1 % FetchBatch \in 0..(FetchBatch - 1)
        /\ Next1 - (Next1 % FetchBatch) \in Nat
    BY <1>2, MultipleFacts
  <2> QED
    BY <1>3, <2>1
<1>5. first < Size(target) /\ first < Next1 /\ Next1 < first + FetchBatch
  BY <1>1, <1>2, <1>4
<1> HIDE DEF first
<1>6. /\ Count(first) \in Nat \ {0} /\ Count(first) <= FetchBatch
      /\ first + Count(first) <= Size(target)
      /\ first + FetchBatch <= Size(target) => Count(first) = FetchBatch
      /\ first + FetchBatch >= Size(target) => first + Count(first) = Size(target)
  BY <1>2, <1>4, <1>5, FetchFacts
<1>7. c \in Nat /\ Next1 + c = first + Count(first)
  BY <1>1, <1>2, <1>4, <1>5, <1>6
<1>8. Next1 + c <= Size(served)
  <2>1. Size(served) \in Nat
    BY <1>2, CloneAssumption DEF Size
  <2> QED
    BY <1>1, <1>7, <2>1 DEF Fetchable
<1>9. d \in Seq(Leaf) /\ Len(d) = c /\ InPlace(d, Next1)
  <2> HIDE DEF c
  <2>1. /\ SubSeq(served, Next1 + 1, Next1 + c) \in Seq(Leaf)
        /\ Len(SubSeq(served, Next1 + 1, Next1 + c)) = c
        /\ InPlace(SubSeq(served, Next1 + 1, Next1 + c), Next1)
    BY <1>2, <1>7, <1>8, SubSeqInPlace
  <2> QED
    BY <1>7, <2>1
<1> HIDE DEF d, c
<1>10. /\ TableInv' /\ cps' = cps /\ lost' \in BOOLEAN /\ faults' \in 0..MaxFaults
       /\ \A i \in DOMAIN leaves' : i \in Nat /\ leaves'[i] \in Leaf
       /\ ~lost' => ~lost /\ Next1' = first + Count(first)
  BY <1>1, <1>2, <1>7, <1>9, WriteFacts
<1>11. Typed'
  BY <1>1, <1>10 DEF LInv, Typed, CloneTypeOK
<1>12. rc = <<>> /\ bulk = "closed" /\ batch = <<>> /\ next = 0 /\ worker = Idle /\ out = <<>>
  BY <1>1 DEF LInv, QuietInv, PipeInv
<1>13. \A w \in W : worker'[w].pc = "closed"
  BY <1>1, <1>12 DEF Idle
<1>14. WorkersInv' /\ QuietInv' /\ CloneComplete'
  BY <1>1, <1>12, <1>13 DEF WorkersInv, QuietInv, CloneComplete
<1>15. PipeInv'
  <2>1. Idle' = Idle
    BY DEF Idle, W
  <2> QED
    BY <1>1, <1>12, <2>1 DEF LInv, PipeInv, InPlace
<1>16. AlignInv'
  <2>1. ASSUME ~lost' PROVE Next1' >= Size(target) \/ Multiple(Next1')
    <3>1. CASE first + FetchBatch >= Size(target)
      BY <1>2, <1>6, <1>10, <2>1, <3>1
    <3>2. CASE first + FetchBatch < Size(target)
      <4>1. Next1' = first + 1 * FetchBatch
        BY <1>2, <1>4, <1>6, <1>10, <2>1, <3>2
      <4> QED
        BY <1>4, <4>1, MultipleFacts
    <3> QED
      BY <1>2, <1>4, <3>1, <3>2
  <2> QED
    BY <1>1, <1>13, <2>1 DEF AlignInv
<1> QED
  BY <1>10, <1>11, <1>14, <1>15, <1>16 DEF LInv

\* The workers start one batch after the other, from the end of the table.
LEMMA StartBulkKeeps ==
    ASSUME LInv, StartBulk
    PROVE  LInv'
<1>1. /\ pc = "clone" /\ pc' = "loop" /\ Next1 < Size(target) /\ next' = Next1 /\ batch' = <<>>
      /\ bulk' = "recv" /\ turn' = 0
      /\ worker' = [w \in W |-> [pc |-> "fetch", start |-> Next1 + w * FetchBatch,
                                 data |-> <<>>]]
      /\ UNCHANGED <<leaves, cps, lost, served, tiled, target, rc, out, faults>>
  BY DEF StartBulk, db, log
<1>2. rc = <<>> /\ out = <<>> /\ Len(<<>>) = 0 /\ <<>> \in Seq(Leaf)
  BY <1>1 DEF LInv, QuietInv, PipeInv
<1>3. Next1 \in Nat /\ FetchBatch \in Nat \ {0} /\ Workers \in Nat \ {0}
  BY Next1Facts, RoundFacts DEF LInv
<1>4. \A w \in W : w \in Nat /\ Next1 + w * FetchBatch \in Nat
  <2>1. \A w \in W : w \in Nat
    BY DEF W
  <2>2. \A w \in W : w * FetchBatch \in Nat
    BY <1>3, <2>1, ProductFacts, Zenon
  <2> QED
    BY <1>3, <2>1, <2>2
<1>5. worker' \in [W -> WorkerRecord]
  BY <1>1, <1>2, <1>4 DEF WorkerRecord
<1>6. \A w \in W : worker'[w].pc = "fetch" /\ worker'[w].start = Next1 + w * FetchBatch
  BY <1>1
<1>7. Typed'
  <2>1. turn' \in W
    BY <1>1, <1>3 DEF W
  <2> QED
    BY <1>1, <1>2, <1>3, <1>5, <2>1 DEF LInv, Typed, CloneTypeOK, WorkerRecord
<1>8. TableInv' /\ Next1' = Next1
  BY <1>1, SameTableInv DEF LInv
<1>9. Position' = Next1 /\ \A w \in W : Behind(w)' = w
  BY <1>1, <1>2, <1>3, <1>4 DEF Position, Behind, Front
<1>10. WorkersInv'
  <2>1. ASSUME NEW w \in W PROVE worker'[w].start = Position' + FetchBatch * Behind(w)'
    <3>1. w * FetchBatch = FetchBatch * w
      BY <1>3, <1>4
    <3> QED
      BY <1>6, <1>9, <3>1
  <2> QED
    BY <1>6, <2>1 DEF WorkersInv
<1>11. PipeInv'
  BY <1>1, <1>2, <1>3, <1>8 DEF PipeInv, InPlace
<1>12. QuietInv' /\ CloneComplete'
  BY <1>1 DEF QuietInv, CloneComplete
<1>13. AlignInv'
  <2>1. ASSUME ~lost, tiled, NEW w \in W PROVE Multiple(worker'[w].start)
    <3>0. Size(target) \in Nat
      BY RoundFacts
    <3>1. Multiple(Next1)
      BY <1>1, <1>3, <2>1, <3>0 DEF LInv, AlignInv
    <3> QED
      BY <1>3, <1>4, <1>6, <3>1, MultipleFacts
  <2> QED
    BY <1>1, <2>1 DEF AlignInv
<1> QED
  BY <1>7, <1>8, <1>10, <1>11, <1>12, <1>13 DEF LInv

-----------------------------------------------------------------------------

\* Every step keeps the invariant.
LEMMA NextLInv ==
    ASSUME LInv, [Next]_vars
    PROVE  LInv'
<1>1. CASE Command
  <2>1. CASE StreamFails
    <3>1. pc' = "hung" \/ Exit
      BY <2>1 DEF StreamFails
    <3> QED
      BY <2>1, <3>1, EndsKeep, MovesKeep
  <2>2. CASE NoWork \/ Aligned \/ VerifyOK
    BY <2>2, MovesKeep, Zenon
  <2>3. CASE PrefetchFails \/ TakeError \/ WriteFails \/ VerifyFails \/ WriteCheckpoint
    BY <2>3, EndsKeep, Zenon
  <2>4. CASE TakeLeaf \/ WriteFull \/ FinalWrite \/ Prefetch \/ StartBulk
    BY <2>4, TakeLeafKeeps, WriteFullKeeps, FinalWriteKeeps, PrefetchKeeps, StartBulkKeeps, Zenon
  <2> QED
    BY <1>1, <2>1, <2>2, <2>3, <2>4, Zenon DEF Command
<1>2. CASE BulkStep
  BY <1>2, BulkReceiveKeeps, BulkErrorKeeps, BulkSendKeeps, BulkTurnKeeps, BulkEndsKeeps
     DEF BulkStep
<1>3. CASE Start \/ Kill \/ Interrupt
  BY <1>3, MovesKeep, EndsKeep, Zenon
<1>4. CASE \E t \in Served : Serve(t) \/ StartVerify(t)
  BY <1>4, ServeKeeps, MovesKeep
<1>5. CASE \E w \in W : Worker(w)
  BY <1>5, WorkerKeeps
<1>6. CASE UNCHANGED vars
  BY <1>6, ServeKeeps
<1> QED
  BY <1>1, <1>2, <1>3, <1>4, <1>5, <1>6 DEF Next

\* The leaves that the workers, Bulk and Clone bring into the database are at their
\* index, without a gap, and all that was asked for; fetches start at tiles.  This
\* holds for any trees, any number of workers, any sizes of the batches and any
\* number of failures and restarts.
THEOREM LeavesAlwaysSound == Spec => []LeavesSound
<1>1. Init => LInv
  BY InitLInv
<1>2. LInv /\ [Next]_vars => LInv'
  BY NextLInv
<1>3. LInv => LeavesSound
  <2> SUFFICES ASSUME LInv PROVE LeavesSound
    OBVIOUS
  <2>1. CloneTypeOK /\ LeavesInPlace /\ LeavesContiguous /\ CloneComplete
    BY DEF LInv, Typed, TableInv
  <2>2. AlignedFetch
    <3> SUFFICES ASSUME ~lost, tiled, NEW w \in W, worker[w].pc # "closed"
                 PROVE  worker[w].start % FetchBatch = 0
      BY DEF AlignedFetch
    <3>1. worker[w].start \in Nat /\ Multiple(worker[w].start)
      BY DEF LInv, Typed, CloneTypeOK, AlignInv
    <3> QED
      BY <3>1, MultipleFacts
  <2> QED
    BY <2>1, <2>2 DEF LeavesSound
<1> QED
  BY <1>1, <1>2, <1>3, PTL DEF Spec
=============================================================================
