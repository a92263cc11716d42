---------------------------- MODULE GCPLogProofs ----------------------------
(***************************************************************************)
(* Proofs about both functions of the log on Google Cloud, Sequence and    *)
(* Integrate, for any number of uploads, of invocations that race, fail    *)
(* and are stopped, and for any size of tiles.                             *)
(***************************************************************************)
EXTENDS GCPLog, TileProofs, FiniteSetTheorems

-----------------------------------------------------------------------------
(* The invariant. *)

\* The numbers in use are the first ones.
Dense == \E n \in Nat : DOMAIN seq = 0..(n - 1)

\* Numbers below m are in use.
UsedBelow(m) == 0..(m - 1) \subseteq DOMAIN seq

\* What an invocation holds at each point.
SequencerInv(p) ==
    /\ UsedBelow(nextSeq[p])
    /\ spc[p] = "object" => todo[p] # {}
    /\ spc[p] \in {"number", "write", "index"} => entry[p] \in Leaf
    /\ spc[p] = "index" => nextSeq[p] \in DOMAIN seq /\ seq[nextSeq[p]] = entry[p]

IntegrateInv ==
    /\ cp # None => UsedBelow(Size(cp))
    /\ ipc = "store" => UsedBelow(size)

NumberInv ==
    /\ CloudTypeOK /\ Dense /\ IntegrateInv /\ LeafIndexSound
    /\ \A p \in Sequencers : SequencerInv(p)

\* The numbers that a leaf has, the invocations that found no index object for
\* it and have yet to number it, and those that have yet to write that object.
Numbers(x) == {i \in DOMAIN seq : seq[i] = x}
Holders(x) == {p \in Sequencers : spc[p] \in {"number", "write"} /\ entry[p] = x}
Indexers(x) == {p \in Sequencers : spc[p] = "index" /\ entry[p] = x}

\* Each invocation that may run at once accounts for one number of a leaf, and
\* each fault for one; as long as the leaf has no index object, its numbers are
\* those of invocations about to write it and of those that failed to.
CountOf(x) ==
    /\ Cardinality(Numbers(x)) + Cardinality(Holders(x)) <= Cardinality(Sequencers) + faults
    /\ x \notin DOMAIN leafIdx => Cardinality(Numbers(x)) <= Cardinality(Indexers(x)) + faults

CloudInv == NumberInv /\ \A x \in Leaf : CountOf(x)

-----------------------------------------------------------------------------
(* Lemmas about the operators. *)

\* The least of some numbers is one of them.
LEMMA MinFacts ==
    ASSUME NEW S, S \subseteq Nat, S # {}
    PROVE  Min(S) \in S /\ \A y \in S : Min(S) <= y
<1>1. \E x \in S : \A y \in S : ~ (<<y, x>> \in OpToRel(<, Nat))
  BY NatLessThanWellFounded, WFMin
<1>2. \A x, y \in Nat : y < x => <<y, x>> \in OpToRel(<, Nat)
  <2> SUFFICES ASSUME NEW x \in Nat, NEW y \in Nat, y < x
               PROVE  <<y, x>> \in OpToRel(<, Nat)
    OBVIOUS
  <2>1. <<y, x>> \in Nat \X Nat /\ <<y, x>>[1] < <<y, x>>[2]
    OBVIOUS
  <2> QED
    BY <2>1, Zenon DEF OpToRel
<1>3. \E x \in S : \A y \in S : ~ (y < x)
  BY <1>1, <1>2, Zenon
<1>4. \E x \in S : \A y \in S : x <= y
  BY <1>3
<1> QED
  BY <1>4 DEF Min

\* The size of a tree that is given leaf by leaf.
LEMMA LenFacts ==
    ASSUME NEW n \in Nat, NEW f, f = [i \in 1..n |-> f[i]]
    PROVE  Len(f) = n
<1>1. f \in [1..n -> {f[i] : i \in 1..n}]
  OBVIOUS
<1>2. f \in Seq({f[i] : i \in 1..n}) /\ DOMAIN f = 1..n
  BY <1>1
<1> QED
  BY <1>2

\* With no gap in the numbers, the first free one is found and the scan of an
\* integration goes to the end.
LEMMA NumberFacts ==
    ASSUME NEW n \in Nat, DOMAIN seq = 0..(n - 1), NEW m \in Nat, UsedBelow(m)
    PROVE  /\ m <= n
           /\ Cardinality(DOMAIN seq) = n
           /\ Min((m..(m + Cardinality(DOMAIN seq))) \ DOMAIN seq) = n
           /\ m + Cardinality(Sequenced(m)) = n
<1>1. m <= n
  BY DEF UsedBelow
<1>2. Cardinality(DOMAIN seq) = n
  BY FS_Interval
<1>3. Min((m..(m + Cardinality(DOMAIN seq))) \ DOMAIN seq) = n
  <2> DEFINE S == (m..(m + n)) \ DOMAIN seq
  <2>1. n \in S /\ S \subseteq Nat /\ \A y \in S : n <= y
    BY <1>1
  <2>2. Min(S) \in S /\ \A y \in S : Min(S) <= y
    BY <2>1, MinFacts
  <2>3. Min(S) = n
    <3> HIDE DEF S
    <3>1. Min(S) \in Nat /\ Min(S) <= n /\ n <= Min(S)
      BY <2>1, <2>2
    <3> QED
      BY <3>1
  <2> QED
    BY <1>2, <2>3
<1>4. Sequenced(m) = m..(n - 1)
  BY DEF Sequenced
<1>5. Cardinality(m..(n - 1)) = n - m
  BY <1>1, FS_Interval
<1> QED
  BY <1>1, <1>2, <1>3, <1>4, <1>5

-----------------------------------------------------------------------------
(* Numbers have no gaps and index objects point to their leaf. *)

\* The invariant holds of the empty bucket.
LEMMA InitNumberInv == Init => NumberInv
<1> SUFFICES ASSUME Init PROVE NumberInv
  OBVIOUS
<1> USE CloudAssumption DEF Init, NoObjects
<1>1. CloudTypeOK
  <2>1. DOMAIN entries = {} /\ DOMAIN seq = {} /\ DOMAIN leafIdx = {}
    OBVIOUS
  <2>2. todo \in [Sequencers -> SUBSET DOMAIN entries]
    BY <2>1
  <2>3. /\ spc \in [Sequencers -> SPC] /\ entry \in [Sequencers -> Leaf \cup {None}]
        /\ nextSeq \in [Sequencers -> Nat]
    BY DEF SPC
  <2>4. bucket \in BOOLEAN
    BY Zenon
  <2>5. cp = None /\ ipc \in IPC /\ size \in Nat /\ published = {} /\ faults \in 0..MaxFaults
    BY DEF IPC
  <2> HIDE DEF Init
  <2> QED
    BY <2>1, <2>2, <2>3, <2>4, <2>5 DEF CloudTypeOK
<1>2. Dense
  <2>1. DOMAIN seq = 0..(0 - 1)
    OBVIOUS
  <2> QED
    BY <2>1 DEF Dense
<1>3. IntegrateInv /\ LeafIndexSound /\ \A p \in Sequencers : SequencerInv(p)
  BY DEF IntegrateInv, LeafIndexSound, SequencerInv, UsedBelow
<1> QED
  BY <1>1, <1>2, <1>3 DEF NumberInv

\* Numbers that are in use stay in use when objects are only added.
LEMMA UsedKept ==
    ASSUME NEW m, UsedBelow(m), DOMAIN seq \subseteq DOMAIN seq'
    PROVE  0..(m - 1) \subseteq DOMAIN seq'
  BY DEF UsedBelow

\* A step that leaves the numbers and the index alone keeps their relation.
LEMMA SameNumbers ==
    ASSUME Dense, LeafIndexSound, seq' = seq, leafIdx' = leafIdx
    PROVE  Dense' /\ LeafIndexSound'
  BY DEF Dense, LeafIndexSound

\* A client's upload keeps the invariant.
LEMMA CreateKeeps ==
    ASSUME NumberInv, NEW u \in Uploads, CreateGCSObject(u)
    PROVE  NumberInv'
<1>1. /\ DOMAIN entries' = DOMAIN entries \cup {u[1]}
      /\ entries'[u[1]] = u[2]
      /\ \A j \in DOMAIN entries : j # u[1] => entries'[j] = entries[j]
  <2>1. entries' = Put(entries, u[1], u[2])
    BY DEF CreateGCSObject
  <2> QED
    BY <2>1 DEF Put
<1>2. u[1] \in Nat /\ u[2] \in Leaf
  BY CloudAssumption
<1>3. UNCHANGED <<bucket, cp, seq, leafIdx, spc, todo, entry, nextSeq, ipc, size, published, faults>>
  BY DEF CreateGCSObject, svars, ivars
<1>4. CloudTypeOK'
  BY <1>1, <1>2, <1>3 DEF NumberInv, CloudTypeOK
<1>5. IntegrateInv' /\ \A p \in Sequencers : SequencerInv(p)'
  BY <1>3 DEF NumberInv, IntegrateInv, SequencerInv, UsedBelow
<1> QED
  BY <1>3, <1>4, <1>5, SameNumbers DEF NumberInv

\* A step of an invocation of Sequence that writes no object.
Reads(p, a, t, e, k) ==
    /\ UNCHANGED <<objects, ivars, published>>
    /\ spc' = [spc EXCEPT ![p] = a]
    /\ todo' = [todo EXCEPT ![p] = t]
    /\ entry' = [entry EXCEPT ![p] = e]
    /\ nextSeq' = [nextSeq EXCEPT ![p] = k]

\* It keeps the invariant, if what the invocation holds then is right.
LEMMA ReadsKeep ==
    ASSUME NumberInv, faults' \in 0..MaxFaults, NEW p \in Sequencers,
           NEW a, NEW t, NEW e, NEW k, Reads(p, a, t, e, k),
           a \in {"idle", "object", "number", "write"}, t \in SUBSET DOMAIN entries,
           e \in Leaf \cup {None}, k \in Nat, UsedBelow(k),
           a = "object" => t # {}, a \in {"number", "write"} => e \in Leaf
    PROVE  NumberInv'
<1>1. UNCHANGED <<bucket, cp, entries, seq, leafIdx, ipc, size, published>>
  BY DEF Reads, objects, ivars
<1>2. CloudTypeOK'
  BY <1>1 DEF NumberInv, CloudTypeOK, Reads, SPC
<1>3. \A q \in Sequencers : SequencerInv(q)'
  BY <1>1 DEF NumberInv, CloudTypeOK, SequencerInv, UsedBelow, Reads
<1>4. IntegrateInv'
  BY <1>1 DEF NumberInv, IntegrateInv, UsedBelow
<1> QED
  BY <1>1, <1>2, <1>3, <1>4, SameNumbers DEF NumberInv

\* The start of an invocation keeps the invariant.
LEMMA StartKeeps ==
    ASSUME NumberInv, NEW p \in Sequencers, StartSequence(p)
    PROVE  NumberInv'
<1>1. Reads(p, "object", DOMAIN entries, entry[p], Size(cp))
  BY DEF StartSequence, Reads, At, GetObjects, NumberInv, CloudTypeOK
<1>2. /\ DOMAIN entries # {} /\ entry[p] \in Leaf \cup {None}
      /\ Size(cp) \in Nat /\ UsedBelow(Size(cp)) /\ faults' \in 0..MaxFaults
  BY DEF StartSequence, GetObjects, NumberInv, CloudTypeOK, IntegrateInv
<1> QED
  BY <1>1, <1>2, ReadsKeep

\* What the next object of an invocation is, and how it goes on.
LEMMA NextObjectFacts ==
    ASSUME NumberInv, NEW p \in Sequencers, NextObject(p)
    PROVE  /\ faults' = faults /\ spc[p] = "object"
           /\ \E t \in SUBSET DOMAIN entries :
                \/ /\ t = {} /\ Reads(p, "idle", t, None, 0)
                \/ /\ t # {} /\ Reads(p, "object", t, None, nextSeq[p])
                \/ \E x \in Leaf : /\ x \notin DOMAIN leafIdx
                                   /\ Reads(p, "number", t, x, nextSeq[p])
<1> DEFINE m == Min(todo[p])
           x == entries[m]
           t == todo[p] \ {m}
<1>1. spc[p] = "object" /\ UNCHANGED <<objects, ivars, published, faults>>
  BY DEF NextObject
<1>2. todo[p] # {} /\ todo[p] \subseteq DOMAIN entries /\ DOMAIN entries \subseteq Nat
  BY <1>1 DEF NumberInv, SequencerInv, CloudTypeOK
<1>3. m \in todo[p] /\ x \in Leaf /\ t \in SUBSET DOMAIN entries
  BY <1>2, MinFacts DEF NumberInv, CloudTypeOK
<1>4. todo' = [todo EXCEPT ![p] = t] /\ todo'[p] = t
  BY DEF NextObject, NumberInv, CloudTypeOK
<1>5. CASE x \in DOMAIN leafIdx
  <2>1. Continue(p, "object")
    BY <1>5 DEF NextObject, DupeLeaf, GetObjectData
  <2>2. CASE t = {}
    <3>1. Reads(p, "idle", t, None, 0)
      BY <1>1, <1>4, <2>1, <2>2 DEF Continue, At, Reads
    <3> QED
      BY <1>1, <1>3, <2>2, <3>1
  <2>3. CASE t # {}
    <3>1. Reads(p, "object", t, None, nextSeq[p])
      BY <1>1, <1>4, <2>1, <2>3 DEF Continue, At, Reads
    <3> QED
      BY <1>1, <1>3, <2>3, <3>1
  <2> QED
    BY <2>2, <2>3
<1>6. CASE x \notin DOMAIN leafIdx
  <2>1. Reads(p, "number", t, x, nextSeq[p])
    BY <1>1, <1>4, <1>6 DEF NextObject, DupeLeaf, GetObjectData, At, Reads, NumberInv, CloudTypeOK
  <2> QED
    BY <1>1, <1>3, <1>6, <2>1
<1> QED
  BY <1>5, <1>6

\* Reading the next object keeps the invariant.
LEMMA NextObjectKeeps ==
    ASSUME NumberInv, NEW p \in Sequencers, NextObject(p)
    PROVE  NumberInv'
<1>1. faults' \in 0..MaxFaults
  BY NextObjectFacts DEF NumberInv, CloudTypeOK
<1>2. UsedBelow(0) /\ UsedBelow(nextSeq[p]) /\ nextSeq[p] \in Nat
  BY DEF NumberInv, SequencerInv, CloudTypeOK, UsedBelow
<1>3. PICK t \in SUBSET DOMAIN entries :
        \/ /\ t = {} /\ Reads(p, "idle", t, None, 0)
        \/ /\ t # {} /\ Reads(p, "object", t, None, nextSeq[p])
        \/ \E x \in Leaf : Reads(p, "number", t, x, nextSeq[p])
  BY NextObjectFacts
<1>4. CASE t = {} /\ Reads(p, "idle", t, None, 0)
  BY <1>1, <1>2, <1>4, ReadsKeep
<1>5. CASE t # {} /\ Reads(p, "object", t, None, nextSeq[p])
  BY <1>1, <1>2, <1>5, ReadsKeep
<1>6. CASE \E x \in Leaf : Reads(p, "number", t, x, nextSeq[p])
  BY <1>1, <1>2, <1>6, ReadsKeep
<1> QED
  BY <1>3, <1>4, <1>5, <1>6

\* Finding a number, or finding that it was taken, keeps the invariant.
LEMMA FindNumberKeeps ==
    ASSUME NumberInv, NEW p \in Sequencers, FindNumber(p) \/ PreconditionFailed(p)
    PROVE  NumberInv'
<1>1. PICK n \in Nat : DOMAIN seq = 0..(n - 1)
  BY DEF NumberInv, Dense
<1>2. /\ faults' \in 0..MaxFaults /\ UsedBelow(nextSeq[p]) /\ nextSeq[p] \in Nat
      /\ entry[p] \in Leaf \cup {None} /\ todo[p] \in SUBSET DOMAIN entries
  BY DEF FindNumber, PreconditionFailed, NumberInv, SequencerInv, CloudTypeOK
<1>3. CASE FindNumber(p)
  <2>1. Min((nextSeq[p]..(nextSeq[p] + Cardinality(DOMAIN seq))) \ DOMAIN seq) = n
    BY <1>1, <1>2, NumberFacts
  <2>2. Reads(p, "write", todo[p], entry[p], n)
    BY <1>3, <2>1 DEF FindNumber, At, Reads, NumberInv, CloudTypeOK
  <2>3. UsedBelow(n) /\ entry[p] \in Leaf
    BY <1>1, <1>3 DEF UsedBelow, FindNumber, At, NumberInv, SequencerInv
  <2> QED
    BY <1>2, <2>2, <2>3, ReadsKeep
<1>4. CASE PreconditionFailed(p)
  <2>1. Reads(p, "number", todo[p], entry[p], nextSeq[p] + 1)
    BY <1>4 DEF PreconditionFailed, At, Reads, NumberInv, CloudTypeOK
  <2>2. UsedBelow(nextSeq[p] + 1) /\ entry[p] \in Leaf
    BY <1>2, <1>4 DEF UsedBelow, PreconditionFailed, At, NumberInv, SequencerInv
  <2> QED
    BY <1>2, <2>1, <2>2, ReadsKeep
<1> QED
  BY <1>3, <1>4

\* A failing invocation keeps the invariant.
LEMMA SequenceErrorKeeps ==
    ASSUME NumberInv, NEW p \in Sequencers, SequenceError(p)
    PROVE  NumberInv'
<1>1. Reads(p, "idle", {}, None, 0)
  BY DEF SequenceError, Reads
<1>2. faults' \in 0..MaxFaults
  BY CloudAssumption DEF SequenceError, NumberInv, CloudTypeOK
<1>3. UsedBelow(0)
  BY DEF UsedBelow
<1> QED
  BY <1>1, <1>2, <1>3, ReadsKeep

\* What the write of an entry does: it takes the first free number.
LEMMA WriteSeqFacts ==
    ASSUME NumberInv, NEW p \in Sequencers, WriteSeq(p), NEW n \in Nat,
           DOMAIN seq = 0..(n - 1)
    PROVE  /\ nextSeq[p] = n /\ n \notin DOMAIN seq /\ DOMAIN seq' = 0..n
           /\ seq'[n] = entry[p] /\ entry[p] \in Leaf /\ spc[p] = "write"
           /\ spc' = [spc EXCEPT ![p] = "index"]
           /\ \A i \in DOMAIN seq : seq'[i] = seq[i]
           /\ UNCHANGED <<bucket, cp, entries, leafIdx, todo, entry, nextSeq, ipc, size,
                          published, faults>>
<1>1. nextSeq[p] \notin DOMAIN seq /\ spc[p] = "write"
      /\ spc' = [spc EXCEPT ![p] = "index"] /\ seq' = Put(seq, nextSeq[p], entry[p])
  BY DEF WriteSeq, At
<1>2. nextSeq[p] \in Nat /\ UsedBelow(nextSeq[p]) /\ entry[p] \in Leaf
  BY <1>1 DEF NumberInv, CloudTypeOK, SequencerInv
<1>3. nextSeq[p] = n
  <2>1. ASSUME nextSeq[p] > n PROVE FALSE
    <3>1. n \in 0..(nextSeq[p] - 1)
      BY <1>2, <2>1
    <3> QED
      BY <3>1, <1>2 DEF UsedBelow
  <2>2. ~ (nextSeq[p] < n)
    BY <1>1, <1>2
  <2> QED
    BY <1>2, <2>1, <2>2
<1>4. /\ DOMAIN seq' = DOMAIN seq \cup {n} /\ seq'[n] = entry[p]
      /\ \A i \in DOMAIN seq : i # n => seq'[i] = seq[i]
  BY <1>1, <1>3 DEF Put
<1>5. UNCHANGED <<bucket, cp, entries, leafIdx, todo, entry, nextSeq, ipc, size, published, faults>>
  BY DEF WriteSeq, ivars
<1>6. DOMAIN seq' = 0..n /\ n \notin DOMAIN seq
  <2>1. (0..(n - 1)) \cup {n} = 0..n
    OBVIOUS
  <2> QED
    BY <1>1, <1>3, <1>4, <2>1
<1>7. \A i \in DOMAIN seq : seq'[i] = seq[i]
  BY <1>4, <1>6
<1> QED
  BY <1>1, <1>2, <1>3, <1>4, <1>5, <1>6, <1>7

\* The write of an entry keeps the invariant.
LEMMA WriteSeqKeeps ==
    ASSUME NumberInv, NEW p \in Sequencers, WriteSeq(p)
    PROVE  NumberInv'
<1>1. PICK n \in Nat : DOMAIN seq = 0..(n - 1)
  BY DEF NumberInv, Dense
<1>2. /\ nextSeq[p] = n /\ n \notin DOMAIN seq /\ DOMAIN seq' = 0..n
      /\ seq'[n] = entry[p] /\ entry[p] \in Leaf /\ spc[p] = "write"
      /\ spc' = [spc EXCEPT ![p] = "index"]
      /\ \A i \in DOMAIN seq : seq'[i] = seq[i]
      /\ UNCHANGED <<bucket, cp, entries, leafIdx, todo, entry, nextSeq, ipc, size,
                     published, faults>>
  BY <1>1, WriteSeqFacts
<1>3. DOMAIN seq \subseteq DOMAIN seq'
  BY <1>1, <1>2
<1>4. CloudTypeOK'
  BY <1>1, <1>2 DEF NumberInv, CloudTypeOK, SPC
<1>5. Dense'
  <2>1. n + 1 \in Nat /\ 0..n = 0..((n + 1) - 1)
    OBVIOUS
  <2> QED
    BY <1>2, <2>1 DEF Dense
<1>6. IntegrateInv' /\ LeafIndexSound'
  BY <1>2, <1>3 DEF NumberInv, IntegrateInv, LeafIndexSound, UsedBelow
<1>7. ASSUME NEW q \in Sequencers PROVE SequencerInv(q)'
  <2>1. SequencerInv(q)
    BY DEF NumberInv
  <2>2. UsedBelow(nextSeq[q])'
    BY <1>2, <1>3, <2>1 DEF SequencerInv, UsedBelow
  <2>3. CASE q = p
    BY <1>2, <2>1, <2>2, <2>3 DEF SequencerInv, NumberInv, CloudTypeOK
  <2>4. CASE q # p
    BY <1>2, <1>3, <2>1, <2>2, <2>4 DEF SequencerInv, NumberInv, CloudTypeOK
  <2> QED
    BY <2>3, <2>4
<1> QED
  BY <1>4, <1>5, <1>6, <1>7 DEF NumberInv

\* The write of the index object, and how the invocation goes on.
LEMMA WriteLeafFacts ==
    ASSUME NumberInv, NEW p \in Sequencers, WriteLeaf(p)
    PROVE  /\ spc[p] = "index" /\ entry[p] \in Leaf
           /\ nextSeq[p] \in DOMAIN seq /\ seq[nextSeq[p]] = entry[p]
           /\ DOMAIN leafIdx' = DOMAIN leafIdx \cup {entry[p]}
           /\ leafIdx'[entry[p]] = nextSeq[p]
           /\ \A x \in DOMAIN leafIdx : x # entry[p] => leafIdx'[x] = leafIdx[x]
           /\ UNCHANGED <<bucket, cp, entries, seq, todo, ipc, size, published, faults>>
           /\ entry' = [entry EXCEPT ![p] = None]
           /\ \E a \in {"idle", "object"}, k \in {0, nextSeq[p]} :
                /\ a = "object" => todo[p] # {}
                /\ spc' = [spc EXCEPT ![p] = a] /\ nextSeq' = [nextSeq EXCEPT ![p] = k]
<1>1. spc[p] = "index" /\ leafIdx' = Put(leafIdx, entry[p], nextSeq[p])
      /\ todo' = todo /\ Continue(p, "index")
      /\ UNCHANGED <<bucket, cp, entries, seq, ipc, size, published, faults>>
  BY DEF WriteLeaf, Continue, At, ivars
<1>2. entry[p] \in Leaf /\ nextSeq[p] \in DOMAIN seq /\ seq[nextSeq[p]] = entry[p]
  BY <1>1 DEF NumberInv, SequencerInv
<1>3. /\ DOMAIN leafIdx' = DOMAIN leafIdx \cup {entry[p]}
      /\ leafIdx'[entry[p]] = nextSeq[p]
      /\ \A x \in DOMAIN leafIdx : x # entry[p] => leafIdx'[x] = leafIdx[x]
  BY <1>1 DEF Put
<1>4. CASE todo[p] = {}
  <2>1. spc' = [spc EXCEPT ![p] = "idle"] /\ nextSeq' = [nextSeq EXCEPT ![p] = 0]
        /\ entry' = [entry EXCEPT ![p] = None]
    BY <1>1, <1>4 DEF Continue, At
  <2> QED
    BY <1>1, <1>2, <1>3, <2>1
<1>5. CASE todo[p] # {}
  <2>1. spc' = [spc EXCEPT ![p] = "object"] /\ nextSeq' = [nextSeq EXCEPT ![p] = nextSeq[p]]
        /\ entry' = [entry EXCEPT ![p] = None]
    BY <1>1, <1>5 DEF Continue, At
  <2> QED
    BY <1>1, <1>2, <1>3, <1>5, <2>1
<1> QED
  BY <1>4, <1>5

\* The write of the index object keeps the invariant.
LEMMA WriteLeafKeeps ==
    ASSUME NumberInv, NEW p \in Sequencers, WriteLeaf(p)
    PROVE  NumberInv'
<1>1. /\ entry[p] \in Leaf
      /\ nextSeq[p] \in DOMAIN seq /\ seq[nextSeq[p]] = entry[p]
      /\ DOMAIN leafIdx' = DOMAIN leafIdx \cup {entry[p]}
      /\ leafIdx'[entry[p]] = nextSeq[p]
      /\ \A x \in DOMAIN leafIdx : x # entry[p] => leafIdx'[x] = leafIdx[x]
  BY WriteLeafFacts
<1>2. UNCHANGED <<bucket, cp, entries, seq, todo, ipc, size, published, faults>>
      /\ entry' = [entry EXCEPT ![p] = None]
  BY WriteLeafFacts
<1>3. PICK a \in {"idle", "object"}, k \in {0, nextSeq[p]} :
        /\ a = "object" => todo[p] # {}
        /\ spc' = [spc EXCEPT ![p] = a] /\ nextSeq' = [nextSeq EXCEPT ![p] = k]
  BY WriteLeafFacts
<1>4. nextSeq[p] \in Nat /\ k \in Nat /\ UsedBelow(k)
  BY <1>3 DEF NumberInv, CloudTypeOK, SequencerInv, UsedBelow
<1>5. CloudTypeOK'
  BY <1>1, <1>2, <1>3, <1>4 DEF NumberInv, CloudTypeOK, SPC
<1>6. Dense' /\ IntegrateInv'
  BY <1>2 DEF NumberInv, Dense, IntegrateInv, UsedBelow
<1>7. LeafIndexSound'
  BY <1>1, <1>2 DEF NumberInv, LeafIndexSound
<1>8. \A q \in Sequencers : SequencerInv(q)'
  BY <1>2, <1>3, <1>4 DEF NumberInv, CloudTypeOK, SequencerInv, UsedBelow
<1> QED
  BY <1>5, <1>6, <1>7, <1>8 DEF NumberInv

\* Integrate keeps the invariant: the tree that it computes ends where the
\* numbers do, and the tree that it publishes where it computed.
LEMMA IntegrateKeeps ==
    ASSUME NumberInv,
           \/ Initialise \/ NotInitialised \/ Integrate
           \/ (\E tile \in dirty : StoreTile(tile)) \/ WriteCheckpoint \/ IntegrateError
    PROVE  NumberInv'
<1>1. UNCHANGED <<entries, seq, leafIdx, spc, todo, entry, nextSeq>>
  BY DEF Initialise, NotInitialised, Integrate, StoreTile, WriteCheckpoint, IntegrateError,
         objects, svars, ivars, vars
<1>2. \A p \in Sequencers : SequencerInv(p)'
  BY <1>1 DEF NumberInv, SequencerInv, UsedBelow
<1>3. Dense' /\ LeafIndexSound'
  BY <1>1, SameNumbers DEF NumberInv
<1>4. SUFFICES /\ bucket' \in BOOLEAN /\ (cp' # None => Size(cp') \in Nat)
               /\ ipc' \in IPC /\ size' \in Nat /\ faults' \in 0..MaxFaults
               /\ \A t \in published' : Size(t) \in Nat
               /\ IntegrateInv'
  BY <1>1, <1>2, <1>3 DEF NumberInv, CloudTypeOK
<1> USE DEF IPC
<1>5. CASE Initialise
  <2>1. bucket' \in BOOLEAN
    BY <1>5, Zenon DEF Initialise
  <2>2. cp' = cp /\ ipc' = "store" /\ size' = 0 /\ faults' = faults /\ published' = published
    BY <1>5 DEF Initialise
  <2> QED
    BY <1>1, <2>1, <2>2 DEF NumberInv, CloudTypeOK, IntegrateInv, UsedBelow
<1>6. CASE NotInitialised \/ \E tile \in dirty : StoreTile(tile)
  <2>1. UNCHANGED <<bucket, cp, ipc, size, faults, published>>
    BY <1>6 DEF NotInitialised, StoreTile, vars, objects, ivars
  <2> QED
    BY <1>1, <2>1 DEF NumberInv, CloudTypeOK, IntegrateInv, UsedBelow
<1>7. CASE Integrate
  <2>1. /\ bucket' = bucket /\ cp' = cp /\ ipc' = "store" /\ faults' = faults
        /\ published' = published /\ cp # None
        /\ size' = Size(cp) + Cardinality(Sequenced(Size(cp)))
    BY <1>7 DEF Integrate, objects
  <2>2. PICK n \in Nat : DOMAIN seq = 0..(n - 1)
    BY DEF NumberInv, Dense
  <2>3. Size(cp) \in Nat /\ UsedBelow(Size(cp))
    BY <2>1 DEF NumberInv, CloudTypeOK, IntegrateInv
  <2>4. size' = n
    BY <2>1, <2>2, <2>3, NumberFacts
  <2> QED
    BY <1>1, <2>1, <2>2, <2>3, <2>4 DEF NumberInv, CloudTypeOK, IntegrateInv, UsedBelow
<1>8. CASE WriteCheckpoint
  <2>1. /\ bucket' = bucket /\ ipc = "store" /\ ipc' = "idle" /\ size' = 0 /\ faults' = faults
        /\ cp' = NewTree /\ published' = published \cup {cp'}
    BY <1>8 DEF WriteCheckpoint
  <2>2. size \in Nat /\ UsedBelow(size)
    BY <2>1 DEF NumberInv, CloudTypeOK, IntegrateInv
  <2>3. cp' = [i \in 1..size |-> cp'[i]]
    BY <2>1 DEF NewTree
  <2>4. Size(cp') = size
    BY <2>2, <2>3, LenFacts DEF Size
  <2> QED
    BY <1>1, <2>1, <2>2, <2>4 DEF NumberInv, CloudTypeOK, IntegrateInv, UsedBelow
<1>9. CASE IntegrateError
  <2>1. UNCHANGED <<bucket, cp, published>> /\ ipc' = "idle" /\ size' = 0
        /\ faults < MaxFaults /\ faults' = faults + 1
    BY <1>9 DEF IntegrateError, objects
  <2> QED
    BY <1>1, <2>1, CloudAssumption DEF NumberInv, CloudTypeOK, IntegrateInv, UsedBelow
<1> QED
  BY <1>5, <1>6, <1>7, <1>8, <1>9

\* Every step keeps the invariant.
LEMMA NextNumberInv == NumberInv /\ [Next]_vars => NumberInv'
<1> SUFFICES ASSUME NumberInv, [Next]_vars PROVE NumberInv'
  OBVIOUS
<1>1. CASE \E u \in Uploads : CreateGCSObject(u)
  BY <1>1, CreateKeeps
<1>2. CASE \E p \in Sequencers : SequenceStep(p) \/ SequenceError(p)
  BY <1>2, StartKeeps, NextObjectKeeps, FindNumberKeeps, WriteSeqKeeps, WriteLeafKeeps,
     SequenceErrorKeeps DEF SequenceStep
<1>3. CASE Initialise \/ NotInitialised \/ IntegrateStep \/ IntegrateError
  BY <1>3, IntegrateKeeps DEF IntegrateStep
<1>4. CASE UNCHANGED vars
  BY <1>4 DEF vars, objects, svars, ivars, NumberInv, CloudTypeOK, Dense, IntegrateInv,
              LeafIndexSound, SequencerInv, UsedBelow
<1> QED
  BY <1>1, <1>2, <1>3, <1>4 DEF Next

-----------------------------------------------------------------------------
(* How many numbers a leaf gets. *)

\* The counted sets are finite, and no invocation is in two of them.
LEMMA CountFacts ==
    ASSUME NumberInv, NEW x
    PROVE  /\ IsFiniteSet(Numbers(x)) /\ Cardinality(Numbers(x)) \in Nat
           /\ IsFiniteSet(Holders(x)) /\ Cardinality(Holders(x)) \in Nat
           /\ IsFiniteSet(Indexers(x)) /\ Cardinality(Indexers(x)) \in Nat
           /\ Cardinality(Sequencers) \in Nat /\ faults \in Nat
<1>1. PICK n \in Nat : DOMAIN seq = 0..(n - 1)
  BY DEF NumberInv, Dense
<1>2. IsFiniteSet(0..(n - 1))
  BY FS_Interval
<1>3. Numbers(x) \in SUBSET (0..(n - 1))
  BY <1>1 DEF Numbers
<1>4. IsFiniteSet(Sequencers)
  BY CloudAssumption
<1>5. Holders(x) \in SUBSET Sequencers /\ Indexers(x) \in SUBSET Sequencers
  BY DEF Holders, Indexers
<1>6. IsFiniteSet(Numbers(x)) /\ IsFiniteSet(Holders(x)) /\ IsFiniteSet(Indexers(x))
  BY <1>2, <1>3, <1>4, <1>5, FS_Subset
<1>7. faults \in Nat
  BY CloudAssumption DEF NumberInv, CloudTypeOK
<1> QED
  BY <1>4, <1>6, <1>7, FS_CardinalityType

\* An invocation that neither holds a leaf nor has to index it leaves room for
\* one more number of the leaf.
LEMMA RoomFacts ==
    ASSUME NumberInv, NEW x, NEW p \in Sequencers, spc[p] = "object"
    PROVE  Cardinality(Holders(x)) + Cardinality(Indexers(x)) + 1 <= Cardinality(Sequencers)
<1> DEFINE H == Holders(x)
           I == Indexers(x)
<1>1. H \cap I = {} /\ p \notin H \cup I /\ (H \cup I) \cup {p} \in SUBSET Sequencers
  BY DEF Holders, Indexers
<1>2. IsFiniteSet(H) /\ IsFiniteSet(I) /\ Cardinality(H) \in Nat /\ Cardinality(I) \in Nat
  BY CountFacts
<1> HIDE DEF H, I
<1>3. IsFiniteSet(H \cup I) /\ Cardinality(H \cup I) = Cardinality(H) + Cardinality(I)
  <2>1. Cardinality(H \cup I) = Cardinality(H) + Cardinality(I) - Cardinality(H \cap I)
        /\ IsFiniteSet(H \cup I)
    BY <1>2, FS_Union
  <2>2. Cardinality(H \cap I) = 0
    BY <1>1, FS_EmptySet
  <2> QED
    BY <1>2, <2>1, <2>2
<1>4. Cardinality((H \cup I) \cup {p}) = Cardinality(H) + Cardinality(I) + 1
  BY <1>1, <1>2, <1>3, FS_AddElement
<1>5. Cardinality((H \cup I) \cup {p}) <= Cardinality(Sequencers)
  BY <1>1, CloudAssumption, FS_Subset
<1> QED
  BY <1>4, <1>5 DEF H, I

\* A step that leaves the counted sets alone keeps the count.
LEMMA SameCount ==
    ASSUME NumberInv, NEW x, CountOf(x), NumberInv',
           Numbers(x)' = Numbers(x), Holders(x)' = Holders(x), Indexers(x)' = Indexers(x),
           DOMAIN leafIdx \subseteq DOMAIN leafIdx', faults' >= faults
    PROVE  CountOf(x)'
<1>1. faults \in Nat /\ faults' \in Nat
  BY CloudAssumption DEF NumberInv, CloudTypeOK
<1>2. /\ Cardinality(Numbers(x)) \in Nat /\ Cardinality(Holders(x)) \in Nat
      /\ Cardinality(Indexers(x)) \in Nat /\ Cardinality(Sequencers) \in Nat
  BY CountFacts
<1> QED
  BY <1>1, <1>2 DEF CountOf

\* A step of an invocation that holds no leaf, and one that keeps the leaf that
\* it holds, leave the counted sets alone.
LEMMA ReadsCount ==
    ASSUME NumberInv, NEW p \in Sequencers, NEW a, NEW t, NEW e, NEW k,
           Reads(p, a, t, e, k), NEW x,
           \/ spc[p] \in {"idle", "object"} /\ a \in {"idle", "object"}
           \/ spc[p] \in {"number", "write"} /\ a \in {"number", "write"} /\ e = entry[p]
    PROVE  /\ Numbers(x)' = Numbers(x) /\ Holders(x)' = Holders(x)
           /\ Indexers(x)' = Indexers(x) /\ leafIdx' = leafIdx
<1>1. seq' = seq /\ leafIdx' = leafIdx
  BY DEF Reads, objects
<1>2. spc \in [Sequencers -> SPC] /\ entry \in [Sequencers -> Leaf \cup {None}]
      /\ spc' = [spc EXCEPT ![p] = a] /\ entry' = [entry EXCEPT ![p] = e]
  BY DEF NumberInv, CloudTypeOK, Reads
<1>3. Holders(x)' = Holders(x)
  BY <1>2 DEF Holders
<1>4. Indexers(x)' = Indexers(x)
  BY <1>2 DEF Indexers
<1> QED
  BY <1>1, <1>3, <1>4 DEF Numbers

\* A leaf that is found to have no index object is held: its numbers are then
\* those of other invocations and of faults.
LEMMA HoldCount ==
    ASSUME NumberInv, NEW p \in Sequencers, NEW t, NEW e, NEW k, NumberInv',
           spc[p] = "object", Reads(p, "number", t, e, k), e \notin DOMAIN leafIdx,
           faults' = faults, NEW x, CountOf(x)
    PROVE  CountOf(x)'
<1>1. seq' = seq /\ leafIdx' = leafIdx
  BY DEF Reads, objects
<1>2. spc \in [Sequencers -> SPC] /\ entry \in [Sequencers -> Leaf \cup {None}]
      /\ spc' = [spc EXCEPT ![p] = "number"] /\ entry' = [entry EXCEPT ![p] = e]
  BY DEF NumberInv, CloudTypeOK, Reads
<1>3. Numbers(x)' = Numbers(x) /\ Indexers(x)' = Indexers(x)
  BY <1>1, <1>2 DEF Numbers, Indexers
<1>4. CASE e # x
  <2>1. Holders(x)' = Holders(x)
    BY <1>2, <1>4 DEF Holders
  <2>2. faults' >= faults
    BY CountFacts
  <2> QED
    BY <1>1, <1>3, <2>1, <2>2, SameCount
<1>5. CASE e = x
  <2>1. Holders(x)' = Holders(x) \cup {p} /\ p \notin Holders(x)
    BY <1>2, <1>5 DEF Holders
  <2>2. IsFiniteSet(Holders(x))
    BY CountFacts
  <2>3. Cardinality(Holders(x)') = Cardinality(Holders(x)) + 1
    BY <2>1, <2>2, FS_AddElement
  <2>4. Cardinality(Holders(x)) + Cardinality(Indexers(x)) + 1 <= Cardinality(Sequencers)
    BY RoomFacts
  <2>5. Cardinality(Numbers(x)) <= Cardinality(Indexers(x)) + faults
    BY <1>5 DEF CountOf
  <2>6. /\ Cardinality(Numbers(x)) \in Nat /\ Cardinality(Holders(x)) \in Nat
        /\ Cardinality(Indexers(x)) \in Nat /\ Cardinality(Sequencers) \in Nat
        /\ faults \in Nat
    BY CountFacts
  <2> QED
    BY <1>1, <1>3, <2>3, <2>4, <2>5, <2>6 DEF CountOf
<1> QED
  BY <1>4, <1>5

\* A number is written: the invocation that held the leaf is to index it.
LEMMA WriteSeqCount ==
    ASSUME NumberInv, NEW p \in Sequencers, WriteSeq(p), NumberInv', NEW x, CountOf(x)
    PROVE  CountOf(x)'
<1>1. PICK n \in Nat : DOMAIN seq = 0..(n - 1)
  BY DEF NumberInv, Dense
<1>2. /\ n \notin DOMAIN seq /\ DOMAIN seq' = 0..n
      /\ seq'[n] = entry[p] /\ spc[p] = "write" /\ spc' = [spc EXCEPT ![p] = "index"]
      /\ \A i \in DOMAIN seq : seq'[i] = seq[i]
      /\ UNCHANGED <<leafIdx, entry, faults>>
  BY <1>1, WriteSeqFacts
<1>3. spc \in [Sequencers -> SPC]
  BY DEF NumberInv, CloudTypeOK
<1>4. /\ Cardinality(Numbers(x)) \in Nat /\ Cardinality(Holders(x)) \in Nat
      /\ Cardinality(Indexers(x)) \in Nat /\ Cardinality(Sequencers) \in Nat
      /\ IsFiniteSet(Numbers(x)) /\ IsFiniteSet(Holders(x)) /\ IsFiniteSet(Indexers(x))
      /\ faults \in Nat
  BY CountFacts
<1>5. CASE entry[p] # x
  <2>1. Numbers(x)' = Numbers(x)
    BY <1>1, <1>2, <1>5 DEF Numbers
  <2>2. Holders(x)' = Holders(x) /\ Indexers(x)' = Indexers(x)
    BY <1>2, <1>3, <1>5 DEF Holders, Indexers
  <2> QED
    BY <1>2, <1>4, <2>1, <2>2, SameCount
<1>6. CASE entry[p] = x
  <2>1. Numbers(x)' = Numbers(x) \cup {n} /\ n \notin Numbers(x)
    BY <1>1, <1>2, <1>6 DEF Numbers
  <2>2. Holders(x)' = Holders(x) \ {p} /\ p \in Holders(x)
    BY <1>2, <1>3, <1>6 DEF Holders
  <2>3. Indexers(x)' = Indexers(x) \cup {p} /\ p \notin Indexers(x)
    BY <1>2, <1>3, <1>6 DEF Indexers
  <2>4. Cardinality(Numbers(x)') = Cardinality(Numbers(x)) + 1
    BY <1>4, <2>1, FS_AddElement
  <2>5. Cardinality(Holders(x)') = Cardinality(Holders(x)) - 1
    BY <1>4, <2>2, FS_RemoveElement
  <2>6. Cardinality(Indexers(x)') = Cardinality(Indexers(x)) + 1
    BY <1>4, <2>3, FS_AddElement
  <2> QED
    BY <1>2, <1>4, <2>4, <2>5, <2>6 DEF CountOf
<1> QED
  BY <1>5, <1>6

\* The index object is written: the leaf is a duplicate from now on.
LEMMA WriteLeafCount ==
    ASSUME NumberInv, NEW p \in Sequencers, WriteLeaf(p), NumberInv', NEW x, CountOf(x)
    PROVE  CountOf(x)'
<1>1. /\ spc[p] = "index" /\ entry[p] \in Leaf
      /\ DOMAIN leafIdx' = DOMAIN leafIdx \cup {entry[p]}
      /\ UNCHANGED <<seq, faults>> /\ entry' = [entry EXCEPT ![p] = None]
  BY WriteLeafFacts
<1>2. PICK a \in {"idle", "object"} : spc' = [spc EXCEPT ![p] = a]
  BY WriteLeafFacts
<1>3. spc \in [Sequencers -> SPC] /\ entry \in [Sequencers -> Leaf \cup {None}]
  BY DEF NumberInv, CloudTypeOK
<1>4. Numbers(x)' = Numbers(x) /\ Holders(x)' = Holders(x)
  BY <1>1, <1>2, <1>3 DEF Numbers, Holders
<1>5. CASE entry[p] # x
  <2>1. Indexers(x)' = Indexers(x)
    BY <1>1, <1>2, <1>3, <1>5 DEF Indexers
  <2>2. faults' >= faults
    BY <1>1, CountFacts
  <2> QED
    BY <1>1, <1>4, <2>1, <2>2, SameCount
<1>6. CASE entry[p] = x
  BY <1>1, <1>4, <1>6 DEF CountOf
<1> QED
  BY <1>5, <1>6

\* An invocation that fails is accounted for by the fault.
LEMMA ErrorCount ==
    ASSUME NumberInv, NEW p \in Sequencers, SequenceError(p), NEW x, CountOf(x)
    PROVE  CountOf(x)'
<1>1. seq' = seq /\ leafIdx' = leafIdx /\ faults' = faults + 1
      /\ spc' = [spc EXCEPT ![p] = "idle"] /\ entry' = [entry EXCEPT ![p] = None]
  BY DEF SequenceError, objects
<1>2. spc \in [Sequencers -> SPC] /\ entry \in [Sequencers -> Leaf \cup {None}]
  BY DEF NumberInv, CloudTypeOK
<1>3. Numbers(x)' = Numbers(x)
  BY <1>1 DEF Numbers
<1>4. Holders(x)' = Holders(x) \ {p}
  BY <1>1, <1>2 DEF Holders
<1>5. Indexers(x)' = Indexers(x) \ {p}
  BY <1>1, <1>2 DEF Indexers
<1>6. /\ Cardinality(Numbers(x)) \in Nat /\ Cardinality(Holders(x)) \in Nat
      /\ Cardinality(Indexers(x)) \in Nat /\ Cardinality(Sequencers) \in Nat
      /\ IsFiniteSet(Holders(x)) /\ IsFiniteSet(Indexers(x)) /\ faults \in Nat
  BY CountFacts
<1>7. Cardinality(Holders(x)') \in {Cardinality(Holders(x)) - 1, Cardinality(Holders(x))}
  BY <1>4, <1>6, FS_RemoveElement
<1>8. Cardinality(Indexers(x)') \in {Cardinality(Indexers(x)) - 1, Cardinality(Indexers(x))}
  BY <1>5, <1>6, FS_RemoveElement
<1> QED
  BY <1>1, <1>3, <1>6, <1>7, <1>8 DEF CountOf

\* Uploads and the Integrate function count nothing, but for faults.
LEMMA OthersCount ==
    ASSUME NumberInv, NumberInv', NEW x, CountOf(x),
           \/ \E u \in Uploads : CreateGCSObject(u)
           \/ Initialise \/ NotInitialised \/ IntegrateStep \/ IntegrateError
           \/ UNCHANGED vars
    PROVE  CountOf(x)'
<1>1. UNCHANGED <<seq, leafIdx, spc, entry>>
  BY DEF CreateGCSObject, Initialise, NotInitialised, IntegrateStep, Integrate, StoreTile,
         WriteCheckpoint, IntegrateError, objects, svars, ivars, vars
<1>2. faults' = faults \/ faults' = faults + 1
  BY DEF CreateGCSObject, Initialise, NotInitialised, IntegrateStep, Integrate, StoreTile,
         WriteCheckpoint, IntegrateError, vars
<1>3. faults' >= faults
  BY <1>2, CountFacts
<1>4. Numbers(x)' = Numbers(x) /\ Holders(x)' = Holders(x) /\ Indexers(x)' = Indexers(x)
  BY <1>1 DEF Numbers, Holders, Indexers
<1> QED
  BY <1>1, <1>3, <1>4, SameCount

\* Every step keeps the count of every leaf.
LEMMA NextCount ==
    ASSUME NumberInv, NumberInv', [Next]_vars, NEW x \in Leaf, CountOf(x)
    PROVE  CountOf(x)'
<1>1. faults \in Nat
  BY CountFacts
<1>2. ASSUME NEW p \in Sequencers, SequenceStep(p) \/ SequenceError(p)
      PROVE  CountOf(x)'
  <2>1. CASE StartSequence(p)
    <3>1. Reads(p, "object", DOMAIN entries, entry[p], Size(cp)) /\ spc[p] = "idle"
      BY <2>1 DEF StartSequence, Reads, At, GetObjects, NumberInv, CloudTypeOK
    <3>2. faults' = faults
      BY <2>1 DEF StartSequence
    <3> QED
      BY <1>1, <3>1, <3>2, ReadsCount, SameCount
  <2>2. CASE NextObject(p)
    <3>1. faults' = faults /\ spc[p] = "object"
      BY <2>2, NextObjectFacts
    <3>2. PICK t \in SUBSET DOMAIN entries :
             \/ Reads(p, "idle", t, None, 0)
             \/ Reads(p, "object", t, None, nextSeq[p])
             \/ \E y \in Leaf : y \notin DOMAIN leafIdx /\ Reads(p, "number", t, y, nextSeq[p])
      BY <2>2, NextObjectFacts
    <3>3. CASE Reads(p, "idle", t, None, 0)
      BY <1>1, <3>1, <3>3, ReadsCount, SameCount
    <3>4. CASE Reads(p, "object", t, None, nextSeq[p])
      BY <1>1, <3>1, <3>4, ReadsCount, SameCount
    <3>5. CASE \E y \in Leaf : y \notin DOMAIN leafIdx /\ Reads(p, "number", t, y, nextSeq[p])
      BY <3>1, <3>5, HoldCount
    <3> QED
      BY <3>2, <3>3, <3>4, <3>5
  <2>3. CASE FindNumber(p)
    <3>1. spc[p] = "number" /\ faults' = faults
          /\ Reads(p, "write", todo[p], entry[p],
                   Min((nextSeq[p]..(nextSeq[p] + Cardinality(DOMAIN seq))) \ DOMAIN seq))
      BY <2>3 DEF FindNumber, Reads, At, NumberInv, CloudTypeOK
    <3> QED
      BY <1>1, <3>1, ReadsCount, SameCount
  <2>4. CASE PreconditionFailed(p)
    <3>1. spc[p] = "write" /\ faults' = faults
          /\ Reads(p, "number", todo[p], entry[p], nextSeq[p] + 1)
      BY <2>4 DEF PreconditionFailed, Reads, At, NumberInv, CloudTypeOK
    <3> QED
      BY <1>1, <3>1, ReadsCount, SameCount
  <2>5. CASE WriteSeq(p)
    BY <2>5, WriteSeqCount
  <2>6. CASE WriteLeaf(p)
    BY <2>6, WriteLeafCount
  <2>7. CASE SequenceError(p)
    BY <2>7, ErrorCount
  <2> QED
    BY <1>2, <2>1, <2>2, <2>3, <2>4, <2>5, <2>6, <2>7 DEF SequenceStep
<1> QED
  BY <1>2, OthersCount DEF Next

\* The invariant implies what is claimed.
LEMMA CloudInvSound == CloudInv => SequenceSound
<1> SUFFICES ASSUME CloudInv PROVE SequenceSound
  OBVIOUS
<1>1. NumberInv
  BY DEF CloudInv
<1>2. PICK n \in Nat : DOMAIN seq = 0..(n - 1)
  BY <1>1 DEF NumberInv, Dense
<1>3. SequenceDense
  BY <1>1, <1>2 DEF SequenceDense, NumberInv, SequencerInv, IntegrateInv, UsedBelow
<1>4. DuplicatesExplained
  <2> SUFFICES ASSUME NEW x \in Leaf
               PROVE  Cardinality(Numbers(x)) <= Cardinality(Sequencers) + faults
    BY DEF DuplicatesExplained, Numbers
  <2>1. /\ Cardinality(Numbers(x)) \in Nat /\ Cardinality(Holders(x)) \in Nat
        /\ Cardinality(Sequencers) \in Nat /\ faults \in Nat
    BY <1>1, CountFacts
  <2>2. CountOf(x)
    BY DEF CloudInv
  <2> QED
    BY <2>1, <2>2 DEF CountOf
<1> QED
  BY <1>1, <1>3, <1>4 DEF SequenceSound, NumberInv

(***************************************************************************)
(* Whatever invocations of Sequence and Integrate race, fail and are       *)
(* stopped: the sequence numbers have no gap, nextSeq is never beyond the  *)
(* first free one, an index object points to its leaf, and a leaf has no   *)
(* more numbers than invocations run at once, plus one for each fault.     *)
(***************************************************************************)
THEOREM SequenceAlwaysSound == Spec => []SequenceSound
<1>1. Init => CloudInv
  <2> SUFFICES ASSUME Init, NEW x \in Leaf PROVE CountOf(x)
    BY InitNumberInv DEF CloudInv
  <2>1. Numbers(x) = {} /\ Holders(x) = {} /\ Indexers(x) = {} /\ faults = 0
    BY DEF Init, NoObjects, Numbers, Holders, Indexers
  <2>2. Cardinality({}) = 0 /\ Cardinality(Sequencers) \in Nat
    BY FS_EmptySet, FS_CardinalityType, CloudAssumption
  <2> QED
    BY <2>1, <2>2 DEF CountOf
<1>2. CloudInv /\ [Next]_vars => CloudInv'
  BY NextNumberInv, NextCount DEF CloudInv
<1> QED
  BY <1>1, <1>2, CloudInvSound, PTL DEF Spec

(***************************************************************************)
(* No step of any invocation replaces an entry that has a number: two      *)
(* invocations may both have found a number free, but the write is         *)
(* conditional.                                                            *)
(***************************************************************************)
THEOREM SequencedEntriesStay == Spec => EntriesImmutable
<1> DEFINE Stays == \A i \in DOMAIN seq : i \in DOMAIN seq' /\ seq'[i] = seq[i]
<1>1. [Next]_vars => [Stays]_vars
  <2> SUFFICES ASSUME Next PROVE Stays
    OBVIOUS
  <2>1. CASE \E p \in Sequencers : WriteSeq(p)
    BY <2>1 DEF WriteSeq, Put
  <2>2. CASE seq' = seq
    BY <2>2
  <2>3. seq' = seq \/ \E p \in Sequencers : WriteSeq(p)
    BY DEF Next, CreateGCSObject, SequenceStep, StartSequence, NextObject, FindNumber,
           PreconditionFailed, WriteLeaf, SequenceError, Initialise, NotInitialised,
           IntegrateStep, Integrate, StoreTile, WriteCheckpoint, IntegrateError, vars, objects
  <2> QED
    BY <2>1, <2>2, <2>3
<1> QED
  BY <1>1, PTL DEF Spec, EntriesImmutable

-----------------------------------------------------------------------------
(***************************************************************************)
(* Published checkpoints stay provable.  Every object of a tile has the    *)
(* entries below its bottom row as they are sequenced, as many as its name *)
(* says, whichever invocation of Integrate wrote it; a tree is complete    *)
(* when there is an object for each of its tiles.  So the range of the     *)
(* checkpoint that Integrate starts from is what was published, and its    *)
(* tiles and the new ones are those of the entries.                        *)
(***************************************************************************)

\* An object has n nodes of a bottom row.
ContentOK(sq, tile, content, f) ==
    /\ 0..(Start(tile) + f * RowSpan(tile) - 1) \subseteq DOMAIN sq
    /\ content = Part(sq, Start(tile), f * RowSpan(tile))

ObjectsOK(sq, ts) ==
    \A p \in DOMAIN ts :
        /\ p \in Nat \X Nat \X (0..(TileWidth - 1))
        /\ ContentOK(sq, <<p[1], p[2]>>, ts[p], RowOf(p))

\* There is an object for each tile of a tree of n leaves.
Complete(n) ==
    \A tile \in Nat \X Nat : Fill(tile, n) > 0 => TileObject(tile, n) \in DOMAIN tiles

PublishedOK ==
    /\ \A t \in published : Agrees(seq, t) /\ Complete(Size(t))
    /\ cp # None => cp \in published

\* What an invocation of Integrate has to store, and the tiles of its tree.
StoreOK ==
    /\ ~bucket => cp = None
    /\ ipc = "store" => bucket
    /\ ipc = "idle" => dirty = {}
    /\ ipc = "store" /\ cp = None => size = 0 /\ dirty = {}
    /\ ipc = "store" /\ cp # None => Size(cp) <= size
    /\ \A tile \in dirty : tile \in Nat \X Nat /\ Fill(tile, size) > 0
    /\ ipc = "store" =>
          \A tile \in Nat \X Nat :
              Fill(tile, size) > 0 => tile \in dirty \/ TileObject(tile, size) \in DOMAIN tiles

ProvableInv == ObjectsOK(seq, tiles) /\ PublishedOK /\ StoreOK

-----------------------------------------------------------------------------
(* Lemmas about objects and trees. *)

\* The smaller of two numbers.
LEMMA MinOfTwo ==
    ASSUME NEW x \in Int, NEW y \in Int
    PROVE  Min({x, y}) = IF x <= y THEN x ELSE y
<1> DEFINE m == IF x <= y THEN x ELSE y
<1>1. m \in {x, y} /\ \A w \in {x, y} : m <= w
  OBVIOUS
<1>2. \A v \in {x, y} : (\A w \in {x, y} : v <= w) => v = m
  OBVIOUS
<1> HIDE DEF m
<1> QED
  BY <1>1, <1>2 DEF Min, m

\* How far the bottom row of a tile goes.
LEMMA CoveredIs ==
    ASSUME NEW tile \in Nat \X Nat, NEW n \in Nat
    PROVE  /\ RowSpan(tile) \in Nat \ {0} /\ Start(tile) \in Nat
           /\ Fill(tile, n) \in 0..TileWidth
           /\ Fill(tile, n) > 0 => Covered(tile, n) = Fill(tile, n) * RowSpan(tile)
           /\ Fill(tile, n) = 0 => Covered(tile, n) \in Int /\ Covered(tile, n) <= 0
<1>1. PICK I \in Nat, z \in Nat \ {0}, W \in Nat \ {0} :
         I = tile[2] /\ z = RowSpan(tile) /\ z = Pow2[tile[1] * TileHeight] /\ W = TileWidth
  BY TileFacts DEF RowSpan
<1>2. PICK m \in Nat : m = n \div z
  BY DivMod
<1>3. PICK q \in Nat, r \in 0..(W - 1) : q = m \div W /\ r = m % W /\ m = q * W + r
  <2>1. m \div W \in Nat /\ m % W \in 0..(W - 1) /\ m = (m \div W) * W + (m % W)
    BY DivMod
  <2> QED
    BY <2>1
<1>4. Fill(tile, n) = IF I < q THEN W ELSE IF I = q THEN r ELSE 0
  BY <1>1, <1>2, <1>3 DEF Fill
<1>5. Start(tile) = I * W * z /\ I * W * z \in Nat /\ W * z \in Nat /\ m * z \in Nat
  BY <1>1 DEF Start
<1>6. Covered(tile, n) = IF m * z - I * W * z <= W * z THEN m * z - I * W * z ELSE W * z
  <2>1. Covered(tile, n) = Min({m * z - I * W * z, W * z})
    BY <1>1, <1>2, <1>5 DEF Covered
  <2>2. m * z - I * W * z \in Int /\ W * z \in Int
    BY <1>5
  <2> QED
    BY <2>1, <2>2, MinOfTwo
<1>7. CASE I < q
  <2>1. (I + 1) * W <= q * W
    BY <1>7
  <2>2. I * W + W <= m
    BY <1>3, <2>1
  <2>3. (I * W + W) * z <= m * z
    BY <2>2
  <2>4. (I * W + W) * z = I * W * z + W * z
    OBVIOUS
  <2>5. Covered(tile, n) = W * z
    BY <1>5, <1>6, <2>3, <2>4
  <2> QED
    BY <1>1, <1>4, <1>5, <1>7, <2>5
<1>8. CASE I = q
  <2>1. m * z = I * W * z + r * z
    BY <1>3, <1>8
  <2>2. r * z <= W * z /\ r * z \in Nat
    OBVIOUS
  <2>3. Covered(tile, n) = r * z
    BY <1>5, <1>6, <2>1, <2>2
  <2>4. r = 0 => r * z = 0
    OBVIOUS
  <2> QED
    BY <1>1, <1>4, <1>5, <1>8, <2>2, <2>3, <2>4
<1>9. CASE I > q
  <2>1. (q + 1) * W <= I * W
    BY <1>9
  <2>2. m <= I * W
    BY <1>3, <2>1
  <2>3. m * z <= I * W * z
    BY <2>2
  <2>4. Covered(tile, n) \in Int /\ Covered(tile, n) <= 0
    BY <1>5, <1>6, <2>3
  <2> QED
    BY <1>1, <1>4, <1>5, <1>9, <2>4
<1> QED
  BY <1>7, <1>8, <1>9

\* The object of a tile of a tree is named after its fill.
LEMMA ObjectRow ==
    ASSUME NEW tile \in Nat \X Nat, NEW n \in Nat, Fill(tile, n) > 0
    PROVE  LET o == TileObject(tile, n)
           IN  /\ o = TilePath(tile, Fill(tile, n) % TileWidth)
               /\ o \in Nat \X Nat \X (0..(TileWidth - 1))
               /\ <<o[1], o[2]>> = tile /\ RowOf(o) = Fill(tile, n)
<1>0. PICK W \in Nat \ {0} : W = TileWidth
  BY TileFacts
<1>1. PICK f \in 0..W : f = Fill(tile, n) /\ f > 0
  BY <1>0, FillFacts
<1>2. TileObject(tile, n) = <<tile[1], tile[2], f % W>> /\ f % W \in 0..(W - 1)
  BY <1>0, <1>1, FillFacts DEF TileObject, TilePath
<1>3. f > 0 => (f % W = 0 /\ f = W) \/ (f % W = f /\ f # 0)
  OBVIOUS
<1>4. TilePath(tile, f % W) = <<tile[1], tile[2], f % W>>
  BY DEF TilePath
<1> QED
  BY <1>0, <1>1, <1>2, <1>3, <1>4 DEF RowOf

\* What an object of a complete tree has.
LEMMA ObjectRead ==
    ASSUME ObjectsOK(seq, tiles), NEW tile \in Nat \X Nat, NEW n \in Nat, Fill(tile, n) > 0,
           TileObject(tile, n) \in DOMAIN tiles
    PROVE  ContentOK(seq, tile, tiles[TileObject(tile, n)], Fill(tile, n))
<1> DEFINE o == TileObject(tile, n)
<1>1. <<o[1], o[2]>> = tile /\ RowOf(o) = Fill(tile, n)
  BY ObjectRow
<1>2. ContentOK(seq, <<o[1], o[2]>>, tiles[o], RowOf(o))
  BY DEF ObjectsOK
<1> HIDE DEF o
<1> QED
  BY <1>1, <1>2 DEF o

\* A part is a sequence of its length.
LEMMA PartFacts ==
    ASSUME NEW sq, NEW a \in Nat, NEW x \in Nat
    PROVE  /\ Len(Part(sq, a, x)) = x /\ DOMAIN Part(sq, a, x) = 1..x
           /\ IsSequence(Part(sq, a, x))
           /\ \A j \in 1..x : Part(sq, a, x)[j] = sq[a + (j - 1)]
<1> DEFINE f == Part(sq, a, x)
<1>1. f = [j \in 1..x |-> f[j]] /\ \A j \in 1..x : f[j] = sq[a + (j - 1)]
  BY DEF Part
<1> HIDE DEF f
<1>2. DOMAIN f = 1..x
  BY <1>1
<1>3. IsSequence(f) /\ Len(f) = x
  BY <1>1, FunctionIsSequence
<1> QED
  BY <1>1, <1>2, <1>3 DEF f

\* Objects stay what they are when entries are added.
LEMMA ObjectsStay ==
    ASSUME NEW sq, NEW sr, \A i \in DOMAIN sq : i \in DOMAIN sr /\ sr[i] = sq[i],
           NEW ts, ObjectsOK(sq, ts)
    PROVE  ObjectsOK(sr, ts)
<1> SUFFICES ASSUME NEW p \in DOMAIN ts
             PROVE  /\ p \in Nat \X Nat \X (0..(TileWidth - 1))
                    /\ ContentOK(sr, <<p[1], p[2]>>, ts[p], RowOf(p))
  BY DEF ObjectsOK
<1>1. /\ p \in Nat \X Nat \X (0..(TileWidth - 1))
      /\ ContentOK(sq, <<p[1], p[2]>>, ts[p], RowOf(p))
  BY DEF ObjectsOK
<1>2. PICK tile \in Nat \X Nat, f \in Nat : tile = <<p[1], p[2]>> /\ f = RowOf(p)
  BY <1>1, RowOfFacts
<1>3. PICK a \in Nat, z \in Nat \ {0} : a = Start(tile) /\ z = RowSpan(tile)
  BY CoveredIs
<1>4. PICK x \in Nat : x = f * z
  OBVIOUS
<1>5. 0..(a + x - 1) \subseteq DOMAIN sq /\ ts[p] = Part(sq, a, x)
  BY <1>1, <1>2, <1>3, <1>4 DEF ContentOK
<1>6. 0..(a + x - 1) \subseteq DOMAIN sr
  BY <1>5
<1>7. \A j \in 1..x : sr[a + (j - 1)] = sq[a + (j - 1)]
  <2> SUFFICES ASSUME NEW j \in 1..x PROVE a + (j - 1) \in 0..(a + x - 1)
    BY <1>5
  <2> QED
    OBVIOUS
<1>8. Part(sr, a, x) = Part(sq, a, x)
  BY <1>7 DEF Part
<1> QED
  BY <1>1, <1>2, <1>3, <1>4, <1>5, <1>6, <1>8 DEF ContentOK

\* A part that is continued.
LEMMA PartConcat ==
    ASSUME NEW sq, NEW x \in Nat, NEW y \in Nat
    PROVE  Part(sq, 0, x) \o Part(sq, x, y) = Part(sq, 0, x + y)
<1> DEFINE V == {sq[i] : i \in Nat}
           s == Part(sq, 0, x)
           t == Part(sq, x, y)
           u == Part(sq, 0, x + y)
<1>1. /\ s \in [1..x -> V] /\ t \in [1..y -> V] /\ u \in [1..(x + y) -> V]
      /\ \A j \in 1..x : s[j] = sq[0 + (j - 1)]
      /\ \A j \in 1..y : t[j] = sq[x + (j - 1)]
      /\ \A j \in 1..(x + y) : u[j] = sq[0 + (j - 1)]
  BY DEF Part
<1> HIDE DEF s, t, u
<1> HIDE DEF V
<1>2. s \in Seq(V) /\ t \in Seq(V) /\ u \in Seq(V) /\ Len(s) = x /\ Len(t) = y /\ Len(u) = x + y
  <2>1. ASSUME NEW k \in Nat, NEW f \in [1..k -> V] PROVE f \in Seq(V) /\ Len(f) = k
    OBVIOUS
  <2>2. x + y \in Nat
    OBVIOUS
  <2> QED
    BY <1>1, <2>1, <2>2
<1>3. s \o t \in Seq(V) /\ Len(s \o t) = x + y
  BY <1>2
<1>4. \A j \in 1..(x + y) : (s \o t)[j] = u[j]
  <2> SUFFICES ASSUME NEW j \in 1..(x + y) PROVE (s \o t)[j] = u[j]
    OBVIOUS
  <2>0. j <= x \/ j > x
    OBVIOUS
  <2>1. CASE j <= x
    <3>1. (s \o t)[j] = s[j] /\ j \in 1..x
      BY <1>2, <2>1
    <3> QED
      BY <1>1, <3>1
  <2>2. CASE j > x
    <3>1. (s \o t)[j] = t[j - x] /\ j - x \in 1..y
      BY <1>2, <2>2
    <3>2. x + ((j - x) - 1) = 0 + (j - 1)
      OBVIOUS
    <3> QED
      BY <1>1, <3>1, <3>2
  <2> QED
    BY <2>0, <2>1, <2>2
<1>5. s \o t = u
  <2>1. Len(s \o t) = Len(u) /\ \A j \in 1..Len(s \o t) : (s \o t)[j] = u[j]
    BY <1>2, <1>3, <1>4
  <2> QED
    BY <1>2, <1>3, <2>1, SeqEqual
<1> QED
  BY <1>5 DEF s, t, u

\* A part of no entries.
LEMMA PartEmpty == ASSUME NEW sq PROVE Part(sq, 0, 0) = <<>>
  BY DEF Part

\* The leaves of a tree of s leaves that are below the tiles of level l and of
\* the levels above it.
Above(s, l) == (s \div Pow2[l * TileHeight]) * Pow2[l * TileHeight]

\* A level adds what is in its last tile.
LEMMA AboveNext ==
    ASSUME ObjectsOK(seq, tiles), NEW s \in Nat, Complete(s), NEW l \in Nat
    PROVE  /\ Above(s, l) \in Nat /\ Above(s, l + 1) \in Nat
           /\ Part(seq, 0, Above(s, l + 1)) \o LastTile(l, s) = Part(seq, 0, Above(s, l))
<1>1. PICK z \in Nat \ {0}, W \in Nat \ {0} : z = Pow2[l * TileHeight] /\ W = TileWidth
  BY TileFacts
<1>2. Pow2[(l + 1) * TileHeight] = z * W
  <2>1. (l + 1) * TileHeight = l * TileHeight + TileHeight /\ l * TileHeight \in Nat
    BY TilesAssumption
  <2> QED
    BY <1>1, <2>1, TilesAssumption, Pow2Sum DEF TileWidth
<1>3. PICK m \in Nat : m = s \div z
  BY DivMod
<1>4. PICK q \in Nat, r \in 0..(W - 1) : q = m \div W /\ r = m % W /\ m = q * W + r
  <2>1. m \div W \in Nat /\ m % W \in 0..(W - 1) /\ m = (m \div W) * W + (m % W)
    BY DivMod
  <2> QED
    BY <2>1
<1>5. s \div (z * W) = q
  BY <1>3, <1>4, DivTwice
<1>6. PICK a \in Nat : a = q * W * z
  OBVIOUS
<1>7. PICK x \in Nat : x = r * z
  OBVIOUS
<1>8. Above(s, l + 1) = a /\ Above(s, l) = a + x
  <2>1. q * (z * W) = a
    BY <1>6
  <2>2. m * z = a + x
    BY <1>4, <1>6, <1>7
  <2> QED
    BY <1>1, <1>2, <1>3, <1>5, <2>1, <2>2 DEF Above
<1>9. CASE r = 0
  <2>1. LastTile(l, s) = <<>>
    BY <1>1, <1>3, <1>4, <1>9 DEF LastTile
  <2>2. x = 0
    BY <1>7, <1>9
  <2>3. Part(seq, 0, a) \o <<>> = Part(seq, 0, a)
    <3>1. PICK V : Part(seq, 0, a) \in Seq(V)
      BY PartFacts DEF IsSequence
    <3> QED
      BY <3>1
  <2> QED
    BY <1>8, <2>1, <2>2, <2>3
<1>10. CASE r # 0
  <2> DEFINE tile == <<l, q>>
  <2>1. LastTile(l, s) = tiles[TileObject(tile, s)]
    BY <1>1, <1>2, <1>3, <1>4, <1>5, <1>10 DEF LastTile
  <2>2. tile \in Nat \X Nat /\ tile[1] = l /\ tile[2] = q
    OBVIOUS
  <2> HIDE DEF tile
  <2>3. Fill(tile, s) = r /\ r > 0
    <3>1. Pow2[tile[1] * TileHeight] = z
      BY <1>1, <2>2
    <3>2. s \div Pow2[tile[1] * TileHeight] = m
      BY <1>3, <3>1
    <3>3. Fill(tile, s) = IF tile[2] < m \div W THEN W ELSE IF tile[2] = m \div W THEN m % W ELSE 0
      BY <1>1, <3>2 DEF Fill
    <3> QED
      BY <1>4, <1>10, <2>2, <3>3
  <2>4. RowSpan(tile) = z /\ Start(tile) = a
    BY <1>1, <1>6, <2>2 DEF Start, RowSpan
  <2>5. TileObject(tile, s) \in DOMAIN tiles
    BY <2>2, <2>3 DEF Complete
  <2>6. tiles[TileObject(tile, s)] = Part(seq, a, x)
    BY <1>7, <2>2, <2>3, <2>4, <2>5, ObjectRead DEF ContentOK
  <2>7. Part(seq, 0, a) \o Part(seq, a, x) = Part(seq, 0, a + x)
    BY PartConcat
  <2> QED
    BY <1>8, <2>1, <2>6, <2>7
<1> QED
  BY <1>8, <1>9, <1>10

\* What the ranges of the tiles have, level by level.
Ranges(s) == [l \in 0..s |-> Part(seq, 0, Above(s, l))]

\* One step of the function that RangeTree computes from.
RangeStep(f, s) ==
    [l \in 0..s |-> IF Pow2[l * TileHeight] > s THEN <<>> ELSE f[l + 1] \o LastTile(l, s)]

\* Levels that are wider than the tree have nothing, and the highest level
\* that RangeTree looks at is one.
LEMMA AboveTop ==
    ASSUME NEW s \in Nat
    PROVE  /\ \A l \in Nat : Pow2[l * TileHeight] > s => Above(s, l) = 0
           /\ Pow2[s * TileHeight] > s
           /\ Above(s, 0) = s
<1>1. \A l \in Nat : Pow2[l * TileHeight] > s => Above(s, l) = 0
  <2> SUFFICES ASSUME NEW l \in Nat, Pow2[l * TileHeight] > s PROVE Above(s, l) = 0
    OBVIOUS
  <2>1. PICK z \in Nat \ {0} : z = Pow2[l * TileHeight] /\ z > s
    BY TileFacts
  <2>2. s \div z = 0
    <3>1. s = 0 * z + s /\ s \in 0..(z - 1)
      BY <2>1
    <3> QED
      BY <3>1, DivUnique
  <2> QED
    BY <2>1, <2>2 DEF Above
<1>2. Pow2[s * TileHeight] > s
  <2>1. PICK k \in Nat : k = s * TileHeight /\ s <= k
    BY TilesAssumption
  <2>2. k < Pow2[k] /\ Pow2[k] \in Nat
    BY Pow2Facts
  <2> QED
    BY <2>1, <2>2
<1>3. Above(s, 0) = s
  <2>1. 0 * TileHeight = 0 /\ s \div 1 = s
    BY TilesAssumption
  <2> QED
    BY <2>1, Pow2Facts DEF Above
<1> QED
  BY <1>1, <1>2, <1>3

\* The ranges of the entries are a solution.
LEMMA RangeSolves ==
    ASSUME ObjectsOK(seq, tiles), NEW s \in Nat, Complete(s)
    PROVE  Ranges(s) = RangeStep(Ranges(s), s)
<1> SUFFICES ASSUME NEW l \in 0..s
             PROVE  Part(seq, 0, Above(s, l)) =
                       IF Pow2[l * TileHeight] > s THEN <<>>
                       ELSE Ranges(s)[l + 1] \o LastTile(l, s)
  BY DEF Ranges, RangeStep
<1>1. CASE Pow2[l * TileHeight] > s
  <2>1. Above(s, l) = 0
    BY <1>1, AboveTop
  <2> QED
    BY <1>1, <2>1, PartEmpty
<1>2. CASE ~ (Pow2[l * TileHeight] > s)
  <2>1. l # s
    BY <1>2, AboveTop
  <2>2. l + 1 \in 0..s
    BY <2>1
  <2>3. Ranges(s)[l + 1] = Part(seq, 0, Above(s, l + 1))
    BY <2>2 DEF Ranges
  <2>4. l \in Nat
    OBVIOUS
  <2>5. Part(seq, 0, Above(s, l + 1)) \o LastTile(l, s) = Part(seq, 0, Above(s, l))
    BY <2>4, AboveNext
  <2> QED
    BY <1>2, <2>3, <2>5
<1> QED
  BY <1>1, <1>2

\* And there is no other.
LEMMA RangeUnique ==
    ASSUME NEW s \in Nat, NEW f, NEW g, f = RangeStep(f, s), g = RangeStep(g, s)
    PROVE  \A l \in 0..s : f[l] = g[l]
<1> DEFINE S == {k \in Nat : k <= s => f[s - k] = g[s - k]}
<1>1. 0 \in S
  <2>1. s - 0 = s /\ s \in 0..s /\ Pow2[s * TileHeight] > s
    BY AboveTop
  <2>2. RangeStep(f, s)[s] = <<>> /\ RangeStep(g, s)[s] = <<>>
    BY <2>1 DEF RangeStep
  <2> QED
    BY <2>1, <2>2
<1>2. ASSUME NEW k \in S PROVE k + 1 \in S
  <2> SUFFICES ASSUME k + 1 <= s PROVE f[s - (k + 1)] = g[s - (k + 1)]
    OBVIOUS
  <2>1. PICK l \in 0..s : l = s - (k + 1) /\ l + 1 = s - k
    OBVIOUS
  <2>2. f[l + 1] = g[l + 1]
    BY <2>1
  <2>3. RangeStep(f, s)[l] = RangeStep(g, s)[l]
    BY <2>1, <2>2 DEF RangeStep
  <2> QED
    BY <2>1, <2>3
<1>3. S = Nat
  <2> HIDE DEF S
  <2>1. S \in SUBSET Nat
    BY DEF S
  <2> QED
    BY <1>1, <1>2, <2>1, SetInduction
<1> SUFFICES ASSUME NEW l \in 0..s PROVE f[l] = g[l]
  OBVIOUS
<1>4. s - l \in Nat /\ s - l <= s /\ s - (s - l) = l
  OBVIOUS
<1>5. s - l \in S
  BY <1>3, <1>4
<1> QED
  BY <1>4, <1>5

\* The range that is fetched for a complete tree is that of its entries.
LEMMA RangeTreeIs ==
    ASSUME ObjectsOK(seq, tiles), NEW s \in Nat, Complete(s)
    PROVE  RangeTree(s) = Part(seq, 0, s)
<1> DEFINE C == CHOOSE f : f = RangeStep(f, s)
<1>1. C = RangeStep(C, s)
  BY RangeSolves
<1>2. RangeTree(s) = C[0]
  BY DEF RangeTree, RangeStep
<1> HIDE DEF C
<1>3. C[0] = Ranges(s)[0]
  BY <1>1, RangeSolves, RangeUnique
<1>4. Ranges(s)[0] = Part(seq, 0, s)
  BY AboveTop DEF Ranges
<1> QED
  BY <1>2, <1>3, <1>4

\* The tree that is published is that of the entries.
LEMMA NewTreeIs ==
    ASSUME NumberInv, ProvableInv, ipc = "store"
    PROVE  NewTree = Part(seq, 0, size)
<1>1. size \in Nat
  BY DEF NumberInv, CloudTypeOK
<1> DEFINE s == IF cp = None THEN 0 ELSE Size(cp)
           range == RangeTree(s)
<1>2. NewTree = [i \in 1..size |-> IF i > s THEN seq[i - 1]
                                   ELSE IF i <= Len(range) THEN range[i] ELSE None]
  BY DEF NewTree
<1>3. s \in Nat
  BY DEF NumberInv, CloudTypeOK
<1>4. \A i \in 1..size : i <= s => i <= Len(range) /\ range[i] = seq[i - 1]
  <2>1. CASE cp = None
    BY <1>1, <2>1
  <2>2. CASE cp # None
    <3>1. s = Size(cp) /\ Complete(Size(cp))
      BY <2>2 DEF ProvableInv, PublishedOK
    <3> HIDE DEF s
    <3>2. range = Part(seq, 0, s)
      BY <1>3, <3>1, RangeTreeIs DEF ProvableInv
    <3>3. Len(range) = s /\ \A i \in 1..s : range[i] = seq[0 + (i - 1)]
      <4>1. PICK u : u = Part(seq, 0, s)
        OBVIOUS
      <4>2. Len(u) = s /\ \A i \in 1..s : u[i] = seq[0 + (i - 1)]
        BY <1>3, <4>1, PartFacts
      <4> HIDE DEF range
      <4> QED
        BY <3>2, <4>1, <4>2
    <3> HIDE DEF range
    <3> QED
      BY <1>1, <1>3, <3>3
  <2> QED
    BY <2>1, <2>2
<1> HIDE DEF s, range
<1>5. NewTree = [i \in 1..size |-> seq[i - 1]]
  BY <1>1, <1>2, <1>3, <1>4
<1>6. \A i \in 1..size : i - 1 = 0 + (i - 1)
  BY <1>1
<1> QED
  BY <1>5, <1>6 DEF Part

\* And what is stored for a tile is that of the entries too.
LEMMA VisitedTileIs ==
    ASSUME NumberInv, ProvableInv, ipc = "store", cp # None, NEW tile \in Nat \X Nat,
           Fill(tile, size) > 0
    PROVE  /\ VisitedTile(tile) = Part(seq, Start(tile), Fill(tile, size) * RowSpan(tile))
           /\ NumLeaves(tile) = Fill(tile, size)
           /\ Start(tile) + Fill(tile, size) * RowSpan(tile) <= size
<1>1. PICK n \in Nat, s \in Nat : n = size /\ s = Size(cp)
  BY DEF NumberInv, CloudTypeOK
<1>2. PICK z \in Nat \ {0}, a \in Nat, f \in Nat, g \in Nat :
         /\ z = RowSpan(tile) /\ a = Start(tile) /\ f = Fill(tile, n) /\ g = Fill(tile, s)
         /\ f > 0
  BY <1>1, CoveredIs
<1>3. PICK x \in Nat : x = f * z
  OBVIOUS
<1>4. Covered(tile, n) = x
  BY <1>2, <1>3, CoveredIs
<1>5. PICK y \in Int : y = Covered(tile, s)
  BY <1>2, CoveredIs
<1> DEFINE o == TileObject(tile, s)
           old == IF o \in DOMAIN tiles THEN tiles[o] ELSE <<>>
<1>6. \A i \in 1..x : ~ (i > y) => i <= Len(old) /\ old[i] = seq[a + (i - 1)]
  <2>1. CASE g = 0
    <3>1. y <= 0
      BY <1>2, <1>5, <2>1, CoveredIs
    <3> QED
      BY <3>1
  <2>2. CASE g > 0
    <3>1. Complete(s)
      BY <1>1 DEF ProvableInv, PublishedOK
    <3>2. o \in DOMAIN tiles
      BY <1>2, <2>2, <3>1 DEF Complete
    <3>3. y = g * z /\ g * z \in Nat
      BY <1>2, <1>5, <2>2, CoveredIs
    <3>4. ContentOK(seq, tile, tiles[o], g)
      BY <1>2, <2>2, <3>2, ObjectRead DEF ProvableInv
    <3>5. tiles[o] = Part(seq, a, y)
      BY <1>2, <3>3, <3>4 DEF ContentOK
    <3>6. old = tiles[o]
      BY <3>2
    <3> HIDE DEF old, o
    <3>7. Len(old) = y /\ \A i \in 1..y : old[i] = seq[a + (i - 1)]
      <4>1. PICK w \in Nat : w = y
        BY <3>3
      <4>2. PICK u : u = Part(seq, a, w)
        OBVIOUS
      <4>3. Len(u) = w /\ \A i \in 1..w : u[i] = seq[a + (i - 1)]
        <5>1. Len(Part(seq, a, w)) = w
          BY PartFacts
        <5>2. ASSUME NEW i \in 1..w PROVE Part(seq, a, w)[i] = seq[a + (i - 1)]
          BY PartFacts
        <5> QED
          BY <4>2, <5>1, <5>2
      <4> QED
        BY <3>5, <3>6, <4>1, <4>2, <4>3
    <3> QED
      BY <3>3, <3>7
  <2>3. g = 0 \/ g > 0
    BY <1>2
  <2> HIDE DEF old
  <2> QED
    BY <2>1, <2>2, <2>3, Zenon
<1>7. VisitedTile(tile) = [i \in 1..x |-> IF i > y THEN seq[a + i - 1]
                                          ELSE IF i <= Len(old) THEN old[i] ELSE None]
  BY <1>1, <1>2, <1>4, <1>5 DEF VisitedTile
<1> HIDE DEF old, o
<1>8. \A i \in 1..x : a + i - 1 = a + (i - 1)
  OBVIOUS
<1>9. VisitedTile(tile) = Part(seq, a, x)
  BY <1>6, <1>7, <1>8 DEF Part
<1>10. NumLeaves(tile) = f
  <2>1. NumLeaves(tile) = x \div z
    BY <1>1, <1>2, <1>4 DEF NumLeaves
  <2>2. (f * z + 0) \div z = f
    BY DivUnique
  <2> QED
    BY <1>3, <2>1, <2>2
<1>11. a + x <= n
  <2>1. <<0, f - 1>> \in Keys(TileWidth) /\ Top(<<0, f - 1>>) = f
    <3>1. f \in 0..TileWidth /\ f - 1 \in Nat /\ f - 1 < TileWidth /\ TileWidth \in 0..TileWidth
      BY <1>2, CoveredIs, TileFacts
    <3> QED
      BY <3>1, RowFacts
  <2>2. Last(NodeAt(tile, <<0, f - 1>>)) <= n
    <3>1. f <= f
      OBVIOUS
    <3> QED
      BY <1>2, <2>1, <3>1, InTree
  <2>3. Last(NodeAt(tile, <<0, f - 1>>)) = (tile[2] * TileWidth + f) * z
    BY <1>2, <2>1, LastAt DEF RowSpan
  <2>4. PICK I \in Nat, W \in Nat : I = tile[2] /\ W = TileWidth
    BY TileFacts
  <2>5. (I * W + f) * z = I * W * z + f * z
    OBVIOUS
  <2>6. a = I * W * z
    BY <1>2, <2>4 DEF Start
  <2> QED
    BY <1>3, <2>2, <2>3, <2>4, <2>5, <2>6
<1> QED
  BY <1>1, <1>2, <1>3, <1>9, <1>10, <1>11

-----------------------------------------------------------------------------
(* The steps. *)

\* The empty bucket has no objects and no checkpoint.
LEMMA InitProvable == Init => ProvableInv
<1> SUFFICES ASSUME Init PROVE ProvableInv
  OBVIOUS
<1>1. DOMAIN tiles = {} /\ published = {} /\ cp = None /\ dirty = {} /\ ipc = "idle"
  BY DEF Init, NoObjects
<1> QED
  BY <1>1 DEF ProvableInv, ObjectsOK, PublishedOK, StoreOK

\* Trees stay complete while no object of a tile goes away, and agree with the
\* entries while none of these is replaced.
LEMMA PublishedStays ==
    ASSUME ProvableInv, \A i \in DOMAIN seq : i \in DOMAIN seq' /\ seq'[i] = seq[i],
           DOMAIN tiles \subseteq DOMAIN tiles', UNCHANGED <<published, cp>>
    PROVE  PublishedOK'
<1>1. ASSUME NEW t \in published PROVE Agrees(seq', t) /\ Complete(Size(t))'
  <2>1. Agrees(seq, t) /\ Complete(Size(t))
    BY DEF ProvableInv, PublishedOK
  <2>2. Agrees(seq', t)
    BY <2>1, AgreesStays
  <2> QED
    BY <2>1, <2>2 DEF Complete
<1> QED
  BY <1>1 DEF ProvableInv, PublishedOK, Agrees

\* Steps that leave the checkpoint, the tiles and Integrate alone.
LEMMA OthersProvable ==
    ASSUME ProvableInv, \A i \in DOMAIN seq : i \in DOMAIN seq' /\ seq'[i] = seq[i],
           UNCHANGED <<bucket, cp, tiles, ipc, size, dirty, published>>
    PROVE  ProvableInv'
<1>1. ObjectsOK(seq', tiles)
  BY ObjectsStay DEF ProvableInv
<1>2. PublishedOK'
  BY PublishedStays
<1>3. StoreOK'
  BY DEF ProvableInv, StoreOK
<1> QED
  BY <1>1, <1>2, <1>3 DEF ProvableInv, ObjectsOK, ContentOK

\* initialise, and the ends of an invocation that fails.
LEMMA ResetProvable ==
    ASSUME ProvableInv, NumberInv, Initialise \/ IntegrateError
    PROVE  ProvableInv'
<1>1. UNCHANGED <<cp, seq, tiles, published>> /\ ipc' \in {"idle", "store"}
      /\ size' = 0 /\ dirty' = {} /\ (ipc' = "store" => cp = None)
      /\ (~bucket' => cp = None)
      /\ (ipc' = "store" => bucket')
  BY DEF Initialise, IntegrateError, objects, ProvableInv, StoreOK
<1>2. ObjectsOK(seq, tiles)'
  BY <1>1 DEF ProvableInv, ObjectsOK, ContentOK
<1>3. PublishedOK'
  BY <1>1, PublishedStays
<1>4. StoreOK'
  BY <1>1, FillOfEmpty DEF StoreOK
<1> QED
  BY <1>2, <1>3, <1>4 DEF ProvableInv

\* Integrate finds the tiles that its tree changes.
LEMMA IntegrateProvable ==
    ASSUME ProvableInv, NumberInv, Integrate
    PROVE  ProvableInv'
<1>1. /\ UNCHANGED <<bucket, cp, seq, tiles, published>> /\ ipc' = "store" /\ cp # None
      /\ size' = Size(cp) + Cardinality(Sequenced(Size(cp)))
      /\ dirty' = {NodeCoordsToTileAddress(node).tile : node \in VisitedNodes(Size(cp), size')}
  BY DEF Integrate, objects
<1>2. PICK n \in Nat : DOMAIN seq = 0..(n - 1)
  BY DEF NumberInv, Dense
<1>3. PICK s \in Nat : s = Size(cp) /\ UsedBelow(s) /\ Complete(s)
  BY <1>1 DEF NumberInv, CloudTypeOK, IntegrateInv, ProvableInv, PublishedOK
<1>4. size' = n /\ s <= n
  BY <1>1, <1>2, <1>3, NumberFacts
<1>5. dirty' = {NodeCoordsToTileAddress(node).tile : node \in VisitedNodes(s, n)}
  BY <1>1, <1>3, <1>4
<1>6. ObjectsOK(seq, tiles)'
  BY <1>1 DEF ProvableInv, ObjectsOK, ContentOK
<1>7. PublishedOK'
  BY <1>1, PublishedStays
<1>8. ASSUME NEW tile \in dirty' PROVE tile \in Nat \X Nat /\ Fill(tile, n) > 0
  <2>1. PICK node \in VisitedNodes(s, n) : tile = NodeCoordsToTileAddress(node).tile
    BY <1>5
  <2>2. tile \in Nat \X Nat /\ Fill(tile, n) \in 1..TileWidth
    BY <2>1, VisitedAddress
  <2> QED
    BY <2>2, TileFacts
<1>9. ASSUME NEW tile \in Nat \X Nat, Fill(tile, n) > 0
      PROVE  tile \in dirty' \/ TileObject(tile, n) \in DOMAIN tiles
  <2>1. CASE Fill(tile, n) = Fill(tile, s)
    <3>1. TileObject(tile, s) \in DOMAIN tiles
      BY <1>3, <1>9, <2>1 DEF Complete
    <3>2. TileObject(tile, s) = TileObject(tile, n)
      BY <1>9, <2>1, ObjectRow
    <3> QED
      BY <3>1, <3>2
  <2>2. CASE \E node \in VisitedNodes(s, n) : NodeCoordsToTileAddress(node).tile = tile
    BY <1>5, <2>2
  <2> QED
    BY <1>4, <1>9, <2>1, <2>2, VisitedTiles
<1>10. StoreOK'
  <2>1. Size(cp') <= size' /\ cp' # None
    BY <1>1, <1>3, <1>4
  <2> QED
    BY <1>1, <1>4, <1>8, <1>9, <2>1 DEF StoreOK, ProvableInv, TileObject, TilePath
<1> QED
  BY <1>6, <1>7, <1>10 DEF ProvableInv

\* A tile is stored.
LEMMA StoreTileProvable ==
    ASSUME ProvableInv, NumberInv, NEW tile \in dirty, StoreTile(tile)
    PROVE  ProvableInv'
<1> DEFINE o == TilePath(tile, NumLeaves(tile) % TileWidth)
<1>1. /\ UNCHANGED <<bucket, cp, seq, ipc, size, published>> /\ ipc = "store"
      /\ dirty' = dirty \ {tile} /\ tiles' = Put(tiles, o, VisitedTile(tile))
  BY DEF StoreTile
<1>2. tile \in Nat \X Nat /\ Fill(tile, size) > 0 /\ cp # None
  BY <1>1 DEF ProvableInv, StoreOK
<1>3. PICK n \in Nat : n = size /\ UsedBelow(n)
  BY <1>1 DEF NumberInv, CloudTypeOK, IntegrateInv
<1>4. /\ VisitedTile(tile) = Part(seq, Start(tile), Fill(tile, n) * RowSpan(tile))
      /\ NumLeaves(tile) = Fill(tile, n)
      /\ Start(tile) + Fill(tile, n) * RowSpan(tile) <= n
  BY <1>1, <1>2, <1>3, VisitedTileIs
<1>5. /\ o = TileObject(tile, n) /\ o \in Nat \X Nat \X (0..(TileWidth - 1))
      /\ <<o[1], o[2]>> = tile /\ RowOf(o) = Fill(tile, n)
  BY <1>2, <1>3, <1>4, ObjectRow
<1> HIDE DEF o
<1>6. ContentOK(seq, tile, VisitedTile(tile), Fill(tile, n))
  <2>1. PICK f \in Nat, z \in Nat, a \in Nat :
           f = Fill(tile, n) /\ z = RowSpan(tile) /\ a = Start(tile)
    BY <1>2, CoveredIs
  <2>2. PICK e \in Nat : e = a + f * z /\ e <= n
    <3>1. a + f * z \in Nat
      OBVIOUS
    <3> QED
      BY <1>4, <2>1, <3>1
  <2>3. 0..(e - 1) \subseteq DOMAIN seq
    BY <1>3, <2>2 DEF UsedBelow
  <2>4. Start(tile) + Fill(tile, n) * RowSpan(tile) - 1 = e - 1
    BY <2>1, <2>2
  <2> QED
    BY <1>4, <2>3, <2>4 DEF ContentOK
<1>7. /\ DOMAIN tiles' = DOMAIN tiles \cup {o} /\ tiles'[o] = VisitedTile(tile)
      /\ \A p \in DOMAIN tiles : p # o => tiles'[p] = tiles[p]
  BY <1>1 DEF Put
<1>8. ObjectsOK(seq, tiles')
  <2> SUFFICES ASSUME NEW p \in DOMAIN tiles'
               PROVE  /\ p \in Nat \X Nat \X (0..(TileWidth - 1))
                      /\ ContentOK(seq, <<p[1], p[2]>>, tiles'[p], RowOf(p))
    BY DEF ObjectsOK
  <2>1. CASE p = o
    BY <1>5, <1>6, <1>7, <2>1
  <2>2. CASE p # o
    BY <1>7, <2>2 DEF ProvableInv, ObjectsOK
  <2> QED
    BY <2>1, <2>2
<1>9. PublishedOK'
  BY <1>1, <1>7, PublishedStays
<1>10. StoreOK'
  <2>1. ASSUME NEW t \in Nat \X Nat, Fill(t, n) > 0
        PROVE  t \in dirty' \/ TileObject(t, n) \in DOMAIN tiles'
    <3>1. t \in dirty \/ TileObject(t, n) \in DOMAIN tiles
      BY <1>1, <1>3, <2>1 DEF ProvableInv, StoreOK
    <3> QED
      BY <1>1, <1>5, <1>7, <3>1
  <2> QED
    BY <1>1, <1>2, <1>3, <2>1 DEF ProvableInv, StoreOK, TileObject, TilePath
<1> QED
  BY <1>1, <1>8, <1>9, <1>10 DEF ProvableInv, ObjectsOK, ContentOK

\* The checkpoint is written.
LEMMA WriteCheckpointProvable ==
    ASSUME ProvableInv, NumberInv, WriteCheckpoint
    PROVE  ProvableInv'
<1>1. /\ UNCHANGED <<bucket, seq, tiles, dirty>> /\ ipc = "store" /\ dirty = {}
      /\ ipc' = "idle" /\ cp' = NewTree /\ published' = published \cup {cp'}
  BY DEF WriteCheckpoint
<1>2. PICK n \in Nat : n = size /\ UsedBelow(n)
  BY <1>1 DEF NumberInv, CloudTypeOK, IntegrateInv
<1>3. cp' = Part(seq, 0, n)
  BY <1>1, <1>2, NewTreeIs
<1>4. Agrees(seq, cp') /\ Len(cp') = n
  <2>1. PICK u : u = Part(seq, 0, n)
    OBVIOUS
  <2>2. Len(u) = n /\ IsSequence(u) /\ \A i \in 1..n : u[i] = seq[0 + (i - 1)]
    BY <2>1, PartFacts
  <2>3. \A i \in 1..n : i - 1 \in DOMAIN seq /\ 0 + (i - 1) = i - 1
    BY <1>2 DEF UsedBelow
  <2> QED
    BY <1>3, <2>1, <2>2, <2>3 DEF Agrees
<1>5. Complete(n)
  BY <1>1, <1>2 DEF Complete, ProvableInv, StoreOK
<1>6. \A t \in published' : Agrees(seq, t) /\ Complete(Size(t))
  BY <1>1, <1>4, <1>5 DEF ProvableInv, PublishedOK, Size
<1>7. PublishedOK'
  BY <1>1, <1>6 DEF PublishedOK, Complete, Agrees, TileObject, TilePath
<1>8. StoreOK'
  BY <1>1 DEF ProvableInv, StoreOK
<1>9. ObjectsOK(seq, tiles)'
  BY <1>1 DEF ProvableInv, ObjectsOK, ContentOK
<1> QED
  BY <1>7, <1>8, <1>9 DEF ProvableInv


\* No step of either function disturbs the objects.
LEMMA ProvableNext == NumberInv /\ ProvableInv /\ [Next]_vars => ProvableInv'
<1> SUFFICES ASSUME NumberInv, ProvableInv, [Next]_vars PROVE ProvableInv'
  OBVIOUS
<1>1. CASE \E p \in Sequencers : WriteSeq(p)
  <2>1. /\ \A i \in DOMAIN seq : i \in DOMAIN seq' /\ seq'[i] = seq[i]
        /\ UNCHANGED <<bucket, cp, tiles, ipc, size, dirty, published>>
    BY <1>1 DEF WriteSeq, Put, ivars
  <2> QED
    BY <2>1, OthersProvable
<1>2. CASE UNCHANGED <<bucket, cp, seq, tiles, ipc, size, dirty, published>>
  BY <1>2, OthersProvable
<1>3. CASE Initialise \/ IntegrateError
  BY <1>3, ResetProvable
<1>4. CASE Integrate
  BY <1>4, IntegrateProvable
<1>5. CASE \E tile \in dirty : StoreTile(tile)
  BY <1>5, StoreTileProvable
<1>6. CASE WriteCheckpoint
  BY <1>6, WriteCheckpointProvable
<1>7. ASSUME Next, ~ Initialise, ~ IntegrateError, ~ IntegrateStep,
             ~ \E p \in Sequencers : WriteSeq(p)
      PROVE  UNCHANGED <<bucket, cp, seq, tiles, ipc, size, dirty, published>>
  BY <1>7 DEF Next, CreateGCSObject, SequenceStep, StartSequence, NextObject, FindNumber,
              PreconditionFailed, WriteLeaf, SequenceError, NotInitialised,
              vars, objects, ivars
<1>8. vars' = vars => UNCHANGED <<bucket, cp, seq, tiles, ipc, size, dirty, published>>
  BY DEF vars, objects, ivars
<1> QED
  BY <1>1, <1>2, <1>3, <1>4, <1>5, <1>6, <1>7, <1>8 DEF IntegrateStep

\* The leaves below a node of a tile start where the tile does, or after.
LEMMA FirstInTile ==
    ASSUME NEW tile \in Nat \X Nat, NEW k \in Keys(TileWidth)
    PROVE  Start(tile) <= First(NodeAt(tile, k))
<1>1. PICK L \in Nat, I \in Nat : tile = <<L, I>>
  OBVIOUS
<1>2. PICK r \in 0..(TileHeight - 1), o \in Nat : k = <<r, o>>
  BY KeyFacts
<1>3. PICK y \in Nat \ {0}, x \in Nat \ {0} :
         y = Pow2[TileHeight - r] /\ x = Pow2[r] /\ y * x = TileWidth
  BY TileFacts
<1>4. PICK z \in Nat \ {0} : z = Pow2[L * TileHeight]
  BY TileFacts
<1>5. Pow2[L * TileHeight + r] = z * x
  BY <1>3, <1>4, TileFacts, Pow2Sum
<1>6. First(NodeAt(tile, k)) = (I * y + o) * (z * x)
  BY <1>1, <1>2, <1>3, <1>5 DEF First, NodeAt
<1>7. (I * y + o) * (z * x) = I * (y * x) * z + o * (z * x)
  OBVIOUS
<1>8. PICK e \in Nat, d \in Nat : e = I * (y * x) * z /\ d = o * (z * x)
  OBVIOUS
<1>9. Start(tile) = e
  BY <1>1, <1>3, <1>4, <1>8 DEF Start, RowSpan
<1> QED
  BY <1>6, <1>7, <1>8, <1>9

\* A node that is read from an object.
LEMMA NodeRead ==
    ASSUME NEW a \in Nat, NEW x \in Nat, NEW b \in Nat, NEW y \in Nat \ {0},
           a <= b, b + y <= a + x
    PROVE  SubSeq(Part(seq, a, x), b + 1 - a, b + y - a) = Part(seq, b, y)
<1>1. PICK d \in Nat : d = b - a
  OBVIOUS
<1>2. PICK u : u = Part(seq, a, x)
  OBVIOUS
<1>3. Len(u) = x /\ IsSequence(u)
  BY <1>2, PartFacts
<1>4. ASSUME NEW j \in 1..x PROVE u[j] = seq[a + (j - 1)]
  <2>1. Part(seq, a, x)[j] = seq[a + (j - 1)]
    BY PartFacts
  <2> QED
    BY <1>2, <2>1
<1>5. PICK V : u \in Seq(V)
  BY <1>3 DEF IsSequence
<1>6. SubSeq(u, d + 1, d + y) = [j \in 1..y |-> u[d + j]]
  BY <1>1, <1>3, <1>5, SubSeqIs
<1>7. ASSUME NEW j \in 1..y PROVE u[d + j] = seq[b + (j - 1)]
  <2>1. d + j \in 1..x /\ a + (d + j - 1) = b + (j - 1)
    BY <1>1
  <2>2. u[d + j] = seq[a + ((d + j) - 1)]
    BY <1>4, <2>1
  <2> QED
    BY <2>1, <2>2
<1>8. b + 1 - a = d + 1 /\ b + y - a = d + y
  BY <1>1
<1>9. [j \in 1..y |-> u[d + j]] = Part(seq, b, y)
  BY <1>7 DEF Part
<1> QED
  BY <1>2, <1>6, <1>8, <1>9

\* The invariant says that published trees are provable.
LEMMA ProvableNow == NumberInv /\ ProvableInv => PublishedProvable
<1> SUFFICES ASSUME NumberInv, ProvableInv, NEW t \in published
             PROVE  /\ \A i \in 1..Size(t) : i - 1 \in DOMAIN seq /\ seq[i - 1] = t[i]
                    /\ \A node \in VisitedNodes(0, Size(t)) :
                          /\ HasNode(node, Size(t))
                          /\ GetNode(node, Size(t)) = NodeHash(t, node)
  BY DEF PublishedProvable
<1>1. PICK n \in Nat : n = Size(t) /\ n = Len(t)
  BY DEF NumberInv, CloudTypeOK, Size
<1>2. Agrees(seq, t) /\ Complete(n)
  BY <1>1 DEF ProvableInv, PublishedOK
<1>3. \A i \in 1..n : i - 1 \in DOMAIN seq /\ seq[i - 1] = t[i]
  BY <1>1, <1>2 DEF Agrees
<1>4. ASSUME NEW node \in VisitedNodes(0, n)
      PROVE  HasNode(node, n) /\ GetNode(node, n) = NodeHash(t, node)
  <2>1. PICK tile \in Nat \X Nat, k \in Keys(TileWidth) :
           /\ tile = NodeCoordsToTileAddress(node).tile
           /\ NodeAt(tile, k) = node /\ node \in Nat \X Nat
           /\ Top(k) \in 1..Fill(tile, n) /\ Fill(tile, n) \in 1..TileWidth
    BY <1>4, VisitedAddress
  <2>2. Fill(tile, n) > 0
    BY <2>1, TileFacts
  <2>3. PICK a \in Nat, f \in Nat \ {0}, z \in Nat \ {0} :
           a = Start(tile) /\ f = Fill(tile, n) /\ z = RowSpan(tile)
    BY <2>2, CoveredIs
  <2>4. PICK x \in Nat : x = f * z
    OBVIOUS
  <2> DEFINE o == TileObject(tile, n)
  <2>5. o \in DOMAIN tiles
    BY <1>2, <2>2 DEF Complete
  <2>6. tiles[o] = Part(seq, a, x)
    <3>1. ContentOK(seq, tile, tiles[o], f)
      BY <2>2, <2>3, <2>5, ObjectRead DEF ProvableInv
    <3> QED
      BY <2>3, <2>4, <3>1 DEF ContentOK
  <2>7. PICK b \in Nat, y \in Nat \ {0} :
           b = First(node) /\ y = Pow2[node[1]] /\ Last(node) = b + y
    BY <2>1, NodeFacts
  <2>8. a <= b
    BY <2>1, <2>3, <2>7, FirstInTile
  <2>9. b + y <= a + x
    <3>1. PICK I \in Nat, W \in Nat, c \in Nat : I = tile[2] /\ W = TileWidth /\ c = Top(k) /\ c <= f
      BY <2>1, <2>3, TileFacts
    <3>2. Last(node) = (I * W + c) * z
      BY <2>1, <2>3, <3>1, LastAt DEF RowSpan
    <3>3. a = I * W * z
      BY <2>3, <3>1 DEF Start
    <3>4. (I * W + c) * z = I * W * z + c * z /\ c * z <= f * z
      BY <3>1
    <3> QED
      BY <2>4, <2>7, <3>2, <3>3, <3>4
  <2>10. b + y <= n
    BY <1>4, <2>7, VisitedIs
  <2>11. Len(tiles[o]) = x
    <3>1. Len(Part(seq, a, x)) = x
      BY PartFacts
    <3> QED
      BY <2>6, <3>1
  <2>12. HasNode(node, n)
    BY <2>1, <2>3, <2>5, <2>7, <2>9, <2>11 DEF HasNode
  <2>13. GetNode(node, n) = SubSeq(Part(seq, a, x), b + 1 - a, b + y - a)
    <3>1. GetNode(node, n) = SubSeq(tiles[o], First(node) + 1 - Start(tile), Last(node) - Start(tile))
      BY <2>1, Zenon DEF GetNode
    <3> HIDE DEF o
    <3>2. First(node) + 1 - Start(tile) = b + 1 - a /\ Last(node) - Start(tile) = b + y - a
      BY <2>3, <2>7
    <3>3. GetNode(node, n) = SubSeq(tiles[o], b + 1 - a, b + y - a)
      BY <3>1, <3>2
    <3> QED
      BY <2>6, <3>3, Zenon
  <2>14. GetNode(node, n) = Part(seq, b, y)
    BY <2>8, <2>9, <2>13, NodeRead
  <2>15. NodeHash(t, node) = HashOf(seq, node)
    BY <1>1, <1>2, <2>1, <2>7, <2>10, NodeHashIs
  <2>16. HashOf(seq, node) = Part(seq, b, y)
    BY <2>7, Zenon DEF HashOf
  <2> QED
    BY <2>12, <2>14, <2>15, <2>16
<1> QED
  BY <1>1, <1>3, <1>4

(***************************************************************************)
(* Every checkpoint the log ever published commits to the sequenced        *)
(* entries, and each node of its tree can be read from the objects of its  *)
(* size: after later integrations, in the middle of one, and after one     *)
(* that failed between the tiles it stored.  Any size of tiles, any number *)
(* of entries.                                                             *)
(***************************************************************************)
THEOREM PublishedStaysProvable == Spec => []PublishedProvable
<1>1. Init => NumberInv /\ ProvableInv
  BY InitNumberInv, InitProvable
<1>2. NumberInv /\ [Next]_vars => NumberInv'
  BY NextNumberInv
<1>3. NumberInv /\ ProvableInv /\ [Next]_vars => ProvableInv'
  BY ProvableNext
<1>4. NumberInv /\ ProvableInv => PublishedProvable
  BY ProvableNow
<1> QED
  BY <1>1, <1>2, <1>3, <1>4, PTL DEF Spec

-----------------------------------------------------------------------------
(* The objects are an append-only log. *)

\* WriteSeq gives an entry the next number, WriteCheckpoint publishes the
\* entries up to a number, and no other call shows.
LEMMA LogStep ==
    ASSUME NumberInv, ProvableInv, [Next]_vars
    PROVE  [Abs!AbsNext]_(Abs!absVars)
<1>1. PICK n \in Nat : DOMAIN seq = 0..(n - 1)
  BY DEF NumberInv, Dense
<1>2. SequencedLog = InOrder(seq, n)
  BY <1>1, CountIs DEF SequencedLog, InOrder
<1>3. ASSUME NEW p \in Sequencers, WriteSeq(p) PROVE Abs!AbsNext
  <2>1. /\ DOMAIN seq' = 0..((n + 1) - 1) /\ seq'[n] = entry[p] /\ entry[p] \in Leaf
        /\ \A i \in 0..(n - 1) : seq'[i] = seq[i]
        /\ cp' = cp
    BY <1>1, <1>3, WriteSeqFacts
  <2>2. SequencedLog' = InOrder(seq', n + 1)
    BY <2>1, CountIs, n + 1 \in Nat DEF SequencedLog, InOrder
  <2>3. InOrder(seq', n + 1) = Append(InOrder(seq, n), seq'[n])
    BY <2>1, InOrderGrows
  <2>4. Abs!Sequence(entry[p])
    BY <1>2, <2>1, <2>2, <2>3 DEF Abs!Sequence
  <2> QED
    BY <2>1, <2>4 DEF Abs!AbsNext
<1>4. CASE WriteCheckpoint
  <2>1. cp' = NewTree /\ seq' = seq /\ ipc = "store"
    BY <1>4 DEF WriteCheckpoint
  <2>2. size \in Nat /\ UsedBelow(size) /\ NewTree = Part(seq, 0, size)
    BY <2>1, NewTreeIs DEF NumberInv, CloudTypeOK, IntegrateInv
  <2>3. Agrees(seq, NewTree) /\ Len(NewTree) = size
    <3>1. /\ IsSequence(NewTree) /\ Len(NewTree) = size
          /\ \A i \in 1..size : NewTree[i] = seq[0 + (i - 1)]
      <4>1. PICK u : u = Part(seq, 0, size)
        OBVIOUS
      <4>2. /\ IsSequence(u) /\ Len(u) = size
            /\ \A i \in 1..size : u[i] = seq[0 + (i - 1)]
        BY <2>2, <4>1, PartFacts
      <4> QED
        BY <2>2, <4>1, <4>2
    <3>2. \A i \in 1..size : i - 1 \in 0..(size - 1) /\ 0 + (i - 1) = i - 1
      BY <2>2
    <3> QED
      BY <2>2, <3>1, <3>2 DEF Agrees, UsedBelow
  <2>4. PICK m \in 0..n : m = size /\ NewTree = SubSeq(InOrder(seq, n), 1, m)
    BY <1>1, <2>3, AgreesIsBeginning
  <2>5. cp # None => Size(cp) <= m
    BY <2>1, <2>4 DEF ProvableInv, StoreOK
  <2>6. SequencedLog' = SequencedLog
    BY <2>1 DEF SequencedLog
  <2>7. Abs!Publish(m)
    BY <1>2, <2>1, <2>4, <2>5, <2>6 DEF Abs!Publish, Abs!Size, Size
  <2>8. m \in 0..Len(SequencedLog)
    BY <1>2, <2>4, InOrderFacts
  <2> QED
    BY <2>7, <2>8 DEF Abs!AbsNext, Abs!Size
<1>5. CASE UNCHANGED <<seq, cp>>
  BY <1>5 DEF Abs!absVars, SequencedLog
<1>6. \/ \E p \in Sequencers : WriteSeq(p)
      \/ WriteCheckpoint
      \/ UNCHANGED <<seq, cp>>
  BY DEF Next, CreateGCSObject, SequenceStep, StartSequence, NextObject, FindNumber,
         PreconditionFailed, WriteLeaf, SequenceError, Initialise, NotInitialised,
         IntegrateStep, Integrate, StoreTile, IntegrateError, vars, objects
<1> QED
  BY <1>3, <1>4, <1>5, <1>6

(***************************************************************************)
(* The log on Google Cloud implements the same abstract specification as   *)
(* the one on a file system: whichever functions race, fail and are        *)
(* stopped, an entry gets the next number for good, and a checkpoint is    *)
(* replaced by that of a longer beginning, although it is computed from    *)
(* tiles and written on no condition.                                      *)
(***************************************************************************)
THEOREM LogImplementsAbstract == Spec => LogRefines
<1>1. Init => NumberInv /\ ProvableInv /\ Abs!AbsInit
  <2> SUFFICES ASSUME Init PROVE Abs!AbsInit
    BY InitNumberInv, InitProvable
  <2>1. DOMAIN seq = 0..(0 - 1) /\ cp = None
    BY DEF Init, NoObjects
  <2>2. SequencedLog = InOrder(seq, 0)
    BY <2>1, CountIs DEF SequencedLog, InOrder
  <2>3. SequencedLog = <<>>
    BY <2>2 DEF InOrder
  <2> QED
    BY <2>1, <2>3 DEF Abs!AbsInit
<1>2. NumberInv /\ [Next]_vars => NumberInv'
  BY NextNumberInv
<1>3. NumberInv /\ ProvableInv /\ [Next]_vars => ProvableInv'
  BY ProvableNext
<1>4. NumberInv /\ ProvableInv /\ [Next]_vars => [Abs!AbsNext]_(Abs!absVars)
  BY LogStep
<1> QED
  BY <1>1, <1>2, <1>3, <1>4, PTL DEF Spec, LogRefines, Abs!AbsSpec
=============================================================================
