------------------------ MODULE ServerlessLogProofs ------------------------
(***************************************************************************)
(* For any number of sequence commands, any entries, any height of tiles   *)
(* and any crashes: the sequence numbers have no gap, an entry keeps its   *)
(* number, the leaf hash files name the entry they are about, every        *)
(* published checkpoint stays provable from the tiles, and only a command  *)
(* that died leaves a file that is in the way of a later one.              *)
(***************************************************************************)
EXTENDS ServerlessLog, TileProofs

\* The empty directory satisfies the invariant.
LEMMA InitInv == Init => IInv
<1> SUFFICES ASSUME Init PROVE IInv
  OBVIOUS
<1>1. DOMAIN seq = {} /\ DOMAIN leafIdx = {}
  BY DEF Init, NoFiles
<1>2. SequencersTyped
  BY <1>1 DEF Init, SequencersTyped, SPC
<1>3. SequenceDense
  BY <1>1 DEF Init, SequenceDense
<1>4. Numbered /\ LeafIndexSound
  BY <1>1 DEF Init, Numbered, LeafIndexSound
<1>5. Scanned
  BY EmptyIsSequence DEF Init, Scanned, Size
<1> QED
  BY <1>2, <1>3, <1>4, <1>5 DEF IInv

-----------------------------------------------------------------------------
(* The sequence command. *)

\* What does not touch the numbering leaves the invariants about it alone.
LEMMA NumberingKept ==
    ASSUME IInv, UNCHANGED <<seq, nextSeq, cp>>
    PROVE  SequenceDense'
  BY DEF IInv, SequenceDense, Size

\* What an integration has scanned stays in place while no entry, checkpoint
\* or scan changes.
LEMMA ScanKept ==
    ASSUME IInv, UNCHANGED <<seq, cp, work, base>>
    PROVE  Scanned'
  BY DEF IInv, Scanned, IsSequence, Size

\* The leaf index stays sound while neither it nor the entries change.
LEMMA LeafIndexKept ==
    ASSUME IInv, UNCHANGED <<seq, leafIdx>>
    PROVE  LeafIndexSound'
  BY DEF IInv, LeafIndexSound

\* The steps of a command that change neither the numbers nor the index.
LEMMA QuietStepInv ==
    ASSUME IInv, NEW p \in Sequencers,
           \/ \E x \in Leaf : Sequence(p, x)
           \/ CreatePending(p) \/ ExitSequence(p) \/ CreateLeafTmp(p)
           \/ RemoveLeafTmp(p) \/ RemovePending(p)
           \/ SequenceError(p) \/ KillSequence(p)
    PROVE  IInv'
<1> USE DEF Sequence, CreatePending, ExitSequence, CreateLeafTmp, RemoveLeafTmp,
            RemovePending, SequenceError, KillSequence, At
<1>1. UNCHANGED <<seq, nextSeq, cp, leafIdx>>
  BY DEF files
<1>2. UNCHANGED <<work, base>>
  BY DEF ivars
<1>3. SequencersTyped'
  BY <1>1 DEF IInv, SequencersTyped, SPC
<1>4. Numbered'
  BY <1>1 DEF IInv, Numbered, SequencersTyped
<1> QED
  BY <1>1, <1>2, <1>3, <1>4, NumberingKept, ScanKept, LeafIndexKept DEF IInv

\* Load of a sequence command sets nextSeq from the checkpoint, which counts
\* no more entries than there are.
LEMMA StartSequenceInv ==
    ASSUME IInv, NEW p \in Sequencers, StartSequence(p)
    PROVE  IInv'
<1> USE DEF StartSequence, At
<1>1. UNCHANGED <<seq, cp, leafIdx, entry, work, base>>
  BY DEF files, ivars
<1>2. Size(cp) \in Nat
  BY LenIsNat DEF IInv, Scanned, Size
<1>3. SequencersTyped'
  BY <1>1, <1>2 DEF IInv, SequencersTyped, SPC
<1>4. SequenceDense'
  BY <1>1 DEF IInv, SequenceDense, SequencersTyped, Size
<1>5. Numbered'
  BY <1>1 DEF IInv, Numbered, SequencersTyped
<1> QED
  BY <1>1, <1>3, <1>4, <1>5, ScanKept, LeafIndexKept DEF IInv

\* A command that finds its number taken moves nextSeq past it, which is not
\* beyond the first free number.
LEMMA SkipTakenInv ==
    ASSUME IInv, NEW p \in Sequencers, SkipTaken(p)
    PROVE  IInv'
<1> USE DEF SkipTaken
<1>1. UNCHANGED <<seq, cp, leafIdx, spc, entry, work, base>>
  BY DEF files, ivars
<1>2. SequencersTyped'
  BY <1>1 DEF IInv, SequencersTyped
<1>3. SequenceDense'
  <2>1. 0..nextSeq[p] \subseteq DOMAIN seq /\ nextSeq[p] \in Nat
    BY DEF IInv, SequenceDense, SequencersTyped
  <2>2. ASSUME NEW q \in Sequencers
        PROVE  0..(nextSeq'[q] - 1) \subseteq DOMAIN seq
    BY <2>1 DEF IInv, SequenceDense, SequencersTyped
  <2> QED
    BY <1>1, <2>2 DEF IInv, SequenceDense, Size
<1>4. Numbered'
  BY <1>1 DEF IInv, Numbered, SequencersTyped
<1> QED
  BY <1>1, <1>2, <1>3, <1>4, ScanKept, LeafIndexKept DEF IInv

\* The step that the numbering is about: nextSeq is free, and everything
\* below it is taken.
LEMMA LinkSeqInv ==
    ASSUME IInv, NEW p \in Sequencers, LinkSeq(p)
    PROVE  IInv'
<1> USE DEF LinkSeq, At
<1>1. UNCHANGED <<cp, leafIdx, entry, nextSeq, work, base>>
  BY DEF ivars
<1>2. /\ DOMAIN seq' = DOMAIN seq \cup {nextSeq[p]}
      /\ seq'[nextSeq[p]] = entry[p]
      /\ \A i \in DOMAIN seq : seq'[i] = seq[i]
  BY DEF Put
<1>3. nextSeq[p] \in Nat
  BY DEF IInv, SequencersTyped
<1>4. SequencersTyped'
  BY <1>1, <1>2, <1>3 DEF IInv, SequencersTyped, SPC
<1>5. SequenceDense'
  <2>1. 0..nextSeq[p] \subseteq DOMAIN seq'
    <3>1. 0..(nextSeq[p] - 1) \subseteq DOMAIN seq
      BY DEF IInv, SequenceDense
    <3> QED
      BY <1>2, <1>3, <3>1
  <2>2. ASSUME NEW i \in DOMAIN seq' PROVE 0..i \subseteq DOMAIN seq'
    BY <1>2, <2>1 DEF IInv, SequenceDense
  <2> QED
    BY <1>1, <1>2, <2>2 DEF IInv, SequenceDense, Size
<1>6. Numbered'
  BY <1>1, <1>2 DEF IInv, Numbered, SequencersTyped
<1>7. LeafIndexSound'
  BY <1>1, <1>2 DEF IInv, LeafIndexSound
<1>8. Scanned'
  BY <1>1, <1>2 DEF IInv, Scanned, IsSequence, Size
<1> QED
  BY <1>4, <1>5, <1>6, <1>7, <1>8 DEF IInv

\* The number that LinkLeaf records for a leaf hash is the one at which
\* Assign has linked the entry.
LEMMA LinkLeafInv ==
    ASSUME IInv, NEW p \in Sequencers, LinkLeaf(p)
    PROVE  IInv'
<1> USE DEF LinkLeaf, At
<1>1. UNCHANGED <<seq, cp, entry, nextSeq, work, base>>
  BY DEF ivars
<1>2. SequencersTyped'
  BY <1>1 DEF IInv, SequencersTyped, SPC
<1>3. Numbered'
  BY <1>1 DEF IInv, Numbered, SequencersTyped
<1>4. LeafIndexSound'
  <2>1. nextSeq[p] \in DOMAIN seq /\ seq[nextSeq[p]] = entry[p]
    BY DEF IInv, Numbered
  <2> QED
    BY <1>1, <2>1 DEF IInv, LeafIndexSound, Put
<1> QED
  BY <1>1, <1>2, <1>3, <1>4, NumberingKept, ScanKept DEF IInv

-----------------------------------------------------------------------------
(* The integrate command. *)

\* No step of it touches entries, numbers or the index.
LEMMA IntegrateTouchesNothing ==
    ASSUME \/ Initialise \/ InitialiseFails \/ StartIntegrate \/ IntegrateStep
           \/ KillIntegrate
    PROVE  UNCHANGED <<seq, nextSeq, spc, entry, leafIdx>>
BY DEF Initialise, InitialiseFails, StartIntegrate, IntegrateStep, KillIntegrate,
       FetchRange, FetchRangeFails, ScanEntry, NothingToDo, EndScan, StoreTile,
       SymlinkTile, SymlinkFails, RenameSymlink, EndStore, CreateCheckpointTmp,
       CheckpointTmpExists, PublishCheckpoint, Fail, files, svars

\* An integrate command changes neither the entries nor the leaf index, nor
\* any sequence command.
LEMMA IntegrateKeeps ==
    ASSUME IInv,
           \/ Initialise \/ InitialiseFails \/ StartIntegrate \/ IntegrateStep
           \/ KillIntegrate
    PROVE  /\ UNCHANGED <<seq, nextSeq, spc, entry, leafIdx>>
           /\ SequencersTyped' /\ Numbered' /\ LeafIndexSound'
<1>1. UNCHANGED <<seq, nextSeq, spc, entry, leafIdx>>
  BY IntegrateTouchesNothing
<1>2. SequencersTyped' /\ Numbered'
  BY <1>1 DEF IInv, SequencersTyped, Numbered
<1> QED
  BY <1>1, <1>2, LeafIndexKept

\* The checkpoint stays, and the range is dropped or kept.
LEMMA ScanResetInv ==
    ASSUME IInv, UNCHANGED <<seq, nextSeq, cp>>,
           \/ work' = <<>> /\ base' \in {base, 0}
           \/ UNCHANGED <<work, base>>
    PROVE  SequenceDense' /\ Scanned'
<1>1. CASE work' = <<>> /\ base' \in {base, 0}
  <2>1. (cp # None => IsSequence(cp))'
    BY DEF IInv, Scanned, IsSequence
  <2>2. IsSequence(work)' /\ Size(work)' = 0
    BY <1>1, EmptyIsSequence DEF Size, IsSequence
  <2>e. 0..(0 - 1) = {}
    OBVIOUS
  <2>3. base' \in Nat /\ 0..(base' - 1) \subseteq DOMAIN seq'
    <3>1. CASE base' = base
      BY <3>1 DEF IInv, Scanned
    <3>2. CASE base' = 0
      BY <3>2, <2>e
    <3> QED
      BY <1>1, <3>1, <3>2
  <2>4. Scanned'
    BY <2>1, <2>2, <2>3, <2>e DEF Scanned
  <2> QED
    BY <2>4, NumberingKept
<1>2. CASE UNCHANGED <<work, base>>
  BY <1>2, NumberingKept, ScanKept
<1> QED
  BY <1>1, <1>2

\* An integrate command scans only entries that are in place, and publishes
\* only what it has scanned.
LEMMA IntegrateInv ==
    ASSUME IInv,
           \/ Initialise \/ InitialiseFails \/ StartIntegrate \/ IntegrateStep
           \/ KillIntegrate
    PROVE  SequenceDense' /\ Scanned'
<1>k. UNCHANGED <<seq, nextSeq>>
  BY IntegrateKeeps
<1>1. CASE \/ Initialise \/ InitialiseFails \/ FetchRangeFails \/ NothingToDo
           \/ SymlinkFails \/ CheckpointTmpExists \/ KillIntegrate
  <2>1. cp' = cp /\ work' = <<>> /\ base' \in {base, 0}
    BY <1>1 DEF Initialise, InitialiseFails, FetchRangeFails, NothingToDo,
                SymlinkFails, CheckpointTmpExists, KillIntegrate, Fail, files
  <2> QED
    BY <1>k, <2>1, ScanResetInv
<1>2. CASE \/ EndScan \/ EndStore \/ CreateCheckpointTmp
           \/ \E tile \in DOMAIN dirty : StoreTile(tile)
           \/ \E p \in relink : SymlinkTile(p) \/ RenameSymlink(p)
  <2>1. UNCHANGED <<cp, work, base>>
    BY <1>2 DEF EndScan, EndStore, CreateCheckpointTmp, StoreTile, SymlinkTile,
                RenameSymlink, files
  <2> QED
    BY <1>k, <2>1, ScanResetInv
<1>3. CASE StartIntegrate
  <2>1. cp' = cp /\ work' = work /\ base' = Size(cp) /\ cp # None
    BY <1>3 DEF StartIntegrate, files
  <2>2. Size(cp) \in Nat /\ 0..(Size(cp) - 1) \subseteq DOMAIN seq
    BY <2>1, LenIsNat DEF IInv, Scanned, SequenceDense, Size
  <2>3. Scanned'
    BY <1>k, <2>1, <2>2 DEF IInv, Scanned, IsSequence, Size
  <2> QED
    BY <1>k, <2>1, <2>3, NumberingKept
<1>4. CASE FetchRange
  <2>1. cp' = cp /\ base' = base /\ work' = RangeTree(base)
    BY <1>4 DEF FetchRange, files
  <2>2. work' = [i \in 1..base |-> work'[i]]
    BY <2>1 DEF RangeTree
  <2>3. base \in Nat /\ 0..(base - 1) \subseteq DOMAIN seq
    BY DEF IInv, Scanned
  <2>4. IsSequence(work') /\ Len(work') = base
    BY <2>2, <2>3, FunctionIsSequence
  <2>5. Scanned'
    BY <1>k, <2>1, <2>3, <2>4 DEF IInv, Scanned, IsSequence, Size
  <2> QED
    BY <1>k, <2>1, <2>5, NumberingKept
<1>5. CASE ScanEntry
  <2>1. cp' = cp /\ base' = base /\ work' = Append(work, seq[Size(work)])
        /\ Len(work) \in DOMAIN seq
    BY <1>5 DEF ScanEntry, files, Size
  <2>2. IsSequence(work') /\ Len(work') = Len(work) + 1 /\ Len(work) \in Nat
    BY <2>1, AppendIsSequence DEF IInv, Scanned
  <2>3. 0..Len(work) \subseteq DOMAIN seq
    BY <2>1 DEF IInv, SequenceDense
  <2>4. Scanned'
    BY <1>k, <2>1, <2>2, <2>3 DEF IInv, Scanned, IsSequence, Size
  <2> QED
    BY <1>k, <2>1, <2>4, NumberingKept
<1>6. CASE PublishCheckpoint
  <2>1. cp' = work /\ work' = <<>> /\ base' = 0
    BY <1>6 DEF PublishCheckpoint
  <2>2. SequenceDense'
    BY <1>k, <2>1 DEF IInv, SequenceDense, Scanned, Size
  <2>3. Scanned'
    BY <1>k, <2>1, EmptyIsSequence DEF IInv, Scanned, IsSequence, Size
  <2> QED
    BY <2>2, <2>3
<1> QED
  BY <1>1, <1>2, <1>3, <1>4, <1>5, <1>6 DEF IntegrateStep

-----------------------------------------------------------------------------
\* Every step of the log keeps the invariant.
LEMMA NextInv == IInv /\ [Next]_vars => IInv'
<1> SUFFICES ASSUME IInv, [Next]_vars PROVE IInv'
  OBVIOUS
<1>1. CASE UNCHANGED vars
  <2>1. UNCHANGED <<seq, nextSeq, spc, entry, leafIdx, cp, work, base>>
    BY <1>1 DEF vars, files, svars, ivars
  <2>2. SequencersTyped' /\ Numbered'
    BY <2>1 DEF IInv, SequencersTyped, Numbered
  <2> QED
    BY <2>1, <2>2, NumberingKept, ScanKept, LeafIndexKept DEF IInv
<1>2. ASSUME NEW p \in Sequencers,
             \/ StartSequence(p) \/ ExitSequence(p)
             \/ \E x \in Leaf : Sequence(p, x)
             \/ SequenceStep(p)
             \/ SequenceError(p) \/ KillSequence(p)
      PROVE  IInv'
  BY <1>2, QuietStepInv, StartSequenceInv, SkipTakenInv, LinkSeqInv, LinkLeafInv
     DEF SequenceStep
<1>3. CASE \/ Initialise \/ InitialiseFails \/ StartIntegrate \/ IntegrateStep
           \/ KillIntegrate
  BY <1>3, IntegrateKeeps, IntegrateInv DEF IInv
<1> QED
  BY <1>1, <1>2, <1>3 DEF Next

\* The invariant holds in every reachable state.
LEMMA InductiveInvariant == Spec => []IInv
  BY InitInv, NextInv, PTL DEF Spec

(***************************************************************************)
(* The sequence numbers in use never have a gap, and neither nextSeq nor   *)
(* the size of the checkpoint is ever ahead of them, although sequence     *)
(* commands share no lock and may die anywhere: link is exclusive, and a   *)
(* number is only passed over once it is taken.                            *)
(***************************************************************************)
THEOREM SequenceHasNoGaps == Spec => []SequenceDense
<1>1. IInv => SequenceDense
  BY DEF IInv
<1> QED
  BY <1>1, InductiveInvariant, PTL

(***************************************************************************)
(* A leaf hash file always names a number at which that leaf is stored.    *)
(***************************************************************************)
THEOREM LeafIndexIsSound == Spec => []LeafIndexSound
<1>1. IInv => LeafIndexSound
  BY DEF IInv
<1> QED
  BY <1>1, InductiveInvariant, PTL

(***************************************************************************)
(* An entry keeps its number for good: of all the steps of all commands    *)
(* only LinkSeq touches the sequence, and it never replaces a file.        *)
(***************************************************************************)
THEOREM EntriesAreFinal == Spec => EntriesImmutable
<1> DEFINE Kept == \A i \in DOMAIN seq : i \in DOMAIN seq' /\ seq'[i] = seq[i]
<1>1. ASSUME [Next]_vars PROVE Kept
  <2>0. seq' = seq => Kept
    OBVIOUS
  <2>1. CASE UNCHANGED vars
    BY <2>1, <2>0 DEF vars, files
  <2>2. ASSUME NEW p \in Sequencers, LinkSeq(p) PROVE Kept
    BY <2>2 DEF LinkSeq, Put
  <2>3. ASSUME NEW p \in Sequencers,
               \/ StartSequence(p) \/ ExitSequence(p)
               \/ \E x \in Leaf : Sequence(p, x)
               \/ SequenceError(p) \/ KillSequence(p)
        PROVE  Kept
    BY <2>3, <2>0
       DEF StartSequence, ExitSequence, Sequence, SequenceError, KillSequence, files
  <2>4. ASSUME NEW p \in Sequencers,
               \/ CreatePending(p) \/ SkipTaken(p) \/ CreateLeafTmp(p)
               \/ LinkLeaf(p) \/ RemoveLeafTmp(p) \/ RemovePending(p)
        PROVE  Kept
    BY <2>4, <2>0 DEF CreatePending, SkipTaken, CreateLeafTmp, LinkLeaf,
                      RemoveLeafTmp, RemovePending, files
  <2>5. CASE \/ Initialise \/ InitialiseFails \/ StartIntegrate \/ IntegrateStep
             \/ KillIntegrate
    BY <2>5, <2>0, IntegrateTouchesNothing
  <2> QED
    BY <1>1, <2>1, <2>2, <2>3, <2>4, <2>5 DEF Next, SequenceStep
<1>2. [Next]_vars => [Kept]_vars
  BY <1>1
<1> QED
  BY <1>2, PTL DEF Spec, EntriesImmutable

-----------------------------------------------------------------------------
(***************************************************************************)
(* Published checkpoints stay provable.  Every file of a tile has exactly  *)
(* the nodes that its name says, and they are the hashes of the entries as *)
(* they are sequenced; so a file may be replaced by any file of the same   *)
(* tile that has more nodes, and what a dead command left behind does no   *)
(* harm.  A tree is complete when there is a file for each of its tiles.   *)
(***************************************************************************)

\* The nodes of a tile with f nodes in its bottom row.
NodesOK(sq, tile, nodes, f) ==
    /\ DOMAIN nodes = Keys(f)
    /\ \A k \in Keys(f) :
          /\ 0..(Last(NodeAt(tile, k)) - 1) \subseteq DOMAIN sq
          /\ nodes[k] = HashOf(sq, NodeAt(tile, k))

FilesOK(sq, ts) ==
    \A p \in DOMAIN ts :
        /\ p \in Nat \X Nat \X (0..(TileWidth - 1))
        /\ NodesOK(sq, <<p[1], p[2]>>, ts[p], RowOf(p))

\* Files of partial tiles whose full tile is there.
PartialsOK(ts, S) ==
    \A p \in S : /\ p \in Nat \X Nat \X (1..(TileWidth - 1))
                 /\ TilePath(p, 0) \in DOMAIN ts

\* There is a file for each tile of a tree of n leaves.
Complete(n) ==
    \A tile \in Nat \X Nat : Fill(tile, n) > 0 => Stored(TileFile(tile, n))

\* And it can be read: no such file is a symlink that dangles.
Readable(n) ==
    \A tile \in Nat \X Nat : Fill(tile, n) > 0 => Exists(TileFile(tile, n))

\* The tiles that are yet to be stored, and those that need not be.
DirtyOK ==
    /\ \A tile \in DOMAIN dirty :
          /\ tile \in Nat \X Nat /\ Fill(tile, Size(work)) > 0
          /\ NodesOK(seq, tile, dirty[tile], Fill(tile, Size(work)))
    /\ \A tile \in Nat \X Nat :
          Fill(tile, Size(work)) > 0 =>
              tile \in DOMAIN dirty \/ Stored(TileFile(tile, Size(work)))

\* What the integrate command has, at each point.
WorkOK ==
    /\ Agrees(seq, work)
    /\ ipc \in {"range", "scan", "store", "rename"} => cp # None /\ base = Size(cp)
    /\ ipc \in {"scan", "store", "rename"} => base <= Size(work)
    /\ ipc = "scan" => Readable(base)
    /\ ipc \in {"store", "rename"} => DirtyOK
    /\ ipc \in {"checkpoint", "move"} => Complete(Size(work))

TilesOK ==
    FilesOK(seq, tiles) /\ PartialsOK(tiles, links) /\ PartialsOK(tiles, relink)

PublishedOK ==
    /\ \A t \in published : Agrees(seq, t) /\ Complete(Size(t))
    /\ cp # None => cp \in published

TInv == TilesOK /\ PublishedOK /\ WorkOK

-----------------------------------------------------------------------------
(* Lemmas about files and trees. *)

\* Sequencing more entries changes no hash.
LEMMA NodesStay ==
    ASSUME NEW sq, NEW sr, \A i \in DOMAIN sq : i \in DOMAIN sr /\ sr[i] = sq[i],
           NEW tile \in Nat \X Nat, NEW f \in 0..TileWidth, NEW nodes,
           NodesOK(sq, tile, nodes, f)
    PROVE  NodesOK(sr, tile, nodes, f)
<1> SUFFICES ASSUME NEW k \in Keys(f)
             PROVE  /\ 0..(Last(NodeAt(tile, k)) - 1) \subseteq DOMAIN sr
                    /\ nodes[k] = HashOf(sr, NodeAt(tile, k))
  BY DEF NodesOK
<1>1. PICK node \in Nat \X Nat : node = NodeAt(tile, k)
  BY RowFacts, AddressAt
<1>2. PICK a \in Nat, z \in Nat, x \in Nat \ {0} :
         a = First(node) /\ z = Last(node) /\ x = Pow2[node[1]] /\ z = a + x
  BY NodeFacts
<1>3. 0..(z - 1) \subseteq DOMAIN sq /\ nodes[k] = HashOf(sq, node)
  BY <1>1, <1>2 DEF NodesOK
<1>4. ASSUME NEW j \in 1..x PROVE sr[a + (j - 1)] = sq[a + (j - 1)]
  <2>1. a + (j - 1) \in 0..(z - 1)
    BY <1>2
  <2> QED
    BY <1>3, <2>1
<1>5. HashOf(sr, node) = HashOf(sq, node)
  BY <1>2, <1>4 DEF HashOf, Part
<1> QED
  BY <1>1, <1>2, <1>3, <1>5

\* So the files stay as they should be.
LEMMA FilesStay ==
    ASSUME NEW sq, NEW sr, \A i \in DOMAIN sq : i \in DOMAIN sr /\ sr[i] = sq[i],
           NEW ts, FilesOK(sq, ts)
    PROVE  FilesOK(sr, ts)
<1> SUFFICES ASSUME NEW p \in DOMAIN ts
             PROVE  /\ p \in Nat \X Nat \X (0..(TileWidth - 1))
                    /\ NodesOK(sr, <<p[1], p[2]>>, ts[p], RowOf(p))
  BY DEF FilesOK
<1>1. /\ p \in Nat \X Nat \X (0..(TileWidth - 1))
      /\ NodesOK(sq, <<p[1], p[2]>>, ts[p], RowOf(p))
  BY DEF FilesOK
<1>2. RowOf(p) \in 0..TileWidth /\ <<p[1], p[2]>> \in Nat \X Nat
  BY <1>1, RowOfFacts, TileFacts
<1> QED
  BY <1>1, <1>2, NodesStay

\* What a file says of its tile: it has at least the nodes of its name.
LEMMA FileRead ==
    ASSUME TilesOK, NEW tile \in Nat \X Nat, NEW s \in 0..(TileWidth - 1),
           NEW p, p = TilePath(tile, s), Stored(p)
    PROVE  \E g \in 1..TileWidth : /\ g = TileWidth \/ g = RowOf(p)
                                   /\ NodesOK(seq, tile, Content(p), g)
<1>1. /\ p = <<tile[1], tile[2], s>> /\ p[1] = tile[1] /\ p[2] = tile[2] /\ p[3] = s
      /\ <<p[1], p[2]>> = tile /\ p \in Nat \X Nat \X (0..(TileWidth - 1))
  BY DEF TilePath
<1>2. TileWidth \in Nat \ {0}
  BY TileFacts
<1>3. CASE p \in links
  <2> DEFINE q == TilePath(p, 0)
  <2>1. Content(p) = tiles[q] /\ q \in DOMAIN tiles
    BY <1>3 DEF TilesOK, PartialsOK, Content
  <2>2. q[1] = tile[1] /\ q[2] = tile[2] /\ q[3] = 0
    BY <1>1 DEF TilePath
  <2>3. NodesOK(seq, <<q[1], q[2]>>, tiles[q], RowOf(q)) /\ RowOf(q) = TileWidth
    BY <2>1, <2>2 DEF TilesOK, FilesOK, RowOf
  <2>4. <<q[1], q[2]>> = tile
    BY <2>2
  <2>5. NodesOK(seq, tile, Content(p), TileWidth)
    BY <2>1, <2>3, <2>4
  <2> QED
    BY <1>2, <2>5
<1>4. CASE p \notin links
  <2>1. p \in DOMAIN tiles /\ Content(p) = tiles[p]
    BY <1>4 DEF Stored, Content
  <2>2. NodesOK(seq, <<p[1], p[2]>>, tiles[p], RowOf(p))
    BY <2>1 DEF TilesOK, FilesOK
  <2>3. NodesOK(seq, tile, Content(p), RowOf(p))
    BY <1>1, <2>1, <2>2
  <2>4. RowOf(p) \in 1..TileWidth
    BY <1>1, RowOfFacts
  <2> QED
    BY <2>3, <2>4
<1> QED
  BY <1>3, <1>4

\* The row that the file of a tile in a tree of n leaves is named after.
LEMMA FileRow ==
    ASSUME NEW tile \in Nat \X Nat, NEW n \in Nat
    PROVE  /\ TileFile(tile, n) = TilePath(tile, PartialTileSize(tile[1], tile[2], n))
           /\ PartialTileSize(tile[1], tile[2], n) \in 0..(TileWidth - 1)
           /\ Fill(tile, n) \in 0..TileWidth
           /\ Fill(tile, n) > 0 => /\ RowOf(TileFile(tile, n)) = Fill(tile, n)
                                   /\ TileFile(tile, n) = TilePath(tile, Fill(tile, n) % TileWidth)
<1>1. /\ PartialTileSize(tile[1], tile[2], n) \in 0..(TileWidth - 1)
      /\ Fill(tile, n) \in 0..TileWidth
      /\ Fill(tile, n) > 0 => PartialTileSize(tile[1], tile[2], n) = Fill(tile, n) % TileWidth
  BY FillFacts
<1>2. PICK W \in Nat \ {0} : W = TileWidth
  BY TileFacts
<1>3. PICK f \in 0..W : f = Fill(tile, n)
  BY <1>1, <1>2
<1>4. f > 0 => (f % W = 0 /\ f = W) \/ (f % W = f /\ f # 0)
  OBVIOUS
<1>5. TileFile(tile, n) = TilePath(tile, PartialTileSize(tile[1], tile[2], n))
  BY DEF TileFile
<1>6. TileFile(tile, n)[3] = PartialTileSize(tile[1], tile[2], n)
  BY <1>5 DEF TilePath
<1> QED
  BY <1>1, <1>2, <1>3, <1>4, <1>5, <1>6 DEF RowOf

\* The number of a node in its tile is a number.
LEMMA KeyIsInt == ASSUME NEW k \in Keys(TileWidth) PROVE TileNodeKey(k) \in Int
<1>1. k[1] \in Nat /\ k[2] \in Nat
  BY KeyFacts
<1>2. Pow2[k[1]] \in Nat /\ Pow2[k[1] + 1] \in Nat
  BY <1>1, Pow2Facts
<1> QED
  BY <1>1, <1>2 DEF TileNodeKey

\* Every node of a complete tree is stored, with the hash of the entries, and
\* can be read where its file does not dangle.
LEMMA ReadNode ==
    ASSUME TilesOK, NEW n \in Nat, Complete(n),
           NEW node \in Nat \X Nat, NEW m \in Nat, m = Last(node), m <= n
    PROVE  /\ Stored(NodeFile(node, n)) /\ GetNode(node, n) = HashOf(seq, node)
           /\ 0..(m - 1) \subseteq DOMAIN seq
           /\ HasNode(node, n) \/ Dangles(NodeFile(node, n))
<1>1. PICK tile \in Nat \X Nat, k \in Keys(TileWidth) :
         /\ tile = NodeCoordsToTileAddress(node).tile
         /\ k = NodeCoordsToTileAddress(node).node
         /\ NodeAt(tile, k) = node
  BY AddressOf
<1> DEFINE p == TileFile(tile, n)
<1>2. PICK f \in 0..TileWidth : f = Fill(tile, n)
  BY FileRow
<1>3. PICK c \in 1..TileWidth : c = Top(k)
  BY KeyFacts
<1>4. TileWidth \in Nat \ {0}
  BY TileFacts
<1>5. c <= f
  BY <1>1, <1>2, <1>3, InTree
<1>6. f > 0
  BY <1>3, <1>4, <1>5
<1>7. Stored(p)
  BY <1>2, <1>6 DEF Complete
<1>8. RowOf(p) = f
  BY <1>2, <1>6, FileRow
<1>9. PICK g \in 1..TileWidth : /\ g = TileWidth \/ g = RowOf(p)
                                /\ NodesOK(seq, tile, Content(p), g)
  <2>1. PICK s \in 0..(TileWidth - 1) : p = TilePath(tile, s)
    BY FileRow
  <2> HIDE DEF p
  <2> QED
    BY <1>7, <2>1, FileRead
<1>10. c <= g
  BY <1>2, <1>3, <1>4, <1>5, <1>8, <1>9
<1>11. k \in Keys(g)
  BY <1>3, <1>10 DEF Keys
<1>12. k \in DOMAIN Content(p) /\ Content(p)[k] = HashOf(seq, node)
       /\ 0..(m - 1) \subseteq DOMAIN seq
  BY <1>1, <1>9, <1>11 DEF NodesOK
<1>13. p = NodeFile(node, n)
  BY <1>1 DEF NodeFile
<1>14. HasNode(node, n) \/ Dangles(p)
  <2>1. TileNodeKey(k) <= TileNodeKey(k)
    BY KeyIsInt
  <2> QED
    BY <1>1, <1>7, <1>12, <2>1 DEF HasNode, Exists
<1>15. GetNode(node, n) = HashOf(seq, node)
  BY <1>1, <1>12 DEF GetNode
<1> QED
  BY <1>7, <1>12, <1>13, <1>14, <1>15

\* The compact range of a complete tree is that of the entries.
LEMMA RangeRead ==
    ASSUME TilesOK, NEW n \in Nat, Complete(n)
    PROVE  Agrees(seq, RangeTree(n)) /\ Len(RangeTree(n)) = n
<1>1. ASSUME NEW node \in RangeNodes(n)
      PROVE  /\ node \in Nat \X Nat /\ First(node) \in Nat /\ Last(node) \in Nat
             /\ Last(node) = First(node) + Pow2[node[1]] /\ Pow2[node[1]] \in Nat
             /\ GetNode(node, n) = HashOf(seq, node)
             /\ 0..(Last(node) - 1) \subseteq DOMAIN seq
  <2>1. node \in Nat \X Nat /\ Last(node) <= n
    BY RangeNodesInTree
  <2>2. /\ First(node) \in Nat /\ Last(node) \in Nat /\ Pow2[node[1]] \in Nat
        /\ Last(node) = First(node) + Pow2[node[1]]
    BY <2>1, NodeFacts
  <2>3. /\ GetNode(node, n) = HashOf(seq, node)
        /\ 0..(Last(node) - 1) \subseteq DOMAIN seq
    BY <2>1, <2>2, ReadNode
  <2> QED
    BY <2>1, <2>2, <2>3
<1> DEFINE N(i) == CHOOSE m \in RangeNodes(n) : First(m) < i /\ i <= Last(m)
           t == [i \in 1..n |-> GetNode(N(i), n)[i - First(N(i))]]
<1>3. RangeTree(n) = t
  BY DEF RangeTree
<1>4. ASSUME NEW i \in 1..n
      PROVE  i - 1 \in DOMAIN seq /\ seq[i - 1] = t[i]
  <2>1. N(i) \in RangeNodes(n) /\ First(N(i)) < i /\ i <= Last(N(i))
    BY RangeCovers
  <2>2. t[i] = GetNode(N(i), n)[i - First(N(i))]
    OBVIOUS
  <2> HIDE DEF N, t
  <2>3. PICK a \in Nat, x \in Nat :
           /\ a = First(N(i)) /\ x = Pow2[N(i)[1]] /\ Last(N(i)) = a + x
           /\ GetNode(N(i), n) = Part(seq, a, x) /\ 0..((a + x) - 1) \subseteq DOMAIN seq
    BY <1>1, <2>1 DEF HashOf
  <2>4. a < i /\ i <= a + x
    BY <2>1, <2>3
  <2>5. i - a \in 1..x /\ a + ((i - a) - 1) = i - 1 /\ i - 1 \in 0..((a + x) - 1)
    BY <2>4
  <2>6. Part(seq, a, x)[i - a] = seq[a + ((i - a) - 1)]
    BY <2>5 DEF Part
  <2>7. t[i] = Part(seq, a, x)[i - a]
    BY <2>2, <2>3
  <2> QED
    BY <2>3, <2>5, <2>6, <2>7
<1>5. IsSequence(t) /\ Len(t) = n
  <2>1. t = [i \in 1..n |-> t[i]]
    OBVIOUS
  <2> HIDE DEF t
  <2> QED
    BY <2>1, FunctionIsSequence
<1> HIDE DEF t
<1> QED
  BY <1>3, <1>4, <1>5 DEF Agrees

\* A full row is stored without a suffix.
LEMMA FullRow == TileWidth % TileWidth = 0
<1>1. TileWidth \in Nat \ {0}
  BY TileFacts
<1>2. (1 * TileWidth + 0) % TileWidth = 0
  BY <1>1, DivUnique
<1> QED
  BY <1>1, <1>2

\* A complete tree whose range was read can be read all over: each partial tile
\* has a node of the range, and no full tile is a symlink.
LEMMA RangeReadable ==
    ASSUME TilesOK, NEW n \in Nat, Complete(n), HasRange(n)
    PROVE  Readable(n)
<1> SUFFICES ASSUME NEW tile \in Nat \X Nat, Fill(tile, n) > 0
             PROVE  Exists(TileFile(tile, n))
  BY DEF Readable
<1>1. Fill(tile, n) \in 0..TileWidth /\ TileWidth \in Nat \ {0}
  BY FileRow, TileFacts
<1>2. CASE Fill(tile, n) < TileWidth
  <2>1. PICK node \in RangeNodes(n) : NodeCoordsToTileAddress(node).tile = tile
    BY <1>2, PartialInRange
  <2>2. HasNode(node, n)
    BY <2>1 DEF HasRange
  <2> QED
    BY <2>1, <2>2 DEF HasNode
<1>3. CASE Fill(tile, n) = TileWidth
  <2>1. TileFile(tile, n) = TilePath(tile, 0)
    BY <1>1, <1>3, FullRow, FileRow
  <2>2. TileFile(tile, n)[3] = 0
    BY <2>1 DEF TilePath
  <2>3. TileFile(tile, n) \notin links
    BY <1>1, <2>2 DEF TilesOK, PartialsOK
  <2> QED
    BY <2>3 DEF Complete, Exists, Dangles
<1> QED
  BY <1>1, <1>2, <1>3

\* The compact range of a tree that can be read is read.
LEMMA ReadableHasRange ==
    ASSUME TilesOK, NEW n \in Nat, Complete(n), Readable(n)
    PROVE  HasRange(n)
<1> SUFFICES ASSUME NEW node \in RangeNodes(n) PROVE HasNode(node, n)
  BY DEF HasRange
<1>1. node \in Nat \X Nat /\ Last(node) <= n /\ Last(node) \in Nat
  BY RangeNodesInTree, NodeFacts
<1>2. HasNode(node, n) \/ Dangles(NodeFile(node, n))
  BY <1>1, ReadNode
<1>3. PICK tile \in Nat \X Nat, k \in Keys(TileWidth) :
         tile = NodeCoordsToTileAddress(node).tile /\ NodeAt(tile, k) = node
  BY <1>1, AddressOf
<1>4. Fill(tile, n) > 0
  <2>1. Top(k) <= Fill(tile, n)
    BY <1>1, <1>3, InTree
  <2> QED
    BY <2>1, KeyFacts, FileRow, TileFacts
<1>5. Exists(NodeFile(node, n))
  BY <1>3, <1>4 DEF Readable, NodeFile
<1> QED
  BY <1>2, <1>5 DEF Exists

\* What Visit makes of a tile has the nodes of the new tree, also when the
\* file it starts from was left by a command that died.
LEMMA VisitedTileOK ==
    ASSUME TilesOK, base \in Nat, Readable(base), Agrees(seq, work),
           NEW n \in Nat, n = Size(work), base <= n, DOMAIN seq \subseteq 0..(n - 1),
           NEW tile \in Nat \X Nat
    PROVE  NodesOK(seq, tile, VisitedTile(tile), Fill(tile, n))
<1> DEFINE p == TileFile(tile, base)
           old == IF Exists(p) THEN Content(p) ELSE NoFiles
           Key(node) == NodeCoordsToTileAddress(node).node
           new == {node \in VisitedNodes(base, n) : NodeCoordsToTileAddress(node).tile = tile}
           v == VisitedTile(tile)
<1>1. v = [k \in DOMAIN old \cup {Key(node) : node \in new} |->
             IF \E node \in new : Key(node) = k
             THEN NodeHash(work, CHOOSE node \in new : Key(node) = k)
             ELSE old[k]]
  BY DEF VisitedTile
<1>2. PICK f \in 0..TileWidth : f = Fill(tile, n)
  BY FileRow
<1>3. TileWidth \in Nat \ {0} /\ Keys(f) \subseteq Keys(TileWidth)
  BY RowFacts, TileFacts
<1>4. ASSUME NEW k \in Keys(TileWidth)
      PROVE  /\ NodeAt(tile, k) \in Nat \X Nat /\ Last(NodeAt(tile, k)) \in Nat
             /\ Key(NodeAt(tile, k)) = k
             /\ NodeCoordsToTileAddress(NodeAt(tile, k)).tile = tile
             /\ k \in Keys(f) <=> Last(NodeAt(tile, k)) <= n
  <2>1. /\ NodeAt(tile, k) \in Nat \X Nat
        /\ NodeCoordsToTileAddress(NodeAt(tile, k)) = [tile |-> tile, node |-> k]
    BY AddressAt
  <2>2. Last(NodeAt(tile, k)) <= n <=> Top(k) <= f
    BY <1>2, InTree
  <2>3. k \in Keys(f) <=> Top(k) <= f
    BY DEF Keys
  <2> QED
    BY <2>1, <2>2, <2>3, LastIsNat
<1>5. ASSUME NEW node \in new
      PROVE  /\ Key(node) \in Keys(f) /\ node = NodeAt(tile, Key(node))
             /\ base < Last(node)
  <2>1. node \in Nat \X Nat /\ base < Last(node) /\ Last(node) <= n
    BY VisitedIs
  <2>2. Key(node) \in Keys(TileWidth) /\ NodeAt(tile, Key(node)) = node
    BY <2>1, AddressOf
  <2> QED
    BY <1>4, <2>1, <2>2
<1>6. ASSUME NEW k \in Keys(f), base < Last(NodeAt(tile, k))
      PROVE  /\ NodeAt(tile, k) \in new /\ Key(NodeAt(tile, k)) = k
             /\ (CHOOSE node \in new : Key(node) = k) = NodeAt(tile, k)
  <2>1. NodeAt(tile, k) \in new /\ Key(NodeAt(tile, k)) = k
    BY <1>3, <1>4, <1>6, VisitedIs
  <2> HIDE DEF new, Key
  <2>2. \A node \in new : Key(node) = k => node = NodeAt(tile, k)
    BY <1>5
  <2> QED
    BY <2>1, <2>2
<1>7. ASSUME NEW k \in Keys(f)
      PROVE  0..(Last(NodeAt(tile, k)) - 1) \subseteq DOMAIN seq
  <2>1. PICK m \in Nat : m = Last(NodeAt(tile, k)) /\ m <= n
    BY <1>3, <1>4
  <2>2. ASSUME NEW i \in 0..(m - 1) PROVE i \in DOMAIN seq
    <3>1. i + 1 \in 1..n /\ (i + 1) - 1 = i
      BY <2>1
    <3> QED
      BY <3>1 DEF Agrees, Size
  <2> QED
    BY <2>1, <2>2
\* The old file, if there is one.
<1>8. /\ DOMAIN old \subseteq Keys(f)
      /\ \A k \in DOMAIN old : old[k] = HashOf(seq, NodeAt(tile, k))
      /\ Fill(tile, base) > 0 => Keys(Fill(tile, base)) \subseteq DOMAIN old
  <2>1. CASE Exists(p)
    <3>1. PICK g \in 1..TileWidth : /\ g = TileWidth \/ g = RowOf(p)
                                    /\ NodesOK(seq, tile, Content(p), g)
      <4>1. PICK s \in 0..(TileWidth - 1) : p = TilePath(tile, s)
        BY FileRow
      <4> HIDE DEF p
      <4> QED
        BY <2>1, <4>1, FileRead DEF Exists
    <3>2. Keys(g) \subseteq Keys(TileWidth)
      BY RowFacts
    <3>3. Keys(g) \subseteq Keys(f)
      <4> SUFFICES ASSUME NEW k \in Keys(g) PROVE k \in Keys(f)
        OBVIOUS
      <4>1. PICK m \in Nat : m = Last(NodeAt(tile, k)) /\ 0..(m - 1) \subseteq DOMAIN seq
        BY <1>4, <3>1, <3>2 DEF NodesOK
      <4>2. m <= n
        <5>1. CASE m = 0
          BY <5>1
        <5>2. CASE m > 0
          <6>1. m - 1 \in 0..(m - 1)
            BY <5>2
          <6>2. m - 1 \in 0..(n - 1)
            BY <4>1, <6>1
          <6> QED
            BY <6>2
        <5> QED
          BY <5>1, <5>2
      <4> QED
        BY <1>4, <3>2, <4>1, <4>2
    <3>4. old = Content(p)
      BY <2>1
    <3>5. Fill(tile, base) > 0 => Keys(Fill(tile, base)) \subseteq Keys(g)
      <4> SUFFICES ASSUME Fill(tile, base) > 0, NEW k \in Keys(Fill(tile, base))
                   PROVE  k \in Keys(g)
        OBVIOUS
      <4>1. PICK b \in 0..TileWidth : b = Fill(tile, base) /\ RowOf(p) = b
        BY FileRow
      <4>2. b <= g
        BY <1>3, <3>1, <4>1
      <4>3. k \in Keys(TileWidth) /\ Top(k) <= b
        BY <4>1, RowFacts DEF Keys
      <4>4. Top(k) \in Nat
        BY <4>3, KeyFacts
      <4>5. Top(k) <= g
        BY <4>2, <4>3, <4>4
      <4> QED
        BY <4>3, <4>5 DEF Keys
    <3> HIDE DEF old
    <3> QED
      BY <3>1, <3>3, <3>4, <3>5 DEF NodesOK
  <2>2. CASE ~Exists(p)
    <3>1. ~(Fill(tile, base) > 0)
      BY <2>2 DEF Readable
    <3>2. old = NoFiles /\ DOMAIN old = {}
      BY <2>2 DEF NoFiles
    <3> QED
      BY <3>1, <3>2
  <2> QED
    BY <2>1, <2>2
<1> HIDE DEF old, Key, new
<1>9. Keys(f) \subseteq DOMAIN old \cup {Key(node) : node \in new}
  <2> SUFFICES ASSUME NEW k \in Keys(f), ~(base < Last(NodeAt(tile, k)))
               PROVE  k \in DOMAIN old
    BY <1>6
  <2>1. k \in Keys(TileWidth)
    BY <1>3
  <2>2. Last(NodeAt(tile, k)) <= base
    BY <1>4, <2>1
  <2>3. Top(k) <= Fill(tile, base)
    BY <2>1, <2>2, InTree
  <2>4. k \in Keys(Fill(tile, base))
    BY <2>3 DEF Keys
  <2>5. Fill(tile, base) > 0
    BY <2>1, <2>3, KeyFacts, FileRow, TileFacts
  <2> QED
    BY <1>8, <2>4, <2>5
<1>10. DOMAIN v = Keys(f)
  <2>1. DOMAIN v = DOMAIN old \cup {Key(node) : node \in new}
    BY <1>1
  <2> QED
    BY <1>5, <1>8, <1>9, <2>1
<1>11. ASSUME NEW k \in Keys(f)
       PROVE  v[k] = HashOf(seq, NodeAt(tile, k))
  <2>1. CASE base < Last(NodeAt(tile, k))
    <3>1. v[k] = NodeHash(work, NodeAt(tile, k))
      BY <1>1, <1>6, <1>9, <2>1
    <3>2. NodeAt(tile, k) \in Nat \X Nat /\ Last(NodeAt(tile, k)) \in Nat
          /\ Last(NodeAt(tile, k)) <= n
      BY <1>3, <1>4
    <3>3. NodeHash(work, NodeAt(tile, k)) = HashOf(seq, NodeAt(tile, k))
      BY <3>2, NodeHashIs DEF Size
    <3> QED
      BY <3>1, <3>3
  <2>2. CASE ~(base < Last(NodeAt(tile, k)))
    <3>1. ~\E node \in new : Key(node) = k
      BY <1>5, <2>2
    <3>2. k \in DOMAIN old
      BY <1>9, <3>1
    <3>3. v[k] = old[k]
      BY <1>1, <3>1, <3>2
    <3> QED
      BY <1>8, <3>2, <3>3
  <2> QED
    BY <2>1, <2>2
<1> HIDE DEF v
<1> QED
  BY <1>2, <1>7, <1>10, <1>11 DEF NodesOK, v

\* StoreTile finds the size of a tile in its nodes.
LEMMA NumLeavesIs ==
    ASSUME NEW nodes, NEW f \in 1..TileWidth, DOMAIN nodes = Keys(f)
    PROVE  NumLeaves(nodes) = f
<1>1. TileWidth \in Nat \ {0} /\ f \in 0..TileWidth /\ f \in Nat
  BY TileFacts
<1> DEFINE S == {k[2] : k \in {m \in DOMAIN nodes : m[1] = 0}}
<1>2. S = 0..(f - 1)
  <2>1. ASSUME NEW o \in S PROVE o \in 0..(f - 1)
    <3>1. PICK k \in Keys(f) : k[1] = 0 /\ o = k[2]
      OBVIOUS
    <3>2. k = <<0, o>> /\ o \in Nat
      BY <3>1 DEF Keys
    <3>3. o < f
      BY <1>1, <3>1, <3>2, RowFacts
    <3> QED
      BY <1>1, <3>2, <3>3
  <2>2. ASSUME NEW o \in 0..(f - 1) PROVE o \in S
    <3>1. <<0, o>> \in Keys(f)
      BY <1>1, RowFacts
    <3>2. <<0, o>>[1] = 0 /\ <<0, o>>[2] = o
      OBVIOUS
    <3> QED
      BY <3>1, <3>2
  <2> QED
    BY <2>1, <2>2
<1>3. NumLeaves(nodes) = 1 + Max(S)
  BY DEF NumLeaves
<1> HIDE DEF S
<1>4. Max(S) = f - 1
  <2>1. f - 1 \in S /\ \A y \in S : f - 1 >= y
    BY <1>1, <1>2
  <2>2. \A x \in S : (\A y \in S : x >= y) => x = f - 1
    BY <1>1, <1>2, <2>1
  <2> QED
    BY <2>1, <2>2 DEF Max
<1> QED
  BY <1>1, <1>3, <1>4

-----------------------------------------------------------------------------
(* The steps. *)

\* A tree of no leaves has no tiles.
LEMMA EmptyComplete == Complete(0)
BY FillOfEmpty DEF Complete

\* A complete tree stays complete while no file of a tile goes away.
LEMMA CompleteStays ==
    ASSUME NEW n, Complete(n), \A p : Stored(p) => Stored(p)'
    PROVE  Complete(n)'
BY DEF Complete, TileFile

\* Steps that leave the files of the tiles alone.
LEMMA StoredStays ==
    ASSUME UNCHANGED <<tiles, links>>
    PROVE  \A p : Stored(p) => Stored(p)'
BY DEF Stored

\* And a tree that can be read stays so.
LEMMA ReadableStays ==
    ASSUME Readable(base), UNCHANGED <<root, tiles, links, base>>
    PROVE  Readable(base)'
BY DEF Readable, Exists, Stored, Dangles, TileFile

\* What was published stays as it was.
LEMMA PublishedStays ==
    ASSUME TInv, \A i \in DOMAIN seq : i \in DOMAIN seq' /\ seq'[i] = seq[i],
           \A p : Stored(p) => Stored(p)', UNCHANGED <<published, cp>>
    PROVE  PublishedOK'
<1>1. ASSUME NEW t \in published PROVE Agrees(seq', t) /\ Complete(Size(t))'
  <2>1. Agrees(seq, t) /\ Complete(Size(t))
    BY DEF TInv, PublishedOK
  <2>2. Agrees(seq', t)
    BY <2>1, AgreesStays
  <2>3. PICK n : n = Size(t)
    OBVIOUS
  <2>4. Complete(n)'
    BY <2>1, <2>3, CompleteStays
  <2> QED
    BY <2>2, <2>3, <2>4 DEF Complete, TileFile, Stored
<1> QED
  BY <1>1 DEF TInv, PublishedOK, Agrees

\* Steps that leave the files of the tiles and the checkpoints alone.
LEMMA FilesKept ==
    ASSUME TInv, \A i \in DOMAIN seq : i \in DOMAIN seq' /\ seq'[i] = seq[i],
           UNCHANGED <<tiles, links, published, cp>>, relink' \subseteq relink
    PROVE  TilesOK' /\ PublishedOK'
<1>1. FilesOK(seq', tiles)
  BY FilesStay DEF TInv, TilesOK
<1>2. PartialsOK(tiles, links) /\ PartialsOK(tiles, relink')
  BY DEF TInv, TilesOK, PartialsOK
<1>3. TilesOK'
  BY <1>1, <1>2 DEF TilesOK, FilesOK, PartialsOK
<1> QED
  BY <1>3, StoredStays, PublishedStays

\* The tiles that are yet to be stored, while entries are sequenced.
LEMMA DirtyStays ==
    ASSUME DirtyOK, \A i \in DOMAIN seq : i \in DOMAIN seq' /\ seq'[i] = seq[i],
           UNCHANGED <<tiles, links, dirty, work>>, Size(work) \in Nat
    PROVE  DirtyOK'
<1>1. PICK n \in Nat : n = Size(work)
  OBVIOUS
<1>2. ASSUME NEW tile \in DOMAIN dirty
      PROVE  /\ tile \in Nat \X Nat /\ Fill(tile, n) > 0
             /\ NodesOK(seq', tile, dirty[tile], Fill(tile, n))
  <2>1. /\ tile \in Nat \X Nat /\ Fill(tile, n) > 0
        /\ NodesOK(seq, tile, dirty[tile], Fill(tile, n))
    BY <1>1 DEF DirtyOK
  <2>2. Fill(tile, n) \in 0..TileWidth
    BY <2>1, FileRow
  <2> QED
    BY <2>1, <2>2, NodesStay
<1>3. ASSUME NEW tile \in Nat \X Nat, Fill(tile, n) > 0
      PROVE  tile \in DOMAIN dirty \/ Stored(TileFile(tile, n))
  BY <1>1, <1>3 DEF DirtyOK
<1>4. Size(work)' = n
  BY <1>1
<1> QED
  BY <1>2, <1>3, <1>4 DEF DirtyOK, Stored, TileFile

\* Every step that only sequences, and every step that stutters.
LEMMA SequencingKeeps ==
    ASSUME IInv, TInv, \A i \in DOMAIN seq : i \in DOMAIN seq' /\ seq'[i] = seq[i],
           UNCHANGED <<root, tiles, links, published, cp, ipc, base, work, dirty, relink>>
    PROVE  TInv'
<1>1. TilesOK' /\ PublishedOK'
  BY FilesKept
<1>2. Agrees(seq', work) /\ Size(work) \in Nat
  BY AgreesStays, LenIsNat DEF TInv, WorkOK, Agrees, Size
<1>3. ipc \in {"store", "rename"} => DirtyOK'
  BY <1>2, DirtyStays DEF TInv, WorkOK
<1>4. ipc \in {"checkpoint", "move"} => Complete(Size(work))'
  BY DEF TInv, WorkOK, Complete, Stored, TileFile
<1>5. WorkOK'
  <2>1. Agrees(seq, work)'
    BY <1>2 DEF Agrees
  <2>2. ipc = "scan" => Readable(base)'
    BY ReadableStays DEF TInv, WorkOK
  <2> QED
    BY <1>3, <1>4, <2>1, <2>2 DEF TInv, WorkOK
<1> QED
  BY <1>1, <1>5 DEF TInv

\* The steps of the integrate command that write no tile and no checkpoint.
LEMMA ComputingKeeps ==
    ASSUME IInv, TInv,
           \/ Initialise \/ InitialiseFails \/ StartIntegrate \/ FetchRange
           \/ FetchRangeFails \/ ScanEntry \/ NothingToDo \/ EndScan
           \/ \E p \in relink : SymlinkTile(p)
           \/ SymlinkFails \/ EndStore \/ CreateCheckpointTmp \/ CheckpointTmpExists
           \/ KillIntegrate
    PROVE  TInv'
<1>1. UNCHANGED <<seq, tiles, links, published, cp>> /\ relink' \subseteq relink
  BY DEF Initialise, InitialiseFails, StartIntegrate, FetchRange, FetchRangeFails,
         ScanEntry, NothingToDo, EndScan, SymlinkTile, SymlinkFails, EndStore,
         CreateCheckpointTmp, CheckpointTmpExists, KillIntegrate, Fail, files
<1>2. TilesOK' /\ PublishedOK'
  BY <1>1, FilesKept
<1>3. \A n : Complete(n) => Complete(n)'
  BY <1>1, StoredStays, CompleteStays
<1>4. base \in Nat /\ Size(work) \in Nat
  BY LenIsNat DEF IInv, Scanned, Size
<1> SUFFICES WorkOK'
  BY <1>2 DEF TInv
<1>5. CASE \/ Initialise \/ InitialiseFails \/ FetchRangeFails \/ NothingToDo
           \/ SymlinkFails \/ CheckpointTmpExists \/ KillIntegrate
  <2>1. work' = <<>> /\ ipc' \in {"idle", "checkpoint"}
    BY <1>5 DEF Initialise, InitialiseFails, FetchRangeFails, NothingToDo,
                SymlinkFails, CheckpointTmpExists, KillIntegrate, Fail
  <2>2. Agrees(seq, work)' /\ Size(work)' = 0
    BY <2>1, EmptyIsSequence DEF Agrees, Size, IsSequence
  <2>3. Complete(Size(work))'
    BY <1>3, <2>2, EmptyComplete DEF Complete, TileFile, Stored
  <2> QED
    BY <2>1, <2>2, <2>3 DEF WorkOK
<1>6. CASE StartIntegrate
  <2>1. cp' # None /\ ipc' = "range" /\ base' = Size(cp') /\ work' = work
    BY <1>1, <1>6 DEF StartIntegrate
  <2>2. Agrees(seq, work)'
    BY <1>1, <2>1 DEF TInv, WorkOK, Agrees, IsSequence
  <2> QED
    BY <2>1, <2>2 DEF WorkOK
<1>7. CASE FetchRange
  <2>1. /\ ipc = "range" /\ ipc' = "scan" /\ work' = RangeTree(base) /\ base' = base
        /\ HasRange(base) /\ root' = root
    BY <1>7 DEF FetchRange, files
  <2>2. cp # None /\ base = Size(cp) /\ cp \in published
    BY <2>1 DEF TInv, WorkOK, PublishedOK
  <2>3. Complete(base)
    BY <2>2 DEF TInv, PublishedOK
  <2>4. Agrees(seq, work') /\ Len(work') = base
    BY <1>4, <2>1, <2>3, RangeRead DEF TInv
  <2>5. Agrees(seq, work)' /\ Size(work)' = base
    BY <1>1, <2>4 DEF Agrees, Size
  <2>6. Readable(base)'
    BY <1>1, <1>4, <2>1, <2>3, RangeReadable, ReadableStays DEF TInv
  <2> QED
    BY <1>1, <1>4, <2>1, <2>2, <2>5, <2>6 DEF WorkOK
<1>8. CASE ScanEntry
  <2>1. /\ ipc = "scan" /\ ipc' = "scan" /\ base' = base /\ root' = root
        /\ Len(work) \in DOMAIN seq /\ work' = Append(work, seq[Len(work)])
    BY <1>8 DEF ScanEntry, Size, files
  <2>2. cp # None /\ base = Size(cp) /\ base <= Len(work) /\ Agrees(seq, work)
    BY <2>1 DEF TInv, WorkOK, Size
  <2>3. IsSequence(work') /\ Len(work') = Len(work) + 1 /\ Len(work) \in Nat
    BY <2>1, <2>2, AppendIsSequence DEF Agrees
  <2>4. ASSUME NEW i \in 1..Len(work') PROVE i - 1 \in DOMAIN seq /\ seq[i - 1] = work'[i]
    <3>1. PICK V : work \in Seq(V)
      BY <2>2 DEF Agrees, IsSequence
    <3>2. CASE i \in 1..Len(work)
      <4>1. work'[i] = work[i]
        BY <2>1, <3>1, <3>2
      <4> QED
        BY <2>2, <3>2, <4>1 DEF Agrees
    <3>3. CASE i = Len(work) + 1
      <4>1. work'[i] = seq[Len(work)]
        BY <2>1, <3>1, <3>3
      <4>2. i - 1 = Len(work)
        BY <2>3, <3>3
      <4> QED
        BY <2>1, <4>1, <4>2
    <3> QED
      BY <2>3, <3>2, <3>3
  <2>5. Agrees(seq, work)' /\ Size(work)' = Len(work) + 1
    BY <1>1, <2>3, <2>4 DEF Agrees, Size
  <2>6. base <= Size(work)'
    BY <1>4, <2>2, <2>3, <2>5
  <2>7. Readable(base)'
    BY <1>1, <2>1, ReadableStays DEF TInv, WorkOK
  <2> QED
    BY <1>1, <2>1, <2>2, <2>5, <2>6, <2>7 DEF WorkOK
<1>9. CASE EndScan
  <2>1. /\ ipc = "scan" /\ ipc' = "store" /\ base' = base /\ work' = work
        /\ Size(work) \notin DOMAIN seq
        /\ dirty' = [tile \in {NodeCoordsToTileAddress(node).tile :
                                 node \in VisitedNodes(base, Size(work))}
                       |-> VisitedTile(tile)]
    BY <1>9 DEF EndScan
  <2>2. PICK n \in Nat : n = Size(work) /\ base <= n
    BY <1>4, <2>1 DEF TInv, WorkOK
  <2>3. /\ cp # None /\ base = Size(cp) /\ Agrees(seq, work) /\ Complete(base)
        /\ Readable(base)
    BY <2>1 DEF TInv, WorkOK, PublishedOK
  <2>4. DOMAIN seq \subseteq 0..(n - 1)
    <3> SUFFICES ASSUME NEW i \in DOMAIN seq, ~(i <= n - 1) PROVE FALSE
      <4>1. DOMAIN seq \subseteq Nat
        BY DEF IInv, SequencersTyped
      <4> QED
        BY <4>1
    <3>1. i \in Nat /\ 0..i \subseteq DOMAIN seq
      BY DEF IInv, SequencersTyped, SequenceDense
    <3>2. n \in 0..i
      BY <3>1
    <3> QED
      BY <2>1, <2>2, <3>1, <3>2
  <2>5. ASSUME NEW tile \in DOMAIN dirty'
        PROVE  /\ tile \in Nat \X Nat /\ Fill(tile, n) > 0
               /\ NodesOK(seq, tile, dirty'[tile], Fill(tile, n))
    <3>1. PICK node \in VisitedNodes(base, n) : tile = NodeCoordsToTileAddress(node).tile
      BY <2>1, <2>2
    <3>2. node \in Nat \X Nat /\ Last(node) <= n
      BY <1>4, <3>1, VisitedIs
    <3>3. PICK k \in Keys(TileWidth) :
             tile \in Nat \X Nat /\ NodeAt(tile, k) = node
      BY <3>1, <3>2, AddressOf
    <3>4. Top(k) <= Fill(tile, n) /\ Top(k) \in 1..TileWidth
      BY <3>2, <3>3, InTree, KeyFacts
    <3>5. Fill(tile, n) > 0
      BY <3>3, <3>4, FileRow, TileFacts
    <3>6. dirty'[tile] = VisitedTile(tile)
      BY <2>1
    <3>7. NodesOK(seq, tile, VisitedTile(tile), Fill(tile, n))
      BY <1>4, <2>2, <2>3, <2>4, <3>3, VisitedTileOK DEF TInv
    <3> QED
      BY <3>3, <3>5, <3>6, <3>7
  <2>6. ASSUME NEW tile \in Nat \X Nat, Fill(tile, n) > 0
        PROVE  tile \in DOMAIN dirty' \/ Stored(TileFile(tile, n))
    <3>1. CASE Fill(tile, n) = Fill(tile, base)
      <4>1. Stored(TileFile(tile, base))
        BY <2>3, <2>6, <3>1 DEF Complete
      <4>2. TileFile(tile, base) = TileFile(tile, n)
        BY <1>4, <2>6, <3>1, FileRow
      <4> QED
        BY <4>1, <4>2
    <3>2. CASE \E k \in Keys(Fill(tile, n)) : base < Last(NodeAt(tile, k))
      <4>1. PICK k \in Keys(Fill(tile, n)) : base < Last(NodeAt(tile, k))
        BY <3>2
      <4>2. Fill(tile, n) \in 0..TileWidth
        BY FileRow
      <4>3. k \in Keys(TileWidth) /\ Top(k) <= Fill(tile, n)
        BY <4>2, RowFacts DEF Keys
      <4>4. /\ NodeAt(tile, k) \in Nat \X Nat /\ Last(NodeAt(tile, k)) <= n
            /\ NodeCoordsToTileAddress(NodeAt(tile, k)).tile = tile
        BY <4>3, InTree, AddressAt
      <4>5. NodeAt(tile, k) \in VisitedNodes(base, n)
        BY <1>4, <4>1, <4>4, VisitedIs
      <4> QED
        BY <2>1, <2>2, <4>4, <4>5
    <3> QED
      BY <1>4, <2>2, <3>1, <3>2, FillGrows
  <2>7. DirtyOK'
    <3>1. Size(work)' = n
      BY <2>1, <2>2
    <3> QED
      BY <1>1, <2>5, <2>6, <3>1 DEF DirtyOK, Stored, TileFile
  <2>8. Agrees(seq, work)' /\ Size(work)' = n
    BY <1>1, <2>1, <2>2, <2>3 DEF Agrees
  <2> QED
    BY <1>1, <2>1, <2>2, <2>3, <2>7, <2>8 DEF WorkOK
<1>10. CASE \/ \E p \in relink : SymlinkTile(p)
            \/ EndStore \/ CreateCheckpointTmp
  <2>1. /\ UNCHANGED <<work, base, dirty>>
        /\ \/ ipc = "store" /\ ipc' = "rename"
           \/ ipc = "store" /\ DOMAIN dirty = {} /\ ipc' = "checkpoint"
           \/ ipc = "checkpoint" /\ ipc' = "move"
    BY <1>10 DEF SymlinkTile, EndStore, CreateCheckpointTmp
  <2>2. Agrees(seq, work)'
    BY <1>1, <2>1 DEF TInv, WorkOK, Agrees, IsSequence
  <2>3. CASE ipc = "store" /\ ipc' = "rename"
    <3>1. DirtyOK'
      BY <1>1, <1>4, <2>1, <2>3, DirtyStays DEF TInv, WorkOK
    <3> QED
      BY <1>1, <2>1, <2>2, <2>3, <3>1 DEF TInv, WorkOK
  <2>4. CASE ipc = "store" /\ DOMAIN dirty = {} /\ ipc' = "checkpoint"
    <3>1. PICK n : n = Size(work)
      OBVIOUS
    <3>2. Complete(n)
      BY <2>4, <3>1 DEF TInv, WorkOK, DirtyOK, Complete
    <3>3. Complete(n)' /\ Size(work)' = n
      BY <1>3, <2>1, <3>1, <3>2
    <3>4. Complete(Size(work))'
      BY <3>3 DEF Complete
    <3> QED
      BY <2>2, <2>4, <3>4 DEF WorkOK
  <2>5. CASE ipc = "checkpoint" /\ ipc' = "move"
    <3>1. Complete(Size(work))'
      BY <1>1, <2>1, <2>5 DEF TInv, WorkOK, Complete, Stored, TileFile
    <3> QED
      BY <2>2, <2>5, <3>1 DEF WorkOK
  <2> QED
    BY <2>1, <2>3, <2>4, <2>5
<1> QED
  BY <1>5, <1>6, <1>7, <1>8, <1>9, <1>10

\* StoreTile writes the file that the tree looks for, and the partial tiles it
\* goes on to relink are those of a tile that is full in that tree.
LEMMA StoreTileFacts ==
    ASSUME IInv, TInv, NEW tile \in DOMAIN dirty, StoreTile(tile)
    PROVE  /\ tile \in Nat \X Nat
           /\ \E n \in Nat, f \in 1..TileWidth :
                 /\ n = Size(work) /\ f = Fill(tile, n) /\ DOMAIN dirty[tile] = Keys(f)
                 /\ NodesOK(seq, tile, dirty[tile], f)
                 /\ TileFile(tile, n) = TilePath(tile, f % TileWidth)
                 /\ RowOf(TileFile(tile, n)) = f
                 /\ tiles' = Put(tiles, TileFile(tile, n), dirty[tile])
                 /\ links' = links \ {TileFile(tile, n)}
                 /\ relink' = IF f = TileWidth THEN Partials(tile) ELSE {}
<1>1. PICK n \in Nat : n = Size(work)
  BY LenIsNat DEF IInv, Scanned, Size
<1>2. DirtyOK
  BY DEF StoreTile, TInv, WorkOK
<1>3. /\ tile \in Nat \X Nat /\ Fill(tile, n) > 0
      /\ NodesOK(seq, tile, dirty[tile], Fill(tile, n))
  BY <1>1, <1>2 DEF DirtyOK
<1>4. PICK f \in 1..TileWidth :
         /\ f = Fill(tile, n) /\ DOMAIN dirty[tile] = Keys(f)
         /\ TileFile(tile, n) = TilePath(tile, f % TileWidth)
         /\ RowOf(TileFile(tile, n)) = f
  <2>1. PICK f \in 0..TileWidth : f = Fill(tile, n)
    BY <1>3, FileRow
  <2>2. f \in 1..TileWidth
    BY <1>3, <2>1, TileFacts
  <2> QED
    BY <1>3, <2>1, <2>2, FileRow DEF NodesOK
<1>5. NumLeaves(dirty[tile]) = f
  BY <1>4, NumLeavesIs
<1>6. /\ tiles' = Put(tiles, TileFile(tile, n), dirty[tile])
      /\ links' = links \ {TileFile(tile, n)}
      /\ relink' = IF f = TileWidth THEN Partials(tile) ELSE {}
  BY <1>4, <1>5 DEF StoreTile
<1> QED
  BY <1>1, <1>3, <1>4, <1>6

\* A tile is stored: the file is the one that its tree looks for.
LEMMA StoreTileKeeps ==
    ASSUME IInv, TInv, NEW tile \in DOMAIN dirty, StoreTile(tile)
    PROVE  TInv'
<1>1. PICK n \in Nat, f \in 1..TileWidth :
         /\ n = Size(work) /\ f = Fill(tile, n) /\ DOMAIN dirty[tile] = Keys(f)
         /\ NodesOK(seq, tile, dirty[tile], f)
         /\ TileFile(tile, n) = TilePath(tile, f % TileWidth)
         /\ RowOf(TileFile(tile, n)) = f
         /\ tiles' = Put(tiles, TileFile(tile, n), dirty[tile])
         /\ links' = links \ {TileFile(tile, n)}
         /\ relink' = IF f = TileWidth THEN Partials(tile) ELSE {}
  BY StoreTileFacts
<1>2. /\ ipc = "store" /\ ipc' = "store" /\ relink = {} /\ dirty' = Without(dirty, tile)
      /\ UNCHANGED <<seq, cp, published, base, work>>
  BY DEF StoreTile
<1>3. DirtyOK /\ Agrees(seq, work) /\ cp # None /\ base = Size(cp) /\ base <= Size(work)
  BY <1>2 DEF TInv, WorkOK
<1>4. tile \in Nat \X Nat /\ NodesOK(seq, tile, dirty[tile], f)
  BY <1>1, StoreTileFacts
<1>5. TileWidth \in Nat \ {0}
  BY TileFacts
<1>6. TileFile(tile, n) = TilePath(tile, f % TileWidth) /\ RowOf(TileFile(tile, n)) = f
  BY <1>1
<1> DEFINE q == TileFile(tile, n)
<1>8. /\ tiles' = Put(tiles, q, dirty[tile]) /\ links' = links \ {q}
      /\ relink' = IF f = TileWidth THEN Partials(tile) ELSE {}
  BY <1>1
<1>9. /\ q = <<tile[1], tile[2], f % TileWidth>> /\ q \in Nat \X Nat \X (0..(TileWidth - 1))
      /\ <<q[1], q[2]>> = tile
  <2>1. f % TileWidth \in 0..(TileWidth - 1)
    BY <1>5
  <2>2. q = <<tile[1], tile[2], f % TileWidth>>
    BY <1>6 DEF TilePath
  <2> HIDE DEF q
  <2> QED
    BY <1>4, <2>1, <2>2
<1>10. DOMAIN tiles' = DOMAIN tiles \cup {q} /\ tiles'[q] = dirty[tile]
       /\ \A p \in DOMAIN tiles : p # q => tiles'[p] = tiles[p]
  BY <1>8 DEF Put
<1>11. RowOf(q) = f
  BY <1>6
<1> HIDE DEF q
<1>12. FilesOK(seq, tiles')
  <2> SUFFICES ASSUME NEW p \in DOMAIN tiles'
               PROVE  /\ p \in Nat \X Nat \X (0..(TileWidth - 1))
                      /\ NodesOK(seq, <<p[1], p[2]>>, tiles'[p], RowOf(p))
    BY DEF FilesOK
  <2>1. CASE p = q
    BY <1>4, <1>6, <1>9, <1>10, <1>11, <2>1
  <2>2. CASE p # q
    BY <1>10, <2>2 DEF TInv, TilesOK, FilesOK
  <2> QED
    BY <2>1, <2>2
<1>13. PartialsOK(tiles', links')
  BY <1>8, <1>10 DEF TInv, TilesOK, PartialsOK
<1>14. PartialsOK(tiles', relink')
  <2>1. CASE f # TileWidth
    BY <1>8, <2>1 DEF PartialsOK
  <2>2. CASE f = TileWidth
    <3>1. q = <<tile[1], tile[2], 0>>
      <4>1. f % TileWidth = 0
        BY <1>5, <2>2
      <4> QED
        BY <1>9, <4>1
    <3> SUFFICES ASSUME NEW p \in Partials(tile)
                 PROVE  /\ p \in Nat \X Nat \X (1..(TileWidth - 1))
                        /\ TilePath(p, 0) \in DOMAIN tiles'
      BY <1>8, <2>2 DEF PartialsOK
    <3>2. /\ p \in DOMAIN tiles \cup links
          /\ p[1] = tile[1] /\ p[2] = tile[2] /\ p[3] # 0
      BY DEF Partials
    <3>3. p \in Nat \X Nat \X (0..(TileWidth - 1))
      <4>1. CASE p \in DOMAIN tiles
        BY <4>1 DEF TInv, TilesOK, FilesOK
      <4>2. CASE p \in links
        <5>1. p \in Nat \X Nat \X (1..(TileWidth - 1))
          BY <4>2 DEF TInv, TilesOK, PartialsOK
        <5>2. 1..(TileWidth - 1) \subseteq 0..(TileWidth - 1)
          BY <1>5
        <5> QED
          BY <5>1, <5>2
      <4> QED
        BY <3>2, <4>1, <4>2
    <3>4. p \in Nat \X Nat \X (1..(TileWidth - 1))
      BY <1>5, <3>2, <3>3
    <3>5. TilePath(p, 0) = q
      BY <3>1, <3>2 DEF TilePath
    <3> QED
      BY <1>10, <3>4, <3>5
  <2> QED
    BY <2>1, <2>2
<1>15. \A p : Stored(p) => Stored(p)'
  BY <1>8, <1>10 DEF Stored
<1>16. TilesOK'
  BY <1>2, <1>12, <1>13, <1>14 DEF TilesOK, FilesOK, PartialsOK
<1>17. PublishedOK'
  BY <1>2, <1>15, PublishedStays
<1>18. Size(work)' = n /\ Stored(q)'
  BY <1>1, <1>2, <1>10 DEF Stored
<1>19. DirtyOK'
  <2>1. /\ DOMAIN dirty' = DOMAIN dirty \ {tile}
        /\ \A u \in DOMAIN dirty' : dirty'[u] = dirty[u]
    BY <1>2 DEF Without
  <2>2. ASSUME NEW u \in DOMAIN dirty'
        PROVE  /\ u \in Nat \X Nat /\ Fill(u, n) > 0
               /\ NodesOK(seq', u, dirty'[u], Fill(u, n))
    BY <1>1, <1>2, <1>3, <2>1 DEF DirtyOK
  <2>3. ASSUME NEW u \in Nat \X Nat, Fill(u, n) > 0
        PROVE  u \in DOMAIN dirty' \/ Stored(TileFile(u, n))'
    <3>1. CASE u = tile
      <4>1. TileFile(u, n) = q
        BY <3>1 DEF q
      <4> QED
        BY <1>18, <4>1 DEF Stored, TileFile
    <3>2. CASE u # tile
      <4>1. u \in DOMAIN dirty \/ Stored(TileFile(u, n))
        BY <1>1, <1>3, <2>3 DEF DirtyOK
      <4>2. PICK p : p = TileFile(u, n)
        OBVIOUS
      <4>3. Stored(p) => Stored(p)'
        BY <1>15
      <4> QED
        BY <2>1, <3>2, <4>1, <4>2, <4>3 DEF Stored, TileFile
    <3> QED
      BY <3>1, <3>2
  <2> QED
    BY <1>18, <2>2, <2>3 DEF DirtyOK
<1>20. WorkOK'
  <2>1. Agrees(seq, work)'
    BY <1>2, <1>3 DEF Agrees, IsSequence
  <2> QED
    BY <1>2, <1>3, <1>19, <2>1 DEF WorkOK
<1> QED
  BY <1>16, <1>17, <1>20 DEF TInv

\* A partial tile is replaced by a symlink to its full tile.
LEMMA RenameSymlinkKeeps ==
    ASSUME IInv, TInv, NEW p \in relink, RenameSymlink(p)
    PROVE  TInv'
<1>1. /\ ipc = "rename" /\ ipc' = "store" /\ relink' = relink \ {p}
      /\ tiles' = Without(tiles, p) /\ links' = links \cup {p}
      /\ UNCHANGED <<seq, cp, published, base, work, dirty>>
  BY DEF RenameSymlink
<1>2. /\ DOMAIN tiles' = DOMAIN tiles \ {p} /\ \A u \in DOMAIN tiles' : tiles'[u] = tiles[u]
  BY <1>1 DEF Without
<1>3. FilesOK(seq, tiles')
  BY <1>2 DEF TInv, TilesOK, FilesOK
<1>4. p \in Nat \X Nat \X (1..(TileWidth - 1)) /\ TilePath(p, 0) \in DOMAIN tiles
  BY DEF TInv, TilesOK, PartialsOK
<1>5. p[3] # 0
  <2>1. p[3] \in 1..(TileWidth - 1)
    BY <1>4
  <2> QED
    BY <2>1
<1>6. \A u : TilePath(u, 0) # p
  <2>1. \A u : TilePath(u, 0)[3] = 0
    BY DEF TilePath
  <2> QED
    BY <1>5, <2>1
<1>7. \A u : TilePath(u, 0) \in DOMAIN tiles => TilePath(u, 0) \in DOMAIN tiles'
  BY <1>2, <1>6
<1>8. PartialsOK(tiles', links') /\ PartialsOK(tiles', relink')
  BY <1>1, <1>7 DEF TInv, TilesOK, PartialsOK
<1>9. \A u : Stored(u) => Stored(u)'
  <2> SUFFICES ASSUME NEW u, Stored(u) PROVE Stored(u)'
    OBVIOUS
  <2>1. CASE u = p
    BY <1>1, <1>4, <1>7, <2>1 DEF Stored
  <2>2. CASE u # p
    BY <1>1, <1>2, <1>7, <2>2 DEF Stored
  <2> QED
    BY <2>1, <2>2
<1>10. TilesOK'
  BY <1>1, <1>3, <1>8 DEF TilesOK, FilesOK, PartialsOK
<1>11. PublishedOK'
  BY <1>1, <1>9, PublishedStays
<1>12. DirtyOK'
  <2>1. PICK n : n = Size(work)
    OBVIOUS
  <2>2. ASSUME NEW u \in Nat \X Nat, Fill(u, n) > 0
        PROVE  u \in DOMAIN dirty \/ Stored(TileFile(u, n))'
    <3>1. u \in DOMAIN dirty \/ Stored(TileFile(u, n))
      BY <1>1, <2>1, <2>2 DEF TInv, WorkOK, DirtyOK
    <3>2. PICK v : v = TileFile(u, n)
      OBVIOUS
    <3>3. Stored(v) => Stored(v)'
      BY <1>9
    <3> QED
      BY <3>1, <3>2, <3>3 DEF Stored, TileFile
  <2>3. \A u \in DOMAIN dirty :
           /\ u \in Nat \X Nat /\ Fill(u, n) > 0
           /\ NodesOK(seq, u, dirty[u], Fill(u, n))
    BY <1>1, <2>1 DEF TInv, WorkOK, DirtyOK
  <2>4. Size(work)' = n
    BY <1>1, <2>1
  <2> QED
    BY <1>1, <2>2, <2>3, <2>4 DEF DirtyOK
<1>13. WorkOK'
  <2>1. Agrees(seq, work)'
    BY <1>1 DEF TInv, WorkOK, Agrees, IsSequence
  <2> QED
    BY <1>1, <1>12, <2>1 DEF TInv, WorkOK
<1> QED
  BY <1>10, <1>11, <1>13 DEF TInv

\* The checkpoint of a tree that is complete is published.
LEMMA PublishKeeps ==
    ASSUME IInv, TInv, PublishCheckpoint
    PROVE  TInv'
<1>1. /\ ipc = "move" /\ ipc' = "idle" /\ cp' = work /\ work' = <<>>
      /\ published' = published \cup {work}
      /\ UNCHANGED <<seq, tiles, links, relink>>
  BY DEF PublishCheckpoint
<1>2. Agrees(seq, work) /\ Complete(Size(work))
  BY <1>1 DEF TInv, WorkOK
<1>3. TilesOK'
  BY <1>1 DEF TInv, TilesOK, FilesOK, PartialsOK
<1>4. \A t \in published' : Agrees(seq, t) /\ Complete(Size(t))
  BY <1>1, <1>2 DEF TInv, PublishedOK
<1>5. PublishedOK'
  <2>1. \A t \in published' : Agrees(seq', t)
    BY <1>1, <1>4
  <2>2. ASSUME NEW t \in published' PROVE Complete(Size(t))'
    BY <1>1, <1>4 DEF Complete, Stored, TileFile
  <2> QED
    BY <1>1, <2>1, <2>2 DEF PublishedOK
<1>6. WorkOK'
  <2>1. Agrees(seq, work)'
    BY <1>1, EmptyIsSequence DEF Agrees, Size, IsSequence
  <2> QED
    BY <1>1, <2>1 DEF WorkOK
<1> QED
  BY <1>3, <1>5, <1>6 DEF TInv

\* Every step keeps the invariant of the tiles.
LEMMA TilesNext == IInv /\ TInv /\ [Next]_vars => TInv'
<1> SUFFICES ASSUME IInv, TInv, [Next]_vars PROVE TInv'
  OBVIOUS
<1>1. CASE UNCHANGED vars
  <2>1. UNCHANGED <<root, seq, tiles, links, published, cp, ipc, base, work, dirty, relink>>
    BY <1>1 DEF vars, files, ivars
  <2> QED
    BY <2>1, SequencingKeeps
<1>2. ASSUME NEW p \in Sequencers,
             \/ StartSequence(p) \/ ExitSequence(p)
             \/ \E x \in Leaf : Sequence(p, x)
             \/ SequenceStep(p)
             \/ SequenceError(p) \/ KillSequence(p)
      PROVE  TInv'
  <2>1. UNCHANGED <<root, tiles, links, published, cp, ipc, base, work, dirty, relink>>
    BY <1>2 DEF StartSequence, ExitSequence, Sequence, SequenceStep, SequenceError,
                KillSequence, CreatePending, SkipTaken, LinkSeq, CreateLeafTmp, LinkLeaf,
                RemoveLeafTmp, RemovePending, files, ivars
  <2>2. \A i \in DOMAIN seq : i \in DOMAIN seq' /\ seq'[i] = seq[i]
    <3>1. CASE LinkSeq(p)
      BY <3>1 DEF LinkSeq, Put
    <3>2. CASE ~LinkSeq(p)
      <4>1. seq' = seq
        BY <1>2, <3>2 DEF StartSequence, ExitSequence, Sequence, SequenceStep, SequenceError,
                KillSequence, CreatePending, SkipTaken, CreateLeafTmp, LinkLeaf,
                RemoveLeafTmp, RemovePending, files
      <4> QED
        BY <4>1
    <3> QED
      BY <3>1, <3>2
  <2> QED
    BY <2>1, <2>2, SequencingKeeps
<1>3. CASE \/ Initialise \/ InitialiseFails \/ StartIntegrate \/ IntegrateStep
           \/ KillIntegrate
  BY <1>3, ComputingKeeps, StoreTileKeeps, RenameSymlinkKeeps, PublishKeeps DEF IntegrateStep
<1> QED
  BY <1>1, <1>2, <1>3 DEF Next

\* The empty directory.
LEMMA TilesInit == Init => TInv
<1> SUFFICES ASSUME Init PROVE TInv
  OBVIOUS
<1>1. /\ tiles = NoFiles /\ DOMAIN NoFiles = {} /\ links = {} /\ relink = {} /\ cp = None
      /\ published = {} /\ work = <<>> /\ ipc = "idle"
  BY DEF Init, NoFiles
<1>2. TilesOK
  BY <1>1 DEF TilesOK, FilesOK, PartialsOK
<1>3. Agrees(seq, work)
  BY <1>1, EmptyIsSequence DEF Agrees
<1> QED
  BY <1>1, <1>2, <1>3 DEF TInv, PublishedOK, WorkOK

\* The invariant of the tiles holds in every reachable state.
LEMMA TilesInvariant == Spec => []TInv
<1>1. Init => TInv
  BY TilesInit
<1>2. IInv /\ TInv /\ [Next]_vars => TInv'
  BY TilesNext
<1> QED
  BY <1>1, <1>2, InductiveInvariant, PTL DEF Spec

\* And it says that what was published is provable.
LEMMA TilesProvable ==
    ASSUME IInv, TInv
    PROVE  PublishedProvable
<1> SUFFICES ASSUME NEW t \in published
             PROVE  /\ \A i \in 1..Size(t) : i - 1 \in DOMAIN seq /\ seq[i - 1] = t[i]
                    /\ \A node \in VisitedNodes(0, Size(t)) :
                          /\ Stored(NodeFile(node, Size(t)))
                          /\ GetNode(node, Size(t)) = NodeHash(t, node)
                          /\ HasNode(node, Size(t)) \/ Dangles(NodeFile(node, Size(t)))
  BY DEF PublishedProvable
<1>1. Agrees(seq, t) /\ Complete(Size(t)) /\ TilesOK
  BY DEF TInv, PublishedOK
<1>2. PICK n \in Nat : n = Size(t) /\ n = Len(t)
  BY <1>1, LenIsNat DEF Agrees, Size
<1>3. ASSUME NEW node \in VisitedNodes(0, n)
      PROVE  /\ Stored(NodeFile(node, n)) /\ GetNode(node, n) = NodeHash(t, node)
             /\ HasNode(node, n) \/ Dangles(NodeFile(node, n))
  <2>1. node \in Nat \X Nat /\ Last(node) <= n
    BY VisitedIs
  <2>2. PICK m \in Nat : m = Last(node) /\ m <= n
    BY <2>1, NodeFacts
  <2>3. /\ Stored(NodeFile(node, n)) /\ GetNode(node, n) = HashOf(seq, node)
        /\ HasNode(node, n) \/ Dangles(NodeFile(node, n))
    BY <1>1, <1>2, <2>1, <2>2, ReadNode
  <2>4. NodeHash(t, node) = HashOf(seq, node)
    BY <1>1, <1>2, <2>1, <2>2, NodeHashIs
  <2> QED
    BY <2>3, <2>4
<1> QED
  BY <1>1, <1>2, <1>3 DEF Agrees

(***************************************************************************)
(* Every checkpoint ever published commits to the sequenced entries, and   *)
(* every node of its tree is in the tile of its size or in the full tile   *)
(* that took its place, at any later time: in the middle of any later      *)
(* integration, after any crash, for any height of tiles.  It can be read  *)
(* there wherever the file is not a symlink made under a relative storage  *)
(* directory, which dangles.                                               *)
(***************************************************************************)
THEOREM PublishedStaysProvable == Spec => []PublishedProvable
<1>1. IInv /\ TInv => PublishedProvable
  BY TilesProvable
<1> QED
  BY <1>1, InductiveInvariant, TilesInvariant, PTL

-----------------------------------------------------------------------------
(***************************************************************************)
(* What is left behind.  As long as no command was killed and no call      *)
(* failed, a directory that was created has its checkpoint, a temporary *)
(* checkpoint and a temporary symlink belong to the command that runs, the *)
(* symlinks it has yet to make are of one tile, and each temporary file of *)
(* a leaf belongs to a sequence command.                                   *)
(***************************************************************************)

EntriesTyped ==
    /\ \A i \in DOMAIN seq : seq[i] \in Leaf
    /\ \A p \in Sequencers : spc[p] \notin {"idle", "ready"} => entry[p] \in Leaf
    /\ leafTmp \subseteq Leaf /\ pending \subseteq Leaf

CommandTyped ==
    /\ root \in Root /\ cpTmp \in BOOLEAN /\ ipc \in IPC /\ ierr \in Failure
    /\ faults \in 0..MaxFaults

Clean ==
    /\ ierr = "none"
    /\ root # "none" /\ ipc \notin {"checkpoint", "move"} => cp # None
    /\ cpTmp => ipc = "move"
    /\ tmpLinks # {} => ipc = "rename"
    /\ \A l \in tmpLinks, p \in relink : l = <<p[1], p[2]>>
    /\ \A p \in relink, q \in relink : p[1] = q[1] /\ p[2] = q[2]

\* Each temporary file of a leaf is one that a command is going to remove.
Owned ==
    /\ \A x \in pending : \E p \in Sequencers : entry[p] = x /\ spc[p] \in HoldsPending
    /\ \A x \in leafTmp : \E p \in Sequencers : entry[p] = x /\ spc[p] \in HoldsLeafTmp

\* No file of a tree of n leaves is a symlink.
Plain(n) ==
    \A tile \in Nat \X Nat : Fill(tile, n) > 0 => TileFile(tile, n) \notin links

(***************************************************************************)
(* The tree that the next integrate command starts from has no symlinks,   *)
(* since a partial tile is only relinked for a tree that has the full one; *)
(* so its range can be read under a relative directory too.                *)
(***************************************************************************)
FilesPlain ==
    /\ ipc \in {"idle", "range", "scan"} /\ cp # None => Plain(Size(cp))
    /\ ipc \in {"store", "rename"} =>
          /\ \A tile \in Nat \X Nat :
                Fill(tile, Size(work)) > 0 =>
                    tile \in DOMAIN dirty \/ TileFile(tile, Size(work)) \notin links
          /\ \A p \in relink : Fill(<<p[1], p[2]>>, Size(work)) = TileWidth
    /\ ipc \in {"checkpoint", "move"} => Plain(Size(work))
    /\ ipc \notin {"store", "rename"} => relink = {}

LInv ==
    /\ EntriesTyped /\ CommandTyped
    /\ faults = 0 => Clean /\ Owned /\ FilesPlain

\* A tree that agrees with the entries is made of them.
LEMMA AgreesIsTree ==
    ASSUME EntriesTyped, NEW t, Agrees(seq, t)
    PROVE  t \in Seq(Leaf)
<1>1. PICK V : t \in Seq(V)
  BY DEF Agrees, IsSequence
<1>2. Len(t) \in Nat /\ DOMAIN t = 1..Len(t) /\ t = [i \in 1..Len(t) |-> t[i]]
  BY <1>1
<1>3. \A i \in 1..Len(t) : t[i] \in Leaf
  BY DEF Agrees, EntriesTyped
<1>4. t \in [1..Len(t) -> Leaf]
  BY <1>2, <1>3
<1> QED
  BY <1>2, <1>4

\* The steps of sequence commands keep the types.
LEMMA SequenceTyped ==
    ASSUME IInv, LInv, NEW p \in Sequencers,
           \/ StartSequence(p) \/ ExitSequence(p)
           \/ \E x \in Leaf : Sequence(p, x)
           \/ SequenceStep(p)
           \/ SequenceError(p) \/ KillSequence(p)
    PROVE  EntriesTyped'
<1>1. /\ \A i \in DOMAIN seq : seq[i] \in Leaf
      /\ \A q \in Sequencers : spc[q] \notin {"idle", "ready"} => entry[q] \in Leaf
      /\ leafTmp \subseteq Leaf /\ pending \subseteq Leaf
      /\ spc \in [Sequencers -> SPC] /\ entry \in [Sequencers -> Leaf \cup {None}]
  BY DEF LInv, EntriesTyped, IInv, SequencersTyped
<1>2. CASE StartSequence(p)
  BY <1>1, <1>2 DEF StartSequence, At, EntriesTyped, files
<1>3. CASE ExitSequence(p) \/ KillSequence(p) \/ SequenceError(p)
  BY <1>1, <1>3 DEF ExitSequence, KillSequence, SequenceError, EntriesTyped, files
<1>4. CASE \E x \in Leaf : Sequence(p, x)
  BY <1>1, <1>4 DEF Sequence, At, EntriesTyped, files
<1>5. CASE CreatePending(p) \/ CreateLeafTmp(p)
  BY <1>1, <1>5 DEF CreatePending, CreateLeafTmp, At, EntriesTyped
<1>6. CASE SkipTaken(p)
  BY <1>1, <1>6 DEF SkipTaken, EntriesTyped, files
<1>7. CASE LinkSeq(p)
  <2>1. entry[p] \in Leaf
    BY <1>1, <1>7 DEF LinkSeq, At
  <2>2. \A i \in DOMAIN seq' : seq'[i] \in Leaf
    BY <1>1, <1>7, <2>1 DEF LinkSeq, Put
  <2> QED
    BY <1>1, <1>7, <2>2 DEF LinkSeq, At, EntriesTyped
<1>8. CASE LinkLeaf(p) \/ RemoveLeafTmp(p) \/ RemovePending(p)
  BY <1>1, <1>8 DEF LinkLeaf, RemoveLeafTmp, RemovePending, At, EntriesTyped
<1> QED
  BY <1>2, <1>3, <1>4, <1>5, <1>6, <1>7, <1>8 DEF SequenceStep

\* And leave the integrate command's files alone.
LEMMA SequenceClean ==
    ASSUME LInv, NEW p \in Sequencers,
           \/ StartSequence(p) \/ ExitSequence(p)
           \/ \E x \in Leaf : Sequence(p, x)
           \/ SequenceStep(p)
           \/ SequenceError(p) \/ KillSequence(p)
    PROVE  CommandTyped' /\ (faults' = 0 => Clean' /\ FilesPlain')
<1>1. /\ UNCHANGED <<root, cp, cpTmp, links, tmpLinks, ipc, work, dirty, relink, ierr>>
      /\ faults' = faults \/ (faults < MaxFaults /\ faults' = faults + 1)
  BY DEF StartSequence, ExitSequence, Sequence, SequenceStep, SequenceError, KillSequence,
         CreatePending, SkipTaken, LinkSeq, CreateLeafTmp, LinkLeaf, RemoveLeafTmp,
         RemovePending, files, ivars
<1>2. faults \in Nat /\ MaxFaults \in Nat /\ faults' \in 0..MaxFaults /\ (faults' = 0 => faults = 0)
  BY <1>1, ServerlessAssumption DEF LInv, CommandTyped
<1>3. CommandTyped' /\ (faults' = 0 => Clean')
  BY <1>1, <1>2 DEF LInv, CommandTyped, Clean
<1>4. ASSUME FilesPlain PROVE FilesPlain'
  BY <1>1, <1>4 DEF FilesPlain, Plain, TileFile
<1> QED
  BY <1>2, <1>3, <1>4 DEF LInv

\* A command that does not die removes its own temporary files, and no others.
LEMMA SequenceOwned ==
    ASSUME IInv, LInv, NEW p \in Sequencers, faults' = 0,
           \/ StartSequence(p) \/ ExitSequence(p)
           \/ \E x \in Leaf : Sequence(p, x)
           \/ SequenceStep(p)
           \/ SequenceError(p) \/ KillSequence(p)
    PROVE  Owned'
<1>1. faults \in Nat /\ spc \in [Sequencers -> SPC] /\ entry \in [Sequencers -> Leaf \cup {None}]
  BY ServerlessAssumption DEF LInv, CommandTyped, IInv, SequencersTyped
<1>2. ~SequenceError(p) /\ ~KillSequence(p) /\ faults = 0
  BY <1>1 DEF SequenceError, KillSequence, StartSequence, ExitSequence, Sequence, SequenceStep,
         CreatePending, SkipTaken, LinkSeq, CreateLeafTmp, LinkLeaf, RemoveLeafTmp, RemovePending
<1>3. Owned
  BY <1>2 DEF LInv
<1>4. CASE SkipTaken(p)
  BY <1>3, <1>4 DEF SkipTaken, files, Owned
<1>5. CASE StartSequence(p) \/ ExitSequence(p) \/ (\E x \in Leaf : Sequence(p, x))
  <2>1. /\ UNCHANGED <<pending, leafTmp>> /\ spc[p] \notin HoldsPending \cup HoldsLeafTmp
        /\ \A q \in Sequencers : q # p => spc'[q] = spc[q] /\ entry'[q] = entry[q]
    BY <1>1, <1>5 DEF StartSequence, ExitSequence, Sequence, At, files, HoldsPending, HoldsLeafTmp
  <2> QED
    BY <1>3, <2>1 DEF Owned
<1>6. CASE CreatePending(p) \/ LinkSeq(p) \/ CreateLeafTmp(p) \/ LinkLeaf(p)
           \/ RemoveLeafTmp(p)
  <2>1. /\ entry' = entry /\ spc'[p] \in HoldsPending
        /\ \A q \in Sequencers : q # p => spc'[q] = spc[q]
        /\ pending' \subseteq pending \cup {entry[p]}
    BY <1>1, <1>6 DEF CreatePending, LinkSeq, CreateLeafTmp, LinkLeaf, RemoveLeafTmp, At,
                      HoldsPending
  <2>2. \A x \in pending' : \E q \in Sequencers : entry'[q] = x /\ spc'[q] \in HoldsPending
    BY <1>3, <2>1 DEF Owned
  <2>3. \/ leafTmp' \subseteq leafTmp \cup {entry[p]} /\ spc'[p] \in HoldsLeafTmp
        \/ leafTmp' \subseteq leafTmp \ {entry[p]}
        \/ leafTmp' = leafTmp /\ spc[p] \notin HoldsLeafTmp
    BY <1>1, <1>6 DEF CreatePending, LinkSeq, CreateLeafTmp, LinkLeaf, RemoveLeafTmp, At,
                      HoldsLeafTmp
  <2>4. \A x \in leafTmp' : \E q \in Sequencers : entry'[q] = x /\ spc'[q] \in HoldsLeafTmp
    BY <1>3, <2>1, <2>3 DEF Owned
  <2> QED
    BY <2>2, <2>4 DEF Owned
<1>7. CASE RemovePending(p)
  <2>1. /\ pending' = pending \ {entry[p]} /\ leafTmp' = leafTmp
        /\ spc[p] \notin HoldsLeafTmp
        /\ \A q \in Sequencers : q # p => spc'[q] = spc[q] /\ entry'[q] = entry[q]
    BY <1>1, <1>7 DEF RemovePending, At, HoldsLeafTmp
  <2> QED
    BY <1>3, <2>1 DEF Owned
<1> QED
  BY <1>2, <1>4, <1>5, <1>6, <1>7 DEF SequenceStep

\* The integrate command starts from, and makes, a tree without symlinks.
LEMMA IntegratePlain ==
    ASSUME IInv, TInv, FilesPlain,
           \/ Initialise \/ StartIntegrate \/ FetchRange \/ ScanEntry \/ NothingToDo
           \/ EndScan \/ EndStore \/ CreateCheckpointTmp \/ PublishCheckpoint
           \/ \E tile \in DOMAIN dirty : StoreTile(tile)
           \/ \E p \in relink : SymlinkTile(p) \/ RenameSymlink(p)
    PROVE  FilesPlain'
<1>1. PICK n \in Nat : n = Size(work)
  BY LenIsNat DEF IInv, Scanned, Size
<1>2. CASE Initialise
  <2>1. ipc' = "checkpoint" /\ Size(work)' = 0 /\ relink' = {}
    BY <1>2, EmptyIsSequence DEF Initialise, FilesPlain, Size
  <2> QED
    BY <2>1, FillOfEmpty DEF FilesPlain, Plain
<1>3. CASE StartIntegrate \/ FetchRange \/ ScanEntry \/ NothingToDo
  <2>1. /\ UNCHANGED <<links, cp, relink>>
        /\ ipc \in {"idle", "range", "scan"} /\ ipc' \in {"idle", "range", "scan"}
    BY <1>3 DEF StartIntegrate, FetchRange, ScanEntry, NothingToDo, files
  <2> QED
    BY <2>1 DEF FilesPlain, Plain, TileFile
<1>4. CASE EndScan
  <2>1. /\ ipc = "scan" /\ ipc' = "store" /\ UNCHANGED <<links, work, relink>>
        /\ DOMAIN dirty' = {NodeCoordsToTileAddress(node).tile :
                               node \in VisitedNodes(base, n)}
    BY <1>1, <1>4 DEF EndScan, files
  <2>2. cp # None /\ base = Size(cp) /\ base <= n /\ base \in Nat /\ Plain(base) /\ relink = {}
    BY <1>1, <2>1 DEF IInv, Scanned, TInv, WorkOK, FilesPlain
  <2>3. ASSUME NEW tile \in Nat \X Nat, Fill(tile, n) > 0
        PROVE  tile \in DOMAIN dirty' \/ TileFile(tile, n) \notin links
    <3>1. CASE Fill(tile, n) = Fill(tile, base)
      <4>1. TileFile(tile, base) = TileFile(tile, n)
        BY <2>2, <2>3, <3>1, FileRow
      <4> QED
        BY <2>2, <2>3, <3>1, <4>1 DEF Plain
    <3>2. CASE \E node \in VisitedNodes(base, n) : NodeCoordsToTileAddress(node).tile = tile
      BY <2>1, <3>2
    <3> QED
      BY <2>2, <2>3, <3>1, <3>2, VisitedTiles
  <2>4. Size(work)' = n
    BY <1>1, <2>1
  <2> QED
    BY <2>1, <2>2, <2>3, <2>4 DEF FilesPlain, TileFile
<1>5. CASE EndStore \/ CreateCheckpointTmp
  <2>1. /\ UNCHANGED <<links, work, relink>> /\ ipc' \in {"checkpoint", "move"}
        /\ \/ ipc = "store" /\ DOMAIN dirty = {} /\ relink = {}
           \/ ipc = "checkpoint"
    BY <1>5 DEF EndStore, CreateCheckpointTmp, files
  <2>2. Plain(n) /\ relink = {}
    BY <1>1, <2>1 DEF FilesPlain, Plain
  <2>3. Size(work)' = n
    BY <1>1, <2>1
  <2> QED
    BY <2>1, <2>2, <2>3 DEF FilesPlain, Plain, TileFile
<1>6. CASE PublishCheckpoint
  <2>1. ipc = "move" /\ ipc' = "idle" /\ cp' = work /\ UNCHANGED <<links, relink>>
    BY <1>6 DEF PublishCheckpoint
  <2>2. Plain(n) /\ relink = {} /\ Size(cp') = n
    BY <1>1, <2>1 DEF FilesPlain
  <2> QED
    BY <2>1, <2>2 DEF FilesPlain, Plain, TileFile, Size
<1>7. CASE \E tile \in DOMAIN dirty : StoreTile(tile)
  <2>1. PICK tile \in DOMAIN dirty : StoreTile(tile)
    BY <1>7
  <2>2. /\ ipc = "store" /\ ipc' = "store" /\ work' = work
        /\ dirty' = Without(dirty, tile) /\ Size(work)' = n
    BY <1>1, <2>1 DEF StoreTile
  <2>3. /\ tile \in Nat \X Nat /\ links' = links \ {TileFile(tile, n)}
        /\ relink' = IF Fill(tile, n) = TileWidth THEN Partials(tile) ELSE {}
    BY <1>1, <2>1, StoreTileFacts
  <2>4. ASSUME NEW u \in Nat \X Nat, Fill(u, n) > 0
        PROVE  u \in DOMAIN dirty' \/ TileFile(u, n) \notin links'
    <3>1. u \in DOMAIN dirty \/ TileFile(u, n) \notin links
      BY <1>1, <2>2, <2>4 DEF FilesPlain
    <3> QED
      BY <2>2, <2>3, <3>1 DEF Without
  <2>5. ASSUME NEW p \in relink' PROVE Fill(<<p[1], p[2]>>, n) = TileWidth
    <3>1. Fill(tile, n) = TileWidth /\ p[1] = tile[1] /\ p[2] = tile[2]
      BY <2>3 DEF Partials
    <3>2. <<p[1], p[2]>> = tile
      BY <2>3, <3>1
    <3> QED
      BY <3>1, <3>2
  <2> QED
    BY <2>2, <2>4, <2>5 DEF FilesPlain, TileFile
<1>8. CASE \E p \in relink : SymlinkTile(p)
  <2>1. /\ UNCHANGED <<links, work, dirty, relink>> /\ ipc = "store" /\ ipc' = "rename"
    BY <1>8 DEF SymlinkTile
  <2> QED
    BY <2>1 DEF FilesPlain, TileFile
<1>9. CASE \E p \in relink : RenameSymlink(p)
  <2>1. PICK p \in relink : RenameSymlink(p)
    BY <1>9
  <2>2. /\ ipc = "rename" /\ ipc' = "store" /\ links' = links \cup {p}
        /\ relink' = relink \ {p} /\ UNCHANGED <<work, dirty>> /\ Size(work)' = n
    BY <1>1, <2>1 DEF RenameSymlink
  <2>3. Fill(<<p[1], p[2]>>, n) = TileWidth /\ p \in Nat \X Nat \X (1..(TileWidth - 1))
    BY <1>1, <2>2 DEF FilesPlain, TInv, TilesOK, PartialsOK
  <2>4. ASSUME NEW u \in Nat \X Nat, Fill(u, n) > 0
        PROVE  u \in DOMAIN dirty \/ TileFile(u, n) \notin links'
    <3>1. u \in DOMAIN dirty \/ TileFile(u, n) \notin links
      BY <1>1, <2>2, <2>4 DEF FilesPlain
    <3>2. TileFile(u, n) # p
      <4> SUFFICES ASSUME TileFile(u, n) = p PROVE FALSE
        OBVIOUS
      <4>1. p = <<u[1], u[2], Fill(u, n) % TileWidth>>
        BY <2>4, FileRow DEF TilePath
      <4>2. p[1] = u[1] /\ p[2] = u[2] /\ p[3] = Fill(u, n) % TileWidth
        BY <4>1
      <4>3. <<p[1], p[2]>> = u
        BY <4>2
      <4>4. p[3] = TileWidth % TileWidth
        BY <2>3, <4>2, <4>3
      <4>5. TileWidth % TileWidth = 0
        BY FullRow
      <4>6. p[3] \in 1..(TileWidth - 1)
        BY <2>3
      <4> QED
        BY <4>4, <4>5, <4>6
    <3> QED
      BY <2>2, <3>1, <3>2
  <2>5. \A u \in relink' : Fill(<<u[1], u[2]>>, n) = TileWidth
    BY <1>1, <2>2 DEF FilesPlain
  <2> QED
    BY <2>2, <2>4, <2>5 DEF FilesPlain, TileFile
<1> QED
  BY <1>2, <1>3, <1>4, <1>5, <1>6, <1>7, <1>8, <1>9

\* An integrate command that fails was killed, or a call of its failed.
LEMMA IntegrateClean ==
    ASSUME IInv, TInv, LInv,
           \/ Initialise \/ InitialiseFails \/ StartIntegrate \/ IntegrateStep
           \/ KillIntegrate
    PROVE  CommandTyped' /\ (faults' = 0 => Clean' /\ FilesPlain')
<1>1. faults \in Nat /\ MaxFaults \in Nat
  BY ServerlessAssumption DEF LInv, CommandTyped
<1>2. root \in Root /\ cpTmp \in BOOLEAN /\ ipc \in IPC /\ ierr \in Failure
      /\ faults \in 0..MaxFaults /\ (faults = 0 => Clean /\ FilesPlain)
  BY DEF LInv, CommandTyped
<1>3. CASE Initialise \/ StartIntegrate \/ FetchRange \/ ScanEntry \/ NothingToDo
           \/ EndScan \/ EndStore \/ CreateCheckpointTmp
  <2>1. faults' = faults /\ tmpLinks' = tmpLinks /\ relink' = relink /\ cp' = cp
    BY <1>3 DEF Initialise, StartIntegrate, FetchRange, ScanEntry, NothingToDo,
                EndScan, EndStore, CreateCheckpointTmp, files
  <2>2. CommandTyped'
    BY <1>2, <1>3, <2>1 DEF Initialise, StartIntegrate, FetchRange, ScanEntry, NothingToDo,
         EndScan, EndStore, CreateCheckpointTmp, files, CommandTyped, IPC, Root, Failure
  <2>3. ASSUME Clean PROVE Clean'
    BY <1>2, <1>3, <2>1, <2>3 DEF Initialise, StartIntegrate, FetchRange, ScanEntry, NothingToDo,
         EndScan, EndStore, CreateCheckpointTmp, files, Clean
  <2>4. FilesPlain => FilesPlain'
    BY <1>3, IntegratePlain
  <2> QED
    BY <1>2, <2>1, <2>2, <2>3, <2>4
<1>4. CASE InitialiseFails \/ SymlinkFails \/ CheckpointTmpExists
  <2>1. ~Clean
    BY <1>4 DEF InitialiseFails, SymlinkFails, CheckpointTmpExists, Clean
  <2>2. faults # 0 /\ faults' = faults
    BY <1>2, <1>4, <2>1 DEF InitialiseFails, SymlinkFails, CheckpointTmpExists
  <2>3. CommandTyped'
    BY <1>2, <1>4, <2>2 DEF InitialiseFails, SymlinkFails, CheckpointTmpExists, Fail, files,
         CommandTyped, IPC, Failure
  <2> QED
    BY <2>2, <2>3
<1>5. CASE FetchRangeFails
  <2>1. faults = 0 => HasRange(base)
    <3> SUFFICES ASSUME faults = 0 PROVE HasRange(base)
      OBVIOUS
    <3>1. ipc = "range"
      BY <1>5 DEF FetchRangeFails
    <3>2. base \in Nat /\ Complete(base) /\ Plain(base)
      BY <1>2, <3>1 DEF IInv, Scanned, TInv, WorkOK, PublishedOK, FilesPlain
    <3>3. Readable(base)
      BY <3>2 DEF Complete, Plain, Readable, Exists, Dangles
    <3> QED
      BY <3>2, <3>3, ReadableHasRange DEF TInv
  <2>2. /\ HasRange(base) => faults < MaxFaults
        /\ faults' = IF HasRange(base) THEN faults + 1 ELSE faults
    BY <1>5 DEF FetchRangeFails
  <2>3. faults' \in 0..MaxFaults /\ faults' # 0
    BY <1>1, <1>2, <2>1, <2>2
  <2>4. root' \in Root /\ cpTmp' \in BOOLEAN /\ ipc' \in IPC /\ ierr' \in Failure
    BY <1>2, <1>5 DEF FetchRangeFails, Fail, files, IPC, Failure
  <2> QED
    BY <2>3, <2>4 DEF CommandTyped
<1>6. CASE KillIntegrate
  <2>1. faults' \in 0..MaxFaults /\ faults' # 0
    BY <1>1, <1>6 DEF KillIntegrate
  <2>2. root' \in Root /\ cpTmp' \in BOOLEAN /\ ipc' \in IPC /\ ierr' \in Failure
    BY <1>2, <1>6 DEF KillIntegrate, files, IPC
  <2> QED
    BY <2>1, <2>2 DEF CommandTyped
<1>7. CASE \E tile \in DOMAIN dirty : StoreTile(tile)
  <2>1. PICK tile : StoreTile(tile)
    BY <1>7
  <2>2. /\ UNCHANGED <<root, cp, cpTmp, tmpLinks, ipc, ierr, faults>>
        /\ ipc = "store" /\ relink' \in {Partials(tile), {}}
    BY <2>1 DEF StoreTile
  <2>3. \A q \in relink' : q[1] = tile[1] /\ q[2] = tile[2]
    BY <2>2 DEF Partials
  <2>4. FilesPlain => FilesPlain'
    BY <1>7, IntegratePlain
  <2> QED
    BY <1>2, <2>2, <2>3, <2>4 DEF CommandTyped, Clean
<1>8. CASE \E p \in relink : SymlinkTile(p)
  <2>1. PICK p \in relink : SymlinkTile(p)
    BY <1>8
  <2>2. /\ UNCHANGED <<root, cp, cpTmp, relink, ierr, faults>>
        /\ ipc = "store" /\ ipc' = "rename" /\ tmpLinks' = tmpLinks \cup {<<p[1], p[2]>>}
    BY <2>1 DEF SymlinkTile
  <2>3. CommandTyped'
    BY <1>2, <2>2 DEF CommandTyped, IPC
  <2>4. ASSUME Clean PROVE Clean'
    <3>1. tmpLinks' = {<<p[1], p[2]>>}
      BY <2>2, <2>4 DEF Clean
    <3>2. \A q \in relink : <<p[1], p[2]>> = <<q[1], q[2]>>
      BY <2>4 DEF Clean
    <3> QED
      BY <2>2, <2>4, <3>1, <3>2 DEF Clean
  <2>5. FilesPlain => FilesPlain'
    BY <1>8, IntegratePlain
  <2> QED
    BY <1>2, <2>2, <2>3, <2>4, <2>5
<1>9. CASE \E p \in relink : RenameSymlink(p)
  <2>1. PICK p \in relink : RenameSymlink(p)
    BY <1>9
  <2>2. /\ UNCHANGED <<root, cp, cpTmp, ierr, faults>> /\ relink' = relink \ {p}
        /\ ipc = "rename" /\ ipc' = "store" /\ tmpLinks' = tmpLinks \ {<<p[1], p[2]>>}
    BY <2>1 DEF RenameSymlink
  <2>3. CommandTyped'
    BY <1>2, <2>2 DEF CommandTyped, IPC
  <2>4. ASSUME Clean PROVE Clean'
    <3>1. tmpLinks' = {}
      BY <2>2, <2>4 DEF Clean
    <3> QED
      BY <2>2, <2>4, <3>1 DEF Clean
  <2>5. FilesPlain => FilesPlain'
    BY <1>9, IntegratePlain
  <2> QED
    BY <1>2, <2>2, <2>3, <2>4, <2>5
<1>10. CASE PublishCheckpoint
  <2>1. /\ UNCHANGED <<root, tmpLinks, relink, ierr, faults>>
        /\ ipc = "move" /\ ipc' = "idle" /\ cp' = work /\ cpTmp' = FALSE
    BY <1>10 DEF PublishCheckpoint
  <2>2. work \in Seq(Leaf)
    BY AgreesIsTree DEF TInv, WorkOK, LInv
  <2>3. work # None
    BY <2>2, ServerlessAssumption
  <2>4. CommandTyped'
    BY <1>2, <2>1 DEF CommandTyped, IPC
  <2>5. ASSUME Clean PROVE Clean'
    BY <2>1, <2>3, <2>5 DEF Clean
  <2>6. FilesPlain => FilesPlain'
    BY <1>10, IntegratePlain
  <2> QED
    BY <1>2, <2>1, <2>4, <2>5, <2>6
<1> QED
  BY <1>3, <1>4, <1>5, <1>6, <1>7, <1>8, <1>9, <1>10 DEF IntegrateStep

\* Every step keeps the invariant of what is left behind.
LEMMA LeftNext == IInv /\ TInv /\ LInv /\ [Next]_vars => LInv'
<1> SUFFICES ASSUME IInv, TInv, LInv, [Next]_vars PROVE LInv'
  OBVIOUS
<1>1. CASE UNCHANGED vars
  <2>1. UNCHANGED <<seq, spc, entry, leafTmp, pending, root, cp, cpTmp, ipc, ierr, faults,
                    links, tmpLinks, work, dirty, relink>>
    BY <1>1 DEF vars, files, svars, ivars
  <2>2. FilesPlain => FilesPlain'
    BY <2>1 DEF FilesPlain, Plain, TileFile
  <2> QED
    BY <2>1, <2>2 DEF LInv, EntriesTyped, CommandTyped, Clean, Owned
<1>2. ASSUME NEW p \in Sequencers,
             \/ StartSequence(p) \/ ExitSequence(p)
             \/ \E x \in Leaf : Sequence(p, x)
             \/ SequenceStep(p)
             \/ SequenceError(p) \/ KillSequence(p)
      PROVE  LInv'
  BY <1>2, SequenceTyped, SequenceClean, SequenceOwned DEF LInv
<1>3. CASE \/ Initialise \/ InitialiseFails \/ StartIntegrate \/ IntegrateStep
           \/ KillIntegrate
  <2>1. UNCHANGED <<seq, spc, entry, leafTmp, pending>>
    BY <1>3 DEF Initialise, InitialiseFails, StartIntegrate, IntegrateStep, KillIntegrate,
       FetchRange, FetchRangeFails, ScanEntry, NothingToDo, EndScan, StoreTile,
       SymlinkTile, SymlinkFails, RenameSymlink, EndStore, CreateCheckpointTmp,
       CheckpointTmpExists, PublishCheckpoint, Fail, files, svars
  <2>2. EntriesTyped'
    BY <2>1 DEF LInv, EntriesTyped
  <2>3. CommandTyped' /\ (faults' = 0 => Clean' /\ FilesPlain')
    BY <1>3, IntegrateClean
  <2>4. faults' = 0 => faults = 0
    <3>1. faults \in Nat
      BY ServerlessAssumption DEF LInv, CommandTyped
    <3>2. CASE KillIntegrate \/ FetchRangeFails
      <4>1. faults' = faults \/ faults' = faults + 1
        BY <3>2 DEF KillIntegrate, FetchRangeFails
      <4> QED
        BY <3>1, <4>1
    <3>3. CASE ~KillIntegrate /\ ~FetchRangeFails
      BY <1>3, <3>3 DEF Initialise, InitialiseFails, StartIntegrate, IntegrateStep,
         FetchRange, ScanEntry, NothingToDo, EndScan, StoreTile, SymlinkTile,
         SymlinkFails, RenameSymlink, EndStore, CreateCheckpointTmp,
         CheckpointTmpExists, PublishCheckpoint
    <3> QED
      BY <3>2, <3>3
  <2>5. faults' = 0 => Owned'
    BY <2>1, <2>4 DEF LInv, Owned
  <2> QED
    BY <2>2, <2>3, <2>5 DEF LInv
<1> QED
  BY <1>1, <1>2, <1>3 DEF Next

\* The empty directory.
LEMMA LeftInit == Init => LInv
<1> SUFFICES ASSUME Init PROVE LInv
  OBVIOUS
<1>1. DOMAIN seq = {} /\ \A p \in Sequencers : spc[p] = "idle"
  BY DEF Init, NoFiles
<1>2. EntriesTyped
  BY <1>1 DEF Init, EntriesTyped
<1>3. CommandTyped
  <2>1. root \in Root /\ cpTmp \in BOOLEAN
    BY Zenon DEF Init, Root
  <2>2. ipc \in IPC /\ ierr \in Failure
    BY DEF Init, IPC, Failure
  <2>3. faults \in 0..MaxFaults
    BY ServerlessAssumption DEF Init
  <2> QED
    BY <2>1, <2>2, <2>3 DEF CommandTyped
<1>4. Clean /\ Owned /\ FilesPlain
  BY DEF Init, Clean, Owned, FilesPlain
<1> QED
  BY <1>2, <1>3, <1>4 DEF LInv

\* The invariant of what is left behind holds in every reachable state.
LEMMA LeftInvariant == Spec => []LInv
<1>1. Init => LInv
  BY LeftInit
<1>2. IInv /\ TInv /\ LInv /\ [Next]_vars => LInv'
  BY LeftNext
<1> QED
  BY <1>1, <1>2, InductiveInvariant, TilesInvariant, PTL DEF Spec

\* The invariants give the types of all variables.
LEMMA StorageTyped ==
    ASSUME IInv, TInv, LInv
    PROVE  StorageSound
<1>1. work \in Seq(Leaf) /\ published \subseteq Seq(Leaf)
  BY AgreesIsTree DEF TInv, WorkOK, PublishedOK, LInv
<1>2. cp \in Seq(Leaf) \cup {None}
  BY <1>1 DEF TInv, PublishedOK
<1>3. DOMAIN leafIdx \subseteq Leaf /\ \A x \in DOMAIN leafIdx : leafIdx[x] \in Nat
  BY DEF IInv, LeafIndexSound, SequencersTyped, LInv, EntriesTyped
<1>4. STypeOK
  BY <1>1, <1>2, <1>3 DEF STypeOK, IInv, SequencersTyped, Scanned, LInv, EntriesTyped,
                          CommandTyped
<1>5. LeftoversExplained
  BY ServerlessAssumption DEF LeftoversExplained, LInv, CommandTyped, Clean, Owned
<1> QED
  BY <1>4, <1>5 DEF StorageSound

(***************************************************************************)
(* The directory is always what the commands can have made of it, and an   *)
(* integrate command that fails does so after a command was killed or one  *)
(* of its calls failed: concurrent sequence commands alone never leave it  *)
(* a file that is in its way, or a tile that is missing or dangles.  Nor   *)
(* do they leave a temporary file that has its leaf refused.               *)
(***************************************************************************)
THEOREM StorageAlwaysSound == Spec => []StorageSound
<1>1. IInv /\ TInv /\ LInv => StorageSound
  BY StorageTyped
<1> QED
  BY <1>1, InductiveInvariant, TilesInvariant, LeftInvariant, PTL

-----------------------------------------------------------------------------
(***************************************************************************)
(* The files are an append-only log.  The numbers in use are the first     *)
(* ones, and an integrate command about to write a checkpoint has a tree   *)
(* that is no smaller than the one it replaces.                            *)
(***************************************************************************)

Counted == \E n \in Nat : DOMAIN seq = 0..(n - 1)

Ahead ==
    /\ cp # None \/ ipc # "idle" => root # "none"
    /\ cp # None /\ ipc \in {"checkpoint", "move"} => Size(cp) <= Size(work)

RInv == Counted /\ Ahead

\* An entry is linked at the first number that is free.
LEMMA LinkSeqFacts ==
    ASSUME IInv, NEW p \in Sequencers, LinkSeq(p), NEW n \in Nat, DOMAIN seq = 0..(n - 1)
    PROVE  /\ DOMAIN seq' = 0..n /\ seq'[n] = entry[p]
           /\ \A i \in 0..(n - 1) : seq'[i] = seq[i]
           /\ UNCHANGED cp
<1>1. /\ nextSeq[p] \notin DOMAIN seq /\ seq' = Put(seq, nextSeq[p], entry[p])
      /\ UNCHANGED cp
  BY DEF LinkSeq
<1>2. nextSeq[p] \in Nat /\ 0..(nextSeq[p] - 1) \subseteq DOMAIN seq
  BY DEF IInv, SequencersTyped, SequenceDense
<1>3. nextSeq[p] = n
  <2>1. ASSUME n < nextSeq[p] PROVE FALSE
    <3>1. n \in 0..(nextSeq[p] - 1) /\ n \notin 0..(n - 1)
      BY <1>2, <2>1
    <3> QED
      BY <1>2, <3>1
  <2> QED
    BY <1>1, <1>2, <2>1
<1>4. DOMAIN seq \cup {n} = 0..n
  OBVIOUS
<1> QED
  BY <1>1, <1>3, <1>4 DEF Put

\* Of all steps only LinkSeq touches the entries, and only PublishCheckpoint
\* the checkpoint.
LEMMA LogSteps ==
    ASSUME [Next]_vars
    PROVE  \/ \E p \in Sequencers : LinkSeq(p)
           \/ PublishCheckpoint
           \/ UNCHANGED <<seq, cp>>
<1>1. CASE UNCHANGED vars
  BY <1>1 DEF vars, files
<1>2. ASSUME NEW p \in Sequencers,
             \/ StartSequence(p) \/ ExitSequence(p)
             \/ \E x \in Leaf : Sequence(p, x)
             \/ SequenceStep(p)
             \/ SequenceError(p) \/ KillSequence(p)
      PROVE  LinkSeq(p) \/ UNCHANGED <<seq, cp>>
  BY <1>2 DEF StartSequence, ExitSequence, Sequence, SequenceStep, SequenceError,
              KillSequence, CreatePending, SkipTaken, CreateLeafTmp, LinkLeaf,
              RemoveLeafTmp, RemovePending, files
<1>3. CASE \/ Initialise \/ InitialiseFails \/ StartIntegrate \/ IntegrateStep
           \/ KillIntegrate
  BY <1>3 DEF Initialise, InitialiseFails, StartIntegrate, IntegrateStep, KillIntegrate,
              FetchRange, FetchRangeFails, ScanEntry, NothingToDo, EndScan, StoreTile,
              SymlinkTile, SymlinkFails, RenameSymlink, EndStore, CreateCheckpointTmp,
              CheckpointTmpExists, Fail, files
<1> QED
  BY <1>1, <1>2, <1>3 DEF Next

\* The numbers in use stay the first ones.
LEMMA CountedNext == IInv /\ Counted /\ [Next]_vars => Counted'
<1> SUFFICES ASSUME IInv, Counted, [Next]_vars PROVE Counted'
  OBVIOUS
<1>1. PICK n \in Nat : DOMAIN seq = 0..(n - 1)
  BY DEF Counted
<1>2. ASSUME NEW p \in Sequencers, LinkSeq(p) PROVE Counted'
  <2>1. DOMAIN seq' = 0..((n + 1) - 1) /\ n + 1 \in Nat
    BY <1>1, <1>2, LinkSeqFacts
  <2> QED
    BY <2>1 DEF Counted
<1>3. CASE seq' = seq
  BY <1>3 DEF Counted
<1>4. PublishCheckpoint => seq' = seq
  BY DEF PublishCheckpoint
<1> QED
  BY <1>2, <1>3, <1>4, LogSteps

\* The checkpoint stays behind what is about to replace it.
LEMMA AheadNext == TInv /\ Ahead /\ [Next]_vars => Ahead'
<1> SUFFICES ASSUME TInv, Ahead, [Next]_vars PROVE Ahead'
  OBVIOUS
<1>1. CASE UNCHANGED <<root, cp, ipc, work>>
  BY <1>1 DEF Ahead
<1>2. ASSUME NEW p \in Sequencers,
             \/ StartSequence(p) \/ ExitSequence(p)
             \/ \E x \in Leaf : Sequence(p, x)
             \/ SequenceStep(p)
             \/ SequenceError(p) \/ KillSequence(p)
      PROVE  UNCHANGED <<root, cp, ipc, work>>
  BY <1>2 DEF StartSequence, ExitSequence, Sequence, SequenceStep, SequenceError,
              KillSequence, CreatePending, SkipTaken, LinkSeq, CreateLeafTmp, LinkLeaf,
              RemoveLeafTmp, RemovePending, files, ivars
<1>3. CASE Initialise
  BY <1>3 DEF Initialise, Ahead
<1>4. CASE InitialiseFails \/ FetchRangeFails \/ NothingToDo \/ SymlinkFails
           \/ CheckpointTmpExists \/ KillIntegrate
  <2>1. UNCHANGED <<root, cp>> /\ ipc' = "idle"
    BY <1>4 DEF InitialiseFails, FetchRangeFails, NothingToDo, SymlinkFails,
                CheckpointTmpExists, KillIntegrate, Fail, files
  <2> QED
    BY <2>1 DEF Ahead
<1>5. CASE \/ StartIntegrate \/ FetchRange \/ ScanEntry \/ EndScan
           \/ \E tile \in DOMAIN dirty : StoreTile(tile)
           \/ \E p \in relink : SymlinkTile(p) \/ RenameSymlink(p)
  <2>1. /\ UNCHANGED <<root, cp>> /\ ipc' \in {"range", "scan", "store", "rename"}
        /\ cp # None \/ ipc # "idle"
    BY <1>5 DEF StartIntegrate, FetchRange, ScanEntry, EndScan, StoreTile, SymlinkTile,
                RenameSymlink, files
  <2> QED
    BY <2>1 DEF Ahead
<1>6. CASE EndStore
  <2>1. UNCHANGED <<root, cp, work>> /\ ipc = "store"
    BY <1>6 DEF EndStore, files
  <2>2. base = Size(cp) /\ base <= Size(work)
    BY <2>1 DEF TInv, WorkOK
  <2> QED
    BY <2>1, <2>2 DEF Ahead
<1>7. CASE CreateCheckpointTmp
  BY <1>7 DEF CreateCheckpointTmp, Ahead
<1>8. CASE PublishCheckpoint
  BY <1>8 DEF PublishCheckpoint, Ahead
<1>9. CASE UNCHANGED vars
  BY <1>1, <1>9 DEF vars, files, ivars
<1> QED
  BY <1>1, <1>2, <1>3, <1>4, <1>5, <1>6, <1>7, <1>8, <1>9 DEF Next, IntegrateStep

\* LinkSeq gives an entry the next number, PublishCheckpoint publishes the
\* entries up to a number, and nothing else shows.
LEMMA LogStep ==
    ASSUME IInv, TInv, LInv, RInv, [Next]_vars
    PROVE  [Abs!AbsNext]_(Abs!absVars)
<1>1. PICK n \in Nat : DOMAIN seq = 0..(n - 1)
  BY DEF RInv, Counted
<1>2. SequencedLog = InOrder(seq, n)
  BY <1>1, CountIs DEF SequencedLog, InOrder
<1>3. ASSUME NEW p \in Sequencers, LinkSeq(p) PROVE Abs!AbsNext
  <2>1. /\ DOMAIN seq' = 0..((n + 1) - 1) /\ seq'[n] = entry[p]
        /\ \A i \in 0..(n - 1) : seq'[i] = seq[i]
        /\ cp' = cp
    BY <1>1, <1>3, LinkSeqFacts
  <2>2. SequencedLog' = InOrder(seq', n + 1)
    BY <2>1, CountIs, n + 1 \in Nat DEF SequencedLog, InOrder
  <2>3. InOrder(seq', n + 1) = Append(InOrder(seq, n), seq'[n])
    BY <2>1, InOrderGrows
  <2>4. entry[p] \in Leaf
    BY <1>3 DEF LinkSeq, At, LInv, EntriesTyped
  <2>5. Abs!Sequence(entry[p])
    BY <1>2, <2>1, <2>2, <2>3 DEF Abs!Sequence
  <2> QED
    BY <2>4, <2>5 DEF Abs!AbsNext
<1>4. CASE PublishCheckpoint
  <2>1. cp' = work /\ seq' = seq /\ ipc = "move"
    BY <1>4 DEF PublishCheckpoint
  <2>2. PICK m \in 0..n : m = Len(work) /\ work = SubSeq(InOrder(seq, n), 1, m)
    BY <1>1, AgreesIsBeginning DEF TInv, WorkOK
  <2>3. cp # None => Size(cp) <= m
    BY <2>1, <2>2 DEF RInv, Ahead, Size
  <2>4. SequencedLog' = SequencedLog
    BY <2>1 DEF SequencedLog
  <2>5. Abs!Publish(m)
    BY <1>2, <2>1, <2>2, <2>3, <2>4 DEF Abs!Publish, Abs!Size, Size
  <2>6. m \in 0..Len(SequencedLog)
    BY <1>2, <2>2, InOrderFacts
  <2> QED
    BY <2>5, <2>6 DEF Abs!AbsNext, Abs!Size
<1>5. CASE UNCHANGED <<seq, cp>>
  BY <1>5 DEF Abs!absVars, SequencedLog
<1> QED
  BY <1>3, <1>4, <1>5, LogSteps

(***************************************************************************)
(* The log implements its abstract specification: any number of sequence   *)
(* commands and the integrate command, with no lock between them and       *)
(* killed anywhere, make one append-only log, in which an entry gets the   *)
(* next number and a checkpoint is replaced by that of a longer beginning. *)
(* (Under a relative storage directory the range that integrate starts     *)
(* from cannot be read back.)                                              *)
(***************************************************************************)
THEOREM LogImplementsAbstract == Spec => LogRefines
<1>1. Init => RInv /\ Abs!AbsInit
  <2> SUFFICES ASSUME Init PROVE RInv /\ Abs!AbsInit
    OBVIOUS
  <2>1. DOMAIN seq = 0..(0 - 1) /\ cp = None /\ ipc = "idle"
    BY DEF Init, NoFiles
  <2>2. RInv
    BY <2>1 DEF RInv, Counted, Ahead
  <2>3. SequencedLog = InOrder(seq, 0)
    BY <2>1, CountIs DEF SequencedLog, InOrder
  <2>4. SequencedLog = <<>>
    BY <2>3 DEF InOrder
  <2> QED
    BY <2>1, <2>2, <2>4 DEF Abs!AbsInit
<1>2. IInv /\ TInv /\ RInv /\ [Next]_vars => RInv'
  BY CountedNext, AheadNext DEF RInv
<1>3. IInv /\ TInv /\ LInv /\ RInv /\ [Next]_vars => [Abs!AbsNext]_(Abs!absVars)
  BY LogStep
<1> QED
  BY <1>1, <1>2, <1>3, InductiveInvariant, TilesInvariant, LeftInvariant, PTL
     DEF Spec, LogRefines, Abs!AbsSpec
=============================================================================
