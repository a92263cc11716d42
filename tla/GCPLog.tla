------------------------------- MODULE GCPLog -------------------------------
(***************************************************************************)
(* The log on Google Cloud (serverless/experimental/gcp-log): the Cloud    *)
(* Functions Sequence and Integrate, and the uploader of entries, over the *)
(* objects of one bucket (internal/storage).                               *)
(*                                                                         *)
(* One action is one call to Cloud Storage with the computation around it. *)
(* An object is written and read whole; a write may carry the condition    *)
(* that the object does not exist.  Several invocations of Sequence may    *)
(* run at once; one of Integrate does (`--max-instances 1').  A call may   *)
(* fail and an invocation may be stopped at any point.                     *)
(***************************************************************************)
EXTENDS Tiles, FiniteSetsExt

CONSTANTS Uploads,     \* the objects <<name, entry>> that clients write
          Sequencers,  \* the invocations of Sequence that may run at once
          MaxFaults,   \* bound: calls that fail, invocations that are stopped
          None

ASSUME CloudAssumption ==
    /\ Uploads \subseteq Nat \X Leaf
    /\ IsFiniteSet(Sequencers)
    /\ MaxFaults \in Nat
    /\ None \notin Leaf
    /\ None \notin Seq(Leaf)

VARIABLES
    bucket,     \* the bucket exists
    cp,         \* the tree of the object checkpoint, or None
    entries,    \* the directory of new entries: name to content
    seq,        \* seq/...: the entry at each sequence number
    leafIdx,    \* leaves/...: the sequence number recorded for a leaf hash
    tiles       \* tile/...: <<level, index, partial>> to Nodes

VARIABLES
    spc, todo, entry, nextSeq,  \* per invocation of Sequence
    ipc,        \* the invocation of Integrate
    size,       \* the size of the tree it computes: where its scan ended
    dirty       \* tileCache.m: the tiles <<level, index>> it has yet to store

VARIABLES
    published,  \* history: every tree a checkpoint was written for
    faults

objects == <<bucket, cp, entries, seq, leafIdx, tiles>>
svars == <<spc, todo, entry, nextSeq>>
ivars == <<ipc, size, dirty>>
vars == <<objects, svars, ivars, published, faults>>

SPC == {"idle", "object", "number", "write", "index"}
IPC == {"idle", "store"}

NoObjects == [x \in {} |-> None]

Init ==
    /\ bucket = FALSE /\ cp = None
    /\ entries = NoObjects /\ seq = NoObjects /\ leafIdx = NoObjects
    /\ tiles = NoObjects
    /\ spc = [p \in Sequencers |-> "idle"]
    /\ todo = [p \in Sequencers |-> {}]
    /\ entry = [p \in Sequencers |-> None]
    /\ nextSeq = [p \in Sequencers |-> 0]
    /\ ipc = "idle" /\ size = 0 /\ dirty = {}
    /\ published = {} /\ faults = 0

\* An object is written, whether or not there was one of that name.
Put(f, k, v) == [j \in DOMAIN f \cup {k} |-> IF j = k THEN v ELSE f[j]]

\* CreateGCSObject: a client writes an entry, or replaces one.
CreateGCSObject(u) ==
    /\ bucket
    /\ entries' = Put(entries, u[1], u[2])
    /\ UNCHANGED <<bucket, cp, seq, leafIdx, tiles, svars, ivars, published, faults>>

-----------------------------------------------------------------------------
(***************************************************************************)
(* The Sequence function.                                                  *)
(***************************************************************************)

At(p, from, to) == spc[p] = from /\ spc' = [spc EXCEPT ![p] = to]

\* The names that are there when the listing is made.
GetObjects == DOMAIN entries

\* What is stored under a name when it is read.
GetObjectData(name) == entries[name]

\* Client.Sequence finds an object for the leaf hash and returns ErrDupeLeaf.
DupeLeaf(x) == x \in DOMAIN leafIdx

\* ReadCheckpoint, SetNextSeq and GetObjects.  (An older checkpoint only makes
\* FindNumber longer.)
StartSequence(p) ==
    /\ cp # None /\ GetObjects # {}
    /\ At(p, "idle", "object")
    /\ nextSeq' = [nextSeq EXCEPT ![p] = Size(cp)]
    /\ todo' = [todo EXCEPT ![p] = GetObjects]
    /\ UNCHANGED <<objects, entry, ivars, published, faults>>

\* On to the next object, or the iterator is done and the function returns.
Continue(p, from) ==
    /\ At(p, from, IF todo'[p] = {} THEN "idle" ELSE "object")
    /\ entry' = [entry EXCEPT ![p] = None]
    /\ nextSeq' = [nextSeq EXCEPT ![p] = IF todo'[p] = {} THEN 0 ELSE @]

\* Mutant: a duplicate ends the invocation, as any other error does.
NextObjectStops(p) ==
    LET x == GetObjectData(Min(todo[p]))
    IN  /\ spc[p] = "object"
        /\ IF DupeLeaf(x)
           THEN /\ todo' = [todo EXCEPT ![p] = {}]
                /\ Continue(p, "object")
           ELSE /\ todo' = [todo EXCEPT ![p] = @ \ {Min(@)}]
                /\ At(p, "object", "number")
                /\ entry' = [entry EXCEPT ![p] = x]
                /\ UNCHANGED nextSeq
        /\ UNCHANGED <<objects, ivars, published, faults>>

\* The next name, in order, and what is stored there by now.  A duplicate is
\* passed over.
NextObject(p) ==
    LET x == GetObjectData(Min(todo[p]))
    IN  /\ spc[p] = "object"
        /\ todo' = [todo EXCEPT ![p] = @ \ {Min(@)}]
        /\ IF DupeLeaf(x)
           THEN Continue(p, "object")
           ELSE /\ At(p, "object", "number")
                /\ entry' = [entry EXCEPT ![p] = x]
                /\ UNCHANGED nextSeq
        /\ UNCHANGED <<objects, ivars, published, faults>>

\* Attrs on one number after the other, until one is free.  Numbers in use stay
\* in use, so this ends at the first one that is free when it is looked at.
FindNumber(p) ==
    /\ At(p, "number", "write")
    /\ nextSeq' = [nextSeq EXCEPT ![p] =
                      Min((@..(@ + Cardinality(DOMAIN seq))) \ DOMAIN seq)]
    /\ UNCHANGED <<objects, todo, entry, ivars, published, faults>>

\* Mutant: the write has no condition.
WriteSeqReplaces(p) ==
    /\ At(p, "write", "index")
    /\ seq' = Put(seq, nextSeq[p], entry[p])
    /\ UNCHANGED <<bucket, cp, entries, leafIdx, tiles, todo, entry, nextSeq, ivars,
                   published, faults>>

\* The write on condition that the object does not exist.
WriteSeq(p) ==
    /\ nextSeq[p] \notin DOMAIN seq
    /\ At(p, "write", "index")
    /\ seq' = Put(seq, nextSeq[p], entry[p])
    /\ UNCHANGED <<bucket, cp, entries, leafIdx, tiles, todo, entry, nextSeq, ivars,
                   published, faults>>

\* StatusPreconditionFailed: another invocation took the number since.
PreconditionFailed(p) ==
    /\ nextSeq[p] \in DOMAIN seq
    /\ At(p, "write", "number")
    /\ nextSeq' = [nextSeq EXCEPT ![p] = @ + 1]
    /\ UNCHANGED <<objects, todo, entry, ivars, published, faults>>

\* The leaf hash object, which replaces one that is there.
WriteLeaf(p) ==
    /\ UNCHANGED todo /\ Continue(p, "index")
    /\ leafIdx' = Put(leafIdx, entry[p], nextSeq[p])
    /\ UNCHANGED <<bucket, cp, entries, seq, tiles, ivars, published, faults>>

\* A call fails and the function answers with the error, or it is stopped.
SequenceError(p) ==
    /\ faults < MaxFaults /\ faults' = faults + 1
    /\ spc[p] # "idle"
    /\ spc' = [spc EXCEPT ![p] = "idle"]
    /\ todo' = [todo EXCEPT ![p] = {}]
    /\ entry' = [entry EXCEPT ![p] = None]
    /\ nextSeq' = [nextSeq EXCEPT ![p] = 0]
    /\ UNCHANGED <<objects, ivars, published>>

-----------------------------------------------------------------------------
(***************************************************************************)
(* The Integrate function.                                                 *)
(***************************************************************************)

(***************************************************************************)
(* A tile is represented by the leaves below its bottom row, as the row    *)
(* determines the nodes above it.  (Module ServerlessLog, of which         *)
(* Integrate shares the code, keeps the nodes apart.)                      *)
(***************************************************************************)
TilePath(tile, partial) == <<tile[1], tile[2], partial>>

\* The object that GetTile reads for a tree of logSize leaves.
TileObject(tile, logSize) ==
    TilePath(tile, PartialTileSize(tile[1], tile[2], logSize))

\* The leaves below one node of a bottom row, and where a tile starts.
RowSpan(tile) == Pow2[tile[1] * TileHeight]
Start(tile) == tile[2] * TileWidth * RowSpan(tile)

\* How many of the leaves of a tree of size n are below the bottom row.
Covered(tile, n) ==
    LET end == (n \div RowSpan(tile)) * RowSpan(tile)
    IN  Min({end - Start(tile), TileWidth * RowSpan(tile)})

HasNode(node, logSize) ==
    LET tile == NodeCoordsToTileAddress(node).tile
        o == TileObject(tile, logSize)
    IN  o \in DOMAIN tiles /\ Last(node) - Start(tile) <= Len(tiles[o])

GetNode(node, logSize) ==
    LET tile == NodeCoordsToTileAddress(node).tile
    IN  SubSeq(tiles[TileObject(tile, logSize)],
               First(node) + 1 - Start(tile), Last(node) - Start(tile))

\* FetchRangeNodes: the nodes of the range are in the last tile of each level,
\* unless that is empty; the highest level comes first.
LastTile(l, s) ==
    IF (s \div Pow2[l * TileHeight]) % TileWidth = 0 THEN <<>>
    ELSE tiles[TileObject(<<l, s \div Pow2[(l + 1) * TileHeight]>>, s)]

RangeTree(s) ==
    LET Above[l \in 0..s] ==
            IF Pow2[l * TileHeight] > s THEN <<>> ELSE Above[l + 1] \o LastTile(l, s)
    IN  Above[0]

\* initialise: Create makes the bucket, unless it is there.
Initialise ==
    /\ ipc = "idle" /\ ~bucket
    /\ bucket' = TRUE
    /\ ipc' = "store" /\ size' = 0
    /\ UNCHANGED <<cp, entries, seq, leafIdx, tiles, svars, dirty, published,
                   faults>>

\* The bucket is there and the checkpoint is not: Create refuses, Sequence
\* answers with an error and Integrate panics.  Nothing changes.
NotInitialised ==
    /\ ipc = "idle" /\ bucket /\ cp = None
    /\ UNCHANGED vars

\* ScanSequenced from sequence number i on: the numbers up to the first one
\* that is free.
Sequenced(i) == {j \in DOMAIN seq : j >= i /\ i..j \subseteq DOMAIN seq}

(***************************************************************************)
(* ReadCheckpoint, FetchRangeNodes and ScanSequenced, up to the new root   *)
(* and the dirty tiles.  These calls only read, and are one step: only     *)
(* this invocation writes the checkpoint and the tiles, and the entries it *)
(* scans stay as they are (EntriesImmutable), so that they are read where  *)
(* they are used below.  A tile that is missing ends the invocation; so    *)
(* does a scan that finds nothing, as signAndWrite panics on the nil       *)
(* checkpoint.                                                             *)
(***************************************************************************)
Integrate ==
    /\ ipc = "idle" /\ ipc' = "store"
    /\ cp # None
    /\ Sequenced(Size(cp)) # {}
    /\ \A node \in RangeNodes(Size(cp)) : HasNode(node, Size(cp))
    /\ size' = Size(cp) + Cardinality(Sequenced(Size(cp)))
    /\ dirty' = {NodeCoordsToTileAddress(node).tile :
                    node \in VisitedNodes(Size(cp), size')}
    /\ UNCHANGED <<objects, svars, published, faults>>

\* tileCache.Visit: the tile stored for the checkpoint, or an empty one, with
\* the nodes that the new entries add.
VisitedTile(tile) ==
    LET o == TileObject(tile, Size(cp))
        old == IF o \in DOMAIN tiles THEN tiles[o] ELSE <<>>
    IN  [i \in 1..Covered(tile, size) |->
            IF i > Covered(tile, Size(cp)) THEN seq[Start(tile) + i - 1]
            ELSE IF i <= Len(old) THEN old[i] ELSE None]

\* The nodes in the bottom row of a tile to be stored.
NumLeaves(tile) == Covered(tile, size) \div RowSpan(tile)

\* The tree of the new range: the range of the checkpoint and the new entries.
\* Its size is the end of the range, whatever the nodes that were read.
NewTree ==
    LET s == IF cp = None THEN 0 ELSE Size(cp)
        range == RangeTree(s)
    IN  [i \in 1..size |-> IF i > s THEN seq[i - 1]
                           ELSE IF i <= Len(range) THEN range[i] ELSE None]

\* StoreTile, in the order of a Go map.  It returns once the object is written:
\* the loop that would copy a full tile over its partial ones is never reached.
StoreTile(tile) ==
    /\ ipc = "store" /\ tile \in dirty
    /\ dirty' = dirty \ {tile}
    /\ tiles' = Put(tiles, TilePath(tile, NumLeaves(tile) % TileWidth), VisitedTile(tile))
    /\ UNCHANGED <<bucket, cp, entries, seq, leafIdx, svars, ipc, size,
                   published, faults>>

\* Mutant: the checkpoint is written while tiles are still to be stored.
WriteCheckpointEarly ==
    /\ ipc = "store"
    /\ ipc' = "idle" /\ size' = 0 /\ dirty' = {}
    /\ cp' = NewTree
    /\ published' = published \cup {cp'}
    /\ UNCHANGED <<bucket, entries, seq, leafIdx, tiles, svars, faults>>

\* signAndWrite: the checkpoint object is replaced, on no condition.
WriteCheckpoint ==
    /\ ipc = "store" /\ dirty = {}
    /\ ipc' = "idle" /\ size' = 0
    /\ cp' = NewTree
    /\ published' = published \cup {cp'}
    /\ UNCHANGED <<bucket, entries, seq, leafIdx, tiles, svars, dirty, faults>>

\* A call fails or panics, or the invocation is stopped; what it wrote stays.
IntegrateError ==
    /\ faults < MaxFaults /\ faults' = faults + 1
    /\ ipc # "idle"
    /\ ipc' = "idle" /\ size' = 0 /\ dirty' = {}
    /\ UNCHANGED <<objects, svars, published>>

SequenceStep(p) ==
    \/ StartSequence(p) \/ NextObject(p) \/ FindNumber(p)
    \/ WriteSeq(p) \/ PreconditionFailed(p) \/ WriteLeaf(p)

IntegrateStep ==
    \/ Integrate
    \/ \E tile \in dirty : StoreTile(tile)
    \/ WriteCheckpoint

Next ==
    \/ \E u \in Uploads : CreateGCSObject(u)
    \/ \E p \in Sequencers : SequenceStep(p) \/ SequenceError(p)
    \/ Initialise \/ NotInitialised \/ IntegrateStep \/ IntegrateError

Spec == Init /\ [][Next]_vars

(***************************************************************************)
(* Both functions are called again and again (over HTTP, by a scheduler),  *)
(* and some invocation of each that was started runs on.                   *)
(***************************************************************************)
Fairness ==
    /\ WF_vars(\E p \in Sequencers : SequenceStep(p))
    /\ WF_vars(IntegrateStep)

-----------------------------------------------------------------------------
(***************************************************************************)
(* Properties.                                                             *)
(***************************************************************************)

\* Types of the variables.  (The content of tiles and trees is the matter of
\* PublishedProvable.)
CloudTypeOK ==
    /\ bucket \in BOOLEAN
    /\ cp # None => Size(cp) \in Nat
    /\ DOMAIN entries \subseteq Nat
    /\ \A n \in DOMAIN entries : entries[n] \in Leaf
    /\ DOMAIN seq \subseteq Nat
    /\ \A i \in DOMAIN seq : seq[i] \in Leaf
    /\ DOMAIN leafIdx \subseteq Leaf
    /\ \A x \in DOMAIN leafIdx : leafIdx[x] \in Nat
    /\ spc \in [Sequencers -> SPC]
    /\ todo \in [Sequencers -> SUBSET DOMAIN entries]
    /\ entry \in [Sequencers -> Leaf \cup {None}]
    /\ nextSeq \in [Sequencers -> Nat]
    /\ ipc \in IPC
    /\ size \in Nat
    /\ \A t \in published : Size(t) \in Nat
    /\ faults \in 0..MaxFaults

\* The sequence numbers in use have no gap, whichever invocations race and
\* fail, and nextSeq "may be <= than the actual next available number, but
\* never greater" (storage.Client).
SequenceDense ==
    /\ \A i \in DOMAIN seq : 0..i \subseteq DOMAIN seq
    /\ \A p \in Sequencers : 0..(nextSeq[p] - 1) \subseteq DOMAIN seq
    /\ cp # None => 0..(Size(cp) - 1) \subseteq DOMAIN seq

\* The number recorded for a leaf hash is one at which that leaf is stored,
\* also when invocations that sequenced the same leaf replace each other's.
LeafIndexSound ==
    \A x \in DOMAIN leafIdx : leafIdx[x] \in DOMAIN seq /\ seq[leafIdx[x]] = x

\* An entry that was assigned a number keeps it for good, although two
\* invocations may have seen the number free.
EntriesImmutable ==
    [][\A i \in DOMAIN seq : i \in DOMAIN seq' /\ seq'[i] = seq[i]]_vars

\* The entries in the order of their numbers.
SequencedLog == [i \in 1..Cardinality(DOMAIN seq) |-> seq[i - 1]]

Abs == INSTANCE AbstractLog WITH log <- SequencedLog, checkpoint <- cp

\* Whichever functions race and fail, the objects make one append-only log:
\* each entry gets the next free number for good, and the checkpoint only ever
\* moves on, to the tree of the entries as they are numbered, although it is
\* computed from tiles and written on no condition (Sequence, Integrate,
\* signAndWrite).
LogRefines == Abs!AbsSpec

\* Sequence "will attempt to silently squash duplicate leaves": a leaf gets at
\* most one number for each invocation that may run at once, and one more for
\* each that failed, however often it is uploaded and sequenced again.
DuplicatesExplained ==
    \A x \in Leaf :
        Cardinality({i \in DOMAIN seq : seq[i] = x}) <= Cardinality(Sequencers) + faults

\* What racing and failing Sequence functions make of the bucket: dense
\* numbers, an index that points to them, and few duplicates.
SequenceSound == CloudTypeOK /\ SequenceDense /\ LeafIndexSound /\ DuplicatesExplained

\* Every checkpoint ever published commits to the sequenced entries, and every
\* node of its tree can be read from the tiles of its size, at any later time
\* and in the middle of any later integration.
PublishedProvable ==
    \A t \in published :
        /\ \A i \in 1..Size(t) : i - 1 \in DOMAIN seq /\ seq[i - 1] = t[i]
        /\ \A node \in VisitedNodes(0, Size(t)) :
              /\ HasNode(node, Size(t))
              /\ GetNode(node, Size(t)) = NodeHash(t, node)

\* An entry that is left in the directory gets into the checkpoint of a log
\* that has one, after any number of failed invocations of both functions.
EventuallyIntegrated ==
    \A u \in Uploads :
        []<>(cp # None /\ u[1] \in DOMAIN entries /\ entries[u[1]] = u[2]
                => \E i \in 1..Size(cp) : cp[i] = u[2])
=============================================================================
