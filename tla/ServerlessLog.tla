--------------------------- MODULE ServerlessLog ---------------------------
(***************************************************************************)
(* The serverless log on a file system: the `sequence' and `integrate'     *)
(* commands (serverless/cmd) over serverless/pkg/log and                   *)
(* serverless/internal/storage/fs.                                         *)
(*                                                                         *)
(* The state of the log is its files, and one action is one file system    *)
(* call with the computation around it.  Any number of sequence commands   *)
(* run at once; one integrate command runs at a time (the deployment says  *)
(* `concurrency: master').  A command may be killed between two calls, and *)
(* leaves its temporary files behind.                                      *)
(***************************************************************************)
EXTENDS Tiles, FiniteSetsExt

CONSTANTS Sequencers,    \* the sequence commands that may run at once
          MaxSize,       \* bound: entries that are ever sequenced
          MaxFaults,     \* bound: commands killed, and calls that fail
          None

ASSUME ServerlessAssumption ==
    /\ MaxSize \in Nat /\ MaxFaults \in Nat
    /\ None \notin Leaf
    /\ None \notin Seq(Leaf)

VARIABLES
    root,       \* rootDir: "none" until it exists, then how --storage_dir gives it
    cp,         \* the tree of <rootDir>/checkpoint, or None
    cpTmp,      \* checkpoint.tmp exists
    seq,        \* seq/...: the entry at each sequence number
    leafIdx,    \* leaves/...: the sequence number recorded for a leaf hash
    leafTmp,    \* leaves/....tmp: the leaf hashes with a temporary file
    pending,    \* leaves/pending: the leaf hashes with a temporary file
    tiles,      \* tile/...: <<level, index, partial>> to Nodes
    links,      \* the tile paths that are symlinks to their full tile
    tmpLinks    \* the tiles <<level, index>> with a file ....link

VARIABLES
    spc, entry, nextSeq,  \* per sequence command; nextSeq as in fs.Storage
    ipc,        \* the integrate command
    base,       \* the Size of the checkpoint it loaded
    work,       \* its compact range: the tree it has computed
    dirty,      \* tileCache.m: the tiles it has yet to store
    relink,     \* the partial tiles it has yet to relink
    ierr        \* why its last run failed

VARIABLES
    published,  \* history: every tree a checkpoint was written for
    faults

files == <<root, cp, cpTmp, seq, leafIdx, leafTmp, pending, tiles, links,
           tmpLinks>>
svars == <<spc, entry, nextSeq>>
ivars == <<ipc, base, work, dirty, relink, ierr>>
vars == <<files, svars, ivars, published, faults>>

SPC == {"idle", "ready", "create", "link", "index", "publish", "rmtmp", "rmpending"}
IPC == {"idle", "range", "scan", "store", "rename", "checkpoint", "move"}
Root == {"none", "absolute", "relative"}
Failure == {"none", "exists", "range", "link", "tmp"}

NoFiles == [x \in {} |-> None]

Init ==
    /\ root = "none" /\ cp = None /\ cpTmp = FALSE
    /\ seq = NoFiles /\ leafIdx = NoFiles
    /\ leafTmp = {} /\ pending = {}
    /\ tiles = NoFiles /\ links = {} /\ tmpLinks = {}
    /\ spc = [p \in Sequencers |-> "idle"]
    /\ entry = [p \in Sequencers |-> None]
    /\ nextSeq = [p \in Sequencers |-> 0]
    /\ ipc = "idle" /\ base = 0 /\ work = <<>> /\ dirty = NoFiles /\ relink = {}
    /\ ierr = "none"
    /\ published = {} /\ faults = 0

\* f with f[k] = v, whether or not k was in its domain.
Put(f, k, v) == [x \in DOMAIN f \cup {k} |-> IF x = k THEN v ELSE f[x]]
Without(f, k) == [x \in DOMAIN f \ {k} |-> f[x]]

-----------------------------------------------------------------------------
(***************************************************************************)
(* The sequence command: Storage.Sequence for each of its entries.         *)
(***************************************************************************)

At(p, from, to) == spc[p] = from /\ spc' = [spc EXCEPT ![p] = to]

\* Mutant: numbering starts one past the checkpoint.
StartSequenceNext(p) ==
    /\ At(p, "idle", "ready")
    /\ cp # None
    /\ nextSeq' = [nextSeq EXCEPT ![p] = Size(cp) + 1]
    /\ UNCHANGED <<files, ivars, entry, published, faults>>

\* ReadCheckpoint and Load.
StartSequence(p) ==
    /\ At(p, "idle", "ready")
    /\ cp # None
    /\ nextSeq' = [nextSeq EXCEPT ![p] = Size(cp)]
    /\ UNCHANGED <<files, ivars, entry, published, faults>>

\* The room left under MaxSize, counting the entries being sequenced.
Room == Cardinality(DOMAIN seq)
          + Cardinality({p \in Sequencers : spc[p] \in {"create", "link"}}) < MaxSize

\* The leaf hash file is not there, so this is not a known duplicate.
Sequence(p, x) ==
    /\ At(p, "ready", "create")
    /\ Room
    /\ x \notin DOMAIN leafIdx
    /\ entry' = [entry EXCEPT ![p] = x]
    /\ UNCHANGED <<files, nextSeq, ivars, published, faults>>

\* createExclusive of leaves/pending/<leafhash>.
CreatePending(p) ==
    /\ At(p, "create", "link")
    /\ entry[p] \notin pending
    /\ pending' = pending \cup {entry[p]}
    /\ UNCHANGED <<root, cp, cpTmp, seq, leafIdx, leafTmp, tiles, links,
                   tmpLinks, entry, nextSeq, ivars, published, faults>>

\* The command exits.
ExitSequence(p) ==
    /\ \/ spc[p] = "ready"
       \/ spc[p] = "create" /\ entry[p] \in pending
    /\ spc' = [spc EXCEPT ![p] = "idle"]
    /\ entry' = [entry EXCEPT ![p] = None]
    /\ UNCHANGED <<files, nextSeq, ivars, published, faults>>

\* os.Link fails with ErrExist: try the next number.
SkipTaken(p) ==
    /\ spc[p] = "link"
    /\ nextSeq[p] \in DOMAIN seq
    /\ nextSeq' = [nextSeq EXCEPT ![p] = @ + 1]
    /\ UNCHANGED <<files, spc, entry, ivars, published, faults>>

\* Mutant: os.Rename in place of os.Link, which replaces a file.
LinkSeqReplaces(p) ==
    /\ At(p, "link", "index")
    /\ seq' = Put(seq, nextSeq[p], entry[p])
    /\ UNCHANGED <<root, cp, cpTmp, leafIdx, leafTmp, pending, tiles, links,
                   tmpLinks, entry, nextSeq, ivars, published, faults>>

LinkSeq(p) ==
    /\ At(p, "link", "index")
    /\ nextSeq[p] \notin DOMAIN seq
    /\ seq' = Put(seq, nextSeq[p], entry[p])
    /\ UNCHANGED <<root, cp, cpTmp, leafIdx, leafTmp, pending, tiles, links,
                   tmpLinks, entry, nextSeq, ivars, published, faults>>

\* createExclusive of <leafFQ>.tmp, which holds the sequence number.
CreateLeafTmp(p) ==
    /\ At(p, "index", "publish")
    /\ entry[p] \notin leafTmp
    /\ leafTmp' = leafTmp \cup {entry[p]}
    /\ UNCHANGED <<root, cp, cpTmp, seq, leafIdx, pending, tiles, links,
                   tmpLinks, entry, nextSeq, ivars, published, faults>>

\* Mutant: the last number in use is recorded, not the one assigned.
LinkLeafLast(p) ==
    /\ At(p, "publish", "rmtmp")
    /\ leafIdx' = IF entry[p] \in DOMAIN leafIdx THEN leafIdx
                  ELSE Put(leafIdx, entry[p], Max(DOMAIN seq))
    /\ UNCHANGED <<root, cp, cpTmp, seq, leafTmp, pending, tiles, links,
                   tmpLinks, entry, nextSeq, ivars, published, faults>>

\* os.Link to leafFQ; a file that is already there stays.
LinkLeaf(p) ==
    /\ At(p, "publish", "rmtmp")
    /\ leafIdx' = IF entry[p] \in DOMAIN leafIdx THEN leafIdx
                  ELSE Put(leafIdx, entry[p], nextSeq[p])
    /\ UNCHANGED <<root, cp, cpTmp, seq, leafTmp, pending, tiles, links,
                   tmpLinks, entry, nextSeq, ivars, published, faults>>

\* The deferred removals, last deferred first.
RemoveLeafTmp(p) ==
    /\ At(p, "rmtmp", "rmpending")
    /\ leafTmp' = leafTmp \ {entry[p]}
    /\ UNCHANGED <<root, cp, cpTmp, seq, leafIdx, pending, tiles, links,
                   tmpLinks, entry, nextSeq, ivars, published, faults>>

RemovePending(p) ==
    /\ At(p, "rmpending", "ready")
    /\ pending' = pending \ {entry[p]}
    /\ entry' = [entry EXCEPT ![p] = None]
    /\ UNCHANGED <<root, cp, cpTmp, seq, leafIdx, leafTmp, tiles, links,
                   tmpLinks, nextSeq, ivars, published, faults>>

\* A link or a temporary file cannot be made (a full disk): Sequence returns
\* the error, what it deferred is removed, and the command exits.
SequenceError(p) ==
    /\ faults < MaxFaults /\ faults' = faults + 1
    /\ spc[p] \in {"link", "index", "publish"}
    /\ leafTmp' = IF spc[p] = "publish" THEN leafTmp \ {entry[p]} ELSE leafTmp
    /\ pending' = pending \ {entry[p]}
    /\ spc' = [spc EXCEPT ![p] = "idle"]
    /\ entry' = [entry EXCEPT ![p] = None]
    /\ UNCHANGED <<root, cp, cpTmp, seq, leafIdx, tiles, links, tmpLinks,
                   nextSeq, ivars, published>>

\* The command is killed.
KillSequence(p) ==
    /\ faults < MaxFaults /\ faults' = faults + 1
    /\ spc[p] \notin {"idle", "ready"}
    /\ spc' = [spc EXCEPT ![p] = "idle"]
    /\ entry' = [entry EXCEPT ![p] = None]
    /\ UNCHANGED <<files, nextSeq, ivars, published>>

-----------------------------------------------------------------------------
(***************************************************************************)
(* Reading tiles.  The symlinks are made with the path of the full tile as *)
(* it was given, rootDir included, so under a relative rootDir they point  *)
(* to a place that does not exist: reading one is ErrNotExist.             *)
(***************************************************************************)

TilePath(tile, partial) == <<tile[1], tile[2], partial>>

\* The file, or a symlink and the full tile that was meant.
Stored(path) ==
    \/ path \in DOMAIN tiles
    \/ path \in links /\ TilePath(path, 0) \in DOMAIN tiles

Dangles(path) == root = "relative" /\ path \in links

\* os.ReadFile finds it.
Exists(path) == Stored(path) /\ ~Dangles(path)

Content(path) == tiles[IF path \in links THEN TilePath(path, 0) ELSE path]

\* The file that GetTile reads for a tree of logSize leaves.
TileFile(tile, logSize) ==
    TilePath(tile, PartialTileSize(tile[1], tile[2], logSize))

\* nodeCache.GetNode.  A node that was never set but lies below the last one
\* that was is an empty line of the file, and comes back as an empty hash.
HasNode(node, logSize) ==
    LET addr == NodeCoordsToTileAddress(node)
        f == TileFile(addr.tile, logSize)
    IN  /\ Exists(f)
        /\ \E k \in DOMAIN Content(f) : TileNodeKey(addr.node) <= TileNodeKey(k)

GetNode(node, logSize) ==
    LET addr == NodeCoordsToTileAddress(node)
        nodes == Content(TileFile(addr.tile, logSize))
    IN  IF addr.node \in DOMAIN nodes THEN nodes[addr.node] ELSE <<>>

\* FetchRangeNodes succeeds, and the tree whose compact range it returns.
HasRange(s) == \A node \in RangeNodes(s) : HasNode(node, s)

RangeTree(s) ==
    [i \in 1..s |->
        LET node == CHOOSE m \in RangeNodes(s) : First(m) < i /\ i <= Last(m)
        IN  GetNode(node, s)[i - First(node)]]

-----------------------------------------------------------------------------
(***************************************************************************)
(* The integrate command: Integrate, then signAndWrite.                    *)
(***************************************************************************)

\* The command exits with an error; what it wrote stays.
Fail(why) ==
    /\ ierr' = why
    /\ ipc' = "idle" /\ base' = 0 /\ work' = <<>> /\ dirty' = NoFiles /\ relink' = {}
    /\ UNCHANGED <<files, svars, published>>

\* --initialise: Create, and the checkpoint of the empty tree.
Initialise ==
    /\ ipc = "idle" /\ root = "none"
    /\ root' \in {"absolute", "relative"}
    /\ ipc' = "checkpoint" /\ ierr' = "none" /\ work' = <<>>
    /\ UNCHANGED <<cp, cpTmp, seq, leafIdx, leafTmp, pending, tiles, links,
                   tmpLinks, svars, base, dirty, relink, published, faults>>

\* The directory is there and the checkpoint is not: Create refuses.
InitialiseFails ==
    /\ ipc = "idle" /\ root # "none" /\ cp = None
    /\ Fail("exists") /\ UNCHANGED faults

StartIntegrate ==
    /\ ipc = "idle" /\ cp # None
    /\ ipc' = "range" /\ ierr' = "none" /\ base' = Size(cp)
    /\ UNCHANGED <<files, svars, work, dirty, relink, published, faults>>

\* A tile of the range is not there, or reading it fails.
FetchRangeFails ==
    /\ ipc = "range" /\ (HasRange(base) => faults < MaxFaults)
    /\ faults' = IF HasRange(base) THEN faults + 1 ELSE faults
    /\ Fail("range")

FetchRange ==
    /\ ipc = "range" /\ HasRange(base)
    /\ ipc' = "scan" /\ work' = RangeTree(base)
    /\ UNCHANGED <<files, svars, base, dirty, relink, ierr, published, faults>>

\* ScanSequenced reads the next entry, and newRange.Append adds it.
ScanEntry ==
    /\ ipc = "scan" /\ Size(work) \in DOMAIN seq
    /\ work' = Append(work, seq[Size(work)])
    /\ UNCHANGED <<files, svars, ipc, base, dirty, relink, ierr, published, faults>>

NothingToDo ==
    /\ ipc = "scan" /\ Size(work) \notin DOMAIN seq /\ Size(work) = base
    /\ ipc' = "idle" /\ base' = 0 /\ work' = <<>>
    /\ UNCHANGED <<files, svars, dirty, relink, ierr, published, faults>>

\* tileCache.Visit: the tile on disk, or an empty one, with the new nodes.
VisitedTile(tile) ==
    LET f == TileFile(tile, base)
        old == IF Exists(f) THEN Content(f) ELSE NoFiles
        new == {node \in VisitedNodes(base, Size(work)) :
                   NodeCoordsToTileAddress(node).tile = tile}
        Key(node) == NodeCoordsToTileAddress(node).node
    IN  [k \in DOMAIN old \cup {Key(node) : node \in new} |->
            IF \E node \in new : Key(node) = k
            THEN NodeHash(work, CHOOSE node \in new : Key(node) = k)
            ELSE old[k]]

\* The scan ends; the merged range gives the new root and the dirty tiles.
EndScan ==
    /\ ipc = "scan" /\ Size(work) \notin DOMAIN seq /\ Size(work) > base
    /\ ipc' = "store"
    /\ dirty' = [tile \in {NodeCoordsToTileAddress(node).tile :
                             node \in VisitedNodes(base, Size(work))}
                   |-> VisitedTile(tile)]
    /\ UNCHANGED <<files, svars, base, work, relink, ierr, published, faults>>

NumLeaves(nodes) == 1 + Max({k[2] : k \in {n \in DOMAIN nodes : n[1] = 0}})

\* The glob <full tile>.* of StoreTile.
Partials(tile) ==
    {p \in DOMAIN tiles \cup links : p[1] = tile[1] /\ p[2] = tile[2] /\ p[3] # 0}

\* StoreTile up to the rename of the temporary file; in the order of a Go map.
StoreTile(tile) ==
    /\ ipc = "store" /\ relink = {} /\ tile \in DOMAIN dirty
    /\ LET size == NumLeaves(dirty[tile])
           path == TilePath(tile, size % TileWidth)
       IN  /\ tiles' = Put(tiles, path, dirty[tile])
           /\ links' = links \ {path}
           /\ relink' = IF size = TileWidth THEN Partials(tile) ELSE {}
    /\ dirty' = Without(dirty, tile)
    /\ UNCHANGED <<root, cp, cpTmp, seq, leafIdx, leafTmp, pending, tmpLinks,
                   svars, ipc, base, work, ierr, published, faults>>

\* The dance that relinks partial p: a symlink beside the tile, moved over p.
SymlinkTile(p) ==
    /\ ipc = "store" /\ p \in relink
    /\ <<p[1], p[2]>> \notin tmpLinks
    /\ tmpLinks' = tmpLinks \cup {<<p[1], p[2]>>}
    /\ ipc' = "rename"
    /\ UNCHANGED <<root, cp, cpTmp, seq, leafIdx, leafTmp, pending, tiles,
                   links, svars, base, work, dirty, relink, ierr, published, faults>>

SymlinkFails ==
    /\ ipc = "store"
    /\ \E p \in relink : <<p[1], p[2]>> \in tmpLinks
    /\ Fail("link") /\ UNCHANGED faults

RenameSymlink(p) ==
    /\ ipc = "rename" /\ p \in relink
    /\ tmpLinks' = tmpLinks \ {<<p[1], p[2]>>}
    /\ tiles' = Without(tiles, p)
    /\ links' = links \cup {p}
    /\ relink' = relink \ {p}
    /\ ipc' = "store"
    /\ UNCHANGED <<root, cp, cpTmp, seq, leafIdx, leafTmp, pending,
                   svars, base, work, dirty, ierr, published, faults>>

\* Mutant: the checkpoint is written while tiles are still being stored.
EndStoreEarly ==
    /\ ipc = "store" /\ relink = {}
    /\ ipc' = "checkpoint"
    /\ UNCHANGED <<files, svars, base, work, dirty, relink, ierr, published, faults>>

\* Integrate returns the new checkpoint, which is then signed.
EndStore ==
    /\ ipc = "store" /\ DOMAIN dirty = {} /\ relink = {}
    /\ ipc' = "checkpoint"
    /\ UNCHANGED <<files, svars, base, work, dirty, relink, ierr, published, faults>>

\* WriteCheckpoint: createExclusive of checkpoint.tmp, then the rename.
CreateCheckpointTmp ==
    /\ ipc = "checkpoint" /\ ~cpTmp
    /\ cpTmp' = TRUE
    /\ ipc' = "move"
    /\ UNCHANGED <<root, cp, seq, leafIdx, leafTmp, pending, tiles, links,
                   tmpLinks, svars, base, work, dirty, relink, ierr, published, faults>>

CheckpointTmpExists ==
    /\ ipc = "checkpoint" /\ cpTmp
    /\ Fail("tmp") /\ UNCHANGED faults

\* Mutant: the temporary file is copied, not renamed.
PublishCheckpointCopies ==
    /\ ipc = "move"
    /\ cp' = work
    /\ published' = published \cup {work}
    /\ ipc' = "idle" /\ base' = 0 /\ work' = <<>>
    /\ UNCHANGED <<root, cpTmp, seq, leafIdx, leafTmp, pending, tiles, links,
                   tmpLinks, svars, dirty, relink, ierr, faults>>

PublishCheckpoint ==
    /\ ipc = "move"
    /\ cp' = work /\ cpTmp' = FALSE
    /\ published' = published \cup {work}
    /\ ipc' = "idle" /\ base' = 0 /\ work' = <<>>
    /\ UNCHANGED <<root, seq, leafIdx, leafTmp, pending, tiles, links,
                   tmpLinks, svars, dirty, relink, ierr, faults>>

\* The command is killed, or one of its writes fails.
KillIntegrate ==
    /\ faults < MaxFaults /\ faults' = faults + 1
    /\ ipc # "idle"
    /\ ipc' = "idle" /\ base' = 0 /\ work' = <<>> /\ dirty' = NoFiles /\ relink' = {}
    /\ UNCHANGED <<files, svars, ierr, published>>

SequenceStep(p) ==
    \/ CreatePending(p) \/ SkipTaken(p) \/ LinkSeq(p) \/ CreateLeafTmp(p)
    \/ LinkLeaf(p) \/ RemoveLeafTmp(p) \/ RemovePending(p)

IntegrateStep ==
    \/ FetchRange \/ FetchRangeFails \/ ScanEntry \/ NothingToDo \/ EndScan
    \/ \E tile \in DOMAIN dirty : StoreTile(tile)
    \/ \E p \in relink : SymlinkTile(p) \/ RenameSymlink(p)
    \/ SymlinkFails \/ EndStore
    \/ CreateCheckpointTmp \/ CheckpointTmpExists \/ PublishCheckpoint

Next ==
    \/ \E p \in Sequencers :
          \/ StartSequence(p) \/ ExitSequence(p)
          \/ \E x \in Leaf : Sequence(p, x)
          \/ SequenceStep(p)
          \/ SequenceError(p) \/ KillSequence(p)
    \/ Initialise \/ InitialiseFails \/ StartIntegrate \/ IntegrateStep
    \/ KillIntegrate

Spec == Init /\ [][Next]_vars

(***************************************************************************)
(* A running integrate command runs on, and the deployment starts another  *)
(* one after every batch of entries.                                       *)
(***************************************************************************)
FairSpec ==
    /\ Spec
    /\ WF_vars(IntegrateStep) /\ WF_vars(Initialise) /\ WF_vars(StartIntegrate)
-----------------------------------------------------------------------------
(***************************************************************************)
(* Properties.                                                             *)
(***************************************************************************)

\* Types of the variables.
STypeOK ==
    /\ root \in Root /\ cpTmp \in BOOLEAN
    /\ cp \in Seq(Leaf) \cup {None}
    /\ DOMAIN seq \subseteq Nat
    /\ \A i \in DOMAIN seq : seq[i] \in Leaf
    /\ DOMAIN leafIdx \subseteq Leaf
    /\ \A x \in DOMAIN leafIdx : leafIdx[x] \in Nat
    /\ leafTmp \subseteq Leaf /\ pending \subseteq Leaf
    /\ spc \in [Sequencers -> SPC]
    /\ entry \in [Sequencers -> Leaf \cup {None}]
    /\ nextSeq \in [Sequencers -> Nat]
    /\ ipc \in IPC /\ base \in Nat /\ ierr \in Failure
    /\ work \in Seq(Leaf)
    /\ published \subseteq Seq(Leaf)
    /\ faults \in 0..MaxFaults

\* The sequence numbers in use have no gap, whichever commands race and die:
\* nextSeq "may be <= than the actual next available number, but never
\* greater" (fs.Storage), and the same is true of the checkpoint it starts at.
SequenceDense ==
    /\ \A i \in DOMAIN seq : 0..i \subseteq DOMAIN seq
    /\ \A p \in Sequencers : 0..(nextSeq[p] - 1) \subseteq DOMAIN seq
    /\ cp # None => 0..(Size(cp) - 1) \subseteq DOMAIN seq

\* The number that Sequence and LookupIndex answer for a leaf hash is one at
\* which that leaf is stored, also when duplicates were sequenced.
LeafIndexSound ==
    \A x \in DOMAIN leafIdx : leafIdx[x] \in DOMAIN seq /\ seq[leafIdx[x]] = x

(***************************************************************************)
(* The inductive invariant behind SequenceDense and LeafIndexSound: a      *)
(* command between LinkSeq and LinkLeaf still holds the number it linked,  *)
(* and what the integrate command has scanned is sequenced.                *)
(***************************************************************************)
SequencersTyped ==
    /\ DOMAIN seq \subseteq Nat
    /\ spc \in [Sequencers -> SPC]
    /\ entry \in [Sequencers -> Leaf \cup {None}]
    /\ nextSeq \in [Sequencers -> Nat]

Numbered ==
    \A p \in Sequencers :
        spc[p] \in {"index", "publish"} =>
            nextSeq[p] \in DOMAIN seq /\ seq[nextSeq[p]] = entry[p]

Scanned ==
    /\ cp # None => IsSequence(cp)
    /\ IsSequence(work)
    /\ 0..(Size(work) - 1) \subseteq DOMAIN seq
    /\ base \in Nat
    /\ 0..(base - 1) \subseteq DOMAIN seq

IInv == SequencersTyped /\ SequenceDense /\ Numbered /\ LeafIndexSound /\ Scanned

\* An entry that was assigned a number keeps it for good.
EntriesImmutable ==
    [][\A i \in DOMAIN seq : i \in DOMAIN seq' /\ seq'[i] = seq[i]]_vars

\* The entries in the order of their numbers.
SequencedLog == [i \in 1..Cardinality(DOMAIN seq) |-> seq[i - 1]]

Abs == INSTANCE AbstractLog WITH log <- SequencedLog, checkpoint <- cp

\* Racing and dying sequence and integrate commands make one append-only log:
\* each entry gets the next free number for good, and the checkpoint only ever
\* moves on, to the tree of the entries as they are numbered (Storage.Sequence,
\* Integrate, WriteCheckpoint).
LogRefines == Abs!AbsSpec

\* The file that the proofs about a node read in a tree of size leaves.
NodeFile(node, size) == TileFile(NodeCoordsToTileAddress(node).tile, size)

\* Every checkpoint ever published commits to the sequenced entries, and every
\* node of its tree is in the tile of its size, or in the full tile that has
\* taken its place, at any later time, after any crash and in the middle of any
\* later integration.  GetTile reads it there, unless StoreTile has replaced
\* the partial tile by a symlink under a relative --storage_dir (the log_dir
\* './log' of the GitHub deployment), which points nowhere (fs.go, os.Symlink).
PublishedProvable ==
    \A t \in published :
        /\ \A i \in 1..Size(t) : i - 1 \in DOMAIN seq /\ seq[i - 1] = t[i]
        /\ \A node \in VisitedNodes(0, Size(t)) :
              /\ Stored(NodeFile(node, Size(t)))
              /\ GetNode(node, Size(t)) = NodeHash(t, node)
              /\ HasNode(node, Size(t)) \/ Dangles(NodeFile(node, Size(t)))

\* A sequenced entry gets into a published checkpoint when no command dies.
EventuallyIntegrated ==
    \A i \in 0..(MaxSize - 1) : i \in DOMAIN seq ~> cp # None /\ i < Size(cp)

HoldsPending == {"link", "index", "publish", "rmtmp", "rmpending"}
HoldsLeafTmp == {"publish", "rmtmp"}

\* Until a command is killed or one of its calls fails, no integrate command
\* fails on what it finds (a directory without a checkpoint, a temporary file or
\* symlink that is in its way, a tile that is missing or that cannot be read),
\* and each temporary file of a leaf, which would have its leaf refused, belongs
\* to a sequence command that is still going to remove it.
LeftoversExplained ==
    faults = 0 =>
        /\ ierr = "none"
        /\ \A x \in pending : \E p \in Sequencers : entry[p] = x /\ spc[p] \in HoldsPending
        /\ \A x \in leafTmp : \E p \in Sequencers : entry[p] = x /\ spc[p] \in HoldsLeafTmp

\* The directory is what the commands can have made of it, and only a command
\* that died, or one of whose calls failed, leaves a file that stops a later
\* one (createExclusive, os.Symlink, os.Rename).
StorageSound == STypeOK /\ LeftoversExplained
=============================================================================
