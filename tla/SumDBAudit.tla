----------------------------- MODULE SumDBAudit -----------------------------
(***************************************************************************)
(* The auditor of the Go checksum database (sumdbaudit/): the mirror, which*)
(* clones whole tiles of leaves, hashes them in a pipeline of one goroutine*)
(* per level, checks the result against the last golden checkpoint and the *)
(* one it was given, and makes that the golden one; and the witness, a     *)
(* second process that answers from the same database.                     *)
(*                                                                         *)
(* A hash stands for the leaves under it: a tile of level l is the sequence*)
(* of its Width^(l+1) leaves.  Indices and offsets start at 0.             *)
(***************************************************************************)
EXTENDS MerkleLog, Integers, FiniteSets, FiniteSetsExt, SequencesExt

CONSTANTS Served,     \* the trees the log may show
          Width,      \* leaves per tile: 1 << height
          None,
          MaxGoldens, \* bound: golden checkpoints
          MaxFaults   \* bound: failed calls and kills

ASSUME AuditAssumption ==
    /\ Served \subseteq Seq(Leaf) /\ None \notin Served
    /\ Width \in Nat \ {0, 1} /\ MaxGoldens \in Nat /\ MaxFaults \in Nat

VARIABLES
    leaves,    \* table leaves: index -> data
    tiles,     \* table tiles: <<level, offset>> -> leaves under it
    goldens,   \* table checkpoints, in the order of their datetime
    metadata,  \* table leafMetadata: index -> leaf
    lost,      \* history: an INSERT has failed and its error was dropped
    served,    \* the tree the log shows
    pc,        \* the mirror
    target,    \* the checkpoint it syncs to
    next,      \* cloneLeafTiles, ProcessMetadata: offset of the next tile
    left,      \* cloneLeafTiles: tiles still to fetch
    hash,      \* hashTiles: the goroutine of each level
    chan,      \* hashTiles: the channel from each level to the next
    req,       \* witness: the request being answered
    reply      \* witness: the last answer

VARIABLE faults

db == <<leaves, tiles, goldens, metadata, lost>>
mirror == <<pc, target, next, left, hash, chan>>
witness == <<req, reply>>
vars == <<db, served, mirror, witness, faults>>

NoReq == [pc |-> "idle", cp |-> <<>>, golden |-> None]
NoReply == [cp |-> <<>>, golden |-> None, verdict |-> "none"]

Init ==
    /\ leaves = [i \in {} |-> None] /\ tiles = [t \in {} |-> None]
    /\ goldens = <<>> /\ metadata = [i \in {} |-> None] /\ lost = FALSE
    /\ served \in Served
    /\ pc = "idle" /\ target = <<>> /\ next = 0 /\ left = 0 /\ hash = <<>> /\ chan = <<>>
    /\ req = NoReq /\ reply = NoReply /\ faults = 0

Fault == faults < MaxFaults /\ faults' = faults + 1

\* The log grows, or shows another tree.
Serve(t) ==
    /\ t # served /\ served' = t
    /\ UNCHANGED <<db, mirror, witness, faults>>

\* The mirror stops (glog.Exit, a kill) and is started again, or sleeps.
Exit ==
    /\ pc' = "idle" /\ target' = <<>> /\ next' = 0 /\ left' = 0
    /\ hash' = <<>> /\ chan' = <<>> /\ UNCHANGED <<served, witness>>

Kill == pc # "idle" /\ Fault /\ Exit /\ UNCHANGED db

-----------------------------------------------------------------------------
(* The database. *)

\* Head: the largest index, -1 for ErrNoDataFound.
HeadIndex(table) == IF DOMAIN table = {} THEN -1 ELSE Max(DOMAIN table)

Golden == IF goldens = <<>> THEN None ELSE Last(goldens)

\* The table after inserting the entries of data whose positions are in ok.
Insert(table, start, data, ok) ==
    [i \in DOMAIN table \cup {start + k - 1 : k \in ok} |->
        IF i \in DOMAIN table THEN table[i] ELSE data[i - start + 1]]

\* The two results of a transaction whose INSERT errors are dropped.
InsertAll(table, start, data) ==
    \/ table' = Insert(table, start, data, 1..Len(data)) /\ UNCHANGED <<lost, faults>>
    \/ \E k \in 1..Len(data) :
          /\ Fault /\ lost' = TRUE
          /\ table' = Insert(table, start, data, (1..Len(data)) \ {k})

\* Leaves: the block of a tile of level 0, an error unless all are there.
Block(o) == (o * Width)..((o + 1) * Width - 1)
HasBlock(o) == Block(o) \subseteq DOMAIN leaves
LeafBlock(o) == [k \in 1..Width |-> leaves[o * Width + k - 1]]

-----------------------------------------------------------------------------
(* Tile arithmetic. *)

\* The number of real leaves a tile of a level covers.
Covers[level \in Nat] == IF level = 0 THEN Width ELSE Width * Covers[level - 1]

\* getLevelsForLeafCount: the highest level with a complete tile, or -1.
TopLevel(n) == IF n < Width THEN -1 ELSE Max({l \in 0..n : Covers[l] <= n})

\* The leaves of tree t that tile <<l, o>> covers.
Under(t, l, o) == SubSeq(t, o * Covers[l] + 1, (o + 1) * Covers[l])

\* checkCheckpoint: from the top level down, the complete tiles after those
\* of the levels above.
TilesFor(n) ==
    UNION {{<<l, o>> : o \in ((n \div Covers[l + 1]) * Width)..(n \div Covers[l] - 1)} :
           l \in 0..TopLevel(n)}

TilesMatch(t) ==
    \A p \in TilesFor(Size(t)) : p \in DOMAIN tiles /\ tiles[p] = Under(t, p[1], p[2])

\* The number of leaves in complete tiles.
Whole(t) == (Size(t) \div Width) * Width

\* The leaves of the last, incomplete tile.
Stragglers(t) == (Whole(t) + 1)..Size(t)

\* Mutant: the stragglers are not compared.
LocalStragglersExist(t) ==
    Stragglers(t) # {} => <<0, Size(t) \div Width>> \in DOMAIN tiles

\* Stragglers read from the local, complete tile.
LocalStragglersMatch(t) ==
    LET o == Size(t) \div Width
    IN  Stragglers(t) # {} =>
            /\ <<0, o>> \in DOMAIN tiles
            /\ \A i \in Stragglers(t) : tiles[<<0, o>>][i - o * Width] = t[i]

\* Stragglers fetched from the log.
RemoteStragglersMatch(t) ==
    Stragglers(t) # {} =>
        /\ Size(served) >= Size(t)
        /\ \A i \in Stragglers(t) : served[i] = t[i]

-----------------------------------------------------------------------------
(* The mirror: one round of its loop, or one run of the clone command.     *)

\* The latest checkpoint is fetched; a golden one of its size or a larger one
\* means that there is nothing to do, unless clone is run with -f.
Start(force) ==
    /\ pc = "idle" /\ Len(goldens) < MaxGoldens
    /\ Golden # None /\ ~force => Size(Golden) < Size(served)
    /\ HeadIndex(leaves) <= Size(served)
    /\ pc' = "clone" /\ target' = served
    /\ LET local == HeadIndex(leaves) + 1
       IN  /\ next' = local \div Width
           /\ left' = IF local < Size(served) THEN (Size(served) - local) \div Width ELSE 0
    /\ UNCHANGED <<db, served, hash, chan, witness, faults>>

\* cloneLeafTiles: tiles are fetched and written one after the other.
CloneTile ==
    /\ pc = "clone" /\ left > 0
    /\ Size(served) >= (next + 1) * Width
    /\ InsertAll(leaves, next * Width, Under(served, 0, next))
    /\ next' = next + 1 /\ left' = left - 1
    /\ UNCHANGED <<tiles, goldens, metadata, served, pc, target, hash, chan, witness>>

\* The retries of a fetch have run out, or the transaction fails.
CloneFails ==
    /\ pc = "clone" /\ left > 0
    /\ (Size(served) < (next + 1) * Width /\ UNCHANGED faults) \/ Fault
    /\ Exit /\ UNCHANGED db

\* hashTiles starts a goroutine per level.
StartHash ==
    /\ pc = "clone" /\ left = 0
    /\ pc' = "hash"
    /\ LET levels == {0} \cup 1..TopLevel(Size(target))
       IN  /\ hash' = [l \in levels |-> [st |-> "run", off |-> 0, in |-> <<>>, out |-> <<>>]]
           /\ chan' = [l \in levels |-> <<>>]
    /\ UNCHANGED <<db, served, target, next, left, witness, faults>>

\* Tiles of a level that the checkpoint commits to.
TileCount(l) == Size(target) \div Covers[l]

Busy(l) == hash[l].st = "run" /\ hash[l].out = <<>> /\ hash[l].off < TileCount(l)

\* SetTile, if the tile is new, and the root is ready to be sent.
Hashed(l, content) ==
    /\ tiles' = [p \in DOMAIN tiles \cup {<<l, hash[l].off>>} |->
                    IF p \in DOMAIN tiles THEN tiles[p] ELSE content]
    /\ hash' = [hash EXCEPT ![l] =
          [st |-> "run", off |-> @.off + 1, in |-> <<>>, out |-> content]]

\* A goroutine returns an error.  It closes no channel.
Fails(l) ==
    /\ hash' = [hash EXCEPT ![l].st = "failed"]
    /\ UNCHANGED tiles

\* hashLeafLevel: an existing tile is used as it is, a missing one is made
\* from the leaves.
HashLeafLevel ==
    /\ pc = "hash" /\ Busy(0)
    /\ LET o == hash[0].off
       IN  \/ /\ <<0, o>> \in DOMAIN tiles
              /\ Hashed(0, tiles[<<0, o>>]) /\ UNCHANGED faults
           \/ /\ <<0, o>> \notin DOMAIN tiles /\ HasBlock(o)
              /\ (Hashed(0, LeafBlock(o)) /\ UNCHANGED faults) \/ (Fails(0) /\ Fault)
           \/ /\ <<0, o>> \notin DOMAIN tiles /\ ~HasBlock(o)
              /\ Fails(0) /\ UNCHANGED faults
    /\ UNCHANGED <<leaves, goldens, metadata, lost, served, pc, target, next, left, chan, witness>>

\* Mutant: a tile of another level is taken for its root.
ReceiveRootAnyLevel(l) ==
    /\ pc = "hash" /\ Busy(l) /\ Len(hash[l].in) < Covers[l]
    /\ chan[0] # <<>>
    /\ hash' = [hash EXCEPT ![l].in = @ \o Head(chan[0])]
    /\ chan' = [chan EXCEPT ![0] = Tail(@)]
    /\ UNCHANGED <<db, served, pc, target, next, left, witness, faults>>

\* hashUpperLevel receives the roots of Width tiles of the level below, and
\* compares each with the tile that is there.  A difference would be an
\* error, which cannot happen: a tile that is there is never computed anew.
ReceiveRoot(l) ==
    /\ pc = "hash" /\ Busy(l) /\ Len(hash[l].in) < Covers[l]
    /\ chan[l - 1] # <<>>
    /\ LET in == hash[l].in \o Head(chan[l - 1])
           p == <<l, hash[l].off>>
       IN  /\ p \in DOMAIN tiles => Prefix(in, tiles[p])
           /\ hash' = [hash EXCEPT ![l].in = in]
    /\ chan' = [chan EXCEPT ![l - 1] = Tail(@)]
    /\ UNCHANGED <<db, served, pc, target, next, left, witness, faults>>

\* All the roots of a tile are there: hash it, and store it.
HashUpperTile(l) ==
    /\ pc = "hash" /\ Busy(l) /\ Len(hash[l].in) = Covers[l]
    /\ (Hashed(l, hash[l].in) /\ UNCHANGED faults) \/ (Fails(l) /\ Fault)
    /\ UNCHANGED <<leaves, goldens, metadata, lost, served, pc, target, next, left, chan, witness>>

\* Mutant: the channels have no buffer, and nobody reads the last one.
SendRootUnbuffered(l) ==
    /\ pc = "hash" /\ hash[l].out # <<>> /\ Len(chan[l]) < Width
    /\ l + 1 \in DOMAIN hash
    /\ chan' = [chan EXCEPT ![l] = Append(@, hash[l].out)]
    /\ hash' = [hash EXCEPT ![l].out = <<>>]
    /\ UNCHANGED <<db, served, pc, target, next, left, witness, faults>>

\* The channels hold Width roots.
SendRoot(l) ==
    /\ pc = "hash" /\ hash[l].out # <<>> /\ Len(chan[l]) < Width
    /\ chan' = [chan EXCEPT ![l] = Append(@, hash[l].out)]
    /\ hash' = [hash EXCEPT ![l].out = <<>>]
    /\ UNCHANGED <<db, served, pc, target, next, left, witness, faults>>

\* g.Wait returns when every goroutine has: with an error if one failed.
Ended(l) ==
    \/ hash[l].st = "failed"
    \/ hash[l].out = <<>> /\ hash[l].off = TileCount(l)

HashDone ==
    /\ pc = "hash" /\ \A l \in DOMAIN hash : Ended(l)
    /\ \A l \in DOMAIN hash : hash[l].st = "run"
    /\ pc' = "consistency" /\ hash' = <<>> /\ chan' = <<>>
    /\ UNCHANGED <<db, served, target, next, left, witness, faults>>

HashFails ==
    /\ pc = "hash" /\ \A l \in DOMAIN hash : Ended(l)
    /\ \E l \in DOMAIN hash : hash[l].st = "failed"
    /\ Exit /\ UNCHANGED <<db, faults>>

\* Mutant: the check is left out for a golden checkpoint of the size of Head.
GoldenCheckedBelowHead == Golden # None /\ Size(Golden) < HeadIndex(leaves)

\* checkConsistency: no golden checkpoint, or one beyond the local leaves,
\* is not checked.
GoldenChecked == Golden # None /\ Size(Golden) <= HeadIndex(leaves)

\* Head is an error while there are no leaves.
GoldenConsistent ==
    /\ Golden # None => DOMAIN leaves # {}
    /\ GoldenChecked => TilesMatch(Golden) /\ LocalStragglersMatch(Golden)

GoldenOK ==
    /\ pc = "consistency" /\ GoldenConsistent
    /\ pc' = "root"
    /\ UNCHANGED <<db, served, target, next, left, hash, chan, witness, faults>>

GoldenFails ==
    /\ pc = "consistency" /\ ~GoldenConsistent
    /\ Exit /\ UNCHANGED <<db, faults>>

\* checkRootHash and SetGoldenCheckpoint; ProcessMetadata follows, from the
\* first tile that is not complete in the table.
RootOK ==
    /\ pc = "root" /\ TilesMatch(target) /\ RemoteStragglersMatch(target)
    /\ goldens' = Append(goldens, target)
    /\ pc' = "metadata" /\ next' = (HeadIndex(metadata) + 1) \div Width
    /\ UNCHANGED <<leaves, tiles, metadata, lost, served, target, left, hash, chan, witness, faults>>

RootFails ==
    /\ pc = "root"
    /\ (~(TilesMatch(target) /\ RemoteStragglersMatch(target)) /\ UNCHANGED faults) \/ Fault
    /\ Exit /\ UNCHANGED db

ProcessMetadata ==
    /\ pc = "metadata" /\ next < Size(target) \div Width /\ HasBlock(next)
    /\ InsertAll(metadata, next * Width, LeafBlock(next))
    /\ next' = next + 1
    /\ UNCHANGED <<leaves, tiles, goldens, served, pc, target, left, hash, chan, witness>>

\* All tiles are unpacked, or the unpack flag is off.
Finish ==
    /\ pc = "metadata"
    /\ next >= Size(target) \div Width \/ next = (HeadIndex(metadata) + 1) \div Width
    /\ Exit /\ UNCHANGED <<db, faults>>

-----------------------------------------------------------------------------
(* The witness: CheckConsistency, each query at its own time.  Requests     *)
(* change nothing, so that one per behaviour is enough.                     *)

QueryGolden(t) ==
    /\ req.pc = "idle" /\ reply = NoReply /\ goldens # <<>>
    /\ \/ /\ t = Golden
          /\ reply' = [cp |-> t, golden |-> Golden, verdict |-> "consistent"]
          /\ UNCHANGED req
       \/ /\ t # Golden
          /\ req' = [pc |-> "head", cp |-> t, golden |-> Golden]
          /\ UNCHANGED reply
    /\ UNCHANGED <<db, served, mirror, faults>>

Answer(verdict) ==
    /\ reply' = [cp |-> req.cp, golden |-> req.golden, verdict |-> verdict]
    /\ req' = NoReq

QueryHead ==
    /\ req.pc = "head"
    /\ \/ Size(req.cp) > HeadIndex(leaves)
          /\ Answer(IF DOMAIN leaves = {} THEN "error" ELSE "too fresh")
       \/ Size(req.cp) <= HeadIndex(leaves) /\ req' = [req EXCEPT !.pc = "tiles"] /\ UNCHANGED reply
    /\ UNCHANGED <<db, served, mirror, faults>>

\* Every error of checkCheckpoint, a tile that is not there yet included,
\* is answered as an inconsistency.
QueryTiles ==
    /\ req.pc = "tiles"
    /\ Answer(IF TilesMatch(req.cp) /\ LocalStragglersMatch(req.cp)
              THEN "consistent" ELSE "inconsistent")
    /\ UNCHANGED <<db, served, mirror, faults>>

-----------------------------------------------------------------------------

Hashing ==
    \/ HashLeafLevel
    \/ \E l \in DOMAIN hash : SendRoot(l) \/ (l > 0 /\ (ReceiveRoot(l) \/ HashUpperTile(l)))

Sync ==
    \/ CloneTile \/ CloneFails \/ StartHash \/ HashDone \/ HashFails
    \/ GoldenOK \/ GoldenFails \/ RootOK \/ RootFails \/ ProcessMetadata \/ Finish

Next ==
    \/ \E force \in BOOLEAN : Start(force)
    \/ Sync \/ Hashing \/ Kill
    \/ \E t \in Served : Serve(t) \/ QueryGolden(t)
    \/ QueryHead \/ QueryTiles

Spec == Init /\ [][Next]_vars

\* The goroutines of a Sync run.
FairSpec == Spec /\ WF_vars(Sync) /\ WF_vars(Hashing)

-----------------------------------------------------------------------------
(* Properties. *)

\* Type invariant of the database, the mirror and the witness.
AuditTypeOK ==
    /\ \A i \in DOMAIN leaves : i \in Nat /\ leaves[i] \in Leaf
    /\ \A i \in DOMAIN metadata : i \in Nat /\ metadata[i] \in Leaf
    /\ \A p \in DOMAIN tiles : tiles[p] \in Seq(Leaf) /\ Len(tiles[p]) = Covers[p[1]]
    /\ goldens \in Seq(Seq(Leaf)) /\ lost \in BOOLEAN
    /\ pc \in {"idle", "clone", "hash", "consistency", "root", "metadata"}
    /\ target \in Seq(Leaf) /\ next \in Nat /\ left \in Nat
    /\ req.pc \in {"idle", "head", "tiles"}
    /\ reply.verdict \in {"none", "consistent", "inconsistent", "too fresh", "error"}

\* A tile, of whatever level and by whichever run it was hashed, is that of
\* the leaves in the database: the roots of the pipeline reach the levels in
\* order, and a tile is never made of leaves that are not there (hashTiles).
TilesMatchLeaves ==
    \A p \in DOMAIN tiles : \A k \in 1..Covers[p[1]] :
        LET i == p[2] * Covers[p[1]] + k - 1
        IN  i \in DOMAIN leaves /\ leaves[i] = tiles[p][k]

\* Every golden checkpoint there has been commits to the complete tiles that
\* are in the database, however many levels of tiles the check used
\* (Sync, checkCheckpoint).
GoldenBacked ==
    \A g \in DOMAIN goldens : \A i \in 1..Whole(goldens[g]) :
        i - 1 \in DOMAIN leaves /\ leaves[i - 1] = goldens[g][i]

\* The stragglers of a golden checkpoint, which are not stored, made it into
\* the complete tile unchanged: it agrees with the next golden checkpoint on
\* all complete tiles of that one (checkConsistency).
GoldenSuccession ==
    \A g \in 1..(Len(goldens) - 1) :
        LET old == goldens[g]  new == goldens[g + 1]
        IN  \A i \in 1..Min({Size(old), Whole(new)}) : old[i] = new[i]

\* Metadata is only ever unpacked from leaves that a golden checkpoint
\* commits to (ProcessMetadata after Sync).
MetadataVerified ==
    \A i \in DOMAIN metadata : \E g \in DOMAIN goldens :
        Size(goldens[g]) > i /\ goldens[g][i + 1] = metadata[i]

\* The golden checkpoints that Sync leaves: each is backed by the database and
\* agrees with the next one, and no metadata is taken from anything else.
GoldensSound == AuditTypeOK /\ GoldenBacked /\ GoldenSuccession /\ MetadataVerified

\* The witness calls a checkpoint consistent only if it was golden or its
\* leaves are in the database, although the mirror moves on between its
\* queries (CheckConsistency).
ConsistentMeansStored ==
    reply.verdict = "consistent" /\ reply.cp # reply.golden =>
        \A i \in 1..Size(reply.cp) : i - 1 \in DOMAIN leaves /\ leaves[i - 1] = reply.cp[i]

\* A Sync ends, the pipeline of channels of hashTiles included, unless a
\* goroutine of hashTiles has failed and the others wait for it.
SyncEnds ==
    pc # "idle" ~> \/ pc = "idle"
                   \/ \E l \in DOMAIN hash : hash[l].st = "failed"

=============================================================================
