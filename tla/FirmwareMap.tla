---------------------------- MODULE FirmwareMap ----------------------------
(***************************************************************************)
(* The firmware map (binary_transparency/firmware): the ftmap command      *)
(* reads the log, aggregates the annotations of every firmware, and writes *)
(* the tiles, the aggregations and the release logs of a new revision into *)
(* a database, three sinks at once and batch by batch; the row in the      *)
(* table of revisions comes last.  The map server and MapClient read it.   *)
(* Commands may run at the same time, and may die at any point.            *)
(*                                                                         *)
(* The value of a tile is what its root hash commits to.                   *)
(***************************************************************************)
EXTENDS Naturals, Sequences, FiniteSets, SequencesExt

CONSTANTS Builder,    \* runs of the ftmap command at the same time
          MaxEntries, \* bound: entries of the log
          MaxBuilds   \* bound: runs of the command

ASSUME MapAssumption == MaxEntries \in Nat /\ MaxBuilds \in Nat

VARIABLES
    entries,   \* the log
    tiles,     \* tables: sets of rows [rev, key, val]
    aggs,
    rels,
    revisions, \* table: [rev, head, count]
    build,     \* the commands
    started,   \* the commands that were started
    disturbed, \* history: a command was killed, or two ran at once
    failed     \* history: a command failed

tables == <<tiles, aggs, rels, revisions>>
mvars == <<entries, tables, build, started, disturbed, failed>>

Release == [type |-> "firmware", at |-> 0, good |-> TRUE]
Annotation(n, g) == [type |-> "malware", at |-> n, good |-> g]

Ended == [pc |-> "idle"]

MInit ==
    /\ entries = <<>>
    /\ tiles = {} /\ aggs = {} /\ rels = {} /\ revisions = {}
    /\ build = [b \in Builder |-> Ended] /\ started = 0
    /\ disturbed = FALSE /\ failed = FALSE

\* The personality takes annotations of logged firmware only.
AddEntry(e) ==
    /\ Len(entries) < MaxEntries
    /\ e.type = "malware" => e.at < Len(entries) /\ entries[e.at + 1] = Release
    /\ entries' = Append(entries, e)
    /\ UNCHANGED <<tables, build, started, disturbed, failed>>

-----------------------------------------------------------------------------
(* The pipeline. *)

\* Indices of the firmware among the first n entries (partitionFn).
Releases(n) == {i \in 0..(n - 1) : entries[i + 1].type = "firmware"}

\* aggregationFn: good, unless an annotation among them says otherwise.  An
\* annotation without its firmware would be an error; AddEntry lets none in.
Aggregate(n, i) ==
    \A k \in 1..n : entries[k].type = "malware" /\ entries[k].at = i => entries[k].good

\* makeDeviceReleaseLogFn, for the one device: in the order of the log.
InOrder(I) == SetToSortSeq(I, <)
ReleaseLog(n) == InOrder(Releases(n))

MapValue(n, I) == [i \in I |-> Aggregate(n, i)]

\* The path of the root tile, and of the tile under it that has firmware i.
RootPath == <<>>
LeafPath(i) == <<i>>

\* The rows of the three sinks.  The root tile commits to everything; under it
\* there is a tile for every firmware.  Without firmware there is no row at all.
TileRows(n, r) ==
    {t \in {[rev |-> r, key |-> RootPath,
              val |-> [agg |-> MapValue(n, Releases(n)), rel |-> ReleaseLog(n)]]} : Releases(n) # {}}
    \cup {[rev |-> r, key |-> LeafPath(i), val |-> [agg |-> MapValue(n, {i}), rel |-> <<>>]] :
            i \in Releases(n)}

AggRows(n, r) == {[rev |-> r, key |-> i, val |-> Aggregate(n, i)] : i \in Releases(n)}

RelRows(n, r) ==
    {t \in {[rev |-> r, key |-> "device", val |-> ReleaseLog(n)]} : Releases(n) # {}}

\* One more than the largest revision of a tile.
NextWriteRevision ==
    IF tiles = {} THEN 0 ELSE 1 + Max({t.rev : t \in tiles})

\* The latest tree head in Trillian's database.
TreeHead == entries

\* sinkFromFlags: the revision is chosen before anything is read.
StartBuild(b) ==
    /\ build[b].pc = "idle" /\ started < MaxBuilds
    /\ build' = [build EXCEPT ![b] = [pc |-> "head", rev |-> NextWriteRevision]]
    /\ started' = started + 1
    /\ disturbed' = (disturbed \/ \E c \in Builder : build[c].pc # "idle")
    /\ UNCHANGED <<entries, tables, failed>>

\* getLogEnd: with --count the map has fewer entries than the checkpoint,
\* perhaps none, as it has when the log is empty.
ReadHead(b, count) ==
    /\ build[b].pc = "head" /\ count <= Len(TreeHead)
    /\ LET r == build[b].rev
       IN  build' = [build EXCEPT ![b] =
                [pc |-> "run", rev |-> r, end |-> [head |-> TreeHead, count |-> count],
                 tiles |-> TileRows(count, r), aggs |-> AggRows(count, r), rels |-> RelRows(count, r)]]
    /\ UNCHANGED <<entries, tables, started, disturbed, failed>>

\* getLogEnd fails: the log has not as many entries as --count says.
CountTooLarge(b) ==
    /\ build[b].pc = "head"
    /\ build' = [build EXCEPT ![b] = Ended]
    /\ UNCHANGED <<entries, tables, started, disturbed, failed>>

\* Mutant: tables without a primary key.
ConflictNever(table, row) == FALSE

\* The primary key of every table begins with the revision.
Conflict(table, row) == \E t \in table : t.rev = row.rev /\ t.key = row.key

\* A batch of one row.  A command whose insert fails exits.
SinkTile(b, row) ==
    /\ tiles' = IF Conflict(tiles, row) THEN tiles ELSE tiles \cup {row}
    /\ failed' = (failed \/ Conflict(tiles, row))
    /\ build' = IF Conflict(tiles, row) THEN [build EXCEPT ![b] = Ended]
                ELSE [build EXCEPT ![b].tiles = @ \ {row}]
    /\ UNCHANGED <<entries, aggs, rels, revisions, started, disturbed>>

SinkAgg(b, row) ==
    /\ aggs' = IF Conflict(aggs, row) THEN aggs ELSE aggs \cup {row}
    /\ failed' = (failed \/ Conflict(aggs, row))
    /\ build' = IF Conflict(aggs, row) THEN [build EXCEPT ![b] = Ended]
                ELSE [build EXCEPT ![b].aggs = @ \ {row}]
    /\ UNCHANGED <<entries, tiles, rels, revisions, started, disturbed>>

SinkRel(b, row) ==
    /\ rels' = IF Conflict(rels, row) THEN rels ELSE rels \cup {row}
    /\ failed' = (failed \/ Conflict(rels, row))
    /\ build' = IF Conflict(rels, row) THEN [build EXCEPT ![b] = Ended]
                ELSE [build EXCEPT ![b].rels = @ \ {row}]
    /\ UNCHANGED <<entries, tiles, aggs, revisions, started, disturbed>>

\* The pipeline has run.
Completed(b) == build[b].tiles = {} /\ build[b].aggs = {} /\ build[b].rels = {}

WriteRevision(b) ==
    /\ build[b].pc = "run" /\ Completed(b)
    /\ LET conflict == \E r \in revisions : r.rev = build[b].rev
       IN  /\ revisions' = IF conflict THEN revisions ELSE revisions \cup
                {[rev |-> build[b].rev, head |-> build[b].end.head, count |-> build[b].end.count]}
           /\ failed' = (failed \/ conflict)
    /\ build' = [build EXCEPT ![b] = Ended]
    /\ UNCHANGED <<entries, tiles, aggs, rels, started, disturbed>>

KillBuild(b) ==
    /\ build[b].pc # "idle"
    /\ build' = [build EXCEPT ![b] = Ended] /\ disturbed' = TRUE
    /\ UNCHANGED <<entries, tables, started, failed>>

MNext ==
    \/ AddEntry(Release)
    \/ \E n \in 0..(MaxEntries - 1), g \in BOOLEAN : AddEntry(Annotation(n, g))
    \/ \E b \in Builder :
          \/ StartBuild(b) \/ CountTooLarge(b)
          \/ \E n \in 0..MaxEntries : ReadHead(b, n)
          \/ WriteRevision(b) \/ KillBuild(b)
          \/ build[b].pc = "run" /\ \E row \in build[b].tiles : SinkTile(b, row)
          \/ build[b].pc = "run" /\ \E row \in build[b].aggs : SinkAgg(b, row)
          \/ build[b].pc = "run" /\ \E row \in build[b].rels : SinkRel(b, row)

MSpec == MInit /\ [][MNext]_mvars

-----------------------------------------------------------------------------
(* The map server and its client. *)

\* getTile and getAggregation.
Tile(rev, key) == {t.val : t \in {u \in tiles : u.rev = rev /\ u.key = key}}
Aggregation(rev, i) == {t.val : t \in {u \in aggs : u.rev = rev /\ u.key = i}}

LatestRevision == CHOOSE r \in revisions : \A q \in revisions : q.rev <= r.rev

\* getCheckpoint: of the last command that finished.
MapCheckpoint ==
    [logCheckpoint |-> LatestRevision.head, logSize |-> LatestRevision.count,
     revision |-> LatestRevision.rev, root |-> Tile(LatestRevision.rev, RootPath)]

\* MapClient.Aggregation: value g of firmware i comes with a proof that leads
\* to the root of the map checkpoint.
Proved(rev, i, g) ==
    /\ Aggregation(rev, i) = {g}
    /\ \E t \in Tile(rev, LeafPath(i)), root \in Tile(rev, RootPath) :
          t.agg[i] = g /\ i \in DOMAIN root.agg /\ root.agg[i] = g

-----------------------------------------------------------------------------
(* Properties. *)

\* Revisions are numbered without gaps that no command accounts for, and use no
\* more entries than the checkpoint has.
MTypeOK ==
    /\ Len(entries) <= MaxEntries /\ started \in 0..MaxBuilds
    /\ \A rev \in {t.rev : t \in tiles} \cup {t.rev : t \in aggs} \cup {t.rev : t \in rels} :
          rev < started
    /\ \A r \in revisions : r.count \in 0..Len(r.head)

\* A revision of some entries is whole, and of one log: every firmware of its
\* entries has its aggregation, with the value that these entries give it, and
\* a proof (main, WriteRevision).  A revision of no entries has no tile, so the
\* next command is given its number, and leaves its own tiles under it.
RevisionSound ==
    \A r \in revisions : r.count > 0 =>
        /\ \A root \in Tile(r.rev, RootPath) : root.rel = ReleaseLog(r.count)
        /\ \A i \in Releases(r.count) : Proved(r.rev, i, Aggregate(r.count, i))

\* The log checkpoint that the server shows is no older than that of any
\* revision of the whole log, in whatever order commands choose a revision, read
\* the tree head and finish (NextWriteRevision, getLogEnd).  A command with
\* --count may finish an earlier revision with a later checkpoint.
CheckpointLargest ==
    \A r \in revisions :
        r.count = Len(r.head) => Len(r.head) <= Len(MapCheckpoint.logCheckpoint)

\* A command fails only after another one was killed, ran at the same time, or
\* wrote a revision of no entries.
FailuresExplained == failed => disturbed \/ \E r \in revisions : r.count = 0

\* What commands that race and die leave behind: only whole revisions are
\* shown, the last one is the latest, and failures have a cause.
MapSound == MTypeOK /\ RevisionSound /\ CheckpointLargest /\ FailuresExplained
=============================================================================
