------------------------------- MODULE Clone -------------------------------
(***************************************************************************)
(* The log cloner (clone/): a command that takes the checkpoint of a log,  *)
(* downloads the leaves it commits to with parallel workers (download.Bulk *)
(* and fetchWorker.run), writes them in order (cloner.Clone, logdb), and   *)
(* stores the checkpoint once the root of the leaves matches.              *)
(*                                                                         *)
(* Indices start at 0, as in the database.  The log may grow or show       *)
(* another tree between two fetches.  Commands follow each other on one    *)
(* database; each may be killed, and each call may fail.  All commands run *)
(* with context.Background(), so nothing is ever cancelled.                *)
(***************************************************************************)
EXTENDS MerkleLog, FiniteSets, FiniteSetsExt

CONSTANTS Served,      \* the trees the log may show
          Workers,     \* number of workers
          FetchBatch,  \* leaves per fetch; the width of a tile for sumdbclone
          WriteBatch,  \* leaves per database transaction
          Err,         \* a BulkResult with an error
          MaxFaults    \* bound: failed calls and kills

ASSUME CloneAssumption ==
    /\ Served \subseteq Seq(Leaf) /\ Err \notin Leaf
    /\ Workers \in Nat \ {0} /\ FetchBatch \in Nat \ {0} /\ WriteBatch \in Nat \ {0}
    /\ MaxFaults \in Nat

VARIABLES
    leaves,   \* table leaves: index -> data
    cps,      \* table checkpoints, in the order of their sizes
    lost,     \* history: an INSERT has failed and its error was dropped
    served,   \* the tree the log shows
    tiled,    \* sumdbclone (TRUE: a fetch starts at a tile) or ctclone
    pc,       \* the command
    target,   \* the checkpoint it clones
    next,     \* Clone: index of the next leaf to come from the channel
    batch,    \* Clone: leaves not written yet
    rc,       \* the channel from Bulk to Clone
    bulk,     \* Bulk
    turn,     \* Bulk: the worker it waits for
    out,      \* Bulk: results to send
    worker,   \* the workers
    faults

db == <<leaves, cps, lost>>
log == <<served, tiled>>
pipe == <<rc, bulk, turn, out, worker>>
vars == <<db, log, pc, target, next, batch, pipe, faults>>

W == 0..(Workers - 1)
Idle == [w \in W |-> [pc |-> "closed", start |-> 0, data |-> <<>>]]

Init ==
    /\ leaves = [i \in {} |-> Err] /\ cps = <<>> /\ lost = FALSE
    /\ served \in Served /\ tiled \in BOOLEAN
    /\ pc = "idle" /\ target = <<>> /\ next = 0 /\ batch = <<>>
    /\ rc = <<>> /\ bulk = "closed" /\ turn = 0 /\ out = <<>> /\ worker = Idle
    /\ faults = 0

Fault == faults < MaxFaults /\ faults' = faults + 1

\* The log grows, or shows another tree.
Serve(t) ==
    /\ t # served /\ served' = t
    /\ UNCHANGED <<db, tiled, pc, target, next, batch, pipe, faults>>

\* The command ends: main returns, glog.Exit, or the process dies.
Exit ==
    /\ pc' = "idle" /\ target' = <<>> /\ next' = 0 /\ batch' = <<>>
    /\ rc' = <<>> /\ bulk' = "closed" /\ turn' = 0 /\ out' = <<>> /\ worker' = Idle
    /\ UNCHANGED log

Kill == pc # "idle" /\ Fault /\ Exit /\ UNCHANGED db

\* The operator ends a command that hangs.
Interrupt == pc = "hung" /\ Exit /\ UNCHANGED <<db, faults>>

-----------------------------------------------------------------------------
(* The database. *)

\* Next: one more than Head, the largest index.
Next1 == IF DOMAIN leaves = {} THEN 0 ELSE Max(DOMAIN leaves) + 1

\* The size GetLatestCheckpoint returns, or 0 for ErrNoDataFound.
Verified == IF cps = <<>> THEN 0 ELSE Size(cps[Len(cps)])

\* The table after inserting those leaves of data whose positions are in ok.
\* An index that is taken keeps its row.
Insert(start, data, ok) ==
    [i \in DOMAIN leaves \cup {start + k - 1 : k \in ok} |->
        IF i \in DOMAIN leaves THEN leaves[i] ELSE data[i - start + 1]]

\* WriteLeaves: the result of each INSERT is dropped, so that a transaction
\* may commit without one of its leaves.
WriteLeaves(start, data) ==
    /\ \/ leaves' = Insert(start, data, 1..Len(data)) /\ UNCHANGED <<lost, faults>>
       \/ \E k \in 1..Len(data) :
             /\ Fault
             /\ leaves' = Insert(start, data, (1..Len(data)) \ {k})
             /\ lost' = TRUE
    /\ UNCHANGED cps

-----------------------------------------------------------------------------
(* The command up to the download. *)

\* The checkpoint of the log is fetched.
Start ==
    /\ pc = "idle"
    /\ pc' = "prefetch" /\ target' = served
    /\ UNCHANGED <<db, log, next, batch, pipe, faults>>

\* ctverify: the checkpoint comes from stdin and nothing is downloaded.
StartVerify(t) ==
    /\ pc = "idle" /\ ~tiled
    /\ pc' = "verify" /\ target' = t
    /\ UNCHANGED <<db, log, next, batch, pipe, faults>>

\* No work to do: clone and Clone return nil.
NoWork ==
    /\ pc \in {"prefetch", "clone"} /\ Next1 >= Size(target)
    /\ pc' = "verify"
    /\ UNCHANGED <<db, log, target, next, batch, pipe, faults>>

\* The number of leaves of a fetch that starts at s, and whether the log
\* can answer it.
Count(s) == Min({FetchBatch, Size(target) - s})
Fetchable(s) == Size(served) >= s + Count(s) /\ (tiled => s % FetchBatch = 0)

\* The part of the tile at Next1 that is in the database.
Rem == IF tiled THEN Next1 % FetchBatch ELSE 0

Aligned ==
    /\ pc = "prefetch" /\ Next1 < Size(target) /\ Rem = 0
    /\ pc' = "clone"
    /\ UNCHANGED <<db, log, target, next, batch, pipe, faults>>

\* sumdbclone completes the tile that an earlier run has left incomplete.
Prefetch ==
    /\ pc = "prefetch" /\ Next1 < Size(target) /\ Rem > 0
    /\ LET first == Next1 - Rem
       IN  /\ Fetchable(first)
           /\ WriteLeaves(Next1, SubSeq(served, Next1 + 1, first + Count(first)))
    /\ pc' = "clone"
    /\ UNCHANGED <<log, target, next, batch, pipe>>

\* The fetch or the transaction fails.
PrefetchFails ==
    /\ pc = "prefetch" /\ Next1 < Size(target) /\ Rem > 0
    /\ (~Fetchable(Next1 - Rem) /\ UNCHANGED faults) \/ Fault
    /\ Exit /\ UNCHANGED db

\* Clone starts Bulk, and Bulk its workers.  Clone refuses to start if a
\* stored checkpoint is larger than the table, which cannot happen.
StartBulk ==
    /\ pc = "clone" /\ Next1 < Size(target) /\ Verified <= Next1
    /\ pc' = "loop" /\ next' = Next1 /\ batch' = <<>>
    /\ bulk' = "recv" /\ turn' = 0
    /\ worker' = [w \in W |-> [pc |-> "fetch", start |-> Next1 + w * FetchBatch,
                               data |-> <<>>]]
    /\ UNCHANGED <<db, log, target, rc, out, faults>>

-----------------------------------------------------------------------------
(* fetchWorker.run: at most one fetch ahead of Bulk. *)

Fetched(w) ==
    /\ worker[w].pc = "fetch" /\ worker[w].start < Size(target)
    /\ Fetchable(worker[w].start)
    /\ worker' = [worker EXCEPT ![w] =
          [pc |-> "offer", start |-> @.start,
           data |-> SubSeq(served, @.start + 1, @.start + Count(@.start))]]
    /\ UNCHANGED <<db, log, pc, target, next, batch, rc, bulk, turn, out, faults>>

\* A permanent error, or the backoff has run out.
GivesUp(w) ==
    /\ worker[w].pc = "fetch" /\ worker[w].start < Size(target)
    /\ (~Fetchable(worker[w].start) /\ UNCHANGED faults) \/ Fault
    /\ worker' = [worker EXCEPT ![w].pc = "failed"]
    /\ UNCHANGED <<db, log, pc, target, next, batch, rc, bulk, turn, out>>

WorkerEnds(w) ==
    /\ worker[w].pc = "fetch" /\ worker[w].start >= Size(target)
    /\ worker' = [worker EXCEPT ![w].pc = "closed"]
    /\ UNCHANGED <<db, log, pc, target, next, batch, rc, bulk, turn, out, faults>>

-----------------------------------------------------------------------------
(* Bulk: round-robin through the workers. *)

\* Mutant: off by one.
LastStartAfter == IF Size(target) > FetchBatch THEN Size(target) - FetchBatch + 1 ELSE 0

\* The first start whose batch reaches the end of the tree.
LastStart == IF Size(target) > FetchBatch THEN Size(target) - FetchBatch ELSE 0

BulkReceive ==
    /\ bulk = "recv" /\ worker[turn].pc = "offer"
    /\ out' = worker[turn].data
    /\ bulk' = IF worker[turn].start >= LastStart THEN "last" ELSE "send"
    /\ worker' = [worker EXCEPT ![turn] =
          [pc |-> "fetch", start |-> @.start + Workers * FetchBatch, data |-> <<>>]]
    /\ UNCHANGED <<db, log, pc, target, next, batch, rc, turn, faults>>

BulkError ==
    /\ bulk = "recv" /\ worker[turn].pc = "failed"
    /\ out' = <<Err>> /\ bulk' = "last"
    /\ UNCHANGED <<db, log, pc, target, next, batch, rc, turn, worker, faults>>

BulkSend ==
    /\ bulk \in {"send", "last"} /\ out # <<>>
    /\ Len(rc) < 2 * WriteBatch
    /\ rc' = Append(rc, Head(out)) /\ out' = Tail(out)
    /\ UNCHANGED <<db, log, pc, target, next, batch, bulk, turn, worker, faults>>

\* Mutant: Bulk goes on with any worker that has an offer.
BulkTurnReady ==
    /\ bulk = "send" /\ out = <<>>
    /\ bulk' = "recv"
    /\ turn' \in {w \in W : worker[w].pc = "offer"}
    /\ UNCHANGED <<db, log, pc, target, next, batch, rc, out, worker, faults>>

\* The next worker.
BulkTurn ==
    /\ bulk = "send" /\ out = <<>>
    /\ bulk' = "recv" /\ turn' = (turn + 1) % Workers
    /\ UNCHANGED <<db, log, pc, target, next, batch, rc, out, worker, faults>>

\* Bulk returns: the channel is closed and the workers' context cancelled.
BulkEnds ==
    /\ bulk = "last" /\ out = <<>>
    /\ bulk' = "closed" /\ worker' = Idle
    /\ UNCHANGED <<db, log, pc, target, next, batch, rc, turn, out, faults>>

-----------------------------------------------------------------------------
(* The main thread of Clone. *)

TakeLeaf ==
    /\ pc = "loop" /\ Len(batch) < WriteBatch /\ rc # <<>> /\ Head(rc) # Err
    /\ batch' = Append(batch, Head(rc)) /\ rc' = Tail(rc) /\ next' = next + 1
    /\ UNCHANGED <<db, log, pc, target, bulk, turn, out, worker, faults>>

TakeError ==
    /\ pc = "loop" /\ Len(batch) < WriteBatch /\ rc # <<>> /\ Head(rc) = Err
    /\ Exit /\ UNCHANGED <<db, faults>>

WriteFull ==
    /\ pc = "loop" /\ Len(batch) = WriteBatch
    /\ WriteLeaves(next - Len(batch), batch)
    /\ batch' = <<>>
    /\ UNCHANGED <<log, pc, target, next, pipe>>

\* BeginTx or Commit fails.
WriteFails ==
    /\ pc = "loop" /\ batch # <<>> /\ Fault
    /\ Len(batch) = WriteBatch \/ (rc = <<>> /\ bulk = "closed")
    /\ Exit /\ UNCHANGED db

\* The channel is closed: what is left is written, and Clone returns.
FinalWrite ==
    /\ pc = "loop" /\ Len(batch) < WriteBatch /\ rc = <<>> /\ bulk = "closed"
    /\ WriteLeaves(next - Len(batch), batch)
    /\ pc' = "verify" /\ batch' = <<>>
    /\ UNCHANGED <<log, target, next, pipe>>

-----------------------------------------------------------------------------
(* MerkleRoot and WriteCheckpoint. *)

\* MerkleRoot starts from the range of the latest checkpoint, unless that is
\* larger, and reads the rest from the table.
From == IF Size(target) >= Verified THEN Verified ELSE 0

\* Mutant: only the count of the leaves is compared.
RootMatchesCount ==
    /\ Size(target) > 0
    /\ \A i \in From..(Size(target) - 1) : i \in DOMAIN leaves

\* The leaves of the rest are all there, and the root is the checkpoint's.
\* (GetRootHash returns nil for no leaves, which no checkpoint matches.)
RootMatches ==
    /\ Size(target) > 0
    /\ \A i \in From..(Size(target) - 1) : i \in DOMAIN leaves /\ leaves[i] = target[i + 1]
    /\ From > 0 => Prefix(cps[Len(cps)], target)

VerifyOK ==
    /\ pc = "verify" /\ RootMatches
    /\ pc' = "write"
    /\ UNCHANGED <<db, log, target, next, batch, pipe, faults>>

VerifyFails ==
    /\ pc = "verify" /\ ~RootMatches
    /\ Exit /\ UNCHANGED <<db, faults>>

\* The query or a row fails.  StreamLeaves then sends on errc, which nobody
\* reads unless another leaf arrives: MerkleRoot ends or waits forever.
StreamFails ==
    /\ pc = "verify" /\ Size(target) > From /\ Fault
    /\ \/ pc' = "hung" /\ UNCHANGED <<log, target, next, batch, pipe>>
       \/ From + 1 < Size(target) /\ Exit
    /\ UNCHANGED db

\* A checkpoint that is not larger than the latest is dropped, and so is the
\* result of the INSERT.
WriteCheckpoint ==
    /\ pc = "write"
    /\ \/ Size(target) > Verified /\ cps' = Append(cps, target) /\ UNCHANGED faults
       \/ Size(target) <= Verified /\ UNCHANGED <<cps, faults>>
       \/ Fault /\ UNCHANGED cps
    /\ Exit /\ UNCHANGED <<leaves, lost>>

-----------------------------------------------------------------------------

Command ==
    \/ NoWork \/ Aligned \/ Prefetch \/ PrefetchFails \/ StartBulk
    \/ TakeLeaf \/ TakeError \/ WriteFull \/ WriteFails \/ FinalWrite
    \/ VerifyOK \/ VerifyFails \/ StreamFails \/ WriteCheckpoint

BulkStep == BulkReceive \/ BulkError \/ BulkSend \/ BulkTurn \/ BulkEnds

Worker(w) == Fetched(w) \/ GivesUp(w) \/ WorkerEnds(w)

Next ==
    \/ Start \/ Command \/ BulkStep \/ Kill \/ Interrupt
    \/ \E t \in Served : Serve(t) \/ StartVerify(t)
    \/ \E w \in W : Worker(w)

Spec == Init /\ [][Next]_vars

\* Goroutines run; nothing makes the operator start a command again.
FairSpec == Spec /\ WF_vars(Command) /\ WF_vars(BulkStep) /\ \A w \in W : WF_vars(Worker(w))

-----------------------------------------------------------------------------
(* Properties. *)

\* Type invariant of the database, the command and its goroutines.
CloneTypeOK ==
    /\ \A i \in DOMAIN leaves : i \in Nat /\ leaves[i] \in Leaf
    /\ cps \in Seq(Seq(Leaf)) /\ lost \in BOOLEAN /\ tiled \in BOOLEAN
    /\ served \in Seq(Leaf) /\ target \in Seq(Leaf) /\ batch \in Seq(Leaf)
    /\ pc \in {"idle", "prefetch", "clone", "loop", "verify", "write", "hung"}
    /\ next \in Nat /\ rc \in Seq(Leaf \cup {Err}) /\ out \in Seq(Leaf \cup {Err})
    /\ bulk \in {"recv", "send", "last", "closed"} /\ turn \in W
    /\ \A w \in W : /\ worker[w].pc \in {"fetch", "offer", "failed", "closed"}
                    /\ worker[w].start \in Nat /\ worker[w].data \in Seq(Leaf)
    /\ faults \in 0..MaxFaults

\* A leaf is only ever stored at the index where a tree of the log has it,
\* whatever the order in which the workers answer, and however often a
\* command dies between the fetch, the write and the next command (Bulk,
\* Clone, the prefetch of sumdbclone).
LeavesInPlace ==
    \A i \in DOMAIN leaves :
        \E t \in Served : Size(t) > i /\ t[i + 1] = leaves[i]

\* "There are no missing ranges": unless an INSERT error was dropped, the
\* indices of the table are 0 to Head (Bulk, WriteLeaves, Clone).
LeavesContiguous == ~lost => DOMAIN leaves = 0..(Next1 - 1)

\* "Clone downloads all the leaves up to the given treeSize, or returns an
\* error": when it returns nil after a download, none of the batches of the
\* workers, and no part of the last one, is missing (Bulk, Clone).
CloneComplete ==
    ~lost /\ pc = "verify" /\ next > 0 => 0..(Size(target) - 1) \subseteq DOMAIN leaves

\* The leaves of t are stored.
Stored(t) == \A i \in 1..Size(t) : i - 1 \in DOMAIN leaves /\ leaves[i - 1] = t[i]

\* Every stored checkpoint is that of the leaves stored, although the root
\* is computed from the range of an earlier checkpoint, and the table may
\* hold leaves of a later or another tree (MerkleRoot, WriteCheckpoint).
CheckpointsVerified == \A n \in DOMAIN cps : Stored(cps[n])

\* "start must always be the first index within a tile": unless an INSERT
\* error was dropped, the prefetch leaves Clone at the start of a tile, and
\* so all workers stay aligned (sumdbclone, Bulk).
AlignedFetch ==
    ~lost /\ tiled => \A w \in W : worker[w].pc # "closed" => worker[w].start % FetchBatch = 0

\* The leaves that workers, Bulk, Clone and the prefetch bring into the
\* database: at their index, without a gap, up to the size asked for, fetched
\* from the start of a tile, after any failed calls, kills and restarts.
LeavesSound ==
    CloneTypeOK /\ LeavesInPlace /\ LeavesContiguous /\ CloneComplete /\ AlignedFetch

\* A command ends, or hangs in MerkleRoot after a failed read: Bulk stops
\* exactly at the batch that reaches the end of the tree, and never waits
\* for a worker that is done (Bulk, fetchWorker.run, Clone).
CloneEnds == pc # "idle" ~> pc \in {"idle", "hung"}

=============================================================================
