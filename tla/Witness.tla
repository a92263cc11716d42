------------------------------ MODULE Witness ------------------------------
(***************************************************************************)
(* The witness (witness/golang/internal/witness) over its two persistence  *)
(* layers (internal/persistence/inmemory and internal/persistence/sql),    *)
(* serving concurrent HTTP requests and in-process feeders.                *)
(*                                                                         *)
(* One element of Req is one goroutine that executes a request.  Update    *)
(* runs in three steps that other requests interleave with: WriteOps (with *)
(* GetLatest), the decision (pure, it ends with signChkpt), and Set.  The  *)
(* SQL layer has one connection (SetMaxOpenConns(1)), held from Begin to   *)
(* Close; the in-memory layer holds no lock between WriteOps and Set, and  *)
(* Set compares the stored state with the one WriteOps copied.             *)
(***************************************************************************)
EXTENDS MerkleLog

CONSTANTS Logs,         \* the keys of Witness.Logs
          UnknownLogs,  \* log IDs a caller may name that are not configured
          SignedTrees,  \* SignedTrees[l]: the trees log l signs checkpoints for
          Req,          \* the goroutines that can serve requests at once
          InMemory,     \* TRUE: inmemory persistence, FALSE: sql
          None

ASSUME WitnessAssumption ==
    /\ Logs \cap UnknownLogs = {}
    /\ DOMAIN SignedTrees = Logs
    /\ \A l \in Logs : \A t \in SignedTrees[l] : t \in Seq(Leaf)
    /\ InMemory \in BOOLEAN
    /\ None \notin Req
    /\ None \notin Seq(Leaf)
    /\ None \notin [tree : Seq(Leaf), range : Seq(Leaf)]

VARIABLES
    db,        \* the chkpts table, or inMemoryPersistence.checkpoints
    conn,      \* the request that holds the one SQL connection, or None
    compact,   \* the logs configured with UseCompact since the last start
    pc,        \* where each request is
    arg,       \* its arguments: the log, the submitted tree, the proof
    read,      \* what GetLatest returned to it
    reply,     \* its answer: a status code and a checkpoint
    cosigned   \* history: the trees whose cosigned checkpoint was stored

vars == <<db, conn, compact, pc, arg, read, reply, cosigned>>

Trees == UNION {SignedTrees[l] : l \in Logs}

\* A row of the chkpts table.  A range that was never stored is <<>>.
Stored == [tree : Seq(Leaf), range : Seq(Leaf)]

\* "update": waits in WriteOps; "decide": has read; "store": has signed and
\* calls Set; "replied": has returned to its caller.
PC == {"idle", "update", "decide", "store", "replied"}

Code == {"None", "OK", "NotFound", "InvalidArgument", "AlreadyExists",
         "FailedPrecondition", "Internal"}

\* The arguments of a call that submits nothing.
Names(l) == [log |-> l, next |-> <<>>, from |-> 0]
NoArg == Names(None)
NoReply == [code |-> "None", cp |-> None]

Init ==
    /\ db = [l \in Logs |-> None]
    /\ conn = None
    /\ compact \in SUBSET Logs
    /\ pc = [r \in Req |-> "idle"]
    /\ arg = [r \in Req |-> NoArg]
    /\ read = [r \in Req |-> None]
    /\ reply = [r \in Req |-> NoReply]
    /\ cosigned = [l \in Logs |-> {}]

-----------------------------------------------------------------------------
(***************************************************************************)
(* Persistence.                                                            *)
(***************************************************************************)

\* db.Begin and db.QueryRow wait for the connection; the in-memory layer
\* only takes its lock for the length of the call.
ConnFree == InMemory \/ conn = None

WriteOps(r) ==
    /\ pc[r] = "update"
    /\ ConnFree
    /\ conn' = IF InMemory THEN conn ELSE r
    /\ read' = [read EXCEPT ![r] = db[arg[r].log]]
    /\ pc' = [pc EXCEPT ![r] = "decide"]
    /\ UNCHANGED <<db, compact, arg, reply, cosigned>>

\* Mutant: Close is not called.
CloseLeaks(r) == conn

\* LogStateWriteOps.Close, deferred by Update: Rollback gives the connection
\* back; the in-memory Close does nothing.
Close(r) == IF conn = r THEN None ELSE conn

\* Mutant: a blind write.
CanWriteBlind(r) == TRUE

\* inMemoryPersistence.expectAndWrite refuses to write over a state that is
\* not the one that was read; the SQL transaction has nobody to conflict with.
CanWrite(r) == InMemory => db[arg[r].log] = read[r]

\* The request returns: `code', and the checkpoint `cp' when there is one.
Return(r, code, cp) ==
    /\ reply' = [reply EXCEPT ![r] = [code |-> code, cp |-> cp]]
    /\ pc' = [pc EXCEPT ![r] = "replied"]
    /\ conn' = Close(r)

-----------------------------------------------------------------------------
(***************************************************************************)
(* Witness.Update.                                                         *)
(***************************************************************************)

\* parse: the checkpoint verifies under the log's key and origin.
Parses(l, t) == t \in SignedTrees[l]

Update(r, l, t, from) ==
    /\ pc[r] = "idle"
    /\ l \in Logs
    /\ Parses(l, t)
    /\ arg' = [arg EXCEPT ![r] = [log |-> l, next |-> t, from |-> from]]
    /\ pc' = [pc EXCEPT ![r] = "update"]
    /\ UNCHANGED <<db, conn, compact, read, reply, cosigned>>

UpdateUnknownLog(r, l) ==
    /\ pc[r] = "idle"
    /\ l \in UnknownLogs
    /\ Return(r, "NotFound", None)
    /\ UNCHANGED <<db, compact, arg, read, cosigned>>

UpdateBadCheckpoint(r, l, t) ==
    /\ pc[r] = "idle"
    /\ l \in Logs
    /\ ~Parses(l, t)
    /\ Return(r, "InvalidArgument", None)
    /\ UNCHANGED <<db, compact, arg, read, cosigned>>

UsesCompact(r) == arg[r].log \in compact

\* Proof.Unmarshal wants at least one line, so it refuses a missing range.
RangeParses(r) == UsesCompact(r) => read[r].range # <<>>

\* Mutant: only the size the proof starts at is looked at.
ProofVerifiesBySize(r) == arg[r].from = Size(read[r].tree)

\* verifyRange with the stored range, or a plain consistency proof.
ProofVerifies(r) ==
    LET prev == read[r].tree
        next == arg[r].next
    IN  IF UsesCompact(r)
        THEN /\ RangeHasRoot(read[r].range, prev)
             /\ VerifyConsistency(read[r].range, next, arg[r].from)
        ELSE VerifyConsistency(prev, next, arg[r].from)

\* setInitChkptData: with compact ranges, the proof has to be the range of
\* the whole submitted tree.
InitVerifies(r) ==
    UsesCompact(r) => /\ arg[r].from = 0
                      /\ RangeHasRoot(arg[r].next, arg[r].next)

\* The conditions under which each early return of Update is taken.
Trusts(r) == read[r] = None
Shrinks(r) == Size(arg[r].next) < Size(read[r].tree)
SameSize(r) == Size(arg[r].next) = Size(read[r].tree)
Grows(r) == Size(arg[r].next) > Size(read[r].tree)

RefuseFirst(r) ==
    /\ pc[r] = "decide"
    /\ Trusts(r) /\ ~InitVerifies(r)
    /\ Return(r, "Internal", None)
    /\ UNCHANGED <<db, compact, arg, read, cosigned>>

RefuseRange(r) ==
    /\ pc[r] = "decide"
    /\ ~Trusts(r) /\ ~RangeParses(r)
    /\ Return(r, "InvalidArgument", None)
    /\ UNCHANGED <<db, compact, arg, read, cosigned>>

RefuseSmaller(r) ==
    /\ pc[r] = "decide"
    /\ ~Trusts(r) /\ RangeParses(r) /\ Shrinks(r)
    /\ Return(r, "AlreadyExists", read[r].tree)
    /\ UNCHANGED <<db, compact, arg, read, cosigned>>

RefuseFork(r) ==
    /\ pc[r] = "decide"
    /\ ~Trusts(r) /\ RangeParses(r) /\ SameSize(r)
    /\ arg[r].next # read[r].tree
    /\ Return(r, "FailedPrecondition", read[r].tree)
    /\ UNCHANGED <<db, compact, arg, read, cosigned>>

AlreadyHeld(r) ==
    /\ pc[r] = "decide"
    /\ ~Trusts(r) /\ RangeParses(r) /\ SameSize(r)
    /\ arg[r].next = read[r].tree
    /\ Return(r, "OK", read[r].tree)
    /\ UNCHANGED <<db, compact, arg, read, cosigned>>

RefuseProof(r) ==
    /\ pc[r] = "decide"
    /\ ~Trusts(r) /\ RangeParses(r) /\ Grows(r)
    /\ ~ProofVerifies(r)
    /\ Return(r, "FailedPrecondition", read[r].tree)
    /\ UNCHANGED <<db, compact, arg, read, cosigned>>

\* The checkpoint may be cosigned: the first one, or a proven extension.
Acceptable(r) ==
    \/ Trusts(r) /\ InitVerifies(r)
    \/ ~Trusts(r) /\ RangeParses(r) /\ Grows(r) /\ ProofVerifies(r)

\* signChkpt.  The signed note stays inside the request until it is stored.
Sign(r) ==
    /\ pc[r] = "decide"
    /\ Acceptable(r)
    /\ pc' = [pc EXCEPT ![r] = "store"]
    /\ UNCHANGED <<db, conn, compact, arg, read, reply, cosigned>>

\* Mutant: the reply is stored in place of the signed note.
NewStateUnsigned(r) == [tree |-> reply[r].cp, range |-> <<>>]

\* Mutant: the range of the first checkpoint is kept.
NewStateKeepsRange(r) ==
    [tree |-> arg[r].next,
     range |-> IF ~UsesCompact(r) THEN <<>>
               ELSE IF read[r] = None THEN arg[r].next ELSE read[r].range]

\* The row that Set stores: nextRaw cosigned, and the new range.
NewState(r) ==
    [tree |-> arg[r].next,
     range |-> IF UsesCompact(r) THEN arg[r].next ELSE <<>>]

Set(r) ==
    /\ pc[r] = "store"
    /\ CanWrite(r)
    /\ db' = [db EXCEPT ![arg[r].log] = NewState(r)]
    /\ cosigned' = [cosigned EXCEPT ![arg[r].log] = @ \cup {arg[r].next}]
    /\ Return(r, "OK", arg[r].next)
    /\ UNCHANGED <<compact, arg, read>>

\* Mutant: the signed note is returned although it was not stored.
SetConflictReturnsSigned(r) ==
    /\ pc[r] = "store"
    /\ ~CanWrite(r)
    /\ Return(r, "Internal", arg[r].next)
    /\ UNCHANGED <<db, compact, arg, read, cosigned>>

SetConflict(r) ==
    /\ pc[r] = "store"
    /\ ~CanWrite(r)
    /\ Return(r, "Internal", None)
    /\ UNCHANGED <<db, compact, arg, read, cosigned>>

\* Begin, the SELECT, the INSERT or the Commit fails; the transaction is
\* rolled back.
DBError(r) ==
    /\ ~InMemory
    /\ \/ pc[r] = "update" /\ ConnFree
       \/ pc[r] = "store"
    /\ Return(r, "Internal", None)
    /\ UNCHANGED <<db, compact, arg, read, cosigned>>

-----------------------------------------------------------------------------
(***************************************************************************)
(* Witness.GetCheckpoint, the callers, and restarts.                       *)
(***************************************************************************)

GetCheckpoint(r, l) ==
    /\ pc[r] = "idle"
    /\ ConnFree
    /\ arg' = [arg EXCEPT ![r] = Names(l)]
    /\ pc' = [pc EXCEPT ![r] = "replied"]
    /\ reply' = [reply EXCEPT ![r] =
                    IF db[l] = None THEN [code |-> "NotFound", cp |-> None]
                    ELSE [code |-> "OK", cp |-> db[l].tree]]
    /\ UNCHANGED <<db, conn, compact, read, cosigned>>

\* The SELECT of GetCheckpoint fails.
ReadError(r, l) ==
    /\ ~InMemory
    /\ pc[r] = "idle"
    /\ ConnFree
    /\ arg' = [arg EXCEPT ![r] = Names(l)]
    /\ Return(r, "Internal", None)
    /\ UNCHANGED <<db, compact, read, cosigned>>

\* The caller takes the answer, or is no longer there to take it.
Finish(r) ==
    /\ pc[r] = "replied"
    /\ pc' = [pc EXCEPT ![r] = "idle"]
    /\ arg' = [arg EXCEPT ![r] = NoArg]
    /\ read' = [read EXCEPT ![r] = None]
    /\ reply' = [reply EXCEPT ![r] = NoReply]
    /\ UNCHANGED <<db, conn, compact, cosigned>>

(***************************************************************************)
(* The process dies and is started again with a configuration in which the *)
(* operator may have switched UseCompact.  Requests in flight vanish.  A   *)
(* database keeps every committed row.  The in-memory witness forgets, and *)
(* says so ("Reboots will lose guarantees of witness correctness"), so its *)
(* history starts again too.                                               *)
(***************************************************************************)
Restart ==
    /\ db' = IF InMemory THEN [l \in Logs |-> None] ELSE db
    /\ cosigned' = IF InMemory THEN [l \in Logs |-> {}] ELSE cosigned
    /\ conn' = None
    /\ compact' \in SUBSET Logs
    /\ pc' = [r \in Req |-> "idle"]
    /\ arg' = [r \in Req |-> NoArg]
    /\ read' = [r \in Req |-> None]
    /\ reply' = [r \in Req |-> NoReply]

\* The steps a request takes by itself once it has been received.
Step(r) ==
    \/ WriteOps(r)
    \/ RefuseFirst(r) \/ RefuseRange(r) \/ RefuseSmaller(r)
    \/ RefuseFork(r) \/ AlreadyHeld(r) \/ RefuseProof(r)
    \/ Sign(r) \/ Set(r) \/ SetConflict(r)

\* The requests a caller can make.  A proof is named by the size it starts at.
Call(r) ==
    \/ \E l \in Logs, t \in Trees :
          \/ \E from \in {0} \cup {Size(s) : s \in Trees} : Update(r, l, t, from)
          \/ UpdateBadCheckpoint(r, l, t)
    \/ \E l \in UnknownLogs : UpdateUnknownLog(r, l)
    \/ \E l \in Logs : GetCheckpoint(r, l) \/ ReadError(r, l)

Next ==
    \/ \E r \in Req : Call(r) \/ Step(r) \/ DBError(r) \/ Finish(r)
    \/ Restart

Spec == Init /\ [][Next]_vars

(***************************************************************************)
(* A goroutine runs on; database/sql serves every goroutine that waits for *)
(* the connection, hence strong fairness for WriteOps.                     *)
(***************************************************************************)
Fairness ==
    \A r \in Req : WF_vars(Step(r)) /\ SF_vars(WriteOps(r))

FairSpec == Spec /\ Fairness
-----------------------------------------------------------------------------
(***************************************************************************)
(* Properties.                                                             *)
(***************************************************************************)

\* Types of the variables: rows hold trees, requests hold what they read.
TypeOK ==
    /\ db \in [Logs -> Stored \cup {None}]
    /\ conn \in Req \cup {None}
    /\ compact \in SUBSET Logs
    /\ pc \in [Req -> PC]
    /\ arg \in [Req -> [log : Logs \cup {None}, next : Seq(Leaf), from : Nat]]
    /\ read \in [Req -> Stored \cup {None}]
    /\ reply \in [Req -> [code : Code, cp : Seq(Leaf) \cup {None}]]
    /\ cosigned \in [Logs -> SUBSET Seq(Leaf)]

\* GetCheckpoint's contract: any two checkpoints of one log that the witness
\* ever cosigned are views of one append-only log, whatever requests raced.
CosignedConsistent ==
    \A l \in Logs : \A s, t \in cosigned[l] : Comparable(s, t)

\* No answer that Update or GetCheckpoint gives contains a checkpoint outside
\* that one history, even when it was computed from a read that is stale by
\* the time the answer leaves.
RepliesConsistent ==
    \A r \in Req : reply[r].cp # None =>
        \A t \in cosigned[arg[r].log] : Comparable(reply[r].cp, t)

\* The status codes of Update mean what its comment says: OK returns the
\* submitted tree cosigned, AlreadyExists a cosigned larger tree, and
\* FailedPrecondition a cosigned tree that the submission was not proven to
\* extend.
VerdictsJustified ==
    \A r \in Req : pc[r] = "replied" /\ reply[r].cp # None =>
        LET cp == reply[r].cp
            next == arg[r].next
        IN  /\ cp \in cosigned[arg[r].log]
            /\ reply[r].code = "AlreadyExists" => Size(next) < Size(cp)
            /\ reply[r].code = "FailedPrecondition" =>
                  /\ Size(next) >= Size(cp)
                  /\ ~VerifyConsistency(cp, next, arg[r].from)

\* The in-memory witness fails an acceptable checkpoint only because another
\* request got there first: the log has moved on from what was read.
ConflictMeansOvertaken ==
    \A r \in Req :
        InMemory /\ pc[r] = "replied" /\ reply[r].code = "Internal"
                 /\ (read[r] = None => InitVerifies(r))
        => /\ db[arg[r].log] # None
           /\ read[r] # None => Size(read[r].tree) < Size(db[arg[r].log].tree)

\* What Update and GetCheckpoint answer is sound, from however old a read it
\* was computed: the checkpoint in it belongs to the one history, the status
\* code is justified, and a conflict in Set means that the log has moved on.
AnswersSound == RepliesConsistent /\ VerdictsJustified /\ ConflictMeansOvertaken

(***************************************************************************)
(* The inductive invariant behind CosignedConsistent: the stored tree      *)
(* extends everything cosigned before, and a request between WriteOps and  *)
(* Set holds what it needs to extend it again.                             *)
(***************************************************************************)

\* The row of a log is the largest tree cosigned for it.
StoredCovers ==
    \A l \in Logs : \A t \in cosigned[l] : db[l] # None /\ Prefix(t, db[l].tree)

\* A request past the first checks names a known log and a
\* checkpoint that log signed; one that holds the SQL
\* connection reads the current row; one about to store has verified it.
RequestsCoherent ==
    \A r \in Req :
        /\ pc[r] \in {"update", "decide", "store"} =>
              arg[r].log \in Logs /\ Parses(arg[r].log, arg[r].next)
        /\ pc[r] \in {"decide", "store"} /\ ~InMemory =>
              conn = r /\ read[r] = db[arg[r].log]
        /\ pc[r] = "store" => Acceptable(r)

IInv == TypeOK /\ StoredCovers /\ RequestsCoherent

\* Every request that was accepted is answered (unless the process dies):
\* nobody waits forever for the connection.
EventuallyAnswered ==
    \A r \in Req : pc[r] = "update" ~> pc[r] \in {"replied", "idle"}

\* The witness implements its abstract specification.
Abs == INSTANCE WitnessAbstract WITH
          latest <- [l \in Logs |-> IF db[l] = None THEN None ELSE db[l].tree],
          Forgetful <- InMemory

WitnessRefines == Abs!AbsSpec
=============================================================================
