--------------------------- MODULE WitnessProofs ---------------------------
(***************************************************************************)
(* Proofs about the witness, for any set of logs, any trees they sign, any *)
(* number of concurrent requests and both persistence layers; and about    *)
(* the feeders that drive it, for any number of them, over HTTP and not.   *)
(***************************************************************************)
EXTENDS OmniWitness, TLAPS

-----------------------------------------------------------------------------
(* Prefixes. *)

\* A tree is a prefix of itself.
LEMMA PrefixReflexive == ASSUME NEW s \in Seq(Leaf) PROVE Prefix(s, s)
BY DEF Prefix

\* An extension of an extension is an extension.
LEMMA PrefixTransitive ==
  ASSUME NEW s \in Seq(Leaf), NEW t \in Seq(Leaf), NEW u \in Seq(Leaf),
         Prefix(s, t), Prefix(t, u)
  PROVE  Prefix(s, u)
BY DEF Prefix

\* Two prefixes of one tree are comparable.
LEMMA PrefixesComparable ==
  ASSUME NEW s \in Seq(Leaf), NEW t \in Seq(Leaf), NEW u \in Seq(Leaf),
         Prefix(s, u), Prefix(t, u)
  PROVE  Comparable(s, t)
<1>1. Len(s) \in Nat /\ Len(t) \in Nat
  OBVIOUS
<1>2. CASE Len(s) <= Len(t)
  BY <1>1, <1>2 DEF Prefix, Comparable
<1>3. CASE Len(t) <= Len(s)
  BY <1>1, <1>3 DEF Prefix, Comparable
<1> QED
  BY <1>1, <1>2, <1>3

-----------------------------------------------------------------------------
(* Types. *)

\* Every submitted tree is a sequence of leaves.
LEMMA TreesAreSequences == Trees \subseteq Seq(Leaf)
BY WitnessAssumption DEF Trees

\* What Return does to the request and the connection.
LEMMA ReturnType ==
  ASSUME TypeOK, NEW r \in Req, NEW code \in Code,
         NEW cp \in Seq(Leaf) \cup {None}, Return(r, code, cp)
  PROVE  /\ pc' \in [Req -> PC]
         /\ reply' \in [Req -> [code : Code, cp : Seq(Leaf) \cup {None}]]
         /\ conn' \in Req \cup {None}
BY DEF TypeOK, Return, Close, PC

\* The row that GetLatest returned is a row.
LEMMA ReadRow ==
  ASSUME TypeOK, NEW r \in Req, ~Trusts(r)
  PROVE  read[r] \in Stored /\ read[r].tree \in Seq(Leaf)
BY DEF TypeOK, Trusts, Stored

\* A call preserves the types.
LEMMA CallType ==
  ASSUME TypeOK, NEW r \in Req, Call(r)
  PROVE  TypeOK'
<1>1. ASSUME NEW l \in Logs, NEW t \in Trees, NEW n \in Nat, Update(r, l, t, n)
      PROVE  TypeOK'
  BY <1>1, TreesAreSequences DEF TypeOK, Update, PC
<1>2. ASSUME NEW l \in Logs, NEW t \in Trees, UpdateBadCheckpoint(r, l, t)
      PROVE  TypeOK'
  BY <1>2, ReturnType DEF TypeOK, UpdateBadCheckpoint, Code
<1>3. ASSUME NEW l \in UnknownLogs, UpdateUnknownLog(r, l)
      PROVE  TypeOK'
  BY <1>3, ReturnType DEF TypeOK, UpdateUnknownLog, Code
<1>4. ASSUME NEW l \in Logs, GetCheckpoint(r, l)
      PROVE  TypeOK'
  <2>1. arg' \in [Req -> [log : Logs \cup {None}, next : Seq(Leaf), from : Nat]]
    BY <1>4 DEF TypeOK, GetCheckpoint, Names
  <2>2. reply' \in [Req -> [code : Code, cp : Seq(Leaf) \cup {None}]]
    BY <1>4 DEF TypeOK, GetCheckpoint, Code, Stored
  <2> QED
    BY <1>4, <2>1, <2>2 DEF TypeOK, GetCheckpoint, PC
<1>5. ASSUME NEW l \in Logs, ReadError(r, l)
      PROVE  TypeOK'
  <2>1. arg' \in [Req -> [log : Logs \cup {None}, next : Seq(Leaf), from : Nat]]
    BY <1>5 DEF TypeOK, ReadError, Names
  <2> QED
    BY <1>5, <2>1, ReturnType DEF TypeOK, ReadError, Code
<1>6. {0} \cup {Size(s) : s \in Trees} \subseteq Nat
  BY TreesAreSequences DEF Size
<1> QED
  BY <1>1, <1>2, <1>3, <1>4, <1>5, <1>6 DEF Call

\* A step of a request preserves the types, given the log it works on.
LEMMA StepType ==
  ASSUME TypeOK, RequestsCoherent, NEW r \in Req, Step(r)
  PROVE  TypeOK'
<1>1. CASE WriteOps(r)
  BY <1>1 DEF TypeOK, RequestsCoherent, WriteOps, PC
<1>2. CASE RefuseFirst(r)
  BY <1>2, ReturnType DEF TypeOK, RefuseFirst, Code
<1>3. CASE RefuseRange(r)
  BY <1>3, ReturnType DEF TypeOK, RefuseRange, Code
<1>4. CASE RefuseSmaller(r)
  BY <1>4, ReturnType, ReadRow DEF TypeOK, RefuseSmaller, Code
<1>5. CASE RefuseFork(r)
  BY <1>5, ReturnType, ReadRow DEF TypeOK, RefuseFork, Code
<1>6. CASE AlreadyHeld(r)
  BY <1>6, ReturnType, ReadRow DEF TypeOK, AlreadyHeld, Code
<1>7. CASE RefuseProof(r)
  BY <1>7, ReturnType, ReadRow DEF TypeOK, RefuseProof, Code
<1>8. CASE Sign(r)
  BY <1>8 DEF TypeOK, Sign, PC
<1>9. CASE Set(r)
  <2>1. arg[r].log \in Logs /\ arg[r].next \in Seq(Leaf)
    BY <1>9 DEF TypeOK, RequestsCoherent, Set
  <2>2. NewState(r) \in Stored
    BY <2>1 DEF NewState, Stored
  <2> QED
    BY <1>9, <2>1, <2>2, ReturnType DEF TypeOK, Set, Code
<1>10. CASE SetConflict(r)
  BY <1>10, ReturnType DEF TypeOK, SetConflict, Code
<1> QED
  BY <1>1, <1>2, <1>3, <1>4, <1>5, <1>6, <1>7, <1>8, <1>9, <1>10 DEF Step

\* Database errors, finished requests and restarts preserve the types.
LEMMA OtherType ==
  ASSUME TypeOK, (\E r \in Req : DBError(r) \/ Finish(r)) \/ Restart
  PROVE  TypeOK'
<1>1. ASSUME NEW r \in Req, DBError(r)
      PROVE  TypeOK'
  BY <1>1, ReturnType DEF TypeOK, DBError, Code
<1>2. ASSUME NEW r \in Req, Finish(r)
      PROVE  TypeOK'
  BY <1>2 DEF TypeOK, Finish, PC, Code, NoArg, Names, NoReply
<1>3. CASE Restart
  BY <1>3 DEF TypeOK, Restart, PC, Code, NoArg, Names, NoReply
<1> QED
  BY <1>1, <1>2, <1>3

-----------------------------------------------------------------------------
(* The inductive invariant. *)

\* A request that Update lets through extends the row it read.
LEMMA AcceptableExtends ==
  ASSUME TypeOK, NEW r \in Req, Acceptable(r), read[r] # None
  PROVE  /\ Prefix(read[r].tree, arg[r].next)
         /\ Size(read[r].tree) < Size(arg[r].next)
<1>1. Grows(r) /\ ProofVerifies(r)
  BY DEF Acceptable, Trusts
<1>2. Prefix(read[r].tree, arg[r].next)
  BY <1>1 DEF ProofVerifies, VerifyConsistency, RangeHasRoot
<1>3. Size(read[r].tree) < Size(arg[r].next)
  <2>1. read[r].tree \in Seq(Leaf) /\ arg[r].next \in Seq(Leaf)
    BY ReadRow DEF TypeOK, Trusts
  <2> QED
    BY <1>1, <2>1 DEF Grows, Size
<1> QED
  BY <1>2, <1>3

\* Acceptable only depends on the configuration and on what the request holds.
LEMMA AcceptableStable ==
  ASSUME NEW r \in Req, Acceptable(r), compact' = compact,
         arg'[r] = arg[r], read'[r] = read[r]
  PROVE  Acceptable(r)'
BY DEF Acceptable, Trusts, InitVerifies, UsesCompact, RangeParses, Grows,
       ProofVerifies

\* A step that moves request r alone keeps the others coherent.
LEMMA OthersCoherent ==
  ASSUME IInv, NEW r \in Req, compact' = compact, UNCHANGED <<db, cosigned>>,
         conn' \in {conn, Close(r)} \/ conn = None,
         \A q \in Req \ {r} : /\ pc'[q] = pc[q]
                              /\ arg'[q] = arg[q]
                              /\ read'[q] = read[q],
         NEW q \in Req \ {r}
  PROVE  /\ pc'[q] \in {"update", "decide", "store"} =>
              arg'[q].log \in Logs /\ Parses(arg'[q].log, arg'[q].next)
         /\ pc'[q] \in {"decide", "store"} /\ ~InMemory =>
              conn' = q /\ read'[q] = db'[arg'[q].log]
         /\ pc'[q] = "store" => Acceptable(q)'
<1>1. pc'[q] = "store" => Acceptable(q)'
  BY AcceptableStable DEF IInv, RequestsCoherent
<1>2. pc'[q] \in {"decide", "store"} /\ ~InMemory => conn' = q
  BY WitnessAssumption DEF IInv, RequestsCoherent, Close
<1> QED
  BY <1>1, <1>2 DEF IInv, RequestsCoherent

\* A request that has returned, or is idle, owes nothing.
LEMMA ReturnedCoherent ==
  ASSUME IInv, TypeOK', NEW r \in Req, compact' = compact,
         UNCHANGED <<db, cosigned>>,
         conn' \in {conn, Close(r)},
         pc'[r] \in {"idle", "replied"},
         \A q \in Req \ {r} : /\ pc'[q] = pc[q]
                              /\ arg'[q] = arg[q]
                              /\ read'[q] = read[q]
  PROVE  IInv'
<1>1. StoredCovers'
  BY DEF IInv, StoredCovers
<1>2. RequestsCoherent'
  BY OthersCoherent DEF RequestsCoherent
<1> QED
  BY <1>1, <1>2 DEF IInv

\* Set extends the row from which the request was verified, so that the new
\* row still covers everything cosigned.
LEMMA SetPreserves ==
  ASSUME IInv, TypeOK', NEW r \in Req, Set(r)
  PROVE  IInv'
<1> DEFINE l == arg[r].log
<1>1. /\ l \in Logs /\ Acceptable(r) /\ arg[r].next \in Seq(Leaf)
      /\ read[r] = db[l]
  BY DEF IInv, TypeOK, RequestsCoherent, Set, CanWrite
<1>2. /\ db' = [db EXCEPT ![l] = NewState(r)]
      /\ cosigned' = [cosigned EXCEPT ![l] = @ \cup {arg[r].next}]
      /\ NewState(r).tree = arg[r].next
  BY DEF Set, NewState
<1>3. db'[l] # None
  <2>1. NewState(r) \in Stored
    BY <1>1 DEF NewState, Stored
  <2> QED
    BY <1>1, <1>2, <2>1, WitnessAssumption DEF IInv, TypeOK, Stored
<1>4. ASSUME NEW t \in cosigned[l]
      PROVE  Prefix(t, arg[r].next)
  <2>1. read[r] # None /\ Prefix(t, read[r].tree)
    BY <1>1, <1>4 DEF IInv, StoredCovers
  <2>2. Prefix(read[r].tree, arg[r].next)
    BY <1>1, <2>1, AcceptableExtends DEF IInv
  <2>3. t \in Seq(Leaf) /\ read[r].tree \in Seq(Leaf)
    BY <1>1, <1>4, <2>1, ReadRow DEF IInv, TypeOK, Trusts
  <2> QED
    BY <1>1, <2>1, <2>2, <2>3, PrefixTransitive
<1>5. StoredCovers'
  <2> SUFFICES ASSUME NEW k \in Logs, NEW t \in cosigned'[k]
               PROVE  db'[k] # None /\ Prefix(t, db'[k].tree)
    BY DEF StoredCovers
  <2>1. CASE k = l
    <3>1. t \in cosigned[l] \/ t = arg[r].next
      BY <1>1, <1>2, <2>1 DEF IInv, TypeOK
    <3>2. db'[k].tree = arg[r].next
      BY <1>1, <1>2, <2>1 DEF IInv, TypeOK
    <3> QED
      BY <1>1, <1>3, <1>4, <2>1, <3>1, <3>2, PrefixReflexive
  <2>2. CASE k # l
    BY <1>1, <1>2, <2>2 DEF IInv, TypeOK, StoredCovers
  <2> QED
    BY <2>1, <2>2
<1>6. RequestsCoherent'
  <2> SUFFICES ASSUME NEW q \in Req
               PROVE  /\ pc'[q] \in {"update", "decide", "store"} =>
                           arg'[q].log \in Logs /\ Parses(arg'[q].log, arg'[q].next)
                      /\ pc'[q] \in {"decide", "store"} /\ ~InMemory =>
                           conn' = q /\ read'[q] = db'[arg'[q].log]
                      /\ pc'[q] = "store" => Acceptable(q)'
    BY DEF RequestsCoherent
  <2>1. CASE q = r
    BY <2>1 DEF Set, Return, IInv, TypeOK
  <2>2. CASE q # r
    <3>1. pc'[q] = pc[q] /\ arg' = arg /\ read' = read /\ compact' = compact
      BY <2>2 DEF Set, Return, IInv, TypeOK
    <3>2. pc[q] = "store" => Acceptable(q)'
      BY <3>1, AcceptableStable DEF IInv, RequestsCoherent
    <3>3. pc[q] \in {"decide", "store"} => InMemory
      BY <2>2 DEF IInv, RequestsCoherent, Set
    <3> QED
      BY <3>1, <3>2, <3>3 DEF IInv, RequestsCoherent
  <2> QED
    BY <2>1, <2>2
<1> QED
  BY <1>5, <1>6 DEF IInv

\* Initially nothing is stored and nobody works.
LEMMA InitIInv == Init => IInv
<1> SUFFICES ASSUME Init PROVE IInv
  OBVIOUS
<1>1. TypeOK
  BY DEF Init, TypeOK, PC, Code, NoArg, Names, NoReply
<1>2. StoredCovers /\ RequestsCoherent
  BY DEF Init, StoredCovers, RequestsCoherent
<1> QED
  BY <1>1, <1>2 DEF IInv

\* A request that starts, takes a step or returns keeps the invariant.
LEMMA StepPreserves ==
  ASSUME IInv, NEW r \in Req, Step(r)
  PROVE  IInv'
<1>1. TypeOK'
  BY StepType DEF IInv
<1>2. CASE WriteOps(r)
  <2>1. /\ arg[r].log \in Logs /\ Parses(arg[r].log, arg[r].next)
        /\ conn' \in Req \cup {None}
    BY <1>1, <1>2 DEF IInv, RequestsCoherent, WriteOps, TypeOK
  <2>2. /\ pc'[r] = "decide" /\ arg' = arg /\ read'[r] = db[arg[r].log]
        /\ ~InMemory => conn' = r
        /\ \A q \in Req \ {r} : pc'[q] = pc[q] /\ arg'[q] = arg[q] /\ read'[q] = read[q]
        /\ compact' = compact /\ UNCHANGED <<db, cosigned>>
        /\ conn' \in {conn, Close(r)} \/ conn = None
    BY <1>2 DEF WriteOps, ConnFree, IInv, TypeOK
  <2>3. StoredCovers'
    BY <2>2 DEF IInv, StoredCovers
  <2>4. RequestsCoherent'
    BY <2>1, <2>2, OthersCoherent DEF RequestsCoherent
  <2> QED
    BY <1>1, <2>3, <2>4 DEF IInv
<1>3. CASE Sign(r)
  <2>1. /\ pc[r] = "decide" /\ Acceptable(r)
        /\ pc'[r] = "store" /\ arg' = arg /\ read' = read
        /\ \A q \in Req \ {r} : pc'[q] = pc[q] /\ arg'[q] = arg[q] /\ read'[q] = read[q]
        /\ compact' = compact /\ conn' = conn /\ UNCHANGED <<db, cosigned>>
    BY <1>3 DEF Sign, IInv, TypeOK
  <2>2. StoredCovers'
    BY <2>1 DEF IInv, StoredCovers
  <2>3. Acceptable(r)'
    BY <2>1, AcceptableStable
  <2>4. RequestsCoherent'
    BY <2>1, <2>3, OthersCoherent DEF RequestsCoherent, IInv
  <2> QED
    BY <1>1, <2>2, <2>4 DEF IInv
<1>4. CASE Set(r)
  BY <1>1, <1>4, SetPreserves
<1>5. CASE \/ RefuseFirst(r) \/ RefuseRange(r) \/ RefuseSmaller(r)
           \/ RefuseFork(r) \/ AlreadyHeld(r) \/ RefuseProof(r) \/ SetConflict(r)
  <2>1. /\ pc'[r] = "replied" /\ conn' = Close(r)
        /\ \A q \in Req \ {r} : pc'[q] = pc[q] /\ arg'[q] = arg[q] /\ read'[q] = read[q]
        /\ compact' = compact /\ UNCHANGED <<db, cosigned>>
    BY <1>5 DEF RefuseFirst, RefuseRange, RefuseSmaller, RefuseFork, AlreadyHeld,
                RefuseProof, SetConflict, Return, IInv, TypeOK
  <2> QED
    BY <1>1, <2>1, ReturnedCoherent
<1> QED
  BY <1>2, <1>3, <1>4, <1>5 DEF Step

\* So does a new call.
LEMMA CallPreserves ==
  ASSUME IInv, NEW r \in Req, Call(r)
  PROVE  IInv'
<1>1. TypeOK'
  BY CallType DEF IInv
<1>2. ASSUME NEW l \in Logs, NEW t \in Trees, NEW n, Update(r, l, t, n)
      PROVE  IInv'
  <2>1. /\ pc'[r] = "update" /\ arg'[r].log \in Logs /\ conn' = conn
        /\ Parses(arg'[r].log, arg'[r].next)
        /\ \A q \in Req \ {r} : pc'[q] = pc[q] /\ arg'[q] = arg[q] /\ read'[q] = read[q]
        /\ compact' = compact /\ UNCHANGED <<db, cosigned>>
    BY <1>2 DEF Update, IInv, TypeOK
  <2>2. StoredCovers'
    BY <2>1 DEF IInv, StoredCovers
  <2>3. RequestsCoherent'
    BY <2>1, OthersCoherent DEF RequestsCoherent
  <2> QED
    BY <1>1, <2>2, <2>3 DEF IInv
<1>3. ASSUME \/ \E l \in Logs, t \in Trees : UpdateBadCheckpoint(r, l, t)
             \/ \E l \in UnknownLogs : UpdateUnknownLog(r, l)
             \/ \E l \in Logs : GetCheckpoint(r, l) \/ ReadError(r, l)
      PROVE  IInv'
  <2>1. /\ pc'[r] = "replied" /\ conn' \in {conn, Close(r)}
        /\ \A q \in Req \ {r} : pc'[q] = pc[q] /\ arg'[q] = arg[q] /\ read'[q] = read[q]
        /\ compact' = compact /\ UNCHANGED <<db, cosigned>>
    BY <1>3 DEF UpdateBadCheckpoint, UpdateUnknownLog, GetCheckpoint, ReadError,
                Return, IInv, TypeOK
  <2> QED
    BY <1>1, <2>1, ReturnedCoherent
<1> QED
  BY <1>2, <1>3 DEF Call

\* A restart keeps what was committed, or forgets everything.
LEMMA RestartPreserves ==
  ASSUME IInv, Restart
  PROVE  IInv'
<1>1. TypeOK'
  BY OtherType DEF IInv
<1>2. StoredCovers'
  <2>1. CASE InMemory
    BY <2>1 DEF Restart, StoredCovers
  <2>2. CASE ~InMemory
    BY <2>2 DEF Restart, StoredCovers, IInv
  <2> QED
    BY <2>1, <2>2
<1>3. RequestsCoherent'
  BY DEF Restart, RequestsCoherent
<1> QED
  BY <1>1, <1>2, <1>3 DEF IInv

\* Every step of the witness keeps the invariant.
LEMMA NextIInv == IInv /\ [Next]_vars => IInv'
<1> SUFFICES ASSUME IInv, [Next]_vars PROVE IInv'
  OBVIOUS
<1>1. ASSUME NEW r \in Req, DBError(r) \/ Finish(r)
      PROVE  IInv'
  <2>1. TypeOK'
    BY <1>1, OtherType DEF IInv
  <2>2. /\ pc'[r] \in {"idle", "replied"} /\ conn' \in {conn, Close(r)}
        /\ \A q \in Req \ {r} : pc'[q] = pc[q] /\ arg'[q] = arg[q] /\ read'[q] = read[q]
        /\ compact' = compact /\ UNCHANGED <<db, cosigned>>
    BY <1>1 DEF DBError, Finish, Return, IInv, TypeOK
  <2> QED
    BY <2>1, <2>2, ReturnedCoherent
<1>2. CASE UNCHANGED vars
  BY <1>2 DEF vars, IInv, TypeOK, StoredCovers, RequestsCoherent, Acceptable,
              Trusts, InitVerifies, UsesCompact, RangeParses, Grows, ProofVerifies
<1> QED
  BY <1>1, <1>2, CallPreserves, StepPreserves, RestartPreserves DEF Next

\* The rows make everything cosigned comparable.
LEMMA CosignedComparable == IInv => CosignedConsistent
<1> SUFFICES ASSUME IInv, NEW l \in Logs,
                    NEW s \in cosigned[l], NEW t \in cosigned[l]
             PROVE  Comparable(s, t)
  BY DEF CosignedConsistent
<1>1. /\ db[l] # None /\ Prefix(s, db[l].tree) /\ Prefix(t, db[l].tree)
      /\ s \in Seq(Leaf) /\ t \in Seq(Leaf)
  BY DEF IInv, StoredCovers, TypeOK
<1>2. db[l].tree \in Seq(Leaf)
  BY <1>1 DEF IInv, TypeOK, Stored
<1> QED
  BY <1>1, <1>2, PrefixesComparable

-----------------------------------------------------------------------------
(***************************************************************************)
(* Answers.  AnswersSound speaks of requests that have returned, which may *)
(* have read long ago.  What makes it inductive: a row is a tree that was  *)
(* cosigned, a row that a request has read was one, and the log has only   *)
(* grown since.                                                            *)
(***************************************************************************)

\* A row holds a cosigned tree, and the range stored with it, if any, is the
\* range of that tree.
RowBacked(row, l) ==
    /\ row.tree \in cosigned[l]
    /\ row.range \in {<<>>, row.tree}

RowsBacked == \A l \in Logs : db[l] # None => RowBacked(db[l], l)

\* What request r read was a row of its log, and is still the row or has been
\* overtaken by a larger tree.
ReadBacked(r) ==
    read[r] # None =>
        /\ arg[r].log \in Logs
        /\ RowBacked(read[r], arg[r].log)
        /\ db[arg[r].log] # None
        /\ \/ db[arg[r].log] = read[r]
           \/ Size(read[r].tree) < Size(db[arg[r].log].tree)

\* The answer of request r contains a cosigned tree that bears out its code.
AnswerBacked(r) ==
    reply[r].cp # None =>
        /\ pc[r] = "replied"
        /\ arg[r].log \in Logs
        /\ reply[r].cp \in cosigned[arg[r].log]
        /\ reply[r].code = "AlreadyExists" => Size(arg[r].next) < Size(reply[r].cp)
        /\ reply[r].code = "FailedPrecondition" =>
              /\ Size(arg[r].next) >= Size(reply[r].cp)
              /\ ~VerifyConsistency(reply[r].cp, arg[r].next, arg[r].from)

\* Request r failed in memory because its log has moved on.
FailureBacked(r) ==
    InMemory /\ pc[r] = "replied" /\ reply[r].code = "Internal"
             /\ (read[r] = None => InitVerifies(r))
    => /\ arg[r].log \in Logs
       /\ db[arg[r].log] # None
       /\ read[r] # None => Size(read[r].tree) < Size(db[arg[r].log].tree)

\* A request that has not read holds no row, one that has not answered no reply.
Blank(r) ==
    /\ pc[r] \in {"idle", "update"} => read[r] = None
    /\ pc[r] # "replied" => reply[r].cp = None

RequestBacked(r) == Blank(r) /\ ReadBacked(r) /\ AnswerBacked(r) /\ FailureBacked(r)

AInv == IInv /\ RowsBacked /\ \A r \in Req : RequestBacked(r)

\* The rows of all logs stay or grow, and nothing cosigned is forgotten.
Advances ==
    \A l \in Logs :
        /\ cosigned[l] \subseteq cosigned'[l]
        /\ db[l] # None => /\ db'[l] # None
                           /\ \/ db'[l] = db[l]
                              \/ Size(db[l].tree) < Size(db'[l].tree)

\* A row that is a row of its log stays backed.
LEMMA RowStaysBacked ==
  ASSUME Advances, NEW l \in Logs, NEW row, RowBacked(row, l)
  PROVE  row.tree \in cosigned'[l] /\ row.range \in {<<>>, row.tree}
BY DEF Advances, RowBacked

\* A row that was overtaken stays overtaken, whatever is stored after it.
LEMMA OvertakenStays ==
  ASSUME IInv, IInv', Advances, NEW l \in Logs, NEW row \in Stored, db[l] # None,
         Size(row.tree) < Size(db[l].tree)
  PROVE  db'[l] # None /\ Size(row.tree) < Size(db'[l].tree)
<1>1. db'[l] # None /\ (db'[l] = db[l] \/ Size(db[l].tree) < Size(db'[l].tree))
  BY DEF Advances
<1>2. Size(row.tree) \in Nat /\ Size(db[l].tree) \in Nat /\ Size(db'[l].tree) \in Nat
  BY <1>1 DEF IInv, TypeOK, Stored, Size
<1> QED
  BY <1>1, <1>2

\* What a request has read stays backed while its log advances.
LEMMA ReadStaysBacked ==
  ASSUME AInv, IInv', Advances, NEW r \in Req, read'[r] = read[r], arg'[r] = arg[r]
  PROVE  ReadBacked(r)'
<1> SUFFICES ASSUME read[r] # None
             PROVE  /\ arg[r].log \in Logs
                    /\ read[r].tree \in cosigned'[arg[r].log]
                    /\ read[r].range \in {<<>>, read[r].tree}
                    /\ db'[arg[r].log] # None
                    /\ \/ db'[arg[r].log] = read[r]
                       \/ Size(read[r].tree) < Size(db'[arg[r].log].tree)
  BY DEF ReadBacked, RowBacked
<1>1. ReadBacked(r) /\ read[r] \in Stored
  BY DEF AInv, RequestBacked, IInv, TypeOK
<1>2. PICK l \in Logs : l = arg[r].log
  BY <1>1 DEF ReadBacked
<1>3. RowBacked(read[r], l) /\ db[l] # None
  BY <1>1, <1>2 DEF ReadBacked
<1>4. CASE db[l] = read[r]
  BY <1>2, <1>3, <1>4, RowStaysBacked DEF Advances
<1>5. CASE Size(read[r].tree) < Size(db[l].tree)
  BY <1>1, <1>2, <1>3, <1>5, RowStaysBacked, OvertakenStays DEF AInv
<1> QED
  BY <1>1, <1>2, <1>4, <1>5 DEF ReadBacked

\* A request that does not move stays backed while its log advances.
LEMMA RequestStaysBacked ==
  ASSUME AInv, IInv', Advances, compact' = compact, NEW r \in Req,
         pc'[r] = pc[r], read'[r] = read[r], arg'[r] = arg[r], reply'[r] = reply[r]
  PROVE  RequestBacked(r)'
<1>1. RequestBacked(r)
  BY DEF AInv
<1>2. Blank(r)'
  BY <1>1 DEF RequestBacked, Blank
<1>3. ReadBacked(r)'
  BY ReadStaysBacked
<1>4. AnswerBacked(r)'
  BY <1>1 DEF RequestBacked, AnswerBacked, Advances
<1>5. FailureBacked(r)'
  <2> SUFFICES ASSUME InMemory, pc[r] = "replied", reply[r].code = "Internal",
                      read[r] = None => InitVerifies(r)'
               PROVE  /\ arg[r].log \in Logs
                      /\ db'[arg[r].log] # None
                      /\ read[r] # None =>
                            Size(read[r].tree) < Size(db'[arg[r].log].tree)
    BY DEF FailureBacked
  <2>1. read[r] = None => InitVerifies(r)
    BY DEF InitVerifies, UsesCompact
  <2>2. PICK l \in Logs : l = arg[r].log
    BY <1>1, <2>1 DEF RequestBacked, FailureBacked
  <2>3. db[l] # None /\ (read[r] # None => Size(read[r].tree) < Size(db[l].tree))
    BY <1>1, <2>1, <2>2 DEF RequestBacked, FailureBacked
  <2>4. read[r] # None => read[r] \in Stored
    BY DEF AInv, IInv, TypeOK
  <2>5. db'[l] # None
    BY <2>3 DEF Advances
  <2>6. ASSUME read[r] # None
        PROVE  Size(read[r].tree) < Size(db'[l].tree)
    BY <2>3, <2>4, <2>6, OvertakenStays DEF AInv
  <2> QED
    BY <2>2, <2>5, <2>6
<1> QED
  BY <1>2, <1>3, <1>4, <1>5 DEF RequestBacked

\* A step that stores nothing advances every log, and its rows stay backed.
LEMMA QuietAdvances ==
  ASSUME AInv, UNCHANGED <<db, cosigned>>
  PROVE  Advances /\ RowsBacked'
BY DEF AInv, Advances, RowsBacked, RowBacked

\* The refusals of Update answer with the row they compared the submission
\* with; a failure answers with nothing.
LEMMA RefusalsBacked ==
  ASSUME AInv, IInv', NEW r \in Req,
         \/ RefuseFirst(r) \/ RefuseRange(r) \/ RefuseSmaller(r)
         \/ RefuseFork(r) \/ AlreadyHeld(r) \/ RefuseProof(r)
  PROVE  RequestBacked(r)'
<1>1. /\ pc[r] = "decide" /\ pc'[r] = "replied" /\ compact' = compact
      /\ read'[r] = read[r] /\ arg'[r] = arg[r] /\ UNCHANGED <<db, cosigned>>
      /\ arg[r].log \in Logs
  BY DEF RefuseFirst, RefuseRange, RefuseSmaller, RefuseFork, AlreadyHeld,
         RefuseProof, Return, AInv, IInv, TypeOK, RequestsCoherent
<1>2. ReadBacked(r)'
  BY <1>1, QuietAdvances, ReadStaysBacked
<1>3. Blank(r)'
  BY <1>1 DEF Blank
<1>4. FailureBacked(r)'
  <2>1. CASE RefuseFirst(r)
    BY <1>1, <2>1 DEF RefuseFirst, Trusts, FailureBacked, InitVerifies, UsesCompact
  <2>2. CASE ~RefuseFirst(r)
    <3>1. reply'[r].code # "Internal"
      BY <2>2 DEF RefuseRange, RefuseSmaller, RefuseFork, AlreadyHeld, RefuseProof,
                  Return, AInv, IInv, TypeOK
    <3> QED
      BY <3>1 DEF FailureBacked
  <2> QED
    BY <2>1, <2>2
<1>5. AnswerBacked(r)'
  <2>1. CASE RefuseFirst(r) \/ RefuseRange(r)
    <3>1. reply'[r].cp = None
      BY <2>1 DEF RefuseFirst, RefuseRange, Return, AInv, IInv, TypeOK
    <3> QED
      BY <3>1 DEF AnswerBacked
  <2>2. CASE RefuseSmaller(r) \/ RefuseFork(r) \/ AlreadyHeld(r) \/ RefuseProof(r)
    <3> DEFINE cp == read[r].tree
               next == arg[r].next
    <3>1. /\ read[r] # None /\ RangeParses(r) /\ read[r] \in Stored
          /\ cp \in Seq(Leaf) /\ next \in Seq(Leaf)
      BY <2>2 DEF RefuseSmaller, RefuseFork, AlreadyHeld, RefuseProof, Trusts,
                  AInv, IInv, TypeOK, Stored
    <3>2. Size(cp) \in Nat /\ Size(next) \in Nat
      BY <3>1 DEF Size
    <3>3. cp \in cosigned[arg[r].log] /\ read[r].range \in {<<>>, cp}
      BY <3>1 DEF AInv, RequestBacked, ReadBacked, RowBacked
    <3>4. CASE RefuseSmaller(r)
      <4>1. reply'[r] = [code |-> "AlreadyExists", cp |-> cp] /\ Size(next) < Size(cp)
        BY <3>4 DEF RefuseSmaller, Shrinks, Return, AInv, IInv, TypeOK
      <4> QED
        BY <1>1, <3>3, <4>1 DEF AnswerBacked
    <3>5. CASE RefuseFork(r)
      <4>1. /\ reply'[r] = [code |-> "FailedPrecondition", cp |-> cp]
            /\ Size(next) = Size(cp) /\ next # cp
        BY <3>5 DEF RefuseFork, SameSize, Return, AInv, IInv, TypeOK
      <4>2. ~Prefix(cp, next)
        BY <3>1, <4>1 DEF Prefix, Size
      <4>3. ~VerifyConsistency(cp, next, arg[r].from)
        BY <4>2 DEF VerifyConsistency
      <4> QED
        BY <1>1, <3>2, <3>3, <4>1, <4>3 DEF AnswerBacked
    <3>6. CASE AlreadyHeld(r)
      <4>1. reply'[r] = [code |-> "OK", cp |-> cp]
        BY <3>6 DEF AlreadyHeld, Return, AInv, IInv, TypeOK
      <4> QED
        BY <1>1, <3>3, <4>1 DEF AnswerBacked
    <3>7. CASE RefuseProof(r)
      <4>1. /\ reply'[r] = [code |-> "FailedPrecondition", cp |-> cp]
            /\ Size(next) > Size(cp) /\ ~ProofVerifies(r)
        BY <3>7 DEF RefuseProof, Grows, Return, AInv, IInv, TypeOK
      <4>2. UsesCompact(r) => read[r].range = cp /\ cp # <<>>
        BY <3>1, <3>3 DEF RangeParses
      <4>3. ~VerifyConsistency(cp, next, arg[r].from)
        BY <4>1, <4>2 DEF ProofVerifies, RangeHasRoot
      <4> QED
        BY <1>1, <3>2, <3>3, <4>1, <4>3 DEF AnswerBacked
    <3> QED
      BY <2>2, <3>4, <3>5, <3>6, <3>7
  <2> QED
    BY <2>1, <2>2
<1> QED
  BY <1>2, <1>3, <1>4, <1>5 DEF RequestBacked

\* Set stores a tree that it cosigns, in front of what the request read.
LEMMA SetBacked ==
  ASSUME AInv, IInv', NEW r \in Req, Set(r)
  PROVE  Advances /\ RowsBacked' /\ RequestBacked(r)'
<1> DEFINE l == arg[r].log
           t == arg[r].next
<1>1. /\ l \in Logs /\ Acceptable(r) /\ t \in Seq(Leaf) /\ read[r] = db[l]
      /\ cosigned \in [Logs -> SUBSET Seq(Leaf)] /\ db \in [Logs -> Stored \cup {None}]
  BY DEF AInv, IInv, TypeOK, RequestsCoherent, Set, CanWrite
<1>2. NewState(r).tree = t /\ NewState(r).range \in {<<>>, t} /\ NewState(r) # None
  <2>1. NewState(r) \in Stored
    BY <1>1 DEF NewState, Stored
  <2> QED
    BY <2>1, WitnessAssumption DEF NewState, Stored
<1>3. /\ db'[l] = NewState(r) /\ cosigned'[l] = cosigned[l] \cup {t}
      /\ \A k \in Logs : k # l => db'[k] = db[k] /\ cosigned'[k] = cosigned[k]
      /\ pc'[r] = "replied" /\ arg'[r] = arg[r] /\ read'[r] = read[r]
      /\ reply'[r] = [code |-> "OK", cp |-> t]
  BY <1>1 DEF Set, Return, AInv, IInv, TypeOK
<1>4. db[l] # None => Size(db[l].tree) < Size(t)
  BY <1>1, AcceptableExtends DEF AInv, IInv
<1>5. Advances
  BY <1>2, <1>3, <1>4 DEF Advances
<1>6. RowsBacked'
  <2> SUFFICES ASSUME NEW k \in Logs, db'[k] # None
               PROVE  db'[k].tree \in cosigned'[k] /\ db'[k].range \in {<<>>, db'[k].tree}
    BY DEF RowsBacked, RowBacked
  <2>1. CASE k = l
    BY <1>2, <1>3, <2>1
  <2>2. CASE k # l
    BY <1>3, <2>2 DEF AInv, RowsBacked, RowBacked
  <2> QED
    BY <2>1, <2>2
<1>7. RequestBacked(r)'
  <2>1. ReadBacked(r)'
    BY <1>3, <1>5, ReadStaysBacked
  <2>2. AnswerBacked(r)'
    BY <1>1, <1>3 DEF AnswerBacked
  <2>3. Blank(r)' /\ FailureBacked(r)'
    BY <1>3 DEF Blank, FailureBacked
  <2> QED
    BY <2>1, <2>2, <2>3 DEF RequestBacked
<1> QED
  BY <1>5, <1>6, <1>7

\* A conflict in Set: the row is not the one that was read any more.
LEMMA ConflictBacked ==
  ASSUME AInv, IInv', NEW r \in Req, SetConflict(r)
  PROVE  RequestBacked(r)'
<1>1. /\ InMemory /\ db[arg[r].log] # read[r] /\ arg[r].log \in Logs
      /\ pc'[r] = "replied" /\ reply'[r] = [code |-> "Internal", cp |-> None]
      /\ read'[r] = read[r] /\ arg'[r] = arg[r] /\ UNCHANGED <<db, cosigned>>
  BY DEF SetConflict, CanWrite, Return, AInv, IInv, TypeOK, RequestsCoherent
<1>2. ReadBacked(r)'
  BY <1>1, QuietAdvances, ReadStaysBacked
<1>3. FailureBacked(r)'
  <2>1. ReadBacked(r)
    BY DEF AInv, RequestBacked
  <2> QED
    BY <1>1, <2>1 DEF FailureBacked, ReadBacked
<1>4. Blank(r)' /\ AnswerBacked(r)'
  BY <1>1 DEF Blank, AnswerBacked
<1> QED
  BY <1>2, <1>3, <1>4 DEF RequestBacked

\* GetLatest reads the row of the log as it is.
LEMMA WriteOpsBacked ==
  ASSUME AInv, IInv', NEW r \in Req, WriteOps(r)
  PROVE  RequestBacked(r)'
<1>1. /\ pc'[r] = "decide" /\ read'[r] = db[arg[r].log] /\ arg'[r] = arg[r]
      /\ reply'[r] = reply[r] /\ reply[r].cp = None /\ arg[r].log \in Logs
      /\ UNCHANGED <<db, cosigned>>
  BY DEF WriteOps, AInv, IInv, TypeOK, RequestsCoherent, RequestBacked, Blank
<1>2. ReadBacked(r)'
  BY <1>1 DEF AInv, RowsBacked, RowBacked, ReadBacked
<1>3. Blank(r)' /\ AnswerBacked(r)' /\ FailureBacked(r)'
  BY <1>1 DEF Blank, AnswerBacked, FailureBacked
<1> QED
  BY <1>2, <1>3 DEF RequestBacked

\* signChkpt changes nothing that an answer depends on.
LEMMA SignBacked ==
  ASSUME AInv, IInv', NEW r \in Req, Sign(r)
  PROVE  RequestBacked(r)'
<1>1. /\ pc[r] = "decide" /\ pc'[r] = "store" /\ read'[r] = read[r] /\ arg'[r] = arg[r]
      /\ reply'[r] = reply[r] /\ reply[r].cp = None /\ UNCHANGED <<db, cosigned>>
  BY DEF Sign, AInv, IInv, TypeOK, RequestBacked, Blank
<1>2. ReadBacked(r)'
  BY <1>1, QuietAdvances, ReadStaysBacked
<1>3. Blank(r)' /\ AnswerBacked(r)' /\ FailureBacked(r)'
  BY <1>1 DEF Blank, AnswerBacked, FailureBacked
<1> QED
  BY <1>2, <1>3 DEF RequestBacked

\* A call has read nothing when it starts; GetCheckpoint answers with the row.
LEMMA CallBacked ==
  ASSUME AInv, IInv', NEW r \in Req, Call(r)
  PROVE  RequestBacked(r)'
<1>1. pc[r] = "idle" /\ read[r] = None /\ reply[r].cp = None
      /\ UNCHANGED <<db, cosigned>> /\ read' = read
  BY DEF Call, Update, UpdateBadCheckpoint, UpdateUnknownLog, GetCheckpoint, ReadError,
         AInv, RequestBacked, Blank
<1>2. ReadBacked(r)'
  BY <1>1 DEF ReadBacked
<1>3. CASE \E l \in Logs, t \in Trees :
             \E n \in {0} \cup {Size(s) : s \in Trees} : Update(r, l, t, n)
  <2>1. pc'[r] = "update" /\ reply' = reply
    BY <1>3 DEF Update, AInv, IInv, TypeOK
  <2> QED
    BY <1>1, <1>2, <2>1 DEF RequestBacked, Blank, AnswerBacked, FailureBacked
<1>4. CASE \/ \E l \in Logs, t \in Trees : UpdateBadCheckpoint(r, l, t)
           \/ \E l \in UnknownLogs : UpdateUnknownLog(r, l)
           \/ \E l \in Logs : ReadError(r, l)
  <2>1. /\ pc'[r] = "replied" /\ reply'[r].cp = None
        /\ InMemory => reply'[r].code # "Internal"
    BY <1>4 DEF UpdateBadCheckpoint, UpdateUnknownLog, ReadError, Return, AInv, IInv,
                TypeOK
  <2> QED
    BY <1>1, <1>2, <2>1 DEF RequestBacked, Blank, AnswerBacked, FailureBacked
<1>5. ASSUME NEW l \in Logs, GetCheckpoint(r, l)
      PROVE  RequestBacked(r)'
  <2>1. /\ pc'[r] = "replied" /\ arg'[r].log = l /\ reply'[r].code \in {"OK", "NotFound"}
        /\ reply'[r].cp # None => db[l] # None /\ reply'[r].cp = db[l].tree
    BY <1>5 DEF GetCheckpoint, Names, AInv, IInv, TypeOK
  <2>2. reply'[r].cp # None => reply'[r].cp \in cosigned[l]
    BY <2>1 DEF AInv, RowsBacked, RowBacked
  <2>3. AnswerBacked(r)'
    BY <1>1, <2>1, <2>2 DEF AnswerBacked
  <2>4. Blank(r)' /\ FailureBacked(r)'
    BY <1>1, <2>1 DEF Blank, FailureBacked
  <2> QED
    BY <1>2, <2>3, <2>4 DEF RequestBacked
<1> QED
  BY <1>3, <1>4, <1>5 DEF Call

\* A database error returns no checkpoint, and a request that ends forgets all.
LEMMA ErrorBacked ==
  ASSUME AInv, IInv', NEW r \in Req, DBError(r) \/ Finish(r)
  PROVE  RequestBacked(r)'
<1>1. CASE DBError(r)
  <2>1. /\ ~InMemory /\ pc'[r] = "replied" /\ reply'[r].cp = None
        /\ read'[r] = read[r] /\ arg'[r] = arg[r] /\ UNCHANGED <<db, cosigned>>
    BY <1>1 DEF DBError, Return, AInv, IInv, TypeOK
  <2>2. ReadBacked(r)'
    BY <2>1, QuietAdvances, ReadStaysBacked
  <2> QED
    BY <2>1, <2>2 DEF RequestBacked, Blank, AnswerBacked, FailureBacked
<1>2. CASE Finish(r)
  <2>1. pc'[r] = "idle" /\ read'[r] = None /\ reply'[r].cp = None
    BY <1>2 DEF Finish, NoReply, AInv, IInv, TypeOK
  <2> QED
    BY <2>1 DEF RequestBacked, Blank, ReadBacked, AnswerBacked, FailureBacked
<1> QED
  BY <1>1, <1>2

\* Every step keeps the answers backed.
LEMMA NextAInv == AInv /\ [Next]_vars => AInv'
<1> SUFFICES ASSUME AInv, [Next]_vars PROVE AInv'
  OBVIOUS
<1>1. IInv'
  BY NextIInv DEF AInv
<1>2. ASSUME NEW r \in Req, Call(r) \/ Step(r) \/ DBError(r) \/ Finish(r)
      PROVE  AInv'
  <2>1. /\ compact' = compact
        /\ \A q \in Req \ {r} : /\ pc'[q] = pc[q] /\ arg'[q] = arg[q]
                                /\ read'[q] = read[q] /\ reply'[q] = reply[q]
    <3>1. CASE Call(r)
      BY <3>1 DEF Call, Update, UpdateBadCheckpoint, UpdateUnknownLog, GetCheckpoint,
                  ReadError, Return, AInv, IInv, TypeOK
    <3>2. CASE Step(r)
      BY <3>2 DEF Step, WriteOps, RefuseFirst, RefuseRange, RefuseSmaller, RefuseFork,
                  AlreadyHeld, RefuseProof, Sign, Set, SetConflict, Return, AInv, IInv,
                  TypeOK
    <3>3. CASE DBError(r) \/ Finish(r)
      BY <3>3 DEF DBError, Finish, Return, AInv, IInv, TypeOK
    <3> QED
      BY <1>2, <3>1, <3>2, <3>3
  <2>2. Advances /\ RowsBacked'
    <3>1. CASE Set(r)
      BY <1>1, <3>1, SetBacked
    <3>2. CASE ~Set(r)
      <4>1. UNCHANGED <<db, cosigned>>
        BY <1>2, <3>2 DEF Call, Update, UpdateBadCheckpoint, UpdateUnknownLog,
             GetCheckpoint, ReadError, Step, WriteOps, RefuseFirst, RefuseRange,
             RefuseSmaller, RefuseFork, AlreadyHeld, RefuseProof, Sign, SetConflict,
             DBError, Finish
      <4> QED
        BY <4>1, QuietAdvances
    <3> QED
      BY <3>1, <3>2
  <2>3. RequestBacked(r)'
    <3>1. CASE Step(r)
      BY <1>1, <3>1, SetBacked, ConflictBacked, WriteOpsBacked, SignBacked,
         RefusalsBacked DEF Step
    <3> QED
      BY <1>1, <1>2, <3>1, CallBacked, ErrorBacked
  <2>4. ASSUME NEW q \in Req \ {r}
        PROVE  RequestBacked(q)'
    BY <1>1, <2>1, <2>2, RequestStaysBacked
  <2> QED
    BY <1>1, <2>2, <2>3, <2>4 DEF AInv
<1>3. CASE Restart
  <2>1. RowsBacked'
    <3>1. CASE InMemory
      BY <1>3, <3>1 DEF Restart, RowsBacked
    <3>2. CASE ~InMemory
      BY <1>3, <3>2 DEF Restart, AInv, RowsBacked, RowBacked
    <3> QED
      BY <3>1, <3>2
  <2>2. \A r \in Req : pc'[r] = "idle" /\ read'[r] = None /\ reply'[r].cp = None
    BY <1>3 DEF Restart, NoReply
  <2>3. \A r \in Req : RequestBacked(r)'
    BY <2>2 DEF RequestBacked, Blank, ReadBacked, AnswerBacked, FailureBacked
  <2> QED
    BY <1>1, <2>1, <2>3 DEF AInv
<1>4. CASE UNCHANGED vars
  <2>1. Advances /\ RowsBacked'
    BY <1>4, QuietAdvances DEF vars
  <2>2. ASSUME NEW r \in Req PROVE RequestBacked(r)'
    BY <1>1, <1>4, <2>1, RequestStaysBacked DEF vars
  <2> QED
    BY <1>1, <2>1, <2>2 DEF AInv
<1> QED
  BY <1>2, <1>3, <1>4 DEF Next

\* Initially nobody has read and nobody has been answered.
LEMMA InitAInv == Init => AInv
<1> SUFFICES ASSUME Init PROVE AInv
  OBVIOUS
<1>1. RowsBacked
  BY DEF Init, RowsBacked
<1>2. \A r \in Req : RequestBacked(r)
  BY DEF Init, NoReply, RequestBacked, Blank, ReadBacked, AnswerBacked, FailureBacked
<1> QED
  BY <1>1, <1>2, InitIInv DEF AInv

-----------------------------------------------------------------------------
(***************************************************************************)
(* Feeders.  Every step of a feeder is a call to the witness, the end of   *)
(* one, or no step of the witness at all, so that the system of feeders    *)
(* and witness has all the properties of the witness.  What a feeder makes *)
(* of an answer rests on the request that serves its call: it is the       *)
(* feeder's alone, it has not ended, and its arguments are the feeder's.   *)
(***************************************************************************)

\* OK and FailedPrecondition come with a checkpoint.
CodesCarry ==
    \A r \in Req : reply[r].code \in {"OK", "FailedPrecondition"} => reply[r].cp # None

\* Only trees that the log has signed are cosigned.
CosignedSigned == \A l \in Logs : cosigned[l] \subseteq SignedTrees[l]

WInv == AInv /\ CodesCarry /\ CosignedSigned

\* The answers of the witness carry what their codes promise.
LEMMA NextCodesCarry ==
  ASSUME WInv, Next, IInv'
  PROVE  CodesCarry'
<1>1. reply \in [Req -> [code : Code, cp : Seq(Leaf) \cup {None}]]
  BY DEF WInv, AInv, IInv, TypeOK
<1>2. ASSUME NEW r \in Req, NEW code, NEW cp, Return(r, code, cp),
             code \in {"OK", "FailedPrecondition"} => cp # None
      PROVE  CodesCarry'
  BY <1>1, <1>2 DEF Return, CodesCarry, WInv
<1>3. reply' = reply => CodesCarry'
  BY DEF CodesCarry, WInv
<1>4. None \notin Seq(Leaf)
  BY WitnessAssumption
<1>5. ASSUME NEW r \in Req, Call(r)
      PROVE  CodesCarry'
  <2>1. ASSUME NEW l \in Logs, GetCheckpoint(r, l)
        PROVE  CodesCarry'
    <3>1. db[l] # None => db[l].tree # None
      BY <1>4 DEF WInv, AInv, IInv, TypeOK, Stored
    <3> QED
      BY <1>1, <2>1, <3>1 DEF GetCheckpoint, CodesCarry, WInv
  <2>2. CASE \/ \E l \in Logs, t \in Trees : UpdateBadCheckpoint(r, l, t)
             \/ \E l \in UnknownLogs : UpdateUnknownLog(r, l)
             \/ \E l \in Logs : ReadError(r, l)
    BY <1>2, <2>2 DEF UpdateBadCheckpoint, UpdateUnknownLog, ReadError
  <2>3. ASSUME NEW l, NEW t, NEW n, Update(r, l, t, n)
        PROVE  CodesCarry'
    BY <1>3, <2>3 DEF Update
  <2> QED
    BY <1>5, <2>1, <2>2, <2>3 DEF Call
<1>6. ASSUME NEW r \in Req, Step(r)
      PROVE  CodesCarry'
  <2>1. CASE WriteOps(r) \/ Sign(r)
    BY <1>3, <2>1 DEF WriteOps, Sign
  <2>2. CASE RefuseFirst(r) \/ RefuseRange(r) \/ RefuseSmaller(r) \/ SetConflict(r)
    BY <1>2, <2>2 DEF RefuseFirst, RefuseRange, RefuseSmaller, SetConflict
  <2>3. CASE RefuseFork(r) \/ AlreadyHeld(r) \/ RefuseProof(r)
    <3>1. ~Trusts(r)
      BY <2>3 DEF RefuseFork, AlreadyHeld, RefuseProof
    <3>2. read[r].tree # None
      BY <1>4, <3>1, ReadRow DEF WInv, AInv, IInv
    <3> QED
      BY <1>2, <2>3, <3>2 DEF RefuseFork, AlreadyHeld, RefuseProof
  <2>4. CASE Set(r)
    <3>1. arg[r].next # None
      BY <1>4 DEF WInv, AInv, IInv, TypeOK
    <3> QED
      BY <1>2, <2>4, <3>1 DEF Set
  <2> QED
    BY <1>6, <2>1, <2>2, <2>3, <2>4 DEF Step
<1>7. ASSUME NEW r \in Req, DBError(r) \/ Finish(r)
      PROVE  CodesCarry'
  <2>1. CASE DBError(r)
    BY <1>2, <2>1 DEF DBError
  <2>2. CASE Finish(r)
    BY <1>1, <2>2 DEF Finish, NoReply, CodesCarry, WInv
  <2> QED
    BY <1>7, <2>1, <2>2
<1>8. CASE Restart
  BY <1>8 DEF Restart, NoReply, CodesCarry
<1> QED
  BY <1>5, <1>6, <1>7, <1>8 DEF Next

\* Every step of the witness keeps what feeders rely on.
LEMMA NextWInv == WInv /\ [Next]_vars => WInv'
<1> SUFFICES ASSUME WInv, [Next]_vars PROVE WInv'
  OBVIOUS
<1>1. AInv' /\ IInv'
  BY NextAInv DEF WInv, AInv
<1>2. CodesCarry'
  <2>1. CASE UNCHANGED vars
    BY <2>1 DEF vars, CodesCarry, WInv
  <2> QED
    BY <1>1, <2>1, NextCodesCarry
<1>3. CosignedSigned'
  <2>1. ASSUME NEW r \in Req, Set(r) PROVE CosignedSigned'
    <3>1. arg[r].log \in Logs /\ arg[r].next \in SignedTrees[arg[r].log]
      BY <2>1 DEF Set, WInv, AInv, IInv, RequestsCoherent, Parses
    <3> QED
      BY <2>1, <3>1 DEF Set, CosignedSigned, WInv, AInv, IInv, TypeOK
  <2>2. CASE Restart
    BY <2>2 DEF Restart, CosignedSigned, WInv
  <2>3. CASE UNCHANGED cosigned
    BY <2>3 DEF CosignedSigned, WInv
  <2>4. ASSUME NEW r \in Req, Call(r) \/ DBError(r) \/ Finish(r)
        PROVE  UNCHANGED cosigned
    BY <2>4 DEF Call, Update, UpdateBadCheckpoint, UpdateUnknownLog, GetCheckpoint,
                ReadError, DBError, Finish
  <2>5. ASSUME NEW r \in Req, Step(r), ~Set(r)
        PROVE  UNCHANGED cosigned
    BY <2>5 DEF Step, WriteOps, RefuseFirst, RefuseRange, RefuseSmaller, RefuseFork,
                AlreadyHeld, RefuseProof, Sign, SetConflict
  <2> QED
    BY <2>1, <2>2, <2>3, <2>4, <2>5 DEF Next, vars
<1> QED
  BY <1>1, <1>2, <1>3 DEF WInv

\* A witness that has answered nothing has answered soundly.
LEMMA InitWInv == Init => WInv
BY InitAInv DEF Init, NoReply, WInv, CodesCarry, CosignedSigned

-----------------------------------------------------------------------------

\* The request that serves the pending call of feeder f.
CallServed(f) ==
    call[f] # None =>
        /\ pc[call[f]] # "idle"
        /\ arg[call[f]].log = FeedLog[f]
        /\ \/ /\ fpc[f] = "asked" /\ pc[call[f]] = "replied"
              /\ reply[call[f]].code # "FailedPrecondition"
           \/ /\ fpc[f] = "sent"
              /\ submit[f] \in SignedTrees[FeedLog[f]]
              /\ arg[call[f]].next = submit[f] /\ arg[call[f]].from = from[f]

\* No two feeders wait for the same request.
CallsApart ==
    \A f, g \in Feeder : call[f] # None /\ call[f] = call[g] => f = g

\* A proof starts at the size of a tree of some log, or at 0.
ProofStarts == \A f \in Feeder : from[f] \in {0} \cup {Size(s) : s \in Trees}

FedCosigned == \A l \in Logs : fed[l] \subseteq cosigned[l]

OInv ==
    /\ FTypeOK /\ WInv
    /\ \A f \in Feeder : CallServed(f)
    /\ CallsApart /\ ProofStarts /\ FedCosigned

\* The handler of a new call was idle.
LEMMA FreeIsIdle ==
  ASSUME HandlerFree
  PROVE  FreeReq \in Req /\ pc[FreeReq] = "idle"
BY DEF HandlerFree, FreeReq

\* The answer that feeder f waits for is about its log, and cosigned.
LEMMA AnswerCosigned ==
  ASSUME OInv, NEW f \in Feeder, call[f] # None, Answer(f).cp # None
  PROVE  /\ Answer(f).cp \in cosigned[FeedLog[f]] /\ Answer(f).cp \in Trees
         /\ call[f] \in Req /\ FeedLog[f] \in Logs
<1>1. call[f] \in Req /\ arg[call[f]].log = FeedLog[f] /\ FeedLog[f] \in Logs
  BY FeederAssumption DEF OInv, CallServed, FTypeOK
<1>2. AnswerBacked(call[f])
  BY <1>1 DEF OInv, WInv, AInv, RequestBacked
<1>3. Answer(f).cp \in cosigned[FeedLog[f]]
  BY <1>1, <1>2 DEF AnswerBacked, Answer
<1> QED
  BY <1>1, <1>3 DEF OInv, WInv, CosignedSigned, Trees

\* What a step of feeders and witness is to the witness.
LEMMA StepOfWitness ==
  ASSUME OInv, [FNext]_allVars
  PROVE  [Next]_vars
<1>1. ASSUME NEW f \in Feeder, GetLatestCheckpoint(f) \/ GetLatestFault(f)
      PROVE  Next
  <2>1. FreeReq \in Req /\ FeedLog[f] \in Logs
    BY <1>1, FreeIsIdle, FeederAssumption DEF GetLatestCheckpoint, GetLatestFault
  <2>2. GetCheckpoint(FreeReq, FeedLog[f]) \/ ReadError(FreeReq, FeedLog[f])
    BY <1>1 DEF GetLatestCheckpoint, GetLatestFault
  <2>3. Call(FreeReq)
    BY <2>1, <2>2 DEF Call
  <2> QED
    BY <2>1, <2>3 DEF Next
<1>2. ASSUME NEW f \in Feeder, SubmitUpdate(f)
      PROVE  Next
  <2>1. FreeReq \in Req /\ FeedLog[f] \in Logs
    BY <1>2, FreeIsIdle, FeederAssumption DEF SubmitUpdate
  <2>2. Update(FreeReq, FeedLog[f], submit[f], from[f])
    BY <1>2 DEF SubmitUpdate
  <2>3. submit[f] \in Trees /\ from[f] \in {0} \cup {Size(s) : s \in Trees}
    BY <2>1, <2>2 DEF Update, Parses, Trees, OInv, ProofStarts
  <2>4. Call(FreeReq)
    BY <2>1, <2>2, <2>3 DEF Call
  <2> QED
    BY <2>1, <2>4 DEF Next
<1>3. ASSUME NEW f \in Feeder,
             \/ WitnessAhead(f) \/ AlreadyFed(f) \/ FetchProof(f) \/ FetchProofFails(f)
             \/ Fed(f) \/ TryFailed(f)
      PROVE  Next
  <2>1. Finish(call[f]) /\ call[f] # None
    BY <1>3 DEF WitnessAhead, AlreadyFed, FetchProof, FetchProofFails, Fed, TryFailed,
                LatestKnown, Answered
  <2>2. call[f] \in Req
    BY <2>1 DEF OInv, FTypeOK
  <2> QED
    BY <2>1, <2>2 DEF Next
<1>4. ASSUME \/ \E l \in Logs : Grow(l)
             \/ \E f \in Feeder : FetchCheckpoint(f) \/ Retry(f) \/ Timeout(f)
      PROVE  UNCHANGED vars
  BY <1>4 DEF Grow, FetchCheckpoint, Retry, Timeout
<1>5. ASSUME NEW r \in Req, WitnessStep(r) \/ FinishAbandoned(r) \/ DatabaseFault(r)
      PROVE  Next
  BY <1>5 DEF WitnessStep, FinishAbandoned, DatabaseFault, Next
<1>6. CASE RestartWitness
  BY <1>6 DEF RestartWitness, Next
<1>7. CASE UNCHANGED allVars
  BY <1>7 DEF allVars
<1> QED
  BY <1>1, <1>2, <1>3, <1>4, <1>5, <1>6, <1>7 DEF FNext, FeederStep

\* A call stays served while its feeder waits and its request is not touched.
LEMMA CallStays ==
  ASSUME OInv, NEW g \in Feeder, call'[g] = call[g], fpc'[g] = fpc[g],
         submit'[g] = submit[g], from'[g] = from[g],
         call[g] # None => /\ pc'[call[g]] = pc[call[g]]
                           /\ arg'[call[g]] = arg[call[g]]
                           /\ reply'[call[g]] = reply[call[g]]
  PROVE  CallServed(g)'
BY DEF OInv, CallServed

\* Finish touches one request only.
LEMMA FinishTouches ==
  ASSUME OInv, NEW r \in Req, Finish(r)
  PROVE  /\ \A q \in Req \ {r} : pc'[q] = pc[q] /\ arg'[q] = arg[q] /\ reply'[q] = reply[q]
         /\ UNCHANGED <<db, cosigned>>
BY DEF OInv, WInv, AInv, IInv, TypeOK, Finish

\* So does the start of a call.
LEMMA CallTouches ==
  ASSUME OInv, NEW r \in Req, Call(r)
  PROVE  /\ \A q \in Req \ {r} : pc'[q] = pc[q] /\ arg'[q] = arg[q] /\ reply'[q] = reply[q]
         /\ UNCHANGED <<db, cosigned>>
BY DEF OInv, WInv, AInv, IInv, TypeOK, Call, Update, UpdateBadCheckpoint,
       UpdateUnknownLog, GetCheckpoint, ReadError, Return

\* The end of a call leaves those of the other feeders served.
LEMMA EndKeepsCalls ==
  ASSUME OInv, NEW f \in Feeder, call[f] # None, Finish(call[f]),
         call' = [call EXCEPT ![f] = None],
         \A g \in Feeder \ {f} : /\ fpc'[g] = fpc[g]
                                 /\ submit'[g] = submit[g] /\ from'[g] = from[g]
  PROVE  (\A g \in Feeder : CallServed(g)') /\ CallsApart'
<1>1. call \in [Feeder -> Req \cup {None}]
  BY DEF OInv, FTypeOK
<1>2. CallServed(f)'
  BY <1>1 DEF CallServed
<1>3. ASSUME NEW g \in Feeder \ {f} PROVE CallServed(g)'
  <2>1. call[g] # None => call[g] \in Req \ {call[f]}
    BY <1>1 DEF OInv, CallsApart
  <2>2. call[g] # None => /\ pc'[call[g]] = pc[call[g]] /\ arg'[call[g]] = arg[call[g]]
                          /\ reply'[call[g]] = reply[call[g]]
    BY <1>1, <2>1, FinishTouches
  <2> QED
    BY <1>1, <2>2, CallStays
<1>4. CallsApart'
  BY <1>1 DEF OInv, CallsApart
<1> QED
  BY <1>2, <1>3, <1>4

\* A new call is served by a request that no other feeder waits for.
LEMMA StartKeepsCalls ==
  ASSUME OInv, NEW f \in Feeder, HandlerFree, Call(FreeReq),
         call' = [call EXCEPT ![f] = FreeReq], CallServed(f)',
         \A g \in Feeder \ {f} : /\ fpc'[g] = fpc[g]
                                 /\ submit'[g] = submit[g] /\ from'[g] = from[g]
  PROVE  (\A g \in Feeder : CallServed(g)') /\ CallsApart'
<1>1. /\ call \in [Feeder -> Req \cup {None}]
      /\ FreeReq \in Req /\ pc[FreeReq] = "idle"
  BY FreeIsIdle DEF OInv, FTypeOK
<1>2. \A g \in Feeder : call[g] # None => call[g] \in Req \ {FreeReq}
  BY <1>1 DEF OInv, CallServed
<1>3. ASSUME NEW g \in Feeder \ {f} PROVE CallServed(g)'
  <2>1. call[g] # None => /\ pc'[call[g]] = pc[call[g]] /\ arg'[call[g]] = arg[call[g]]
                          /\ reply'[call[g]] = reply[call[g]]
    BY <1>1, <1>2, CallTouches
  <2> QED
    BY <1>1, <2>1, CallStays
<1>4. CallsApart'
  BY <1>1, <1>2 DEF OInv, CallsApart
<1> QED
  BY <1>3, <1>4

\* What the witness does for a call keeps it served.
LEMMA ServiceKeepsCalls ==
  ASSUME OInv, NEW r \in Req, Step(r) \/ DBError(r), UNCHANGED <<fpc, submit, from, call>>
  PROVE  \A g \in Feeder : CallServed(g)'
<1>1. /\ pc[r] \in {"update", "decide", "store"} /\ pc'[r] # "idle" /\ arg' = arg
      /\ \A q \in Req \ {r} : pc'[q] = pc[q] /\ reply'[q] = reply[q]
  BY DEF OInv, WInv, AInv, IInv, TypeOK, Step, WriteOps, RefuseFirst, RefuseRange,
         RefuseSmaller, RefuseFork, AlreadyHeld, RefuseProof, Sign, Set, SetConflict,
         DBError, Return
<1> SUFFICES ASSUME NEW g \in Feeder PROVE CallServed(g)'
  OBVIOUS
<1>2. CASE call[g] = r
  BY <1>1, <1>2 DEF OInv, CallServed
<1>3. CASE call[g] # r
  BY <1>1, <1>3, CallStays DEF OInv, FTypeOK
<1> QED
  BY <1>2, <1>3

\* The types of the feeders' own variables.
FeederTypes ==
    /\ head \in [Logs -> Seq(Leaf)]
    /\ fed \in [Logs -> SUBSET Seq(Leaf)]
    /\ fpc \in [Feeder -> FPC]
    /\ submit \in [Feeder -> Seq(Leaf)]
    /\ from \in [Feeder -> Nat]
    /\ call \in [Feeder -> Req \cup {None}]
    /\ faults \in 0..MaxFaults

\* A fault that is counted stays within the bound.
LEMMA FaultBound ==
  ASSUME OInv, Fault \/ UNCHANGED faults
  PROVE  faults' \in 0..MaxFaults
BY FeederAssumption DEF OInv, FTypeOK, Fault

\* The end of a cycle, with trees that are cosigned.
LEMMA EndCycleKeeps ==
  ASSUME OInv, NEW f \in Feeder, NEW trees \in SUBSET Seq(Leaf), EndCycle(f, trees),
         trees \subseteq cosigned[FeedLog[f]], UNCHANGED <<head, cosigned>>,
         Fault \/ UNCHANGED faults
  PROVE  FeederTypes' /\ ProofStarts' /\ FedCosigned'
<1>1. FeedLog[f] \in Logs
  BY FeederAssumption
<1>2. faults' \in 0..MaxFaults
  BY FaultBound
<1>3. FeederTypes'
  BY <1>1, <1>2 DEF OInv, FTypeOK, FeederTypes, EndCycle, FPC
<1>4. ProofStarts'
  BY DEF OInv, FTypeOK, ProofStarts, EndCycle
<1>5. FedCosigned'
  BY <1>1 DEF OInv, FTypeOK, FedCosigned, EndCycle
<1> QED
  BY <1>3, <1>4, <1>5

\* The steps of a feeder keep the invariant of the feeders.
LEMMA FeederKeeps ==
  ASSUME OInv, WInv', NEW f \in Feeder,
         FeederStep(f) \/ Timeout(f) \/ GetLatestFault(f) \/ FetchProofFails(f)
  PROVE  /\ FeederTypes' /\ (\A g \in Feeder : CallServed(g)')
         /\ CallsApart' /\ ProofStarts' /\ FedCosigned'
<1>0. FeedLog[f] \in Logs /\ FeederTypes
  BY FeederAssumption DEF OInv, FTypeOK, FeederTypes
<1>1. CASE FetchCheckpoint(f) \/ Retry(f)
  <2>1. FeederTypes'
    <3>1. CASE FetchCheckpoint(f)
      BY <1>0, <3>1 DEF FeederTypes, FetchCheckpoint, FPC
    <3>2. CASE Retry(f)
      BY <1>0, <3>2 DEF FeederTypes, Retry, FPC
    <3> QED
      BY <1>1, <3>1, <3>2
  <2>2. ProofStarts' /\ FedCosigned' /\ CallsApart'
    BY <1>0, <1>1 DEF FeederTypes, FetchCheckpoint, Retry, vars, OInv, ProofStarts,
                      FedCosigned, CallsApart
  <2>3. ASSUME NEW g \in Feeder PROVE CallServed(g)'
    BY <1>0, <1>1 DEF FeederTypes, FetchCheckpoint, Retry, vars, OInv, CallServed
  <2> QED
    BY <2>1, <2>2, <2>3
<1>2. CASE GetLatestCheckpoint(f) \/ GetLatestFault(f)
  <2>1. HandlerFree /\ FreeReq \in Req /\ pc[FreeReq] = "idle"
    BY <1>2, FreeIsIdle DEF GetLatestCheckpoint, GetLatestFault
  <2>2. /\ GetCheckpoint(FreeReq, FeedLog[f]) \/ ReadError(FreeReq, FeedLog[f])
        /\ call' = [call EXCEPT ![f] = FreeReq] /\ fpc' = [fpc EXCEPT ![f] = "asked"]
        /\ UNCHANGED <<head, submit, from, fed>> /\ (Fault \/ UNCHANGED faults)
    BY <1>2 DEF GetLatestCheckpoint, GetLatestFault
  <2>3. Call(FreeReq)
    BY <1>0, <2>1, <2>2 DEF Call
  <2>4. /\ pc'[FreeReq] = "replied" /\ arg'[FreeReq].log = FeedLog[f]
        /\ reply'[FreeReq].code # "FailedPrecondition"
    <3>1. PICK r \in Req : r = FreeReq
      BY <2>1
    <3>2. CASE GetCheckpoint(r, FeedLog[f])
      BY <3>1, <3>2 DEF GetCheckpoint, Names, OInv, WInv, AInv, IInv, TypeOK
    <3>3. CASE ReadError(r, FeedLog[f])
      BY <3>1, <3>3 DEF ReadError, Return, Names, OInv, WInv, AInv, IInv, TypeOK
    <3> QED
      BY <2>2, <3>1, <3>2, <3>3
  <2>5. CallServed(f)'
    BY <1>0, <2>2, <2>4 DEF FeederTypes, CallServed
  <2>6. FeederTypes'
    BY <1>0, <2>1, <2>2, FaultBound DEF FeederTypes, FPC
  <2>7. ProofStarts' /\ FedCosigned'
    BY <2>1, <2>2, <2>3, CallTouches DEF OInv, ProofStarts, FedCosigned
  <2> QED
    BY <1>0, <2>1, <2>2, <2>3, <2>5, <2>6, <2>7, StartKeepsCalls DEF FeederTypes
<1>3. CASE SubmitUpdate(f)
  <2>1. HandlerFree /\ FreeReq \in Req /\ pc[FreeReq] = "idle"
    BY <1>3, FreeIsIdle DEF SubmitUpdate
  <2>2. /\ Update(FreeReq, FeedLog[f], submit[f], from[f])
        /\ call' = [call EXCEPT ![f] = FreeReq] /\ fpc' = [fpc EXCEPT ![f] = "sent"]
        /\ UNCHANGED <<head, submit, from, fed, faults>>
    BY <1>3 DEF SubmitUpdate
  <2>3. Call(FreeReq)
    <3>1. submit[f] \in Trees /\ from[f] \in {0} \cup {Size(s) : s \in Trees}
      BY <1>0, <2>2 DEF Update, Parses, Trees, OInv, ProofStarts
    <3> QED
      BY <1>0, <2>2, <3>1 DEF Call
  <2>4. /\ pc'[FreeReq] = "update"
        /\ arg'[FreeReq] = [log |-> FeedLog[f], next |-> submit[f], from |-> from[f]]
        /\ submit[f] \in SignedTrees[FeedLog[f]]
    BY <2>1, <2>2 DEF Update, Parses, OInv, WInv, AInv, IInv, TypeOK
  <2>5. CallServed(f)'
    BY <1>0, <2>2, <2>4 DEF FeederTypes, CallServed
  <2>6. FeederTypes'
    BY <1>0, <2>1, <2>2 DEF FeederTypes, FPC
  <2>7. ProofStarts' /\ FedCosigned'
    BY <2>1, <2>2, <2>3, CallTouches DEF OInv, ProofStarts, FedCosigned
  <2> QED
    BY <1>0, <2>1, <2>2, <2>3, <2>5, <2>6, <2>7, StartKeepsCalls DEF FeederTypes
<1>4. CASE WitnessAhead(f) \/ AlreadyFed(f) \/ Fed(f)
  <2>1. /\ call[f] # None /\ call[f] \in Req /\ Finish(call[f])
        /\ UNCHANGED <<head, faults>>
    BY <1>0, <1>4 DEF FeederTypes, WitnessAhead, AlreadyFed, Fed, LatestKnown, Answered
  <2>2. PICK trees \in SUBSET cosigned[FeedLog[f]] : EndCycle(f, trees)
    <3>1. CASE WitnessAhead(f)
      BY <3>1 DEF WitnessAhead
    <3>2. CASE AlreadyFed(f)
      <4>1. submit[f] = Answer(f).cp /\ Answer(f).cp # None
        BY <3>2 DEF AlreadyFed, Unchanged
      <4> QED
        BY <2>1, <3>2, <4>1, AnswerCosigned DEF AlreadyFed
    <3>3. CASE Fed(f)
      <4>1. Answer(f).cp # None
        BY <2>1, <3>3 DEF Fed, Answer, OInv, WInv, CodesCarry
      <4> QED
        BY <2>1, <3>3, <4>1, AnswerCosigned DEF Fed
    <3> QED
      BY <1>4, <3>1, <3>2, <3>3
  <2>3. UNCHANGED cosigned
    BY <2>1, FinishTouches
  <2>4. trees \in SUBSET Seq(Leaf)
    BY <1>0, <2>2 DEF OInv, WInv, AInv, IInv, TypeOK
  <2>5. /\ call' = [call EXCEPT ![f] = None]
        /\ \A g \in Feeder \ {f} : /\ fpc'[g] = fpc[g]
                                   /\ submit'[g] = submit[g] /\ from'[g] = from[g]
    BY <1>0, <2>2 DEF EndCycle, FeederTypes
  <2> QED
    BY <2>1, <2>2, <2>3, <2>4, <2>5, EndCycleKeeps, EndKeepsCalls
<1>5. CASE FetchProof(f) \/ FetchProofFails(f) \/ TryFailed(f)
  <2>1. /\ call[f] # None /\ call[f] \in Req /\ Finish(call[f])
        /\ call' = [call EXCEPT ![f] = None]
        /\ UNCHANGED <<head, submit, fed>> /\ (Fault \/ UNCHANGED faults)
        /\ fpc' \in {[fpc EXCEPT ![f] = "proof"], [fpc EXCEPT ![f] = "backoff"]}
    BY <1>0, <1>5 DEF FeederTypes, FetchProof, FetchProofFails, TryFailed, LatestKnown,
                      Answered
  <2>2. /\ from' \in {from, [from EXCEPT ![f] = Size(Latest(f))]}
        /\ Size(Latest(f)) \in {0} \cup {Size(s) : s \in Trees}
    <3>1. from' \in {from, [from EXCEPT ![f] = Size(Latest(f))]}
      BY <1>5 DEF FetchProof, FetchProofFails, TryFailed
    <3>2. CASE Answer(f).cp = None
      BY <3>1, <3>2 DEF Latest, Size
    <3>3. CASE Answer(f).cp # None
      BY <2>1, <3>1, <3>3, AnswerCosigned DEF Latest
    <3> QED
      BY <3>2, <3>3
  <2>3. Size(Latest(f)) \in Nat
    BY <2>2, TreesAreSequences DEF Size
  <2>4. UNCHANGED cosigned
    BY <2>1, FinishTouches
  <2>5. FeederTypes'
    <3>1. from' \in [Feeder -> Nat]
      BY <1>0, <2>2, <2>3 DEF FeederTypes
    <3>2. faults' \in 0..MaxFaults
      BY <2>1, FaultBound
    <3>3. fpc' \in [Feeder -> FPC]
      BY <1>0, <2>1 DEF FeederTypes, FPC
    <3> QED
      BY <1>0, <2>1, <3>1, <3>2, <3>3 DEF FeederTypes
  <2>6. ProofStarts'
    BY <1>0, <2>2 DEF FeederTypes, OInv, ProofStarts
  <2>7. FedCosigned'
    BY <2>1, <2>4 DEF OInv, FedCosigned
  <2>8. \A g \in Feeder \ {f} : /\ fpc'[g] = fpc[g]
                                /\ submit'[g] = submit[g] /\ from'[g] = from[g]
    BY <1>0, <2>1, <2>2 DEF FeederTypes
  <2> QED
    BY <2>1, <2>5, <2>6, <2>7, <2>8, EndKeepsCalls
<1>6. CASE Timeout(f)
  <2>1. EndCycle(f, {}) /\ UNCHANGED <<pc, arg, reply, cosigned, head>> /\ Fault
    BY <1>6 DEF Timeout, vars
  <2>2. FeederTypes' /\ ProofStarts' /\ FedCosigned'
    BY <1>0, <2>1, EndCycleKeeps
  <2>3. CallsApart'
    BY <1>0, <2>1 DEF EndCycle, FeederTypes, OInv, CallsApart
  <2>4. ASSUME NEW g \in Feeder PROVE CallServed(g)'
    BY <1>0, <2>1 DEF EndCycle, FeederTypes, OInv, CallServed
  <2> QED
    BY <2>2, <2>3, <2>4
<1> QED
  BY <1>1, <1>2, <1>3, <1>4, <1>5, <1>6 DEF FeederStep

\* Every step of feeders and witness keeps the invariant.
LEMMA NextOInv == OInv /\ [FNext]_allVars => OInv'
<1> SUFFICES ASSUME OInv, [FNext]_allVars PROVE OInv'
  OBVIOUS
<1>1. WInv'
  BY StepOfWitness, NextWInv DEF OInv
<1>2. TypeOK'
  BY <1>1 DEF WInv, AInv, IInv
<1>3. FeederTypes
  BY DEF OInv, FTypeOK, FeederTypes
<1> SUFFICES /\ FeederTypes' /\ (\A g \in Feeder : CallServed(g)')
             /\ CallsApart' /\ ProofStarts' /\ FedCosigned'
  BY <1>1, <1>2 DEF OInv, FTypeOK, FeederTypes
<1>4. ASSUME NEW l \in Logs, Grow(l) PROVE OInv'
  <2>1. FeederTypes'
    BY <1>3, <1>4, WitnessAssumption DEF FeederTypes, Grow
  <2>2. UNCHANGED <<pc, arg, reply, cosigned, fpc, submit, from, call, fed>>
    BY <1>4 DEF Grow, vars
  <2> QED
    BY <1>1, <1>2, <2>1, <2>2
       DEF OInv, FTypeOK, FeederTypes, CallServed, CallsApart, ProofStarts, FedCosigned
<1>5. ASSUME NEW r \in Req, WitnessStep(r) \/ DatabaseFault(r) PROVE OInv'
  <2>1. Step(r) \/ DBError(r)
    BY <1>5 DEF WitnessStep, DatabaseFault
  <2>2. UNCHANGED <<head, fpc, submit, from, call, fed>> /\ (Fault \/ UNCHANGED faults)
    BY <1>5 DEF WitnessStep, DatabaseFault, feederVars
  <2>3. \A l \in Logs : cosigned[l] \subseteq cosigned'[l]
    BY <2>1 DEF Step, WriteOps, RefuseFirst, RefuseRange, RefuseSmaller, RefuseFork,
                AlreadyHeld, RefuseProof, Sign, Set, SetConflict, DBError, OInv, WInv,
                AInv, IInv, TypeOK
  <2>4. FeederTypes' /\ CallsApart' /\ ProofStarts' /\ FedCosigned'
    BY <1>3, <2>2, <2>3, FaultBound
       DEF FeederTypes, OInv, CallsApart, ProofStarts, FedCosigned
  <2> QED
    BY <1>1, <1>2, <2>1, <2>2, <2>4, ServiceKeepsCalls DEF OInv, FTypeOK, FeederTypes
<1>6. ASSUME NEW r \in Req, FinishAbandoned(r) PROVE OInv'
  <2>1. Finish(r) /\ r \notin Awaited /\ UNCHANGED feederVars
    BY <1>6 DEF FinishAbandoned
  <2>2. UNCHANGED <<db, cosigned>>
    BY <2>1, FinishTouches
  <2>3. FeederTypes' /\ CallsApart' /\ ProofStarts' /\ FedCosigned'
    BY <1>3, <2>1, <2>2
       DEF feederVars, FeederTypes, OInv, CallsApart, ProofStarts, FedCosigned
  <2>4. ASSUME NEW g \in Feeder PROVE CallServed(g)'
    <3>1. call[g] # None => call[g] \in Req \ {r}
      BY <1>3, <2>1 DEF Awaited, FeederTypes
    <3> QED
      BY <2>1, <3>1, FinishTouches, CallStays DEF feederVars
  <2> QED
    BY <1>1, <1>2, <2>3, <2>4 DEF OInv, FTypeOK, FeederTypes
<1>7. CASE RestartWitness
  <2>1. faults' \in 0..MaxFaults
    BY <1>7, FaultBound DEF RestartWitness
  <2>2. FeederTypes'
    BY <1>3, <1>7, <2>1 DEF RestartWitness, FeederTypes, FPC
  <2>3. CallsApart' /\ \A g \in Feeder : CallServed(g)'
    BY <1>7 DEF RestartWitness, CallsApart, CallServed
  <2>4. ProofStarts'
    BY <1>7 DEF RestartWitness, OInv, ProofStarts
  <2>5. FedCosigned'
    BY <1>7 DEF RestartWitness, Restart, OInv, FedCosigned
  <2> QED
    BY <1>1, <1>2, <2>2, <2>3, <2>4, <2>5 DEF OInv, FTypeOK, FeederTypes
<1>8. CASE UNCHANGED allVars
  BY <1>3, <1>8 DEF allVars, vars, feederVars, FeederTypes, OInv, CallServed,
                    CallsApart, ProofStarts, FedCosigned
<1> QED
  BY <1>1, <1>4, <1>5, <1>6, <1>7, <1>8, FeederKeeps
     DEF FNext, OInv, FTypeOK, FeederTypes

\* Initially no feeder waits for an answer.
LEMMA InitOInv == FInit => OInv
<1> SUFFICES ASSUME FInit PROVE OInv
  OBVIOUS
<1>1. Init
  BY DEF FInit
<1>2. WInv /\ TypeOK
  BY <1>1, InitWInv DEF WInv, AInv, IInv
<1>3. FTypeOK
  BY <1>2, TreesAreSequences, FeederAssumption DEF FInit, FTypeOK, FPC
<1>4. ProofStarts
  BY DEF FInit, ProofStarts
<1>5. FedCosigned /\ CallsApart /\ \A f \in Feeder : CallServed(f)
  BY DEF FInit, FedCosigned, CallsApart, CallServed
<1> QED
  BY <1>2, <1>3, <1>4, <1>5 DEF OInv

-----------------------------------------------------------------------------
(* Theorems. *)

\* The variables of the witness keep their types.
THEOREM TypeCorrect == Spec => []TypeOK
<1>1. IInv => TypeOK
  BY DEF IInv
<1> QED
  BY <1>1, InitIInv, NextIInv, PTL DEF Spec

\* The contract of GetCheckpoint: whatever requests race on whatever logs, and
\* however often the process restarts, all checkpoints the witness cosigned
\* for a log are views of one append-only log.
THEOREM AllCosignedConsistent == Spec => []CosignedConsistent
BY CosignedComparable, InitIInv, NextIInv, PTL DEF Spec

\* What Update and GetCheckpoint answer stays sound however many requests race
\* and however old the read is that an answer was computed from: its checkpoint
\* is in the one history of the log, its status code is borne out by the trees,
\* and the in-memory witness reports a conflict only if the log has moved on.
THEOREM AllAnswersSound == Spec => []AnswersSound
<1>1. IInv => CosignedConsistent
  BY CosignedComparable
<1>2. AInv => AnswersSound
  <2> SUFFICES ASSUME AInv PROVE AnswersSound
    OBVIOUS
  <2>1. \A r \in Req : AnswerBacked(r) /\ FailureBacked(r)
    BY DEF AInv, RequestBacked
  <2>2. RepliesConsistent
    BY <1>1, <2>1 DEF AInv, RepliesConsistent, AnswerBacked, CosignedConsistent
  <2>3. VerdictsJustified
    BY <2>1 DEF VerdictsJustified, AnswerBacked
  <2>4. ConflictMeansOvertaken
    BY <2>1 DEF ConflictMeansOvertaken, FailureBacked
  <2> QED
    BY <2>2, <2>3, <2>4 DEF AnswersSound
<1> QED
  BY <1>2, InitAInv, NextAInv, PTL DEF Spec

\* Set is a Trust or an Advance of the abstract witness, a restart of the
\* in-memory witness is a Forget, and no other step changes what the abstract
\* witness sees.
THEOREM WitnessImplementsAbstract == Spec => WitnessRefines
<1> DEFINE Lat == [l \in Logs |-> IF db[l] = None THEN None ELSE db[l].tree]
<1>1. Init => Abs!AbsInit
  BY DEF Init, Abs!AbsInit
<1>2. IInv /\ [Next]_vars => [Abs!AbsNext]_(Abs!absVars)
  <2> SUFFICES ASSUME IInv, [Next]_vars
               PROVE  Abs!AbsNext \/ UNCHANGED <<Lat, cosigned>>
    BY DEF Abs!absVars
  <2>1. CASE UNCHANGED <<db, cosigned>>
    BY <2>1
  <2>2. ASSUME NEW r \in Req, Set(r)
        PROVE  Abs!AbsNext
    <3>0. PICK l, t : l = arg[r].log /\ t = arg[r].next
      OBVIOUS
    <3>1. /\ l \in Logs /\ Acceptable(r) /\ t \in Seq(Leaf)
          /\ read[r] = db[l] /\ t \in SignedTrees[l]
      BY <2>2, <3>0 DEF IInv, TypeOK, RequestsCoherent, Set, CanWrite, Parses
    <3>2. NewState(r) \in Stored /\ NewState(r).tree = t
      BY <3>0, <3>1 DEF NewState, Stored
    <3>3. Lat' = [Lat EXCEPT ![l] = t]
      <4>1. NewState(r) # None
        BY <3>2, WitnessAssumption DEF Stored
      <4> QED
        BY <2>2, <3>0, <3>1, <3>2, <4>1 DEF Set, IInv, TypeOK
    <3>4. Abs!Cosign(l, t)
      BY <2>2, <3>0, <3>3 DEF Set, Abs!Cosign
    <3>5. CASE db[l] = None
      <4>1. Lat[l] = None
        BY <3>1, <3>5
      <4>2. Abs!Trust(l, t)
        BY <3>4, <4>1 DEF Abs!Trust
      <4> QED
        BY <3>1, <4>2 DEF Abs!AbsNext
    <3>6. CASE db[l] # None
      <4>1. Lat[l] = read[r].tree /\ Lat[l] \in Seq(Leaf)
        BY <3>1, <3>6 DEF IInv, TypeOK, Stored
      <4>2. Lat[l] # None
        BY <4>1, WitnessAssumption
      <4>3. Prefix(Lat[l], t) /\ Size(Lat[l]) < Size(t)
        BY <3>0, <3>1, <3>6, <4>1, AcceptableExtends DEF IInv
      <4>4. Abs!Advance(l, t)
        BY <3>4, <4>2, <4>3 DEF Abs!Advance, Abs!Size, Abs!Prefix, Size, Prefix
      <4> QED
        BY <3>1, <4>4 DEF Abs!AbsNext
    <3> QED
      BY <3>5, <3>6
  <2>3. CASE Restart
    <3>1. CASE InMemory
      <4>1. Abs!Forget
        BY <2>3, <3>1 DEF Restart, Abs!Forget
      <4> QED
        BY <4>1 DEF Abs!AbsNext
    <3>2. CASE ~InMemory
      BY <2>1, <2>3, <3>2 DEF Restart
    <3> QED
      BY <3>1, <3>2
  <2>4. ASSUME NEW r \in Req, Call(r) \/ DBError(r) \/ Finish(r)
        PROVE  UNCHANGED <<db, cosigned>>
    BY <2>4 DEF Call, Update, UpdateBadCheckpoint, UpdateUnknownLog, GetCheckpoint,
                ReadError, DBError, Finish
  <2>5. ASSUME NEW r \in Req, Step(r), ~Set(r)
        PROVE  UNCHANGED <<db, cosigned>>
    BY <2>5 DEF Step, WriteOps, RefuseFirst, RefuseRange, RefuseSmaller, RefuseFork,
                AlreadyHeld, RefuseProof, Sign, SetConflict
  <2>6. CASE UNCHANGED vars
    BY <2>1, <2>6 DEF vars
  <2> QED
    BY <2>1, <2>2, <2>3, <2>4, <2>5, <2>6 DEF Next
<1> QED
  BY <1>1, <1>2, InitIInv, NextIInv, PTL DEF Spec, WitnessRefines, Abs!AbsSpec

\* Feeders, their timeouts and the restarts of the omniwitness make the witness
\* do nothing that it does not do for callers at large: whatever is proved of
\* the witness holds of the whole.
THEOREM FeedersKeepWitness == FSpec => Spec
<1>1. FInit => Init
  BY DEF FInit
<1>2. OInv /\ [FNext]_allVars => [Next]_vars
  BY StepOfWitness
<1> QED
  BY <1>1, <1>2, InitOInv, NextOInv, PTL DEF FSpec, Spec

\* A feeder's success is one: FeedOnce returns without an error only when the
\* witness has cosigned, and covers, the checkpoint it returns, although calls
\* are abandoned, retried and overtaken, and the witness restarts.
THEOREM AllFeedersSound == FSpec => []FeedersSound
<1>1. OInv => FeedersSound
  <2> SUFFICES ASSUME OInv, NEW l \in Logs, NEW t \in fed[l]
               PROVE  t \in cosigned[l] /\ db[l] # None /\ Prefix(t, db[l].tree)
    BY DEF FeedersSound, FedIsCosigned, OInv
  <2>1. t \in cosigned[l]
    BY DEF OInv, FedCosigned
  <2> QED
    BY <2>1 DEF OInv, WInv, AInv, IInv, StoredCovers
<1> QED
  BY <1>1, InitOInv, NextOInv, PTL DEF FSpec

\* The feeder of an honest log is never told of a fork for the proof that the
\* witness asked for: FailedPrecondition means that the witness has moved since
\* the feeder asked for its latest checkpoint.
THEOREM HonestLogsNeverForked == FSpec => []HonestNeverForked
<1>1. OInv => HonestNeverForked
  <2> SUFFICES ASSUME OInv, NEW f \in Feeder, Chain(FeedLog[f]), call[f] # None,
                      Answer(f).code = "FailedPrecondition"
               PROVE  Size(Answer(f).cp) # from[f]
    BY DEF HonestNeverForked
  <2> DEFINE r == call[f]
             l == FeedLog[f]
             cp == reply[r].cp
             next == submit[f]
  <2>1. /\ r \in Req /\ l \in Logs /\ arg[r].log = l /\ arg[r].next = next
        /\ arg[r].from = from[f] /\ next \in SignedTrees[l]
    BY FeederAssumption DEF OInv, FTypeOK, CallServed, Answer
  <2>2. cp # None
    BY <2>1 DEF Answer, OInv, WInv, CodesCarry
  <2>3. /\ cp \in cosigned[l] /\ Size(next) >= Size(cp)
        /\ ~VerifyConsistency(cp, next, from[f])
    BY <2>1, <2>2 DEF Answer, OInv, WInv, AInv, RequestBacked, AnswerBacked
  <2>4. cp \in SignedTrees[l] /\ cp \in Seq(Leaf) /\ next \in Seq(Leaf)
    BY <2>1, <2>3, WitnessAssumption DEF OInv, WInv, CosignedSigned, FTypeOK
  <2>5. Prefix(cp, next)
    <3>1. Prefix(cp, next) \/ Prefix(next, cp)
      BY <2>1, <2>4 DEF Chain, Comparable
    <3>2. Len(cp) \in Nat /\ Len(next) \in Nat /\ Len(next) >= Len(cp)
      BY <2>3, <2>4 DEF Size
    <3> QED
      BY <3>1, <3>2 DEF Prefix
  <2> QED
    BY <2>3, <2>5 DEF VerifyConsistency, Answer
<1> QED
  BY <1>1, InitOInv, NextOInv, PTL DEF FSpec
=============================================================================
