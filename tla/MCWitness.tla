----------------------------- MODULE MCWitness -----------------------------
(***************************************************************************)
(* Two instances of Witness for TLC, one of which runs in a behaviour:     *)
(*                                                                         *)
(* - the module's own variables: the in-memory layer, with a log that      *)
(*   forks and one that has not signed anything yet;                       *)
(* - S: the SQL layer, with a log that starts empty and forks.             *)
(***************************************************************************)
EXTENDS Witness, TLC

CONSTANTS l1, l2, a, b, r1, r2, r3

VARIABLES
    layer,  \* the instance that runs in this behaviour
    sDb, sConn, sCompact, sPc, sArg, sRead, sReply, sCosigned

svars == <<sDb, sConn, sCompact, sPc, sArg, sRead, sReply, sCosigned>>

\* One log that forks after its first entry.
ForkTrees == {<<a>>, <<a, a>>, <<a, b>>, <<a, a, b>>}

\* That log, and one that has not signed anything yet.
MCForked == (l1 :> ForkTrees) @@ (l2 :> {})

\* A log that starts empty and forks.
MCFromEmpty == l1 :> {<<>>, <<a>>, <<b>>, <<a, a>>, <<a, b>>}

S == INSTANCE Witness WITH
        InMemory <- FALSE, Logs <- {l1}, SignedTrees <- MCFromEmpty,
        db <- sDb, conn <- sConn, compact <- sCompact, pc <- sPc, arg <- sArg,
        read <- sRead, reply <- sReply, cosigned <- sCosigned

MCInit ==
    /\ Init /\ S!Init
    /\ \/ layer = "memory" /\ sCompact = {}
       \/ layer = "sql" /\ compact = {}

MCNext ==
    \/ layer = "memory" /\ Next /\ UNCHANGED <<layer, svars>>
    \/ layer = "sql" /\ S!Next /\ UNCHANGED <<layer, vars>>

MCSpec == MCInit /\ [][MCNext]_<<layer, vars, svars>> /\ S!Fairness

\* The witness with its SQL layer implements the abstract witness that never
\* forgets, whichever call to the database fails and whenever it restarts.
SQLRefines == S!WitnessRefines

\* Over the one connection every request that was accepted is answered, unless
\* the process dies: no path of Update or GetCheckpoint keeps the connection.
SQLAnswered == S!EventuallyAnswered
=============================================================================
