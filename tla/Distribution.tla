---------------------------- MODULE Distribution ----------------------------
(***************************************************************************)
(* A client of a log that fetches from the GitHub distributor: the         *)
(* witnesses that cosign are those whose signatures the client counts, and *)
(* the file checkpoint.N that the client gets from this distributor is the *)
(* one that combine_witness_signatures has written.  Other distributors    *)
(* serve what they like, and so does the log.                              *)
(***************************************************************************)
EXTENDS LogClient, GitHubDistributor

CONSTANT Hub  \* the GitHub distributor

\* The client and the distributor are configured for one log and its witnesses.
SameConfig ==
    /\ Signed = Trees /\ Witnesses = Witness /\ None = NoFile
    /\ Hub \in Distributors

\* checkpoint.N, which is not there if the distributor has no such slot.
HubFile == IF N \in Slot THEN slots[N] ELSE NoFile

client == <<served, cached, pc, latest, got, cand, tracked, loaded>>

\* A witness, a distribute process, a merge or the combination goes on, and the
\* client's next fetch finds what this has written.
HubStep ==
    /\ GNext
    /\ cosigned' = history'
    /\ dist' = [dist EXCEPT ![Hub] = HubFile']
    /\ UNCHANGED client

\* Any other step around the client: a command goes on, or the log or another
\* distributor serves something else.
ClientStep ==
    /\ Next
    /\ cosigned' = cosigned /\ dist'[Hub] = dist[Hub]
    /\ UNCHANGED gvars

DistributionSpec == Init /\ GInit /\ [][HubStep \/ ClientStep]_<<vars, gvars>>

-----------------------------------------------------------------------------

\* The GitHub distributor is one of those that the client is right about
\* (module LogClient): whatever is merged, however often the combination dies
\* half way, and whenever the client fetches, checkpoint.N has genuine
\* signatures of the configured witnesses, each of which cosigns one history,
\* and once it is there it is never taken away (UpdateState, storeState,
\* getCheckpointN).
HubRefines == Spec
=============================================================================
