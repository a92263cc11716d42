----------------------- MODULE MCGitHubDistributor -----------------------
(***************************************************************************)
(* An instance of Distribution for TLC: two witnesses of a log that grows  *)
(* once, and one that is not in the config.  A behaviour is of one of two  *)
(* kinds:                                                                  *)
(*                                                                         *)
(* - the distributor alone, with both witnesses;                           *)
(* - the distributor with a client that requires one signature, while the  *)
(*   second witness is silent.  (The fairness of the distributor excludes  *)
(*   these from the liveness property.)                                    *)
(***************************************************************************)
EXTENDS Distribution

CONSTANTS a, b, w1, w2, w3, c1

VARIABLE side  \* the kind of this behaviour

\* The hypothesis of the composition.
ASSUME MCSameConfig == SameConfig

MCLeaf == {a, b}
MCTrees == {<<a>>, <<a, b>>}

\* The checkpoints of a serverless log have no other data.
MCOtherData == [t \in MCTrees |-> <<>>]

MCInit ==
    /\ Init /\ GInit
    /\ side \in {"alone", "client"}
    /\ side = "alone" => served = <<a>>

MCNext ==
    /\ UNCHANGED side
    /\ \/ side = "alone" /\ HubStep
       \/ side = "client" /\ HubStep /\ signed'[w2] = <<>> /\ round'[w2].pc = "sleep"
       \/ side = "client" /\ ClientStep

MCSpec ==
    /\ MCInit /\ [][MCNext]_<<side, vars, gvars>>
    /\ GFairness
==========================================================================
