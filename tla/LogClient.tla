----------------------------- MODULE LogClient -----------------------------
(***************************************************************************)
(* The client of a log (serverless/cmd/client): the LogStateTracker of     *)
(* serverless/client, the checkpoint consensus of serverless/client/witness *)
(* and the cache file that successive commands share.                      *)
(*                                                                         *)
(* Around it: a log that shows whatever it has signed, witnesses that      *)
(* cosign append-only histories (module Witness proves that they do), and  *)
(* distributors that hand out any signed checkpoint.N they like.           *)
(***************************************************************************)
EXTENDS MerkleLog, FiniteSets

CONSTANTS Signed,        \* the trees the log signs checkpoints for
          Witnesses,
          Distributors,
          N,             \* --witness_sigs_required
          Clients,       \* commands that may run at once on one cache
          None

ASSUME ClientAssumption ==
    /\ Signed \subseteq Seq(Leaf)
    /\ IsFiniteSet(Witnesses)
    /\ N \in 0..Cardinality(Witnesses)
    /\ None \notin Seq(Leaf)

VARIABLES
    served,    \* the tree whose checkpoint and tiles the log serves
    cosigned,  \* the trees each witness has cosigned
    dist,      \* checkpoint.N of each distributor
    cached,    \* <cache_dir>/<logID>/checkpoint, or None
    pc,        \* per command
    latest,    \* LogStateTracker.LatestConsistent; the empty tree at first
    got,       \* what each goroutine of the consensus function has
    cand,      \* the checkpoint that the consensus function returned
    tracked,   \* history: every tree that was stored in the cache
    loaded     \* history: what each running command read from the cache

env == <<served, cosigned, dist>>
vars == <<env, cached, pc, latest, got, cand, tracked, loaded>>

PC == {"idle", "loaded", "consensus", "none", "update", "save"}

\* A checkpoint.N file: a tree, and the witnesses whose signatures verify.
File == [tree : Signed, sigs : SUBSET Witnesses]

\* The state of a goroutine, and the file it received.
Outcome == [state : {"waiting", "done", "failed", "cancelled"},
            file : File \cup {None}]

Waiting == [d \in Distributors |-> [state |-> "waiting", file |-> None]]

Init ==
    /\ served \in Signed
    /\ cosigned = [w \in Witnesses |-> {}]
    /\ dist = [d \in Distributors |-> None]
    /\ cached = None
    /\ pc = [c \in Clients |-> "idle"]
    /\ latest = [c \in Clients |-> <<>>]
    /\ got = [c \in Clients |-> Waiting]
    /\ cand = [c \in Clients |-> None]
    /\ tracked = {}
    /\ loaded = [c \in Clients |-> None]

-----------------------------------------------------------------------------
(* The environment. *)

\* A witness cosigns one append-only history.
Cosign(w, t) ==
    /\ t \notin cosigned[w]
    /\ \A s \in cosigned[w] : Prefix(s, t)
    /\ cosigned' = [cosigned EXCEPT ![w] = @ \cup {t}]
    /\ UNCHANGED <<served, dist, cached, pc, latest, got, cand, tracked, loaded>>

Distribute(d, t, sigs) ==
    /\ \A w \in sigs : t \in cosigned[w]
    /\ dist' = [dist EXCEPT ![d] = [tree |-> t, sigs |-> sigs]]
    /\ UNCHANGED <<served, cosigned, cached, pc, latest, got, cand, tracked, loaded>>

Serve(t) ==
    /\ served' = t
    /\ UNCHANGED <<cosigned, dist, cached, pc, latest, got, cand, tracked, loaded>>

-----------------------------------------------------------------------------
(* A command. *)

Go(c, to) == pc' = [pc EXCEPT ![c] = to]

\* newLogClientTool: loadLocalCheckpoint and NewLogStateTracker, which calls
\* Update at once when nothing is cached.
Load(c) ==
    /\ pc[c] = "idle"
    /\ latest' = [latest EXCEPT ![c] = IF cached = None THEN <<>> ELSE cached]
    /\ Go(c, IF cached = None THEN "consensus" ELSE "loaded")
    /\ loaded' = [loaded EXCEPT ![c] = cached]
    /\ UNCHANGED <<env, cached, got, cand, tracked>>

\* The update command.
UpdateCommand(c) ==
    /\ pc[c] = "loaded"
    /\ Go(c, "consensus")
    /\ UNCHANGED <<env, cached, latest, got, cand, tracked, loaded>>

\* NewProofBuilder succeeds: the tiles of the log give the root of tree t.
\* The empty range has no root, so it fails on the empty tree.
Buildable(t) == t # <<>> /\ Prefix(t, served)

\* The inclusion and consistency commands build their proof on the tracked
\* state and then store it in the cache again.
ProofCommand(c) ==
    /\ pc[c] = "loaded"
    /\ Buildable(latest[c])
    /\ Go(c, "save")
    /\ UNCHANGED <<env, cached, latest, got, cand, tracked, loaded>>

\* The command ends without storing anything: it was killed, its proof could
\* not be built or there was no consensus.
Exit(c) ==
    /\ pc[c] # "idle"
    /\ pc' = [pc EXCEPT ![c] = "idle"]
    /\ latest' = [latest EXCEPT ![c] = <<>>]
    /\ got' = [got EXCEPT ![c] = Waiting]
    /\ cand' = [cand EXCEPT ![c] = None]
    /\ loaded' = [loaded EXCEPT ![c] = None]
    /\ UNCHANGED <<env, cached, tracked>>

\* UnilateralConsensus, when no witness signatures are required.
Unilateral(c) ==
    /\ pc[c] = "consensus" /\ N = 0
    /\ cand' = [cand EXCEPT ![c] = served]
    /\ Go(c, "update")
    /\ UNCHANGED <<env, cached, latest, got, tracked, loaded>>

\* CheckpointNConsensus: one goroutine per distributor.
Got(c, d, state, file) ==
    /\ pc[c] = "consensus" /\ N > 0
    /\ got[c][d].state = "waiting"
    /\ got' = [got EXCEPT ![c][d] = [state |-> state, file |-> file]]
    /\ UNCHANGED <<env, cached, pc, latest, cand, tracked, loaded>>

\* errgroup cancels the context as soon as one goroutine fails.
Cancelled(c) == \E d \in Distributors : got[c][d].state = "failed"

Fetch(c, d) == dist[d] # None /\ Got(c, d, "done", dist[d])
FetchFails(c, d) == Got(c, d, "failed", None)
FetchCancelled(c, d) == Cancelled(c) /\ Got(c, d, "cancelled", None)

Answers(c) == {got[c][d].file : d \in Distributors} \ {None}

\* Mutant: the log's own signature is counted.
SuitableOneShort(c) == {f \in Answers(c) : Cardinality(f.sigs) >= N - 1}

\* The checkpoints that have at least N witness signatures.
Suitable(c) == {f \in Answers(c) : Cardinality(f.sigs) >= N}

AllDone(c) ==
    /\ pc[c] = "consensus" /\ N > 0
    /\ \A d \in Distributors : got[c][d].state # "waiting"

\* bestCP: a largest one (the first to arrive of those of that size).
Choose(c) ==
    /\ AllDone(c)
    /\ \E f \in Suitable(c) :
          /\ \A g \in Suitable(c) : Size(g.tree) <= Size(f.tree)
          /\ cand' = [cand EXCEPT ![c] = f.tree]
    /\ Go(c, "update")
    /\ UNCHANGED <<env, cached, latest, got, tracked, loaded>>

NoConsensus(c) ==
    /\ AllDone(c) /\ Suitable(c) = {}
    /\ Go(c, "none")
    /\ UNCHANGED <<env, cached, latest, got, cand, tracked, loaded>>


NeedsProof(c) == Size(latest[c]) > 0 /\ Size(cand[c]) > Size(latest[c])

Proven(c) == Buildable(cand[c])
               /\ VerifyConsistency(latest[c], cand[c], Size(latest[c]))

Update(c) ==
    /\ pc[c] = "update"
    /\ NeedsProof(c) => Proven(c)
    /\ latest' = [latest EXCEPT ![c] = cand[c]]
    /\ Go(c, "save")
    /\ UNCHANGED <<env, cached, got, cand, tracked, loaded>>

\* storeLocalCheckpoint.
Save(c) ==
    /\ pc[c] = "save"
    /\ cached' = latest[c]
    /\ tracked' = tracked \cup {latest[c]}
    /\ pc' = [pc EXCEPT ![c] = "idle"]
    /\ latest' = [latest EXCEPT ![c] = <<>>]
    /\ got' = [got EXCEPT ![c] = Waiting]
    /\ cand' = [cand EXCEPT ![c] = None]
    /\ loaded' = [loaded EXCEPT ![c] = None]
    /\ UNCHANGED env

Command(c) ==
    \/ Load(c) \/ UpdateCommand(c) \/ ProofCommand(c) \/ Exit(c)
    \/ Unilateral(c)
    \/ \E d \in Distributors :
          Fetch(c, d) \/ FetchFails(c, d) \/ FetchCancelled(c, d)
    \/ Choose(c) \/ NoConsensus(c) \/ Update(c) \/ Save(c)

Environment ==
    \/ \E t \in Signed :
          \/ Serve(t)
          \/ \E w \in Witnesses : Cosign(w, t)
          \/ \E d \in Distributors, sigs \in SUBSET Witnesses : Distribute(d, t, sigs)

Next == Environment \/ \E c \in Clients : Command(c)

Spec == Init /\ [][Next]_vars
-----------------------------------------------------------------------------
(***************************************************************************)
(* Properties.                                                             *)
(***************************************************************************)

\* Types of the variables.
CTypeOK ==
    /\ served \in Signed
    /\ cosigned \in [Witnesses -> SUBSET Signed]
    /\ dist \in [Distributors -> File \cup {None}]
    /\ cached \in Seq(Leaf) \cup {None}
    /\ pc \in [Clients -> PC]
    /\ latest \in [Clients -> Seq(Leaf)]
    /\ got \in [Clients -> [Distributors -> Outcome]]
    /\ cand \in [Clients -> Seq(Leaf) \cup {None}]
    /\ tracked \subseteq Seq(Leaf)
    /\ loaded \in [Clients -> Seq(Leaf) \cup {None}]

\* LogStateTracker "handles verification that updates to the tracked log state
\* are consistent with previously seen states": all the states that commands
\* over one cache ever stored are views of one append-only log.
TrackedConsistent == \A s, t \in tracked : Comparable(s, t)

Cosigners(t) == {w \in Witnesses : t \in cosigned[w]}
Backed(t) == Cardinality(Cosigners(t)) >= N
\* Whatever distributors serve and however fetches race, a tracked checkpoint
\* was cosigned by N of the witnesses.
ConsensusBacked == \A t \in tracked : Backed(t)

\* A larger checkpoint gets into the cache only if it extends the one that
\* is replaced, whatever the log serves between its checkpoint and its tiles
\* (LogStateTracker.Update, storeLocalCheckpoint).  Two cases are left to the
\* user: Update takes a checkpoint that is not larger without a proof, and a
\* command that has loaded one state may find that another command has
\* stored a different one since, and replaces it unseen.
CacheGrowthProven ==
    [][\A c \in Clients :
          /\ pc[c] = "save" /\ pc'[c] = "idle"
          /\ cached # None /\ loaded[c] = cached
          /\ Size(cached) > 0 /\ Size(cached') > Size(cached)
          => Prefix(cached, cached')]_vars

(***************************************************************************)
(* The inductive invariant behind ConsensusBacked and TrackedConsistent:   *)
(* signatures are genuine wherever a file has got to, and so every tree    *)
(* between the consensus function and the cache is backed.                 *)
(***************************************************************************)
WitnessesHonest ==
    \A w \in Witnesses : \A s, t \in cosigned[w] : Comparable(s, t)

Genuine(f) == f # None => \A w \in f.sigs : f.tree \in cosigned[w]

FilesGenuine ==
    \A d \in Distributors :
        Genuine(dist[d]) /\ \A c \in Clients : Genuine(got[c][d].file)

CommandsBacked ==
    /\ cached # None => Backed(cached)
    /\ \A c \in Clients :
          /\ cand[c] # None => Backed(cand[c])
          /\ pc[c] = "update" => cand[c] # None
          /\ pc[c] \in {"loaded", "save"} => Backed(latest[c])

\* What a command is about to store, if larger than what it loaded, extends it.
SavesProven ==
    \A c \in Clients :
        /\ pc[c] \in {"loaded", "consensus", "none", "update"} =>
              latest[c] = IF loaded[c] = None THEN <<>> ELSE loaded[c]
        /\ pc[c] = "save" /\ loaded[c] # None
              /\ Size(loaded[c]) > 0 /\ Size(latest[c]) > Size(loaded[c])
              => Prefix(loaded[c], latest[c])

IInv == /\ CTypeOK /\ WitnessesHonest /\ FilesGenuine /\ CommandsBacked
        /\ ConsensusBacked
=============================================================================
