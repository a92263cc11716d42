------------------------- MODULE DistributionProofs -------------------------
(***************************************************************************)
(* Proofs about the way of a witness's signature to a client: the client   *)
(* command, the GitHub distributor, and the two put together.              *)
(***************************************************************************)
EXTENDS Distribution, FiniteSetTheorems, WellFoundedInduction, TLAPS

-----------------------------------------------------------------------------
(***************************************************************************)
(* The client: for any log, any set of witnesses, any distributors and any *)
(* number of client commands, a client that asks for a majority of         *)
(* witnesses never tracks two checkpoints that disagree.                   *)
(***************************************************************************)

\* Every set of witnesses has a size.
LEMMA WitnessesFinite ==
    ASSUME NEW S \in SUBSET Witnesses
    PROVE  IsFiniteSet(S) /\ Cardinality(S) \in Nat
<1>1. IsFiniteSet(Witnesses)
  BY ClientAssumption
<1> QED
  BY <1>1, FS_Subset, FS_CardinalityType

\* The quorum N is a number.
LEMMA NIsNat == N \in Nat
<1>1. Cardinality(Witnesses) \in Nat
  BY WitnessesFinite
<1> QED
  BY <1>1, ClientAssumption

\* A log, its witnesses and a client that have done nothing satisfy the
\* invariant.
LEMMA InitInv == Init => IInv
<1> SUFFICES ASSUME Init PROVE IInv
  OBVIOUS
<1>1. <<>> \in Seq(Leaf)
  OBVIOUS
<1>2. CTypeOK
  BY <1>1, ClientAssumption DEF Init, CTypeOK, Waiting, Outcome, PC
<1>3. WitnessesHonest /\ FilesGenuine
  BY DEF Init, WitnessesHonest, FilesGenuine, Genuine, Waiting
<1>4. CommandsBacked /\ ConsensusBacked
  BY DEF Init, CommandsBacked, ConsensusBacked
<1> QED
  BY <1>2, <1>3, <1>4 DEF IInv

\* A tree that N witnesses have cosigned stays so.
LEMMA BackedStays ==
    ASSUME CTypeOK, NEW t, Backed(t),
           \A w \in Witnesses : cosigned[w] \subseteq cosigned'[w]
    PROVE  Backed(t)'
<1>1. Cosigners(t) \subseteq Cosigners(t)'
  BY DEF Cosigners
<1>2. Cosigners(t) \subseteq Witnesses /\ Cosigners(t)' \subseteq Witnesses
  BY DEF Cosigners
<1>3. IsFiniteSet(Cosigners(t)')
  BY <1>2, WitnessesFinite
<1>4. Cardinality(Cosigners(t)) <= Cardinality(Cosigners(t)')
  BY <1>1, <1>3, FS_Subset
<1>5. Cardinality(Cosigners(t)) \in Nat /\ Cardinality(Cosigners(t)') \in Nat
  BY <1>2, WitnessesFinite
<1> QED
  BY <1>4, <1>5, NIsNat DEF Backed

\* A file with N genuine signatures is backed.
LEMMA SignaturesBack ==
    ASSUME NEW f \in File, Genuine(f), Cardinality(f.sigs) >= N, f # None
    PROVE  Backed(f.tree)
<1>1. f.sigs \subseteq Cosigners(f.tree) /\ f.sigs \subseteq Witnesses
  BY DEF Genuine, Cosigners, File
<1>2. Cosigners(f.tree) \subseteq Witnesses
  BY DEF Cosigners
<1>3. Cardinality(f.sigs) <= Cardinality(Cosigners(f.tree))
  BY <1>1, <1>2, WitnessesFinite, FS_Subset
<1> QED
  BY <1>1, <1>2, <1>3, WitnessesFinite, NIsNat DEF Backed

\* The environment: witnesses, distributors and the log.
LEMMA EnvironmentInv == IInv /\ Environment => IInv'
<1> SUFFICES ASSUME IInv, Environment PROVE IInv'
  OBVIOUS
<1> USE DEF IInv
<1>1. ASSUME NEW t \in Signed, Serve(t) PROVE IInv'
  <2>1. CTypeOK'
    BY <1>1 DEF Serve, CTypeOK
  <2>2. WitnessesHonest' /\ FilesGenuine'
    BY <1>1 DEF Serve, WitnessesHonest, FilesGenuine, Genuine
  <2>3. \A s : Backed(s)' = Backed(s)
    BY <1>1 DEF Serve, Backed, Cosigners
  <2>4. CommandsBacked' /\ ConsensusBacked'
    BY <1>1, <2>3 DEF Serve, CommandsBacked, ConsensusBacked
  <2> QED
    BY <2>1, <2>2, <2>4
<1>2. ASSUME NEW t \in Signed, NEW w \in Witnesses, Cosign(w, t) PROVE IInv'
  <2>1. CTypeOK'
    BY <1>2 DEF Cosign, CTypeOK
  <2>2. \A v \in Witnesses : cosigned[v] \subseteq cosigned'[v]
    BY <1>2 DEF Cosign, CTypeOK
  <2>3. WitnessesHonest'
    <3>1. t \in Seq(Leaf) /\ Comparable(t, t)
      BY ClientAssumption DEF Comparable, Prefix
    <3>2. \A s \in cosigned[w] : Comparable(s, t) /\ Comparable(t, s)
      BY <1>2 DEF Cosign, Comparable
    <3>3. cosigned'[w] = cosigned[w] \cup {t}
          /\ \A v \in Witnesses \ {w} : cosigned'[v] = cosigned[v]
      BY <1>2 DEF Cosign, CTypeOK
    <3> QED
      BY <3>1, <3>2, <3>3 DEF WitnessesHonest
  <2>4. FilesGenuine'
    <3>1. dist' = dist /\ got' = got
      BY <1>2 DEF Cosign
    <3>2. ASSUME NEW f \in File \cup {None}, Genuine(f) PROVE Genuine(f)'
      BY <2>2, <3>2 DEF Genuine, File
    <3>3. ASSUME NEW d \in Distributors
          PROVE  /\ dist[d] \in File \cup {None}
                 /\ \A c \in Clients : got[c][d].file \in File \cup {None}
      BY DEF CTypeOK, Outcome
    <3> QED
      BY <3>1, <3>2, <3>3 DEF FilesGenuine, Genuine
  <2>5. \A s : Backed(s) => Backed(s)'
    BY <2>2, BackedStays
  <2>6. CommandsBacked' /\ ConsensusBacked'
    BY <1>2, <2>5 DEF Cosign, CommandsBacked, ConsensusBacked
  <2> QED
    BY <2>1, <2>3, <2>4, <2>6
<1>3. ASSUME NEW t \in Signed, NEW d \in Distributors, NEW sigs \in SUBSET Witnesses,
             Distribute(d, t, sigs)
      PROVE  IInv'
  <2>1. CTypeOK'
    BY <1>3 DEF Distribute, CTypeOK, File
  <2>2. WitnessesHonest'
    BY <1>3 DEF Distribute, WitnessesHonest
  <2>3. FilesGenuine'
    <3>1. dist'[d] = [tree |-> t, sigs |-> sigs]
          /\ \A e \in Distributors \ {d} : dist'[e] = dist[e]
      BY <1>3 DEF Distribute, CTypeOK
    <3> QED
      BY <1>3, <3>1 DEF Distribute, FilesGenuine, Genuine
  <2>4. \A s : Backed(s)' = Backed(s)
    BY <1>3 DEF Distribute, Backed, Cosigners
  <2>5. CommandsBacked' /\ ConsensusBacked'
    BY <1>3, <2>4 DEF Distribute, CommandsBacked, ConsensusBacked
  <2> QED
    BY <2>1, <2>2, <2>3, <2>5
<1> QED
  BY <1>1, <1>2, <1>3 DEF Environment

\* A client command.
LEMMA CommandInv ==
    ASSUME IInv, NEW c \in Clients, Command(c)
    PROVE  IInv'
<1> USE DEF IInv
<1>e. env' = env
  BY DEF Command, Load, UpdateCommand, ProofCommand, Exit, Unilateral, Got,
         Fetch, FetchFails, FetchCancelled, Choose, NoConsensus, Update, Save
<1>w. WitnessesHonest' /\ (\A d \in Distributors : Genuine(dist[d])')
  BY <1>e DEF env, WitnessesHonest, FilesGenuine, Genuine
<1>b. \A s : Backed(s)' = Backed(s)
  BY <1>e DEF env, Backed, Cosigners
<1>g. ASSUME got' = got PROVE FilesGenuine'
  BY <1>e, <1>g DEF env, FilesGenuine, Genuine
<1>r. ASSUME got' = [got EXCEPT ![c] = Waiting] PROVE FilesGenuine'
  BY <1>e, <1>r DEF env, FilesGenuine, Genuine, Waiting, CTypeOK
<1>n. <<>> \in Seq(Leaf) /\ Waiting \in [Distributors -> Outcome]
  BY DEF Waiting, Outcome
<1>1. CASE Load(c)
  <2>1. CTypeOK'
    BY <1>1, <1>e, <1>n DEF Load, Go, CTypeOK, env, PC
  <2>2. CommandsBacked' /\ ConsensusBacked'
    BY <1>1, <1>b DEF Load, Go, CommandsBacked, ConsensusBacked, CTypeOK
  <2> QED
    BY <1>1, <1>w, <1>g, <2>1, <2>2 DEF Load
<1>2. CASE UpdateCommand(c) \/ NoConsensus(c)
  <2>1. CTypeOK'
    BY <1>2, <1>e DEF UpdateCommand, NoConsensus, Go, CTypeOK, env, PC
  <2>2. CommandsBacked' /\ ConsensusBacked'
    BY <1>2, <1>b DEF UpdateCommand, NoConsensus, Go, CommandsBacked, ConsensusBacked, CTypeOK
  <2> QED
    BY <1>2, <1>w, <1>g, <2>1, <2>2 DEF UpdateCommand, NoConsensus
<1>3. CASE ProofCommand(c)
  <2>1. CTypeOK'
    BY <1>3, <1>e DEF ProofCommand, Go, CTypeOK, env, PC
  <2>2. CommandsBacked' /\ ConsensusBacked'
    BY <1>3, <1>b DEF ProofCommand, Go, CommandsBacked, ConsensusBacked, CTypeOK
  <2> QED
    BY <1>3, <1>w, <1>g, <2>1, <2>2 DEF ProofCommand
<1>4. CASE Exit(c)
  <2>1. CTypeOK'
    BY <1>4, <1>e, <1>n DEF Exit, CTypeOK, env, PC
  <2>2. CommandsBacked' /\ ConsensusBacked'
    BY <1>4, <1>b DEF Exit, CommandsBacked, ConsensusBacked, CTypeOK
  <2> QED
    BY <1>4, <1>w, <1>r, <2>1, <2>2 DEF Exit
<1>5. CASE Unilateral(c)
  <2>1. served \in Seq(Leaf)
    BY ClientAssumption DEF CTypeOK
  <2>2. CTypeOK'
    BY <1>5, <1>e, <2>1 DEF Unilateral, Go, CTypeOK, env, PC
  <2>3. Backed(served)
    <3>1. Cardinality(Cosigners(served)) \in Nat
      BY WitnessesFinite DEF Cosigners
    <3> QED
      BY <1>5, <3>1 DEF Unilateral, Backed
  <2>4. served # None
    BY <2>1, ClientAssumption
  <2>5. CommandsBacked' /\ ConsensusBacked'
    BY <1>5, <1>b, <2>3, <2>4 DEF Unilateral, Go, CommandsBacked, ConsensusBacked, CTypeOK
  <2> QED
    BY <1>5, <1>w, <1>g, <2>2, <2>5 DEF Unilateral
<1>6. ASSUME NEW d \in Distributors, NEW state \in {"done", "failed", "cancelled"},
             NEW file \in File \cup {None}, Genuine(file), Got(c, d, state, file)
      PROVE  IInv'
  <2>1. [state |-> state, file |-> file] \in Outcome
    BY DEF Outcome
  <2>2. CTypeOK'
    BY <1>6, <1>e, <2>1 DEF Got, CTypeOK, env
  <2>3. FilesGenuine'
    <3>1. ASSUME NEW k \in Clients, NEW e \in Distributors
          PROVE  got'[k][e].file \in {got[k][e].file, file}
      BY <1>6 DEF Got, CTypeOK
    <3>2. Genuine(file)'
      BY <1>6, <1>e DEF Genuine, env
    <3>3. \A k \in Clients, e \in Distributors : Genuine(got[k][e].file)
      BY DEF FilesGenuine
    <3>4. ASSUME NEW k \in Clients, NEW e \in Distributors
          PROVE  Genuine(got[k][e].file)'
      BY <3>1, <3>2, <3>3, <1>6, <1>e DEF Genuine, env
    <3> QED
      BY <1>w, <3>4 DEF FilesGenuine
  <2>4. CommandsBacked' /\ ConsensusBacked'
    BY <1>6, <1>b DEF Got, CommandsBacked, ConsensusBacked
  <2> QED
    BY <1>w, <2>2, <2>3, <2>4
<1>7. ASSUME NEW d \in Distributors,
             Fetch(c, d) \/ FetchFails(c, d) \/ FetchCancelled(c, d)
      PROVE  IInv'
  <2>1. dist[d] \in File \cup {None} /\ Genuine(dist[d]) /\ Genuine(None)
    BY DEF CTypeOK, FilesGenuine, Genuine
  <2> QED
    BY <1>6, <1>7, <2>1 DEF Fetch, FetchFails, FetchCancelled
<1>8. CASE Choose(c)
  <2>1. PICK f \in Suitable(c) : cand' = [cand EXCEPT ![c] = f.tree]
    BY <1>8 DEF Choose
  <2>2. f \in File /\ f # None /\ Genuine(f) /\ Cardinality(f.sigs) >= N
    BY <2>1 DEF Suitable, Answers, FilesGenuine, CTypeOK, Outcome
  <2>3. Backed(f.tree)
    BY <2>2, SignaturesBack
  <2>4. f.tree \in Seq(Leaf) /\ f.tree # None
    BY <2>2, ClientAssumption DEF File
  <2>5. CTypeOK'
    BY <1>8, <1>e, <2>1, <2>4 DEF Choose, Go, CTypeOK, env, PC
  <2>6. CommandsBacked' /\ ConsensusBacked'
    BY <1>8, <1>b, <2>1, <2>3, <2>4 DEF Choose, Go, CommandsBacked, ConsensusBacked, CTypeOK
  <2> QED
    BY <1>8, <1>w, <1>g, <2>5, <2>6 DEF Choose
<1>9. CASE Update(c)
  <2>1. cand[c] # None /\ cand[c] \in Seq(Leaf) /\ Backed(cand[c])
    BY <1>9 DEF Update, CommandsBacked, CTypeOK
  <2>2. CTypeOK'
    BY <1>9, <1>e, <2>1 DEF Update, Go, CTypeOK, env, PC
  <2>3. CommandsBacked' /\ ConsensusBacked'
    BY <1>9, <1>b, <2>1 DEF Update, Go, CommandsBacked, ConsensusBacked, CTypeOK
  <2> QED
    BY <1>9, <1>w, <1>g, <2>2, <2>3 DEF Update
<1>10. CASE Save(c)
  <2>1. latest[c] \in Seq(Leaf) /\ Backed(latest[c])
    BY <1>10 DEF Save, CommandsBacked, CTypeOK
  <2>2. CTypeOK'
    BY <1>10, <1>e, <1>n, <2>1 DEF Save, CTypeOK, env, PC
  <2>3. CommandsBacked' /\ ConsensusBacked'
    BY <1>10, <1>b, <2>1 DEF Save, CommandsBacked, ConsensusBacked, CTypeOK
  <2> QED
    BY <1>10, <1>w, <1>r, <2>2, <2>3 DEF Save
<1> QED
  BY <1>1, <1>2, <1>3, <1>4, <1>5, <1>7, <1>8, <1>9, <1>10 DEF Command

\* A step of something else keeps the invariant.
LEMMA StutterInv == IInv /\ UNCHANGED vars => IInv'
<1> SUFFICES ASSUME IInv, UNCHANGED vars PROVE IInv'
  OBVIOUS
<1>1. CTypeOK'
  BY DEF IInv, CTypeOK, vars, env
<1>2. WitnessesHonest' /\ FilesGenuine'
  BY DEF IInv, WitnessesHonest, FilesGenuine, Genuine, vars, env
<1>3. CommandsBacked' /\ ConsensusBacked'
  BY DEF IInv, CommandsBacked, ConsensusBacked, Backed, Cosigners, vars, env
<1> QED
  BY <1>1, <1>2, <1>3 DEF IInv

\* The invariant holds in every reachable state.
LEMMA InductiveInvariant == Spec => []IInv
<1>1. IInv /\ [Next]_vars => IInv'
  BY EnvironmentInv, CommandInv, StutterInv DEF Next
<1> QED
  BY <1>1, InitInv, PTL DEF Spec

-----------------------------------------------------------------------------
(***************************************************************************)
(* Every checkpoint a client stores was cosigned by --witness_sigs_required *)
(* witnesses, whatever the distributors serve and whichever fetches fail.  *)
(***************************************************************************)
THEOREM TrackedAreBacked == Spec => []ConsensusBacked
<1>1. IInv => ConsensusBacked
  BY DEF IInv
<1> QED
  BY <1>1, InductiveInvariant, PTL

(***************************************************************************)
(* When the required number is a majority of the witnesses, a client never *)
(* tracks two checkpoints of different forks, although LogStateTracker     *)
(* checks nothing when a checkpoint is not larger than the tracked one:    *)
(* two backed trees share a witness, whose history is append-only.         *)
(***************************************************************************)
THEOREM MajorityTracksOneLog ==
    ASSUME 2 * N > Cardinality(Witnesses)
    PROVE  Spec => []TrackedConsistent
<1>1. ASSUME IInv PROVE TrackedConsistent
  <2> SUFFICES ASSUME NEW s \in tracked, NEW t \in tracked PROVE Comparable(s, t)
    BY DEF TrackedConsistent
  <2>1. Cosigners(s) \subseteq Witnesses /\ Cosigners(t) \subseteq Witnesses
    BY DEF Cosigners
  <2>2. Cardinality(Cosigners(s)) >= N /\ Cardinality(Cosigners(t)) >= N
    BY <1>1 DEF IInv, ConsensusBacked, Backed
  <2>3. /\ Cardinality(Cosigners(s)) \in Nat /\ Cardinality(Cosigners(t)) \in Nat
        /\ Cardinality(Witnesses) \in Nat /\ IsFiniteSet(Witnesses)
    BY <2>1, WitnessesFinite
  <2>4. Cardinality(Cosigners(s)) + Cardinality(Cosigners(t)) > Cardinality(Witnesses)
    BY <2>2, <2>3, NIsNat
  <2>5. Cosigners(s) \cap Cosigners(t) # {}
    BY <2>1, <2>3, <2>4, FS_MajoritiesIntersect
  <2>6. PICK w \in Witnesses : s \in cosigned[w] /\ t \in cosigned[w]
    BY <2>5 DEF Cosigners
  <2> QED
    BY <1>1, <2>6 DEF IInv, WitnessesHonest
<1> QED
  BY <1>1, InductiveInvariant, PTL

\* A command carries what it has loaded until Update replaces it, and what it
\* is about to store is proven against that.
LEMMA SavesStep ==
    ASSUME IInv, SavesProven, [Next]_vars
    PROVE  SavesProven'
<1>0. /\ pc \in [Clients -> PC] /\ latest \in [Clients -> Seq(Leaf)]
      /\ loaded \in [Clients -> Seq(Leaf) \cup {None}] /\ cand \in [Clients -> Seq(Leaf) \cup {None}]
      /\ cached \in Seq(Leaf) \cup {None}
  BY DEF IInv, CTypeOK
<1>1. CASE UNCHANGED <<pc, latest, loaded>>
  BY <1>1 DEF SavesProven
<1>2. ASSUME NEW k \in Clients, Command(k) PROVE SavesProven'
  <2>1. \A c \in Clients \ {k} : pc'[c] = pc[c] /\ latest'[c] = latest[c] /\ loaded'[c] = loaded[c]
    BY <1>0, <1>2 DEF Command, Load, UpdateCommand, ProofCommand, Exit, Unilateral, Got, Fetch,
       FetchFails, FetchCancelled, Choose, NoConsensus, Update, Save, Go
  <2> DEFINE Carries(c) == latest[c] = IF loaded[c] = None THEN <<>> ELSE loaded[c]
             Grown(c) == loaded[c] # None /\ Size(loaded[c]) > 0 /\ Size(latest[c]) > Size(loaded[c])
  <2>2. /\ pc'[k] \in {"loaded", "consensus", "none", "update"} => Carries(k)'
        /\ pc'[k] = "save" /\ Grown(k)' => Prefix(loaded[k], latest[k])'
    <3>1. CASE Load(k)
      BY <1>0, <3>1 DEF Load, Go
    <3>2. CASE UpdateCommand(k) \/ Unilateral(k) \/ Choose(k) \/ NoConsensus(k)
      <4>1. latest' = latest /\ loaded' = loaded /\ pc[k] \in {"loaded", "consensus"}
            /\ pc'[k] \in {"consensus", "update", "none"}
        BY <1>0, <3>2 DEF UpdateCommand, Unilateral, Choose, NoConsensus, AllDone, Go
      <4> QED
        BY <4>1 DEF SavesProven
    <3>3. ASSUME NEW d \in Distributors, Fetch(k, d) \/ FetchFails(k, d) \/ FetchCancelled(k, d)
          PROVE  UNCHANGED <<pc, latest, loaded>>
      BY <3>3 DEF Fetch, FetchFails, FetchCancelled, Got
    <3>4. CASE UNCHANGED <<pc, latest, loaded>>
      BY <3>4 DEF SavesProven
    <3>5. CASE ProofCommand(k)
      <4>1. latest' = latest /\ loaded' = loaded /\ Carries(k) /\ pc'[k] = "save"
        BY <1>0, <3>5 DEF ProofCommand, Go, SavesProven
      <4>2. ~Grown(k)'
        <5>1. CASE loaded[k] = None
          BY <4>1, <5>1
        <5>2. CASE loaded[k] # None
          <6>1. latest'[k] = loaded'[k] /\ Size(loaded[k]) \in Nat
            BY <1>0, <4>1, <5>2 DEF Size
          <6> QED
            BY <4>1, <6>1
        <5> QED
          BY <5>1, <5>2
      <4> QED
        BY <4>1, <4>2
    <3>6. CASE Exit(k) \/ Save(k)
      BY <1>0, <3>6 DEF Exit, Save
    <3>7. CASE Update(k)
      <4>1. /\ pc'[k] = "save" /\ latest'[k] = cand[k] /\ loaded' = loaded
            /\ pc[k] = "update" /\ (NeedsProof(k) => Proven(k)) /\ Carries(k)
        BY <1>0, <3>7 DEF Update, Go, SavesProven
      <4>2. ASSUME Grown(k)' PROVE Prefix(loaded[k], latest[k])'
        <5>1. latest[k] = loaded[k] /\ NeedsProof(k)
          BY <4>1, <4>2 DEF NeedsProof
        <5>2. Prefix(latest[k], cand[k])
          BY <4>1, <5>1 DEF Proven, VerifyConsistency
        <5> QED
          BY <4>1, <5>1, <5>2
      <4> QED
        BY <4>1, <4>2
    <3> QED
      BY <1>2, <3>1, <3>2, <3>3, <3>4, <3>5, <3>6, <3>7 DEF Command
  <2> QED
    BY <2>1, <2>2 DEF SavesProven
<1> QED
  BY <1>1, <1>2 DEF Next, Environment, Serve, Cosign, Distribute, vars

(***************************************************************************)
(* In the cache a larger checkpoint replaces the one that its command has  *)
(* loaded only if it extends it, for any number of commands and whichever  *)
(* consensus is asked for: what lies between reading the cache and writing *)
(* it does not lose the state that the proof started from.                 *)
(***************************************************************************)
THEOREM CacheGrowthIsProven == Spec => CacheGrowthProven
<1> DEFINE Grows(c) ==
        /\ pc[c] = "save" /\ pc'[c] = "idle"
        /\ cached # None /\ loaded[c] = cached
        /\ Size(cached) > 0 /\ Size(cached') > Size(cached)
<1>1. Init => SavesProven
  BY DEF Init, SavesProven
<1>2. ASSUME IInv, SavesProven, [Next]_vars, NEW c \in Clients, Grows(c)
      PROVE  Prefix(cached, cached')
  <2>0. pc \in [Clients -> PC]
    BY <1>2 DEF IInv, CTypeOK
  <2>1. PICK k \in Clients : Command(k)
    BY <1>2 DEF Next, Environment, Serve, Cosign, Distribute, vars
  <2>2. cached' # cached
    <3>1. Size(cached) \in Nat
      BY <1>2 DEF IInv, CTypeOK, Size
    <3> QED
      BY <1>2, <3>1
  <2>3. Save(k)
    BY <2>1, <2>2 DEF Command, Load, UpdateCommand, ProofCommand, Exit, Unilateral, Got,
       Fetch, FetchFails, FetchCancelled, Choose, NoConsensus, Update
  <2>4. k = c
    BY <1>2, <2>0, <2>3 DEF Save
  <2>5. cached' = latest[c]
    BY <2>3, <2>4 DEF Save
  <2> QED
    BY <1>2, <2>5 DEF SavesProven
<1>3. IInv /\ SavesProven /\ [Next]_vars
        => [\A c \in Clients : Grows(c) => Prefix(cached, cached')]_vars
  BY <1>2
<1>4. IInv /\ SavesProven /\ [Next]_vars => SavesProven'
  BY SavesStep
<1> QED
  BY <1>1, <1>3, <1>4, InductiveInvariant, PTL DEF Spec, CacheGrowthProven

-----------------------------------------------------------------------------
(***************************************************************************)
(* The distributor: for any witnesses, trees, number of slots, failures    *)
(* and deaths of the combination, what the files checkpoint.0 to           *)
(* checkpoint.N promise, and that no merged signature is lost.             *)
(***************************************************************************)

Files == [tree : Trees, sigs : SUBSET Witness]
AnyFiles == [tree : Trees, sigs : SUBSET (Witness \cup {Stranger})]

\* The known witnesses whose signatures f has did cosign its tree.
Cosigned(h, f) == \A w \in f.sigs \cap Witness : f.tree \in h[w]

\* Files in slots: enough signatures, in order.
SlotsOK(h, sl) ==
    /\ sl \in [Slot -> Files \cup {NoFile}]
    /\ \A i \in Slot : sl[i] # NoFile => Cardinality(sl[i].sigs) >= i /\ Cosigned(h, sl[i])
    /\ \A i, j \in Slot : i < j /\ sl[j] # NoFile =>
          sl[i] # NoFile /\ Size(sl[i].tree) >= Size(sl[j].tree)

\* The files in the slots nw are not smaller than those in sl.
Covers(nw, sl) ==
    \A i \in Slot : sl[i] # NoFile => nw[i] # NoFile /\ Size(nw[i].tree) >= Size(sl[i].tree)

TypeInv ==
    /\ signed \in [Witness -> Trees \cup {<<>>}]
    /\ history \in [Witness -> SUBSET Trees]
    /\ incoming \subseteq AnyFiles /\ IsFiniteSet(incoming)
    /\ branch \in [Witness -> Files \cup {NoFile}] /\ pr \in [Witness -> BOOLEAN]
    /\ round \in [Witness -> [pc : {"sleep", "get", "check", "pending", "commit", "pr"},
                             tree : Trees \cup {<<>>}]]
    /\ written \in 0..(MaxSigs + 1) /\ faults \in 0..MaxFaults

\* What the witnesses have cosigned, on its way to a slot.
CosignInv ==
    /\ \A w \in Witness :
          /\ signed[w] # <<>> => signed[w] \in history[w]
          /\ round[w].pc \in {"check", "pending", "commit", "pr"} => round[w].tree \in history[w]
          /\ branch[w] # NoFile => branch[w].sigs = {w} /\ branch[w].tree \in history[w]
    /\ \A f \in incoming : Cosigned(history, f)

SlotInv ==
    /\ SlotsOK(history, slots)
    /\ new # NoFile =>
          /\ SlotsOK(history, new) /\ Covers(new, slots)
          /\ \A i \in Slot : i < written => slots[i] = new[i]

GInv == TypeInv /\ CosignInv /\ SlotInv

\* The merged files, and where the combination that runs will have them.
KeptInv ==
    /\ \A f \in merged : f \in Files /\ f.sigs # {}
    /\ MergedKept
    /\ new # NoFile => \A f \in merged :
          /\ \E i \in Slot : i > 0 /\ Keeps(new[i], f)
          /\ \A i \in Slot : Keeps(slots[i], f) => Keeps(new[i], f)

-----------------------------------------------------------------------------
(* Sets and numbers. *)

\* Every set of natural numbers that is not empty has a smallest one.
LEMMA MinFacts ==
    ASSUME NEW S \in SUBSET Nat, S # {}
    PROVE  Min(S) \in S /\ \A y \in S : Min(S) <= y
<1>1. PICK u \in S : \A v \in S : ~ (<<v, u>> \in OpToRel(<, Nat))
  BY NatLessThanWellFounded, WFMin
<1>2. \A v \in S : u <= v
  <2> SUFFICES ASSUME NEW v \in S, ~ (u <= v) PROVE FALSE
    OBVIOUS
  <2>1. <<v, u>> \in Nat \X Nat /\ <<v, u>>[1] < <<v, u>>[2]
    OBVIOUS
  <2>2. <<v, u>> \in OpToRel(<, Nat)
    BY <2>1, Zenon DEF OpToRel
  <2> QED
    BY <1>1, <2>2
<1> QED
  BY <1>2 DEF Min

\* The values of a function on a finite set are finite in number.
LEMMA ImageFinite ==
    ASSUME NEW S, IsFiniteSet(S), NEW f, f = [x \in S |-> f[x]]
    PROVE  IsFiniteSet({f[x] : x \in S})
<1> DEFINE T == {f[x] : x \in S}
<1>1. f \in [S -> T]
  OBVIOUS
<1>2. \A t \in T : \E x \in S : f[x] = t
  OBVIOUS
<1>3. f \in Surjection(S, T)
  BY <1>1, <1>2 DEF Surjection
<1> QED
  BY <1>3, FS_Surjection

\* The witnesses of a file can be counted, and more witnesses count more.
LEMMA SigsFacts ==
    /\ \A W \in SUBSET Witness : Cardinality(W) \in Nat
    /\ \A V, W \in SUBSET Witness : V \subseteq W => Cardinality(V) <= Cardinality(W)
    /\ \A W \in SUBSET Witness : W # {} => Cardinality(W) >= 1
<1>1. \A W \in SUBSET Witness : IsFiniteSet(W) /\ Cardinality(W) \in Nat
  BY GitHubAssumption, FS_Subset, FS_CardinalityType
<1>2. \A V, W \in SUBSET Witness : V \subseteq W => Cardinality(V) <= Cardinality(W)
  BY <1>1, FS_Subset
<1>3. \A W \in SUBSET Witness : W # {} => Cardinality(W) >= 1
  <2> SUFFICES ASSUME NEW W \in SUBSET Witness, W # {} PROVE Cardinality(W) >= 1
    OBVIOUS
  <2>1. Cardinality(W) # 0
    BY <1>1, FS_EmptySet
  <2> QED
    BY <1>1, <2>1
<1> QED
  BY <1>1, <1>2, <1>3

\* A file is not a missing one, and its parts are what they are.
LEMMA FileFacts ==
    /\ NoFile \notin AnyFiles /\ Files \subseteq AnyFiles
    /\ \A t \in Trees : \A W \in SUBSET Witness :
          CheckpointFile(t, W) \in Files /\ CheckpointFile(t, W).tree = t /\ CheckpointFile(t, W).sigs = W
    /\ \A t \in Trees : Size(t) \in Nat
<1>1. \A f \in AnyFiles : f \in [tree : Seq(Leaf), sigs : SUBSET (Witness \cup {Stranger})]
  BY GitHubAssumption DEF AnyFiles
<1>2. \A t \in Trees : Size(t) \in Nat
  BY GitHubAssumption DEF Size
<1> QED
  BY <1>1, <1>2, GitHubAssumption DEF AnyFiles, Files, CheckpointFile

-----------------------------------------------------------------------------
(* UpdateState. *)

\* The files that are combined.
All == ({slots[i] : i \in Slot} \ {NoFile}) \cup incoming

\* Every file is in a combined one of its tree, with all signatures of known
\* witnesses; there is one of each tree, and no signature is made up.
LEMMA CombinedFacts ==
    ASSUME GInv
    PROVE  /\ IsFiniteSet(Combined) /\ Combined \subseteq Files
           /\ \A c \in Combined : Cosigned(history, c)
           /\ \A c, d \in Combined : c.tree = d.tree => c = d
           /\ \A f \in All : \E c \in Combined : c.tree = f.tree /\ f.sigs \cap Witness \subseteq c.sigs
<1> DEFINE G(t) == {f \in All : f.tree = t}
           T == {f.tree : f \in All}
           S(t) == (UNION {f.sigs : f \in G(t)}) \cap Witness
<1>1. All \subseteq AnyFiles
  BY FileFacts DEF All, GInv, TypeInv, SlotInv, SlotsOK
<1>2. Combined = {Combine(G(t)) : t \in T}
  BY DEF Combined, All
<1>3. T \subseteq Trees
  BY <1>1 DEF AnyFiles
<1>4. \A t \in T : Combine(G(t)) = CheckpointFile(t, S(t)) /\ S(t) \in SUBSET Witness
  <2> SUFFICES ASSUME NEW t \in T PROVE Combine(G(t)) = CheckpointFile(t, S(t))
    OBVIOUS
  <2>1. \E f \in G(t) : TRUE
    OBVIOUS
  <2>2. (CHOOSE f \in G(t) : TRUE) \in G(t)
    BY <2>1
  <2>3. (CHOOSE f \in G(t) : TRUE).tree = t
    BY <2>2
  <2> QED
    BY <2>3 DEF Combine
<1> HIDE DEF S
<1>5. \A t \in T : Combine(G(t)) \in Files /\ Combine(G(t)).tree = t /\ Combine(G(t)).sigs = S(t)
  BY <1>3, <1>4, FileFacts
<1>6. Combined \subseteq Files /\ \A c, d \in Combined : c.tree = d.tree => c = d
  <2> HIDE DEF G, T
  <2> QED
    BY <1>2, <1>5
<1>7. \A c \in Combined : Cosigned(history, c)
  <2> SUFFICES ASSUME NEW t \in T, NEW w \in S(t) PROVE t \in history[w]
    <3> HIDE DEF G, T
    <3> QED
      BY <1>2, <1>5 DEF Cosigned
  <2>1. PICK f \in G(t) : w \in f.sigs /\ w \in Witness
    BY DEF S
  <2>2. Cosigned(history, f)
    BY DEF All, GInv, SlotInv, SlotsOK, CosignInv
  <2> QED
    BY <2>1, <2>2 DEF Cosigned
<1>8. \A f \in All : \E c \in Combined : c.tree = f.tree /\ f.sigs \cap Witness \subseteq c.sigs
  <2> SUFFICES ASSUME NEW f \in All
               PROVE  \E c \in Combined : c.tree = f.tree /\ f.sigs \cap Witness \subseteq c.sigs
    OBVIOUS
  <2>1. f.tree \in T /\ f \in G(f.tree)
    OBVIOUS
  <2>2. f.sigs \cap Witness \subseteq S(f.tree)
    BY <2>1 DEF S
  <2>3. Combine(G(f.tree)) \in Combined
    BY <1>2, <2>1
  <2> QED
    BY <1>5, <2>1, <2>2, <2>3
<1>9. IsFiniteSet(Combined)
  <2>1. IsFiniteSet(Slot)
    BY GitHubAssumption, FS_Interval DEF Slot
  <2>2. IsFiniteSet({slots[i] : i \in Slot})
    BY <2>1, ImageFinite DEF GInv, SlotInv, SlotsOK
  <2>3. IsFiniteSet(All)
    <3>1. IsFiniteSet({slots[i] : i \in Slot} \ {NoFile})
      BY <2>2, FS_RemoveElement
    <3> QED
      BY <3>1, FS_Union DEF All, GInv, TypeInv
  <2> DEFINE g == [f \in All |-> Combine(G(f.tree))]
  <2>4. IsFiniteSet({g[f] : f \in All})
    <3>1. g = [f \in All |-> g[f]]
      OBVIOUS
    <3> HIDE DEF g
    <3> QED
      BY <2>3, <3>1, ImageFinite
  <2>5. Combined = {g[f] : f \in All}
    BY <1>2
  <2> QED
    BY <2>4, <2>5
<1> QED
  BY <1>6, <1>7, <1>8, <1>9

\* A slot gets one of the files with enough signatures, and no smaller one
\* than any of these.
LEMMA FillFacts ==
    ASSUME NEW C, IsFiniteSet(C), C \subseteq Files, NEW s \in Sorted(C), NEW i \in Slot
    PROVE  /\ Fill(s)[i] \in C \cup {NoFile}
           /\ Fill(s)[i] # NoFile => Cardinality(Fill(s)[i].sigs) >= i
           /\ \A c \in C : Cardinality(c.sigs) >= i =>
                 Fill(s)[i] \in C /\ Size(Fill(s)[i].tree) >= Size(c.tree)
<1> DEFINE e == {k \in DOMAIN s : Cardinality(s[k].sigs) >= i}
<1>1. PICK n \in Nat : n = Cardinality(C)
  BY FS_CardinalityType
<1>2. /\ s \in [1..n -> C] /\ DOMAIN s = 1..n
      /\ \A f \in C : \E k \in DOMAIN s : s[k] = f
      /\ \A j, k \in DOMAIN s : j < k => Size(s[j].tree) >= Size(s[k].tree)
  BY <1>1 DEF Sorted
<1>3. Fill(s)[i] = IF e = {} THEN NoFile ELSE s[Min(e)]
  BY DEF Fill
<1>4. e \in SUBSET Nat
  BY <1>2
<1>5. CASE e = {}
  BY <1>2, <1>3, <1>5
<1>6. CASE e # {}
  <2>1. Min(e) \in e /\ \A y \in e : Min(e) <= y
    <3> HIDE DEF e
    <3> QED
      BY <1>4, <1>6, MinFacts
  <2>2. PICK m \in 1..n : m = Min(e) /\ Cardinality(s[m].sigs) >= i
    BY <1>2, <2>1
  <2>3. Fill(s)[i] = s[m] /\ s[m] \in C
    BY <1>2, <1>3, <1>6, <2>2
  <2>4. ASSUME NEW c \in C, Cardinality(c.sigs) >= i
        PROVE  Size(s[m].tree) >= Size(c.tree)
    <3>1. PICK k \in 1..n : s[k] = c
      BY <1>2
    <3>2. m <= k
      BY <1>2, <2>1, <2>2, <2>4, <3>1
    <3>3. CASE m = k
      <4>1. Size(c.tree) \in Nat
        BY FileFacts DEF Files
      <4> QED
        BY <3>1, <3>3, <4>1
    <3>4. CASE m # k
      BY <1>2, <3>1, <3>2, <3>4
    <3> QED
      BY <3>3, <3>4
  <2> QED
    BY <2>2, <2>3, <2>4
<1> QED
  BY <1>5, <1>6


-----------------------------------------------------------------------------
(* Steps. *)

\* What was cosigned stays so.
LEMMA CosignedStays ==
    ASSUME NEW h, NEW k, \A w \in Witness : h[w] \subseteq k[w]
    PROVE  /\ \A f : Cosigned(h, f) => Cosigned(k, f)
           /\ \A sl : SlotsOK(h, sl) => SlotsOK(k, sl)
<1>1. \A f : Cosigned(h, f) => Cosigned(k, f)
  BY DEF Cosigned
<1> QED
  BY <1>1 DEF SlotsOK

\* Nothing is cosigned before the first step, and no file is there.
LEMMA InitGInv == GInit => GInv /\ KeptInv
<1> SUFFICES ASSUME GInit PROVE GInv /\ KeptInv
  OBVIOUS
<1>1. TypeInv
  BY GitHubAssumption, FS_EmptySet DEF GInit, TypeInv
<1>2. CosignInv /\ SlotInv
  BY DEF GInit, CosignInv, SlotInv, SlotsOK
<1>3. KeptInv
  BY DEF GInit, KeptInv, MergedKept
<1> QED
  BY <1>1, <1>2, <1>3 DEF GInv

\* The files that are served stay what they are while witnesses and their
\* distribute processes go on.
LEMMA UpstreamSame ==
    ASSUME GInv, UNCHANGED <<slots, new, written>>, \A w \in Witness : history[w] \subseteq history'[w]
    PROVE  SlotInv'
<1>1. \A sl : SlotsOK(history, sl) => SlotsOK(history', sl)
  BY CosignedStays
<1>2. \A sl : Covers(sl, slots)' = Covers(sl, slots)
  BY DEF Covers
<1> QED
  BY <1>1, <1>2 DEF GInv, SlotInv, Covers

\* A witness cosigns a tree.
LEMMA CosignKeeps ==
    ASSUME GInv, NEW w \in Witness, NEW t \in Trees, WitnessCosigns(w, t)
    PROVE  GInv'
<1>1. /\ signed' = [signed EXCEPT ![w] = t] /\ history' = [history EXCEPT ![w] = @ \cup {t}]
      /\ UNCHANGED <<slots, incoming, merged, branch, pr, round, new, written, faults>>
  BY DEF WitnessCosigns, upstream, fork, combine
<1>2. TypeInv'
  BY <1>1 DEF GInv, TypeInv
<1>3. \A v \in Witness : history[v] \subseteq history'[v]
  BY <1>1 DEF GInv, TypeInv
<1>4. CosignInv'
  <2>1. \A f \in incoming : Cosigned(history', f)
    BY <1>3, CosignedStays DEF GInv, CosignInv
  <2>2. \A v \in Witness : signed'[v] # <<>> => signed'[v] \in history'[v]
    BY <1>1 DEF GInv, CosignInv, TypeInv
  <2>3. \A v \in Witness :
          /\ round[v].pc \in {"check", "pending", "commit", "pr"} => round[v].tree \in history'[v]
          /\ branch[v] # NoFile => branch[v].sigs = {v} /\ branch[v].tree \in history'[v]
    BY <1>3 DEF GInv, CosignInv
  <2> QED
    BY <1>1, <2>1, <2>2, <2>3 DEF CosignInv
<1>5. SlotInv'
  BY <1>1, <1>3, UpstreamSame
<1> QED
  BY <1>2, <1>4, <1>5 DEF GInv

\* A step of a distribute process, or a merge of its request.
LEMMA RoundKeeps ==
    ASSUME GInv, NEW w \in Witness, Round(w) \/ RoundFails(w)
    PROVE  GInv' /\ UNCHANGED <<slots, incoming, merged, new>>
<1>1. UNCHANGED <<signed, history, slots, incoming, merged, new, written>>
  BY DEF Round, RoundFails, CreateOrUpdateBranch, GetLatestCheckpoint, CheckPresent, CheckPending,
         CommitFile, CreatePR, wit, upstream, combine
<1>2. faults' \in 0..MaxFaults
  BY GitHubAssumption DEF GInv, TypeInv, Round, RoundFails, CreateOrUpdateBranch,
     GetLatestCheckpoint, CheckPresent, CheckPending, CommitFile, CreatePR
<1> DEFINE d == round'[w]
           PCs == {"sleep", "get", "check", "pending", "commit", "pr"}
<1>3. /\ round' = [round EXCEPT ![w] = d]
      /\ d \in [pc : PCs, tree : Trees \cup {<<>>}]
      /\ d.pc \in {"check", "pending", "commit", "pr"} => d.tree \in history[w]
  <2>0. /\ round \in [Witness -> [pc : PCs, tree : Trees \cup {<<>>}]] /\ signed[w] \in Trees \cup {<<>>}
        /\ round[w].pc \in {"check", "pending", "commit", "pr"} => round[w].tree \in history[w]
        /\ signed[w] # <<>> => signed[w] \in history[w]
    BY DEF GInv, TypeInv, CosignInv
  <2>1. CASE Sleep(w)
    BY <2>0, <2>1 DEF Sleep
  <2>2. ASSUME NEW l \in PCs, Goto(w, l),
               l \in {"sleep", "get"} \/ round[w].pc \in {"check", "pending", "commit", "pr"}
        PROVE  /\ round' = [round EXCEPT ![w] = d]
               /\ d \in [pc : PCs, tree : Trees \cup {<<>>}]
               /\ d.pc \in {"check", "pending", "commit", "pr"} => d.tree \in history[w]
    BY <2>0, <2>2 DEF Goto
  <2>3. CASE GetLatestCheckpoint(w)
    BY <2>0, <2>3 DEF GetLatestCheckpoint
  <2> QED
    BY <2>1, <2>2, <2>3 DEF Round, RoundFails, CreateOrUpdateBranch, CheckPresent, CheckPending,
       CommitFile, CreatePR
<1>4. pr' \in [Witness -> BOOLEAN]
  BY DEF GInv, TypeInv, Round, RoundFails, CreateOrUpdateBranch, GetLatestCheckpoint, CheckPresent,
         CheckPending, CommitFile, CreatePR, fork
<1>5. /\ branch' \in [Witness -> Files \cup {NoFile}]
      /\ \A v \in Witness : branch'[v] # NoFile => branch'[v].sigs = {v} /\ branch'[v].tree \in history[v]
  <2>0. branch \in [Witness -> Files \cup {NoFile}]
        /\ \A v \in Witness : branch[v] # NoFile => branch[v].sigs = {v} /\ branch[v].tree \in history[v]
    BY DEF GInv, TypeInv, CosignInv
  <2>1. CASE UNCHANGED branch
    BY <2>0, <2>1
  <2>2. CASE branch' = [branch EXCEPT ![w] = NoFile]
    BY <2>0, <2>2
  <2>3. CASE CommitFile(w)
    <3>1. round[w].tree \in history[w] /\ history[w] \subseteq Trees
      BY <2>3 DEF CommitFile, GInv, TypeInv, CosignInv
    <3>2. PICK f \in Files : f = CheckpointFile(round[w].tree, {w}) /\ f.tree = round[w].tree /\ f.sigs = {w}
      BY <3>1, FileFacts
    <3>3. branch' = [branch EXCEPT ![w] = f]
      BY <2>3, <3>2 DEF CommitFile
    <3> QED
      BY <2>0, <3>1, <3>2, <3>3
  <2> QED
    BY <2>1, <2>2, <2>3 DEF Round, RoundFails, CreateOrUpdateBranch, GetLatestCheckpoint,
       CheckPresent, CheckPending, CreatePR, fork
<1> HIDE DEF d
<1>6. TypeInv'
  BY <1>1, <1>2, <1>3, <1>4, <1>5 DEF GInv, TypeInv
<1>7. CosignInv'
  BY <1>1, <1>3, <1>5 DEF GInv, TypeInv, CosignInv
<1>8. SlotInv'
  BY <1>1, UpstreamSame
<1> QED
  BY <1>1, <1>6, <1>7, <1>8 DEF GInv

\* A file is added to incoming/.
LEMMA AddKeeps ==
    ASSUME GInv, NEW f \in AnyFiles, Cosigned(history, f), incoming' = incoming \cup {f},
           UNCHANGED <<signed, history, slots, round, new, written>>, faults' \in 0..MaxFaults,
           branch' \in [Witness -> Files \cup {NoFile}], pr' \in [Witness -> BOOLEAN],
           \A v \in Witness : branch'[v] \in {branch[v], NoFile}
    PROVE  GInv'
<1>1. IsFiniteSet(incoming')
  BY FS_AddElement DEF GInv, TypeInv
<1>2. TypeInv'
  BY <1>1 DEF GInv, TypeInv
<1>3. CosignInv'
  BY DEF GInv, CosignInv
<1>4. SlotInv'
  BY UpstreamSame
<1> QED
  BY <1>2, <1>3, <1>4 DEF GInv

\* A pull request is merged.
LEMMA MergeKeeps ==
    ASSUME GInv, NEW w \in Witness, Merge(w)
    PROVE  GInv'
<1>1. /\ branch[w] # NoFile /\ incoming' = incoming \cup {branch[w]}
      /\ branch' = [branch EXCEPT ![w] = NoFile] /\ pr' = [pr EXCEPT ![w] = FALSE]
      /\ UNCHANGED <<signed, history, slots, round, new, written, faults>>
  BY DEF Merge, wit, combine
<1>2. /\ branch \in [Witness -> Files \cup {NoFile}] /\ pr \in [Witness -> BOOLEAN]
      /\ branch[w].sigs = {w} /\ branch[w].tree \in history[w] /\ faults \in 0..MaxFaults
  BY <1>1 DEF GInv, TypeInv, CosignInv
<1>3. branch[w] \in AnyFiles /\ Cosigned(history, branch[w])
  BY <1>1, <1>2, FileFacts DEF Cosigned
<1>4. /\ branch' \in [Witness -> Files \cup {NoFile}] /\ pr' \in [Witness -> BOOLEAN]
      /\ \A v \in Witness : branch'[v] \in {branch[v], NoFile}
  BY <1>1, <1>2
<1> QED
  BY <1>1, <1>2, <1>3, <1>4, AddKeeps

\* A strange file is merged.
LEMMA MergeStrangeKeeps ==
    ASSUME GInv, NEW t \in Trees, MergeStrange(t)
    PROVE  GInv'
<1>1. /\ incoming' = incoming \cup {CheckpointFile(t, {Stranger})} /\ faults < MaxFaults /\ faults' = faults + 1
      /\ UNCHANGED <<signed, history, slots, branch, pr, round, new, written>>
  BY DEF MergeStrange, wit, fork, combine
<1>2. CheckpointFile(t, {Stranger}) \in AnyFiles /\ Cosigned(history, CheckpointFile(t, {Stranger}))
  BY GitHubAssumption DEF CheckpointFile, AnyFiles, Cosigned
<1>3. /\ branch' \in [Witness -> Files \cup {NoFile}] /\ pr' \in [Witness -> BOOLEAN]
      /\ faults' \in 0..MaxFaults
  BY <1>1, GitHubAssumption DEF GInv, TypeInv
<1> QED
  BY <1>1, <1>2, <1>3, AddKeeps

\* The state that UpdateState makes: it is in order, and its files are not
\* smaller than those in the slots.
LEMMA UpdateStateKeeps ==
    ASSUME GInv, UpdateState
    PROVE  GInv'
<1>1. PICK s \in Sorted(Combined) : new' = Fill(s)
  BY DEF UpdateState
<1>2. /\ written' = 0
      /\ UNCHANGED <<signed, history, slots, incoming, merged, branch, pr, round, faults>>
  BY DEF UpdateState, wit, upstream, fork
<1>3. TypeInv' /\ CosignInv'
  BY <1>2, GitHubAssumption DEF GInv, TypeInv, CosignInv
<1>4. /\ Combined \subseteq Files /\ NoFile \notin Combined
      /\ \A c \in Combined : Cosigned(history, c) /\ Size(c.tree) \in Nat
      /\ \A f \in All : \E c \in Combined : c.tree = f.tree /\ f.sigs \cap Witness \subseteq c.sigs
  BY CombinedFacts, FileFacts DEF Files
<1>5. ASSUME NEW i \in Slot
      PROVE  /\ new'[i] \in Combined \cup {NoFile}
             /\ new'[i] # NoFile => Cardinality(new'[i].sigs) >= i
             /\ \A c \in Combined : Cardinality(c.sigs) >= i =>
                   new'[i] \in Combined /\ Size(new'[i].tree) >= Size(c.tree)
  BY <1>1, CombinedFacts, FillFacts
<1>6. SlotsOK(history, new')
  <2>1. new' \in [Slot -> Files \cup {NoFile}]
    <3>1. new' = [i \in Slot |-> new'[i]]
      BY <1>1 DEF Fill
    <3>2. \A i \in Slot : new'[i] \in Files \cup {NoFile}
      BY <1>4, <1>5
    <3> QED
      BY <3>1, <3>2
  <2>2. \A i \in Slot : new'[i] # NoFile => Cardinality(new'[i].sigs) >= i /\ Cosigned(history, new'[i])
    BY <1>4, <1>5
  <2>3. ASSUME NEW i \in Slot, NEW j \in Slot, i < j, new'[j] # NoFile
        PROVE  new'[i] # NoFile /\ Size(new'[i].tree) >= Size(new'[j].tree)
    <3>1. new'[j] \in Combined /\ Cardinality(new'[j].sigs) >= j
      BY <1>5, <2>3
    <3>2. Cardinality(new'[j].sigs) \in Nat
      BY <1>4, <3>1, SigsFacts DEF Files
    <3>3. Cardinality(new'[j].sigs) >= i
      BY <2>3, <3>1, <3>2, GitHubAssumption DEF Slot
    <3> QED
      BY <1>4, <1>5, <3>1, <3>3
  <2> QED
    BY <2>1, <2>2, <2>3 DEF SlotsOK
<1>7. Covers(new', slots)
  <2> SUFFICES ASSUME NEW i \in Slot, slots[i] # NoFile
               PROVE  new'[i] # NoFile /\ Size(new'[i].tree) >= Size(slots[i].tree)
    BY DEF Covers
  <2>1. slots[i] \in Files /\ Cardinality(slots[i].sigs) >= i /\ slots[i] \in All
    BY DEF GInv, SlotInv, SlotsOK, All
  <2>2. PICK c \in Combined : c.tree = slots[i].tree /\ slots[i].sigs \cap Witness \subseteq c.sigs
    BY <1>4, <2>1
  <2>3. slots[i].sigs \in SUBSET Witness /\ c.sigs \in SUBSET Witness /\ slots[i].sigs \subseteq c.sigs
    BY <1>4, <2>1, <2>2 DEF Files
  <2>4. Cardinality(c.sigs) >= i
    <3>1. /\ Cardinality(c.sigs) \in Nat /\ Cardinality(slots[i].sigs) \in Nat
          /\ Cardinality(slots[i].sigs) <= Cardinality(c.sigs)
      BY <2>3, SigsFacts
    <3> QED
      BY <2>1, <3>1, GitHubAssumption DEF Slot
  <2> QED
    BY <1>4, <1>5, <2>2, <2>4
<1>8. \A i \in Slot : ~ (i < 0)
  BY GitHubAssumption DEF Slot
<1>9. SlotInv'
  BY <1>2, <1>6, <1>7, <1>8 DEF GInv, SlotInv, Covers
<1> QED
  BY <1>3, <1>9 DEF GInv

\* storeState writes a slot: the slots before it are at least as large, and
\* those behind it are not larger.
LEMMA StoreSlotKeeps ==
    ASSUME GInv, StoreSlot
    PROVE  GInv' /\ written \in Slot /\ slots' = [slots EXCEPT ![written] = new[written]]
<1>1. /\ new # NoFile /\ written <= MaxSigs /\ slots' = [slots EXCEPT ![written] = new[written]]
      /\ written' = written + 1
      /\ UNCHANGED <<signed, history, incoming, merged, branch, pr, round, new, faults>>
  BY DEF StoreSlot, wit, fork
<1>2. written \in Slot /\ written \in Nat /\ MaxSigs \in Nat /\ written' \in 0..(MaxSigs + 1)
  BY <1>1, GitHubAssumption DEF GInv, TypeInv, Slot
<1>3. TypeInv' /\ CosignInv'
  BY <1>1, <1>2 DEF GInv, TypeInv, CosignInv
<1>4. /\ SlotsOK(history, slots) /\ SlotsOK(history, new) /\ Covers(new, slots)
      /\ \A i \in Slot : i < written => slots[i] = new[i]
  BY <1>1 DEF GInv, SlotInv
<1>5. /\ slots'[written] = new[written] /\ \A i \in Slot : i # written => slots'[i] = slots[i]
      /\ slots' \in [Slot -> Files \cup {NoFile}]
  BY <1>1, <1>2, <1>4 DEF SlotsOK
<1>6. \A i \in Slot : i < written' => slots'[i] = new[i]
  <2>1. \A i \in Slot : i < written + 1 => i < written \/ i = written
    BY <1>2, GitHubAssumption DEF Slot
  <2>2. \A i \in Slot : i < written => i # written
    BY <1>2
  <2> QED
    BY <1>1, <1>4, <1>5, <2>1, <2>2
<1>7. \A i \in Slot : slots'[i] # NoFile => new[i] # NoFile /\ Size(new[i].tree) >= Size(slots'[i].tree)
  <2> SUFFICES ASSUME NEW i \in Slot, slots'[i] # NoFile
               PROVE  new[i] # NoFile /\ Size(new[i].tree) >= Size(slots'[i].tree)
    OBVIOUS
  <2>1. CASE i = written
    <3>1. new[i] \in Files
      BY <1>4, <1>5, <2>1 DEF SlotsOK
    <3>2. Size(new[i].tree) \in Nat
      BY <3>1, FileFacts DEF Files
    <3> QED
      BY <1>5, <2>1, <3>2
  <2>2. CASE i # written
    BY <1>4, <1>5, <2>2 DEF Covers
  <2> QED
    BY <2>1, <2>2
<1>8. SlotsOK(history, slots')
  <2>1. \A i \in Slot : slots'[i] # NoFile => Cardinality(slots'[i].sigs) >= i /\ Cosigned(history, slots'[i])
    BY <1>4, <1>5 DEF SlotsOK
  <2>2. ASSUME NEW i \in Slot, NEW j \in Slot, i < j, slots'[j] # NoFile
        PROVE  slots'[i] # NoFile /\ Size(slots'[i].tree) >= Size(slots'[j].tree)
    <3>1. CASE i < written'
      <4>1. slots'[i] = new[i]
        BY <1>6, <3>1
      <4>2. /\ new[j] # NoFile /\ Size(new[j].tree) >= Size(slots'[j].tree)
            /\ new[i] # NoFile /\ Size(new[i].tree) >= Size(new[j].tree)
        BY <1>4, <1>7, <2>2 DEF SlotsOK
      <4>3. new[i] \in Files /\ new[j] \in Files /\ slots'[j] \in Files
        BY <1>4, <1>5, <2>2, <4>2 DEF SlotsOK
      <4>4. Size(new[i].tree) \in Nat /\ Size(new[j].tree) \in Nat /\ Size(slots'[j].tree) \in Nat
        BY <4>3, FileFacts DEF Files
      <4> QED
        BY <4>1, <4>2, <4>4
    <3>2. CASE ~ (i < written')
      <4>1. i # written /\ j # written
        BY <1>1, <1>2, <2>2, <3>2, GitHubAssumption DEF Slot
      <4> QED
        BY <1>4, <1>5, <2>2, <4>1 DEF SlotsOK
    <3> QED
      BY <3>1, <3>2
  <2> QED
    BY <1>5, <2>1, <2>2 DEF SlotsOK
<1>9. SlotInv'
  BY <1>1, <1>4, <1>6, <1>7, <1>8 DEF SlotInv, Covers
<1> QED
  BY <1>1, <1>2, <1>3, <1>9 DEF GInv

\* The combination ends, or dies.
LEMMA CombineEndKeeps ==
    ASSUME GInv, RemoveIncoming \/ CombineDies
    PROVE  GInv'
<1>1. /\ new' = NoFile /\ written' = 0 /\ incoming' \in {incoming, {}} /\ faults' \in {faults, faults + 1}
      /\ UNCHANGED <<signed, history, slots, branch, pr, round>>
      /\ faults' # faults => faults < MaxFaults
  BY DEF RemoveIncoming, CombineDies, wit, upstream, fork
<1>2. TypeInv'
  <2>1. faults' \in 0..MaxFaults /\ written' \in 0..(MaxSigs + 1)
    BY <1>1, GitHubAssumption DEF GInv, TypeInv
  <2>2. incoming' \subseteq AnyFiles /\ IsFiniteSet(incoming')
    BY <1>1, FS_EmptySet DEF GInv, TypeInv
  <2> QED
    BY <1>1, <2>1, <2>2 DEF GInv, TypeInv
<1>3. CosignInv' /\ SlotInv'
  BY <1>1 DEF GInv, CosignInv, SlotInv
<1> QED
  BY <1>2, <1>3 DEF GInv

\* Every step keeps what the slots are.
LEMMA NextGInv == GInv /\ [GNext]_gvars => GInv'
<1> SUFFICES ASSUME GInv, [GNext]_gvars PROVE GInv'
  OBVIOUS
<1>1. ASSUME NEW w \in Witness, Round(w) \/ RoundFails(w) PROVE GInv'
  BY <1>1, RoundKeeps
<1>2. ASSUME NEW w \in Witness, Merge(w) PROVE GInv'
  BY <1>2, MergeKeeps
<1>3. ASSUME NEW w \in Witness, NEW t \in Trees, WitnessCosigns(w, t) PROVE GInv'
  BY <1>3, CosignKeeps
<1>4. ASSUME NEW t \in Trees, MergeStrange(t) PROVE GInv'
  BY <1>4, MergeStrangeKeeps
<1>5. CASE UpdateState
  BY <1>5, UpdateStateKeeps
<1>6. CASE StoreSlot
  BY <1>6, StoreSlotKeeps
<1>7. CASE RemoveIncoming \/ CombineDies
  BY <1>7, CombineEndKeeps
<1>8. CASE UNCHANGED gvars
  <2>1. UNCHANGED <<signed, history, slots, incoming, branch, pr, round, new, written, faults>>
    BY <1>8 DEF gvars, wit, upstream, fork, combine
  <2> QED
    BY <2>1 DEF GInv, TypeInv, CosignInv, SlotInv, Covers
<1> QED
  BY <1>1, <1>2, <1>3, <1>4, <1>5, <1>6, <1>7, <1>8 DEF GNext, CombineStep

\* For any witnesses, trees and number of slots, checkpoint.i has the
\* signatures of i known witnesses, each of which cosigned its tree, and no
\* smaller tree than the slots behind it, after every write of storeState
\* (Combine, UpdateState, storeState).
THEOREM SlotsAlwaysSound == GSpec => []SlotsSound
<1>1. GInv => SlotsSound
  <2> SUFFICES ASSUME GInv PROVE SlotsSound
    OBVIOUS
  <2>1. \A t \in Trees : t \in Seq(Leaf)
    BY GitHubAssumption
  <2>2. <<>> \in Seq(Leaf)
    OBVIOUS
  <2>3. signed \in [Witness -> Seq(Leaf)]
    BY <2>1, <2>2 DEF GInv, TypeInv
  <2>4. GTypeOK
    BY <2>3 DEF GInv, TypeInv, SlotInv, SlotsOK, GTypeOK, Files, AnyFiles
  <2>5. SlotsCosigned
    BY DEF GInv, SlotInv, SlotsOK, SlotsCosigned, Cosigned, Files
  <2>6. SlotsOrdered
    BY DEF GInv, SlotInv, SlotsOK, SlotsOrdered
  <2> QED
    BY <2>4, <2>5, <2>6 DEF SlotsSound
<1> QED
  BY <1>1, InitGInv, NextGInv, PTL DEF GSpec

-----------------------------------------------------------------------------
(* No signature is lost. *)

\* A slot that keeps a signature, and the combination of its file: the file
\* that UpdateState puts there keeps it too, if the log does not fork.
LEMMA KeepsOn ==
    ASSUME NoFork, NEW f \in Files, NEW g \in Files, NEW c \in Files, NEW n \in Files,
           Keeps(g, f), c.tree = g.tree, g.sigs \subseteq c.sigs,
           Size(n.tree) >= Size(c.tree), n.tree = c.tree => n = c
    PROVE  Keeps(n, f)
<1>1. n # NoFile
  BY FileFacts
<1>2. /\ f.tree \in Trees /\ g.tree \in Trees /\ n.tree \in Trees
      /\ Size(f.tree) \in Nat /\ Size(g.tree) \in Nat /\ Size(n.tree) \in Nat
  BY FileFacts DEF Files
<1>3. CASE g.tree = f.tree /\ f.sigs \subseteq g.sigs
  <2>1. CASE n.tree = f.tree
    BY <1>1, <1>3, <2>1 DEF Keeps
  <2>2. CASE n.tree # f.tree
    BY <1>1, <1>3, <2>2 DEF Keeps
  <2> QED
    BY <2>1, <2>2
<1>4. CASE g.tree # f.tree /\ Size(g.tree) >= Size(f.tree)
  <2>1. Size(g.tree) # Size(f.tree)
    BY <1>2, <1>4 DEF NoFork
  <2>2. Size(n.tree) > Size(f.tree)
    BY <1>2, <1>4, <2>1
  <2>3. n.tree # f.tree
    BY <1>2, <2>2
  <2> QED
    BY <1>1, <1>2, <2>2, <2>3 DEF Keeps
<1> QED
  BY <1>3, <1>4 DEF Keeps

\* UpdateState keeps every signature that is in incoming/ or in a slot.
LEMMA UpdateStateKeepsMerged ==
    ASSUME NoFork, MaxSigs > 0, GInv, KeptInv, UpdateState
    PROVE  KeptInv'
<1>1. PICK s \in Sorted(Combined) : new' = Fill(s)
  BY DEF UpdateState
<1>2. UNCHANGED <<slots, incoming, merged>>
  BY DEF UpdateState, upstream
<1>3. /\ Combined \subseteq Files
      /\ \A c, d \in Combined : c.tree = d.tree => c = d
      /\ \A f \in All : \E c \in Combined : c.tree = f.tree /\ f.sigs \cap Witness \subseteq c.sigs
  BY CombinedFacts
<1>4. \A i \in Slot : \A c \in Combined : Cardinality(c.sigs) >= i =>
          new'[i] \in Combined /\ Size(new'[i].tree) >= Size(c.tree)
  BY <1>1, CombinedFacts, FillFacts
<1>5. ASSUME NEW f \in merged, NEW g \in All, g \in Files, Keeps(g, f), NEW i \in Slot,
             Cardinality(g.sigs) >= i
      PROVE  Keeps(new'[i], f)
  <2>1. f \in Files
    BY DEF KeptInv
  <2>2. PICK c \in Combined : c.tree = g.tree /\ g.sigs \cap Witness \subseteq c.sigs
    BY <1>3
  <2>3. g.sigs \subseteq c.sigs /\ c \in Files /\ c.sigs \in SUBSET Witness /\ g.sigs \in SUBSET Witness
    BY <1>3, <1>5, <2>2 DEF Files
  <2>4. Cardinality(c.sigs) >= i
    <3>1. /\ Cardinality(c.sigs) \in Nat /\ Cardinality(g.sigs) \in Nat
          /\ Cardinality(g.sigs) <= Cardinality(c.sigs)
      BY <2>3, SigsFacts
    <3> QED
      BY <1>5, <3>1, GitHubAssumption DEF Slot
  <2>5. new'[i] \in Combined /\ Size(new'[i].tree) >= Size(c.tree) /\ new'[i] \in Files
    BY <1>3, <1>4, <2>4
  <2>6. new'[i].tree = c.tree => new'[i] = c
    BY <1>3, <2>5
  <2> QED
    BY <1>5, <2>1, <2>2, <2>3, <2>5, <2>6, KeepsOn
<1>6. ASSUME NEW f \in merged, NEW i \in Slot, Keeps(slots[i], f) PROVE Keeps(new'[i], f)
  <2>1. slots[i] \in All /\ slots[i] \in Files /\ Cardinality(slots[i].sigs) >= i
    BY <1>6 DEF Keeps, GInv, SlotInv, SlotsOK, All
  <2> QED
    BY <1>5, <1>6, <2>1
<1>7. ASSUME NEW f \in merged PROVE \E i \in Slot : i > 0 /\ Keeps(new'[i], f)
  <2>1. CASE f \in incoming
    <3>1. f \in Files /\ f.sigs # {} /\ f \in All
      BY <2>1 DEF KeptInv, All
    <3>2. 1 \in Slot /\ Cardinality(f.sigs) >= 1
      BY <3>1, SigsFacts, GitHubAssumption DEF Slot, Files
    <3>3. Keeps(f, f)
      BY <3>1, FileFacts DEF Keeps
    <3> QED
      BY <1>5, <3>1, <3>2, <3>3
  <2>2. CASE f \notin incoming
    <3>1. PICK i \in Slot : i > 0 /\ Keeps(slots[i], f)
      BY <2>2 DEF KeptInv, MergedKept
    <3> QED
      BY <1>6, <3>1
  <2> QED
    BY <2>1, <2>2
<1> QED
  BY <1>2, <1>6, <1>7 DEF KeptInv, MergedKept

\* Every step keeps the signatures that were merged.
LEMMA NextKeptInv ==
    ASSUME NoFork, MaxSigs > 0
    PROVE  GInv /\ KeptInv /\ [GNext]_gvars => KeptInv'
<1> SUFFICES ASSUME GInv, KeptInv, [GNext]_gvars PROVE KeptInv'
  OBVIOUS
<1>1. CASE UNCHANGED <<slots, incoming, merged, new>>
  BY <1>1 DEF KeptInv, MergedKept
<1>2. ASSUME NEW w \in Witness, Round(w) \/ RoundFails(w) PROVE KeptInv'
  BY <1>1, <1>2, RoundKeeps
<1>3. ASSUME NEW w \in Witness, Merge(w) PROVE KeptInv'
  <2>1. /\ new = NoFile /\ branch[w] # NoFile /\ incoming' = incoming \cup {branch[w]}
        /\ merged' = merged \cup {branch[w]} /\ UNCHANGED <<slots, new>>
    BY <1>3 DEF Merge, combine
  <2>2. branch[w] \in Files /\ branch[w].sigs # {}
    BY <2>1 DEF GInv, TypeInv, CosignInv
  <2> QED
    BY <2>1, <2>2 DEF KeptInv, MergedKept
<1>4. ASSUME NEW w \in Witness, NEW t \in Trees, WitnessCosigns(w, t) PROVE KeptInv'
  BY <1>1, <1>4 DEF WitnessCosigns, upstream, combine
<1>5. ASSUME NEW t \in Trees, MergeStrange(t) PROVE KeptInv'
  BY <1>5 DEF MergeStrange, combine, KeptInv, MergedKept
<1>6. CASE UpdateState
  BY <1>6, UpdateStateKeepsMerged
<1>7. CASE StoreSlot
  <2>1. /\ new # NoFile /\ UNCHANGED <<incoming, merged, new>>
        /\ written \in Slot /\ slots' = [slots EXCEPT ![written] = new[written]]
    BY <1>7, StoreSlotKeeps DEF StoreSlot
  <2>2. slots \in [Slot -> Files \cup {NoFile}]
    BY DEF GInv, SlotInv, SlotsOK
  <2>3. \A i \in Slot : slots'[i] \in {slots[i], new[i]}
    BY <2>1, <2>2
  <2>4. \A f \in merged : \A i \in Slot : Keeps(slots[i], f) => Keeps(slots'[i], f) /\ Keeps(new[i], f)
    BY <2>1, <2>3 DEF KeptInv
  <2>5. \A f \in merged : \A i \in Slot : Keeps(slots'[i], f) => Keeps(new[i], f)
    BY <2>3, <2>4
  <2> QED
    BY <2>1, <2>4, <2>5 DEF KeptInv, MergedKept
<1>8. CASE RemoveIncoming
  <2>1. /\ new # NoFile /\ written = MaxSigs + 1 /\ incoming' = {} /\ new' = NoFile
        /\ UNCHANGED <<slots, merged>>
    BY <1>8 DEF RemoveIncoming
  <2>2. \A i \in Slot : slots[i] = new[i]
    <3>1. \A i \in Slot : i < MaxSigs + 1
      BY GitHubAssumption DEF Slot
    <3> QED
      BY <2>1, <3>1 DEF GInv, SlotInv
  <2> QED
    BY <2>1, <2>2 DEF KeptInv, MergedKept
<1>9. CASE CombineDies
  BY <1>9 DEF CombineDies, upstream, KeptInv, MergedKept
<1>10. CASE UNCHANGED gvars
  BY <1>1, <1>10 DEF gvars, upstream, combine
<1> QED
  BY <1>2, <1>3, <1>4, <1>5, <1>6, <1>7, <1>8, <1>9, <1>10 DEF GNext, CombineStep

\* While the log does not fork, a signature that was merged is in incoming/, in
\* a slot, or in the shadow of a larger tree, for any witnesses, any number of
\* slots with signatures, and whenever a combination dies (UpdateState,
\* storeState).
THEOREM MergedAlwaysKept ==
    ASSUME NoFork, MaxSigs > 0
    PROVE  GSpec => []MergedKept
<1>1. KeptInv => MergedKept
  BY DEF KeptInv
<1>2. GInv /\ KeptInv /\ [GNext]_gvars => GInv' /\ KeptInv'
  BY NextGInv, NextKeptInv
<1> QED
  BY <1>1, <1>2, InitGInv, PTL DEF GSpec

-----------------------------------------------------------------------------
(***************************************************************************)
(* The client and the GitHub distributor together.  The distributor's own  *)
(* invariant says that signatures in slots are genuine and that a slot is  *)
(* never emptied; what the client needs besides is that each witness's     *)
(* trees are a history.                                                    *)
(***************************************************************************)

\* The trees that a witness has cosigned lead to its latest one.
HistoryInv == \A w \in Witness : \A s \in history[w] : Prefix(s, signed[w])

\* What the client finds is what the distributor has.
Linked ==
    /\ cosigned = history
    /\ dist = [d \in Distributors |-> dist[d]] /\ dist[Hub] = HubFile

LinkInv == GInv /\ HistoryInv /\ Linked

\* A prefix of a prefix.
LEMMA PrefixOfPrefix ==
    ASSUME NEW s \in Seq(Leaf), NEW t \in Seq(Leaf), NEW u \in Seq(Leaf),
           Prefix(s, t), Prefix(t, u)
    PROVE  Prefix(s, u)
BY DEF Prefix

\* Two trees that are prefixes of each other are one.
LEMMA PrefixBothWays ==
    ASSUME NEW s \in Seq(Leaf), NEW t \in Seq(Leaf), Prefix(s, t), Prefix(t, s)
    PROVE  s = t
<1>1. Len(s) = Len(t) /\ \A i \in 1..Len(s) : s[i] = t[i]
  BY DEF Prefix
<1> QED
  BY <1>1

\* A witness cosigns: its history grows at the end.
LEMMA CosignsAfterHistory ==
    ASSUME LinkInv, NEW w \in Witness, NEW t \in Trees, WitnessCosigns(w, t)
    PROVE  /\ t \notin history[w] /\ \A s \in history[w] : Prefix(s, t)
           /\ history' = [history EXCEPT ![w] = @ \cup {t}] /\ slots' = slots
           /\ HistoryInv'
<1>1. /\ t # signed[w] /\ Prefix(signed[w], t)
      /\ signed' = [signed EXCEPT ![w] = t]
      /\ history' = [history EXCEPT ![w] = @ \cup {t}] /\ slots' = slots
  BY DEF WitnessCosigns, upstream
<1>2. /\ signed \in [Witness -> Trees \cup {<<>>}] /\ history \in [Witness -> SUBSET Trees]
      /\ \A v \in Witness : \A s \in history[v] : Prefix(s, signed[v])
  BY DEF LinkInv, GInv, TypeInv, HistoryInv
<1>3. Trees \subseteq Seq(Leaf) /\ <<>> \in Seq(Leaf)
  BY GitHubAssumption
<1>4. signed[w] \in Seq(Leaf) /\ t \in Seq(Leaf) /\ \A s \in history[w] : s \in Seq(Leaf)
  BY <1>2, <1>3
<1>5. \A s \in history[w] : Prefix(s, t)
  BY <1>1, <1>2, <1>4, PrefixOfPrefix
<1>6. t \notin history[w]
  BY <1>1, <1>2, <1>4, PrefixBothWays
<1>7. Prefix(t, t)
  BY <1>4 DEF Prefix
<1>8. HistoryInv'
  <2> SUFFICES ASSUME NEW v \in Witness, NEW s \in history'[v] PROVE Prefix(s, signed'[v])
    BY DEF HistoryInv
  <2>1. CASE v = w
    BY <1>1, <1>2, <1>5, <1>7, <2>1
  <2>2. CASE v # w
    BY <1>1, <1>2, <2>2
  <2> QED
    BY <2>1, <2>2
<1> QED
  BY <1>1, <1>5, <1>6, <1>8

\* What the distributor does to checkpoint.N: nothing, or it stores a file with
\* genuine signatures there.
LEMMA HubStores ==
    ASSUME GInv, StoreSlot, HubFile' # HubFile
    PROVE  \E t \in Trees, sigs \in SUBSET Witness :
              /\ HubFile' = [tree |-> t, sigs |-> sigs]
              /\ \A w \in sigs : t \in history[w]
<1>1. written \in Slot /\ slots' = [slots EXCEPT ![written] = new[written]] /\ new # NoFile
  BY StoreSlotKeeps DEF StoreSlot
<1>2. /\ SlotsOK(history, slots) /\ SlotsOK(history, new) /\ Covers(new, slots)
  BY <1>1 DEF GInv, SlotInv
<1>3. slots \in [Slot -> Files \cup {NoFile}] /\ new \in [Slot -> Files \cup {NoFile}]
  BY <1>2 DEF SlotsOK
<1>4. N \in Slot /\ N = written /\ HubFile = slots[N] /\ HubFile' = new[N]
  BY <1>1, <1>3 DEF HubFile
<1>5. new[N] # NoFile
  BY <1>2, <1>4 DEF Covers
<1>6. new[N] \in Files /\ Cosigned(history, new[N])
  BY <1>2, <1>3, <1>4, <1>5 DEF SlotsOK
<1>7. PICK t \in Trees, sigs \in SUBSET Witness : new[N] = [tree |-> t, sigs |-> sigs]
  BY <1>6 DEF Files
<1>8. \A w \in sigs : t \in history[w]
  BY <1>6, <1>7 DEF Cosigned
<1> QED
  BY <1>4, <1>7, <1>8

\* The steps of the distributor that neither cosign nor store a file.
LEMMA HubQuiet ==
    ASSUME GNext, ~ StoreSlot,
           ~ \E t \in Trees, w \in Witness : WitnessCosigns(w, t)
    PROVE  UNCHANGED <<signed, history, slots>>
BY DEF GNext, Round, RoundFails, Merge, MergeStrange, CombineStep, CombineDies, UpdateState,
       RemoveIncoming, CreateOrUpdateBranch, GetLatestCheckpoint, CheckPresent, CheckPending,
       CommitFile, CreatePR, wit, upstream

\* A step of the distributor is one of the client's environment.
LEMMA HubStepServes ==
    ASSUME SameConfig, LinkInv, HubStep
    PROVE  [Environment]_vars /\ LinkInv'
<1>1. /\ GNext /\ cosigned' = history' /\ dist' = [dist EXCEPT ![Hub] = HubFile']
      /\ UNCHANGED <<served, cached, pc, latest, got, cand, tracked, loaded>>
  BY DEF HubStep, client
<1>2. GInv' /\ GInv /\ HistoryInv
  BY <1>1, NextGInv DEF LinkInv
<1>3. /\ cosigned = history /\ dist = [d \in Distributors |-> dist[d]] /\ dist[Hub] = HubFile
  BY DEF LinkInv, Linked
<1>4. /\ Signed = Trees /\ Witnesses = Witness /\ Hub \in Distributors
  BY DEF SameConfig
<1>5. Linked'
  <2>1. dist' = [d \in Distributors |-> dist'[d]] /\ dist'[Hub] = HubFile'
    BY <1>1, <1>3, <1>4
  <2> QED
    BY <1>1, <2>1 DEF Linked
<1>6. HubFile' = HubFile => dist' = dist
  BY <1>1, <1>3, <1>4
<1>7. CASE \E t \in Trees, w \in Witness : WitnessCosigns(w, t)
  <2>1. PICK t \in Trees, w \in Witness : WitnessCosigns(w, t)
    BY <1>7
  <2>2. /\ t \notin history[w] /\ \A s \in history[w] : Prefix(s, t)
        /\ history' = [history EXCEPT ![w] = @ \cup {t}] /\ slots' = slots /\ HistoryInv'
    BY <2>1, CosignsAfterHistory
  <2>3. dist' = dist
    BY <1>6, <2>2 DEF HubFile
  <2>4. Cosign(w, t)
    BY <1>1, <1>3, <2>2, <2>3 DEF Cosign
  <2> QED
    BY <1>2, <1>4, <1>5, <2>2, <2>4 DEF Environment, LinkInv
<1>8. CASE StoreSlot
  <2>1. UNCHANGED <<signed, history>>
    BY <1>8 DEF StoreSlot, wit
  <2>2. HistoryInv'
    BY <1>2, <2>1 DEF HistoryInv
  <2>3. CASE HubFile' = HubFile
    BY <1>1, <1>2, <1>3, <1>5, <1>6, <2>1, <2>2, <2>3 DEF vars, env, LinkInv
  <2>4. CASE HubFile' # HubFile
    <3>1. PICK t \in Trees, sigs \in SUBSET Witness :
             HubFile' = [tree |-> t, sigs |-> sigs] /\ \A w \in sigs : t \in history[w]
      BY <1>2, <1>8, <2>4, HubStores
    <3>2. Distribute(Hub, t, sigs)
      BY <1>1, <1>3, <2>1, <3>1 DEF Distribute
    <3> QED
      BY <1>2, <1>4, <1>5, <2>2, <3>2 DEF Environment, LinkInv
  <2> QED
    BY <2>3, <2>4
<1>9. CASE ~ StoreSlot /\ ~ \E t \in Trees, w \in Witness : WitnessCosigns(w, t)
  <2>1. UNCHANGED <<signed, history, slots>>
    BY <1>1, <1>9, HubQuiet
  <2>2. HubFile' = HubFile /\ HistoryInv'
    BY <1>2, <2>1 DEF HubFile, HistoryInv
  <2> QED
    BY <1>1, <1>2, <1>3, <1>5, <1>6, <2>1, <2>2 DEF vars, env, LinkInv
<1> QED
  BY <1>7, <1>8, <1>9

\* A step of the client, the log or another distributor leaves this one alone.
LEMMA ClientStepKeeps ==
    ASSUME SameConfig, LinkInv, ClientStep
    PROVE  Next /\ LinkInv'
<1>1. Next /\ cosigned' = cosigned /\ dist'[Hub] = dist[Hub]
  BY DEF ClientStep
<1>2. UNCHANGED <<signed, history, slots, gvars>>
  BY DEF ClientStep, gvars, wit, upstream
<1>3. GInv'
  BY <1>2, NextGInv DEF LinkInv
<1>4. /\ cosigned = history /\ dist = [d \in Distributors |-> dist[d]] /\ dist[Hub] = HubFile
      /\ Hub \in Distributors
  BY DEF LinkInv, Linked, SameConfig
<1>5. dist' = [d \in Distributors |-> dist'[d]]
  <2>1. CASE \E c \in Clients : Command(c)
    <3>1. env' = env
      BY <2>1 DEF Command, Load, UpdateCommand, ProofCommand, Exit, Unilateral, Got,
                  Fetch, FetchFails, FetchCancelled, Choose, NoConsensus, Update, Save
    <3> QED
      BY <1>4, <3>1 DEF env
  <2>2. CASE Environment
    BY <1>4, <2>2 DEF Environment, Serve, Cosign, Distribute
  <2> QED
    BY <1>1, <2>1, <2>2 DEF Next
<1>6. HubFile' = HubFile /\ HistoryInv'
  BY <1>2 DEF HubFile, LinkInv, HistoryInv
<1> QED
  BY <1>1, <1>2, <1>3, <1>4, <1>5, <1>6 DEF LinkInv, Linked

\* In the beginning there are no files, no signatures and no trees.
LEMMA InitLink ==
    ASSUME SameConfig
    PROVE  Init /\ GInit => LinkInv
<1> SUFFICES ASSUME Init, GInit PROVE LinkInv
  OBVIOUS
<1>1. GInv
  BY InitGInv
<1>2. HistoryInv
  BY DEF GInit, HistoryInv
<1>3. cosigned = history /\ HubFile = NoFile
  BY DEF Init, GInit, SameConfig, HubFile
<1>4. dist = [d \in Distributors |-> dist[d]] /\ dist[Hub] = NoFile
  BY DEF Init, SameConfig
<1> QED
  BY <1>1, <1>2, <1>3, <1>4 DEF LinkInv, Linked

(***************************************************************************)
(* A client that fetches checkpoint.N from the GitHub distributor, among   *)
(* others, sees an environment of the kind LogClient assumes, for any      *)
(* witnesses, trees, number of slots and of signatures required, and       *)
(* whatever the distribute processes, merges and combinations do, die and  *)
(* repeat between its fetches (storeState, UpdateState, getCheckpointN).   *)
(***************************************************************************)
THEOREM HubImplementsDistributor ==
    ASSUME SameConfig
    PROVE  DistributionSpec => HubRefines
<1>1. Init /\ GInit => LinkInv
  BY InitLink
<1>2. LinkInv /\ [HubStep \/ ClientStep]_<<vars, gvars>> => [Next]_vars /\ LinkInv'
  <2> SUFFICES ASSUME LinkInv, [HubStep \/ ClientStep]_<<vars, gvars>>
               PROVE  [Next]_vars /\ LinkInv'
    OBVIOUS
  <2>1. CASE HubStep
    BY <2>1, HubStepServes DEF Next
  <2>2. CASE ClientStep
    BY <2>2, ClientStepKeeps
  <2>3. CASE UNCHANGED <<vars, gvars>>
    <3>1. UNCHANGED <<signed, history, slots, cosigned, dist>>
      BY <2>3 DEF vars, env, gvars, wit, upstream
    <3>2. GInv'
      BY <2>3, NextGInv DEF LinkInv
    <3> QED
      BY <2>3, <3>1, <3>2 DEF LinkInv, HistoryInv, Linked, HubFile
  <2> QED
    BY <2>1, <2>2, <2>3
<1> QED
  BY <1>1, <1>2, PTL DEF DistributionSpec, HubRefines, Spec

(***************************************************************************)
(* So the client's theorems hold of it end to end: what it tracks was      *)
(* cosigned by N witnesses of the distributor's config, and with a         *)
(* majority of them it never tracks two sides of a fork, whatever the log  *)
(* and the other distributors serve (CheckpointNConsensus, Combine,        *)
(* storeState).                                                            *)
(***************************************************************************)
THEOREM HubClientTracksOneLog ==
    ASSUME SameConfig, 2 * N > Cardinality(Witnesses)
    PROVE  DistributionSpec => [](ConsensusBacked /\ TrackedConsistent)
<1>1. Spec => []ConsensusBacked
  BY TrackedAreBacked
<1>2. Spec => []TrackedConsistent
  BY MajorityTracksOneLog
<1> QED
  BY <1>1, <1>2, HubImplementsDistributor, PTL DEF HubRefines
=============================================================================
