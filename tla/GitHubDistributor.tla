------------------------- MODULE GitHubDistributor -------------------------
(***************************************************************************)
(* The GitHub distributor of a log.  Each witness has a distribute process *)
(* that raises a pull request with its cosigned checkpoint                 *)
(* (distributeForLog), from a branch of its own on a fork.  A merged       *)
(* request adds a file to incoming/, and combine_witness_signatures merges *)
(* these files into checkpoint.0 to checkpoint.N, the largest checkpoints  *)
(* with at least 0 to N witness signatures (UpdateState, storeState).      *)
(*                                                                         *)
(* A checkpoint file is its tree and the witnesses whose signatures it     *)
(* has; the log's signature is on all of them.  (Names have a G where      *)
(* module LogClient, with which module Distribution composes this one, has *)
(* the plain name.)                                                        *)
(***************************************************************************)
EXTENDS MerkleLog, FiniteSets, FiniteSetsExt

CONSTANTS Witness,   \* the witnesses of the distributor's config
          Stranger,  \* a witness that is not in it
          Trees,     \* the trees that the log may publish
          OtherData, \* what each of its checkpoints says beside size and hash
          MaxSigs,   \* MaxWitnessSignatures
          NoFile,
          MaxFaults  \* bound: failed calls and strange files

ASSUME GitHubAssumption ==
    /\ Trees \subseteq Seq(Leaf) /\ IsFiniteSet(Witness) /\ Stranger \notin Witness
    /\ MaxSigs \in Nat /\ MaxFaults \in Nat
    /\ NoFile \notin [tree : Seq(Leaf), sigs : SUBSET (Witness \cup {Stranger})]

VARIABLES
    signed,    \* the latest tree each witness has cosigned
    history,   \* history: the trees each witness has cosigned
    merged,    \* history: the files that were merged
    slots,     \* checkpoint.i: upstream's files
    incoming,  \* upstream's incoming/
    branch,    \* the file on the branch of each witness
    pr,        \* whether the pull request of that branch is open
    round,     \* the distribute process of each witness
    new,       \* combine: the state it writes, NoFile if it does not run
    written,   \* combine: slots written
    faults

wit == <<signed, history>>
upstream == <<slots, incoming, merged>>
fork == <<branch, pr>>
combine == <<new, written>>
gvars == <<wit, upstream, fork, round, combine, faults>>

Slot == 0..MaxSigs
CheckpointFile(t, ws) == [tree |-> t, sigs |-> ws]

GInit ==
    /\ signed = [w \in Witness |-> <<>>] /\ history = [w \in Witness |-> {}]
    /\ merged = {}
    /\ slots = [i \in Slot |-> NoFile] /\ incoming = {}
    /\ branch = [w \in Witness |-> NoFile] /\ pr = [w \in Witness |-> FALSE]
    /\ round = [w \in Witness |-> [pc |-> "sleep", tree |-> <<>>]]
    /\ new = NoFile /\ written = 0 /\ faults = 0

\* A witness cosigns a tree that extends its last one.
WitnessCosigns(w, t) ==
    /\ t # signed[w] /\ Prefix(signed[w], t)
    /\ signed' = [signed EXCEPT ![w] = t]
    /\ history' = [history EXCEPT ![w] = @ \cup {t}]
    /\ UNCHANGED <<upstream, fork, round, combine, faults>>

-----------------------------------------------------------------------------
(* distributeForLog. *)

Goto(w, label) == round' = [round EXCEPT ![w].pc = label]

\* distributeForLog returns, with an error or without.
Sleep(w) == round' = [round EXCEPT ![w] = [pc |-> "sleep", tree |-> <<>>]]

\* CreateOrUpdateBranch: the branch is forced to the head of upstream, which
\* takes the file out of an open request: GitHub closes it.
CreateOrUpdateBranch(w) ==
    /\ round[w].pc = "sleep"
    /\ branch' = [branch EXCEPT ![w] = NoFile] /\ pr' = [pr EXCEPT ![w] = FALSE]
    /\ Goto(w, "get")
    /\ UNCHANGED <<wit, upstream, combine, faults>>

\* GetLatestCheckpoint: an error if the witness has none.
GetLatestCheckpoint(w) ==
    /\ round[w].pc = "get"
    /\ round' = [round EXCEPT ![w] = [pc |-> IF signed[w] = <<>> THEN "sleep" ELSE "check",
                                      tree |-> signed[w]]]
    /\ UNCHANGED <<wit, upstream, fork, combine, faults>>

\* Mutant: another witness's signature is enough.
AlreadyPresentAny(w) ==
    \E i \in Slot :
        /\ \A j \in 0..i : slots[j] # NoFile
        /\ slots[i].tree = round[w].tree

\* alreadyPresent looks at the slots up to the first that is missing.
AlreadyPresent(w) ==
    \E i \in Slot :
        /\ \A j \in 0..i : slots[j] # NoFile
        /\ slots[i].tree = round[w].tree /\ w \in slots[i].sigs

CheckPresent(w) ==
    /\ round[w].pc = "check"
    /\ IF AlreadyPresent(w) THEN Sleep(w) ELSE Goto(w, "pending")
    /\ UNCHANGED <<wit, upstream, fork, combine, faults>>

\* wcpID: the name of a file in incoming/ is a hash of what ParseCheckpoint
\* returns second, the checkpoint's other data, and of the witness's name.
\* The checkpoints of a log without other data all have the same name.
WcpID(t, w) == <<OtherData[t], w>>

\* A file of that name is in incoming/ already, be it for this checkpoint or
\* for an older one: an error, and the end of the round.
CheckPending(w) ==
    /\ round[w].pc = "pending"
    /\ IF \E f \in incoming : f.sigs = {w} /\ WcpID(f.tree, w) = WcpID(round[w].tree, w)
       THEN Sleep(w) ELSE Goto(w, "commit")
    /\ UNCHANGED <<wit, upstream, fork, combine, faults>>

CommitFile(w) ==
    /\ round[w].pc = "commit"
    /\ branch' = [branch EXCEPT ![w] = CheckpointFile(round[w].tree, {w})]
    /\ Goto(w, "pr")
    /\ UNCHANGED <<wit, upstream, pr, combine, faults>>

CreatePR(w) ==
    /\ round[w].pc = "pr"
    /\ pr' = [pr EXCEPT ![w] = TRUE]
    /\ Sleep(w)
    /\ UNCHANGED <<wit, upstream, branch, combine, faults>>

\* Any call of a round fails: the error is logged.
RoundFails(w) ==
    /\ round[w].pc # "sleep" /\ faults < MaxFaults
    /\ faults' = faults + 1
    /\ Sleep(w)
    /\ UNCHANGED <<wit, upstream, fork, combine>>

-----------------------------------------------------------------------------
(* Upstream. *)

\* A pull request is merged; its branch is not used again before it is
\* reset.  Not while the combination runs: the push of
\* its result would be rejected, and the merge starts another.
Merge(w) ==
    /\ pr[w] /\ branch[w] # NoFile /\ new = NoFile
    /\ incoming' = incoming \cup {branch[w]} /\ merged' = merged \cup {branch[w]}
    /\ branch' = [branch EXCEPT ![w] = NoFile] /\ pr' = [pr EXCEPT ![w] = FALSE]
    /\ UNCHANGED <<wit, slots, round, combine, faults>>

\* Another pull request is merged, with a signature of no known witness.
MergeStrange(t) ==
    /\ new = NoFile /\ faults < MaxFaults /\ faults' = faults + 1
    /\ incoming' = incoming \cup {CheckpointFile(t, {Stranger})}
    /\ UNCHANGED <<wit, slots, merged, fork, round, combine>>

\* Mutant: signatures that no configured witness verifies are kept.
CombineAny(files) ==
    CheckpointFile((CHOOSE f \in files : TRUE).tree, UNION {f.sigs : f \in files})

\* Combine: the signatures of known witnesses on one body.
Combine(files) ==
    CheckpointFile((CHOOSE f \in files : TRUE).tree, (UNION {f.sigs : f \in files}) \cap Witness)

\* The checkpoints of the state and of incoming/, combined by body.
Combined ==
    LET all == ({slots[i] : i \in Slot} \ {NoFile}) \cup incoming
    IN  {Combine({f \in all : f.tree = t}) : t \in {f.tree : f \in all}}

\* The orders that sort.Slice may give them: by size, the largest first.
Sorted(files) ==
    {s \in [1..Cardinality(files) -> files] :
        /\ \A f \in files : \E k \in DOMAIN s : s[k] = f
        /\ \A i, j \in DOMAIN s : i < j => Size(s[i].tree) >= Size(s[j].tree)}

\* Mutant: the log's signature is taken for that of a witness.
FillOneLess(s) ==
    [i \in Slot |->
        LET enough == {k \in DOMAIN s : Cardinality(s[k].sigs) + 1 >= i}
        IN  IF enough = {} THEN NoFile ELSE s[Min(enough)]]

\* UpdateState: each slot takes the first checkpoint with as many witness
\* signatures as its number.
Fill(s) ==
    [i \in Slot |->
        LET enough == {k \in DOMAIN s : Cardinality(s[k].sigs) >= i}
        IN  IF enough = {} THEN NoFile ELSE s[Min(enough)]]

\* Mutant: incoming/ is cleared before the slots are written.
UpdateStateClears ==
    /\ new = NoFile /\ incoming # {}
    /\ \E s \in Sorted(Combined) : new' = Fill(s)
    /\ written' = 0 /\ incoming' = {}
    /\ UNCHANGED <<wit, slots, merged, fork, round, faults>>

UpdateState ==
    /\ new = NoFile /\ incoming # {}
    /\ \E s \in Sorted(Combined) : new' = Fill(s)
    /\ written' = 0
    /\ UNCHANGED <<wit, upstream, fork, round, faults>>

\* storeState: one file after the other, from checkpoint.0 on.
StoreSlot ==
    /\ new # NoFile /\ written <= MaxSigs
    /\ slots' = [slots EXCEPT ![written] = new[written]]
    /\ written' = written + 1
    /\ UNCHANGED <<wit, incoming, merged, fork, round, new, faults>>

RemoveIncoming ==
    /\ new # NoFile /\ written = MaxSigs + 1
    /\ incoming' = {} /\ new' = NoFile /\ written' = 0
    /\ UNCHANGED <<wit, slots, merged, fork, round, faults>>

\* The command ends in between: what it has written stays.
CombineDies ==
    /\ new # NoFile /\ faults < MaxFaults
    /\ faults' = faults + 1
    /\ new' = NoFile /\ written' = 0
    /\ UNCHANGED <<wit, upstream, fork, round>>

-----------------------------------------------------------------------------

Round(w) ==
    \/ CreateOrUpdateBranch(w) \/ GetLatestCheckpoint(w) \/ CheckPresent(w)
    \/ CheckPending(w) \/ CommitFile(w) \/ CreatePR(w)

CombineStep == UpdateState \/ StoreSlot \/ RemoveIncoming

GNext ==
    \/ \E w \in Witness : Round(w) \/ RoundFails(w) \/ Merge(w)
    \/ \E t \in Trees : MergeStrange(t) \/ \E w \in Witness : WitnessCosigns(w, t)
    \/ CombineStep \/ CombineDies

GSpec == GInit /\ [][GNext]_gvars

\* The distribute processes go round, the action runs on every push, and
\* open requests are merged.
GFairness ==
    /\ WF_gvars(CombineStep)
    /\ \A w \in Witness : WF_gvars(Round(w)) /\ SF_gvars(Merge(w))

-----------------------------------------------------------------------------
(* Properties. *)

\* Type invariant of upstream, the fork and the processes.
GTypeOK ==
    /\ signed \in [Witness -> Seq(Leaf)]
    /\ \A i \in Slot : slots[i] # NoFile => slots[i].tree \in Trees /\ slots[i].sigs \subseteq Witness
    /\ \A f \in incoming : f.tree \in Trees /\ f.sigs \subseteq Witness \cup {Stranger}
    /\ \A w \in Witness :
          /\ branch[w] # NoFile => branch[w].tree \in Trees
          /\ pr[w] \in BOOLEAN /\ round[w].tree \in Trees \cup {<<>>}
          /\ round[w].pc \in {"sleep", "get", "check", "pending", "commit", "pr"}
    /\ written \in 0..(MaxSigs + 1) /\ faults \in 0..MaxFaults

\* checkpoint.i carries the signatures of at least i witnesses of the
\* config, and each of them has cosigned that very tree, whatever was merged
\* in which order (Combine, UpdateState).
SlotsCosigned ==
    \A i \in Slot : slots[i] # NoFile =>
        /\ Cardinality(slots[i].sigs) >= i
        /\ \A w \in slots[i].sigs : w \in Witness /\ slots[i].tree \in history[w]

\* A client that asks for more signatures never gets a larger tree, not even
\* after a combination that has stopped half way (storeState writes the
\* slots in ascending order).
SlotsOrdered ==
    \A i, j \in Slot : i < j /\ slots[j] # NoFile =>
        slots[i] # NoFile /\ Size(slots[i].tree) >= Size(slots[j].tree)

\* What the files checkpoint.0 to checkpoint.N promise a client holds after
\* every write of storeState, and after one that was the last of its run.
SlotsSound == GTypeOK /\ SlotsCosigned /\ SlotsOrdered

\* The log does not fork: trees of one size are one tree.
NoFork == \A t, u \in Trees : Size(t) = Size(u) => t = u

\* A signature that was merged is in incoming/, in a slot, or in the shadow
\* of a slot with a tree as large: it is not lost to a run that dies, nor to
\* the signatures of others (UpdateState, storeState).  With three witnesses
\* of a log that forks, the two sides of the fork may replace each other and
\* a signature of the first side be lost when that one comes back.
Keeps(slot, f) ==
    /\ slot # NoFile
    /\ \/ slot.tree = f.tree /\ f.sigs \subseteq slot.sigs
       \/ slot.tree # f.tree /\ Size(slot.tree) >= Size(f.tree)

MergedKept == \A f \in merged \ incoming : \E i \in Slot : i > 0 /\ Keeps(slots[i], f)

\* A known witness that has cosigned the largest tree finds its signature
\* in a slot some time, although every round resets its branch, closes its
\* request and is given up while a file of it is pending, even the file of
\* an older checkpoint, and although others submit the same tree
\* (distributeForLog, alreadyPresent, wcpID).
SignatureServed ==
    \A t \in Trees : \A w \in Witness :
        (\A u \in Trees : Size(u) <= Size(t)) =>
            signed[w] = t ~> \E i \in Slot :
                slots[i] # NoFile /\ slots[i].tree = t /\ w \in slots[i].sigs

=============================================================================
