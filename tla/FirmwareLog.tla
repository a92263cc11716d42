---------------------------- MODULE FirmwareLog ----------------------------
(***************************************************************************)
(* The firmware transparency log (binary_transparency/firmware): the FT    *)
(* personality over a Trillian log and an image store (CAS), the publisher *)
(* that waits for its statement to be included, and a process that follows *)
(* the log: the monitor, which looks at every image and annotates it, or   *)
(* the witness, which keeps the latest consistent checkpoint.  The two do  *)
(* not talk to each other: a behaviour has one of them.                    *)
(*                                                                         *)
(* A checkpoint is the tree it commits to.  Trillian is external: it keeps *)
(* one tree, unless its database is restored from a backup.                *)
(***************************************************************************)
EXTENDS MerkleLog, FiniteSets, SequencesExt

CONSTANTS Image,     \* the firmware images
          MaxSize,   \* bound: entries of the log
          MaxFaults, \* bound: failing calls, restarts and restored backups
          None

ASSUME FirmwareAssumption ==
    /\ MaxSize \in Nat /\ MaxFaults \in Nat
    /\ Leaf = [type : {"firmware"}, image : Image, at : {0}]
                \cup [type : {"malware"}, image : Image, at : 0..(MaxSize - 1)]
    /\ None \notin Seq(Leaf)

VARIABLES
    cas,      \* the images in the store
    queue,    \* Trillian: statements to be integrated
    tree,     \* Trillian: the integrated statements
    golden,   \* the personality's golden root
    pub,      \* the publisher, and the addFirmware request it waits for
    update,   \* the bundle it wrote last, with the checkpoint it had first
    role,     \* "monitor" or "witness"
    file,     \* the follower's checkpoint on file, <<>> if there is none
    fol,      \* LogFollower.Checkpoints
    cpc,      \* its channel
    ent,      \* LogFollower.Entries
    ec,       \* its channel
    mon,      \* the main loop of the monitor, or Witness.Poll
    gcp,      \* Witness.gcp
    locked,   \* Witness.witnessLock
    seen,     \* history: entries that reached processEntry
    skipped,  \* history: indices whose entry could not be fetched
    noimage,  \* history: images that the CAS failed to store
    torn,     \* history: annotations whose firmware a restored backup took
              \* away between the lookup and the submission
    faults

server == <<cas, queue, tree, golden>>
publisher == <<pub, update, noimage>>
follower == <<fol, cpc, ent, ec>>
app == <<mon, gcp, locked, seen, skipped>>
vars == <<server, publisher, role, file, follower, app, torn, faults>>

Firmware(i) == [type |-> "firmware", image |-> i, at |-> 0]
Malware(i, n) == [type |-> "malware", image |-> i, at |-> n]

Idle == [pc |-> "idle", image |-> None, first |-> <<>>, cp |-> <<>>, new |-> <<>>]
NoEntry == [root |-> <<>>, index |-> 0, value |-> None]

\* A follower that starts from checkpoint t.
Polling(t) == [pc |-> "tick", golden |-> t]
\* Mutant: the size of the checkpoint taken for the index of its last entry.
ReadingAfter(t) == [pc |-> "wait", cp |-> <<>>, head |-> Size(t) + 1]

Reading(t) == [pc |-> "wait", cp |-> <<>>, head |-> Size(t)]
Waiting == [pc |-> "wait", entry |-> NoEntry]

Init ==
    /\ cas = {} /\ queue = {} /\ tree = <<>> /\ golden = <<>>
    /\ pub = Idle /\ update = None /\ noimage = {}
    /\ role \in {"monitor", "witness"}
    /\ file = <<>> /\ seen = {} /\ skipped = {}
    /\ fol = Polling(<<>>) /\ cpc = << <<>> >> /\ ent = Reading(<<>>) /\ ec = <<>>
    /\ mon = Waiting /\ gcp = <<>> /\ locked = FALSE
    /\ torn = {} /\ faults = 0

Fault == faults < MaxFaults /\ faults' = faults + 1

-----------------------------------------------------------------------------
(* Trillian (external). *)

\* QueueLeaf ignores a leaf that it has.
QueueLeaf(s) ==
    queue' = IF s \in queue \/ s \in Range(tree) THEN queue ELSE queue \cup {s}

Integrate(s) ==
    /\ s \in queue /\ Len(tree) < MaxSize
    /\ queue' = queue \ {s} /\ tree' = Append(tree, s)
    /\ UNCHANGED <<cas, golden, publisher, role, file, follower, app, torn, faults>>

\* The database is restored from a backup, with or without a restart of the
\* personality, whose golden root is not stored.
Restore(n) ==
    /\ n < Len(tree) /\ Fault
    /\ tree' = SubSeq(tree, 1, n) /\ queue' = {}
    /\ golden' \in {golden, <<>>}
    /\ torn' = IF mon.pc = "submit" /\ mon.entry.index >= n
               THEN torn \cup {Malware(mon.entry.value.image, mon.entry.index)} ELSE torn
    /\ UNCHANGED <<cas, publisher, role, file, follower, app>>

-----------------------------------------------------------------------------
(* The personality. *)

\* UpdateRoot: a larger root is taken if it is consistent with the golden one.
UpdateRoot ==
    /\ Len(tree) > Len(golden) /\ Prefix(golden, tree)
    /\ golden' = tree
    /\ UNCHANGED <<cas, queue, tree, publisher, role, file, follower, app, torn, faults>>

\* The golden root is not stored.
RestartPersonality ==
    /\ golden # <<>> /\ Fault
    /\ golden' = <<>>
    /\ UNCHANGED <<cas, queue, tree, publisher, role, file, follower, app, torn>>

\* getRoot signs the golden root, getFirmwareImage reads the store.
Root == golden
Retrieve(i) == i \in cas

\* getConsistency answers, and the proof verifies for checkpoints s and t.
\* Trillian makes it from the tree it has now.
ConsistencyAnswered(s, t) ==
    /\ 0 < Size(s) /\ Size(s) <= Size(t) /\ Size(t) <= Size(golden)
    /\ Size(t) <= Size(tree)
ConsistencyVerified(s, t) == Prefix(s, tree) /\ Prefix(t, tree)

\* getInclusionByHash.
InclusionAnswered(s, t) ==
    /\ Size(t) <= Size(golden) /\ Size(t) <= Size(tree)
    /\ \E n \in 1..Size(t) : tree[n] = s

\* getManifestEntryAndProof.
EntryAnswered(index, t) ==
    /\ index < Size(t) /\ Size(t) <= Size(golden) /\ Size(t) <= Size(tree)

\* A proof from Trillian's tree verifies under checkpoint t.
InclusionVerified(t) == Prefix(t, tree)

\* addAnnotationMalware: the index must hold a firmware statement with this
\* image.  The index is looked up in Trillian, whatever the golden root is.
Annotates(i, n) == n < Size(tree) /\ tree[n + 1] = Firmware(i)

-----------------------------------------------------------------------------
(* The publisher, with the addFirmware request. *)

\* createManifest, and the checkpoint before the submission.
StartPublish(i) ==
    /\ pub.pc = "idle"
    /\ pub' = [pc |-> "store", image |-> i, first |-> Root, cp |-> Root, new |-> <<>>]
    /\ UNCHANGED <<server, update, noimage, role, file, follower, app, torn, faults>>

StoreImage ==
    /\ pub.pc = "store"
    /\ cas' = cas \cup {pub.image}
    /\ pub' = [pub EXCEPT !.pc = "add"]
    /\ UNCHANGED <<queue, tree, golden, update, noimage, role, file, follower, app, torn, faults>>

\* The handler reports the error and goes on: the statement is logged.
StoreImageFails ==
    /\ pub.pc = "store" /\ pub.image \notin cas /\ Fault
    /\ pub' = [pub EXCEPT !.pc = "addFailed"]
    /\ noimage' = noimage \cup {pub.image}
    /\ UNCHANGED <<server, update, role, file, follower, app, torn>>

\* Mutant: the statement is logged first.
AddBeforeStore ==
    /\ pub.pc \in {"store", "add", "addFailed"}
    /\ QueueLeaf(Firmware(pub.image))
    /\ pub' = IF pub.pc = "addFailed" THEN Idle ELSE [pub EXCEPT !.pc = "await"]
    /\ UNCHANGED <<cas, tree, golden, update, noimage, role, file, follower, app, torn, faults>>

AddSignedStatement ==
    /\ pub.pc \in {"add", "addFailed"}
    /\ QueueLeaf(Firmware(pub.image))
    /\ pub' = IF pub.pc = "add" THEN [pub EXCEPT !.pc = "await"] ELSE Idle
    /\ UNCHANGED <<cas, tree, golden, update, noimage, role, file, follower, app, torn, faults>>

AddFails ==
    /\ pub.pc \in {"add", "addFailed"} /\ Fault
    /\ pub' = Idle
    /\ UNCHANGED <<server, update, noimage, role, file, follower, app, torn>>

\* Mutant: no proof between the checkpoints.
AwaitGrowthTrusting ==
    /\ pub.pc = "await" /\ Size(golden) > Size(pub.cp)
    /\ pub' = [pub EXCEPT !.pc = "inclusion", !.cp = golden]
    /\ UNCHANGED <<server, update, noimage, role, file, follower, app, torn, faults>>

\* AwaitInclusion looks at every larger checkpoint.
AwaitGrowth ==
    /\ pub.pc = "await" /\ Size(Root) > Size(pub.cp)
    /\ pub' = IF Size(pub.cp) > 0 THEN [pub EXCEPT !.pc = "proof", !.new = Root]
              ELSE [pub EXCEPT !.pc = "inclusion", !.cp = Root]
    /\ UNCHANGED <<server, update, noimage, role, file, follower, app, torn, faults>>

AwaitConsistency ==
    /\ pub.pc = "proof" /\ ConsistencyAnswered(pub.cp, pub.new)
    /\ pub' = IF ConsistencyVerified(pub.cp, pub.new)
              THEN [pub EXCEPT !.pc = "inclusion", !.cp = pub.new, !.new = <<>>]
              ELSE Idle
    /\ UNCHANGED <<server, update, noimage, role, file, follower, app, torn, faults>>

\* The proof is not fetched: the publisher looks again.
AwaitNoProof ==
    /\ pub.pc = "proof"
    /\ ConsistencyAnswered(pub.cp, pub.new) => Fault
    /\ ~ConsistencyAnswered(pub.cp, pub.new) => UNCHANGED faults
    /\ pub' = [pub EXCEPT !.pc = "await", !.new = <<>>]
    /\ UNCHANGED <<server, update, noimage, role, file, follower, app, torn>>

\* The bundle holds the statement, the checkpoint and the inclusion proof.
Included ==
    /\ pub.pc = "inclusion" /\ InclusionAnswered(Firmware(pub.image), pub.cp)
    /\ InclusionVerified(pub.cp)
    /\ LET n == CHOOSE k \in 1..Size(pub.cp) : tree[k] = Firmware(pub.image)
       IN  update' = [image |-> pub.image, first |-> pub.first, cp |-> pub.cp, index |-> n - 1]
    /\ pub' = Idle
    /\ UNCHANGED <<server, noimage, role, file, follower, app, torn, faults>>

\* A statement that is not included yet, or an error: the publisher waits for
\* the log to grow again.
NotIncluded ==
    /\ pub.pc = "inclusion"
    /\ InclusionAnswered(Firmware(pub.image), pub.cp) => Fault
    /\ ~InclusionAnswered(Firmware(pub.image), pub.cp) => UNCHANGED faults
    /\ pub' = [pub EXCEPT !.pc = "await"]
    /\ UNCHANGED <<server, update, noimage, role, file, follower, app, torn>>

\* An invalid inclusion proof, or the context of the command is done.
PublishFails ==
    /\ \/ pub.pc = "await"
       \/ /\ pub.pc = "inclusion" /\ InclusionAnswered(Firmware(pub.image), pub.cp)
          /\ ~InclusionVerified(pub.cp)
    /\ pub' = Idle
    /\ UNCHANGED <<server, update, noimage, role, file, follower, app, torn, faults>>

-----------------------------------------------------------------------------
(* LogFollower.Checkpoints. *)

\* Mutant: a golden checkpoint of one entry is no ground for a proof.
NeedsProofAboveOne(t) == Size(t) > 1

NeedsProof(t) == Size(t) # 0

Accept(t) == fol' = [pc |-> "send", golden |-> t]

\* A checkpoint that is not larger is ignored; the first is trusted.
Tick ==
    /\ fol.pc = "tick" /\ Size(Root) > Size(fol.golden)
    /\ IF NeedsProof(fol.golden)
       THEN fol' = [pc |-> "proof", golden |-> fol.golden, cp |-> Root]
       ELSE Accept(Root)
    /\ UNCHANGED <<server, publisher, role, file, cpc, ent, ec, app, torn, faults>>

CheckConsistency ==
    /\ fol.pc = "proof" /\ ConsistencyAnswered(fol.golden, fol.cp)
    /\ IF ConsistencyVerified(fol.golden, fol.cp) THEN Accept(fol.cp)
       ELSE fol' = [pc |-> "closed", golden |-> fol.golden]
    /\ UNCHANGED <<server, publisher, role, file, cpc, ent, ec, app, torn, faults>>

\* Until the next tick.
NoProof ==
    /\ fol.pc = "proof"
    /\ ConsistencyAnswered(fol.golden, fol.cp) => Fault
    /\ ~ConsistencyAnswered(fol.golden, fol.cp) => UNCHANGED faults
    /\ fol' = Polling(fol.golden)
    /\ UNCHANGED <<server, publisher, role, file, cpc, ent, ec, app, torn>>

SendCheckpoint ==
    /\ fol.pc = "send" /\ cpc = <<>>
    /\ cpc' = <<fol.golden>> /\ fol' = Polling(fol.golden)
    /\ UNCHANGED <<server, publisher, role, file, ent, ec, app, torn, faults>>

-----------------------------------------------------------------------------
(* LogFollower.Entries, of the monitor. *)

TakeCheckpoint ==
    /\ role = "monitor" /\ ent.pc = "wait" /\ cpc # <<>>
    /\ ent' = [ent EXCEPT !.pc = "fetch", !.cp = Head(cpc)] /\ cpc' = <<>>
    /\ UNCHANGED <<server, publisher, role, file, fol, ec, app, torn, faults>>

\* The channel of checkpoints is closed.
EntriesEnd ==
    /\ role = "monitor" /\ ent.pc = "wait" /\ cpc = <<>> /\ fol.pc = "closed"
    /\ ent' = [ent EXCEPT !.pc = "closed"]
    /\ UNCHANGED <<server, publisher, role, file, fol, cpc, ec, app, torn, faults>>

FetchEntry ==
    /\ ent.pc = "fetch" /\ ent.head < Size(ent.cp) /\ EntryAnswered(ent.head, ent.cp)
    /\ ent' = [ent EXCEPT !.pc = IF InclusionVerified(ent.cp) THEN "send" ELSE "failed"]
    /\ UNCHANGED <<server, publisher, role, file, fol, cpc, ec, app, torn, faults>>

\* The entry is not fetched: a warning, and the next one.
SkipEntry ==
    /\ ent.pc = "fetch" /\ ent.head < Size(ent.cp)
    /\ EntryAnswered(ent.head, ent.cp) => Fault
    /\ ~EntryAnswered(ent.head, ent.cp) => UNCHANGED faults
    /\ ent' = [ent EXCEPT !.head = @ + 1] /\ skipped' = skipped \cup {ent.head}
    /\ UNCHANGED <<server, publisher, role, file, fol, cpc, ec, mon, gcp, locked, seen, torn>>

SendEntry ==
    /\ ent.pc = "send" /\ ec = <<>>
    /\ ec' = <<[root |-> ent.cp, index |-> ent.head, value |-> ent.cp[ent.head + 1]]>>
    /\ ent' = [ent EXCEPT !.pc = "fetch", !.head = @ + 1]
    /\ UNCHANGED <<server, publisher, role, file, fol, cpc, app, torn, faults>>

CheckpointRead ==
    /\ ent.pc = "fetch" /\ ent.head >= Size(ent.cp)
    /\ ent' = [ent EXCEPT !.pc = "wait", !.cp = <<>>]
    /\ UNCHANGED <<server, publisher, role, file, fol, cpc, ec, app, torn, faults>>

-----------------------------------------------------------------------------
(* The monitor. *)

TakeEntry ==
    /\ role = "monitor" /\ mon.pc = "wait" /\ ec # <<>>
    /\ mon' = [pc |-> "process", entry |-> Head(ec)] /\ ec' = <<>>
    /\ UNCHANGED <<server, publisher, role, file, fol, cpc, ent, gcp, locked, seen, skipped,
                   torn, faults>>

\* A closed channel gives zero entries until the error is selected.
TakeZero ==
    /\ role = "monitor" /\ mon.pc = "wait" /\ ec = <<>> /\ ent.pc \in {"closed", "failed"}
    /\ mon' = [pc |-> "persist", entry |-> NoEntry]
    /\ UNCHANGED <<server, publisher, role, file, follower, gcp, locked, seen, skipped,
                   torn, faults>>

\* The image of a firmware statement is fetched and searched.
ProcessEntry ==
    /\ mon.pc = "process"
    /\ seen' = seen \cup {<<mon.entry.index, mon.entry.value>>}
    /\ LET firmware == mon.entry.value.type = "firmware"
       IN  /\ firmware => Retrieve(mon.entry.value.image)
           /\ mon' = [mon EXCEPT !.pc = IF firmware THEN "annotate" ELSE "persist"]
    /\ UNCHANGED <<server, publisher, role, file, follower, gcp, locked, skipped, torn, faults>>

\* The image is not fetched: a warning, and the entry counts as processed.
NoImage ==
    /\ mon.pc = "process" /\ mon.entry.value.type = "firmware"
    /\ Retrieve(mon.entry.value.image) => Fault
    /\ ~Retrieve(mon.entry.value.image) => UNCHANGED faults
    /\ seen' = seen \cup {<<mon.entry.index, mon.entry.value>>}
    /\ mon' = [mon EXCEPT !.pc = "persist"]
    /\ UNCHANGED <<server, publisher, role, file, follower, gcp, locked, skipped, torn>>

\* addAnnotationMalware looks the firmware up.
Annotate ==
    /\ mon.pc = "annotate" /\ Annotates(mon.entry.value.image, mon.entry.index)
    /\ mon' = [mon EXCEPT !.pc = "submit"]
    /\ UNCHANGED <<server, publisher, role, file, follower, gcp, locked, seen, skipped, torn, faults>>

\* It logs the annotation.
AddAnnotation ==
    /\ mon.pc = "submit"
    /\ QueueLeaf(Malware(mon.entry.value.image, mon.entry.index))
    /\ mon' = [mon EXCEPT !.pc = "persist"]
    /\ UNCHANGED <<cas, tree, golden, publisher, role, file, follower, gcp, locked, seen, skipped,
                   torn, faults>>

\* The annotation is refused, or not logged: a warning of the monitor.
AnnotationFails ==
    /\ \/ mon.pc = "annotate" /\ ~Annotates(mon.entry.value.image, mon.entry.index) /\ UNCHANGED faults
       \/ mon.pc \in {"annotate", "submit"} /\ Fault
    /\ mon' = [mon EXCEPT !.pc = "persist"]
    /\ UNCHANGED <<server, publisher, role, file, follower, gcp, locked, seen, skipped, torn>>

\* Mutant: one entry too early.
LastEntryEarly(e) == e.index + 2 >= Size(e.root)

LastEntry(e) == e.index = Size(e.root) - 1

\* The checkpoint is written once its last entry is processed.
Persist ==
    /\ mon.pc = "persist"
    /\ mon' = Waiting
    /\ IF LastEntry(mon.entry)
       THEN file' = mon.entry.root
       ELSE UNCHANGED file
    /\ UNCHANGED <<server, publisher, role, follower, gcp, locked, seen, skipped,
                   torn, faults>>

\* The main loop selects an error, and the monitor returns it.
MonitorReturns ==
    /\ role = "monitor" /\ mon.pc = "wait"
    /\ fol.pc = "closed" \/ ent.pc = "failed"
    /\ mon' = [Waiting EXCEPT !.pc = "ended"]
    /\ UNCHANGED <<server, publisher, role, file, follower, gcp, locked, seen, skipped,
                   torn, faults>>

-----------------------------------------------------------------------------
(* The witness. *)

\* Poll receives a checkpoint; a closed channel gives the empty one.
PollReceives ==
    /\ role = "witness" /\ mon.pc = "wait"
    /\ \/ cpc # <<>> /\ mon' = [pc |-> "store", entry |-> [NoEntry EXCEPT !.root = Head(cpc)]]
       \/ cpc = <<>> /\ fol.pc = "closed" /\ mon' = [pc |-> "store", entry |-> NoEntry]
    /\ cpc' = <<>>
    /\ UNCHANGED <<server, publisher, role, file, fol, ent, ec, gcp, locked, seen, skipped,
                   torn, faults>>

\* The file is opened without O_TRUNC: an empty checkpoint changes nothing.
StoreCP ==
    /\ role = "witness" /\ mon.pc = "store" /\ ~locked
    /\ mon' = Waiting /\ gcp' = mon.entry.root
    /\ IF mon.entry.root = <<>> THEN UNCHANGED file
       ELSE file' = mon.entry.root
    /\ UNCHANGED <<server, publisher, role, follower, locked, seen, skipped,
                   torn, faults>>

StoreFails ==
    /\ role = "witness" /\ mon.pc = "store" /\ ~locked /\ Fault
    /\ mon' = Waiting
    /\ UNCHANGED <<server, publisher, role, file, follower, gcp, locked, seen, skipped, torn>>

\* Poll returns ErrConsistency; requests are still served.
PollReturns ==
    /\ role = "witness" /\ mon.pc = "wait" /\ fol.pc = "closed"
    /\ mon' = [Waiting EXCEPT !.pc = "ended"]
    /\ UNCHANGED <<server, publisher, role, file, follower, gcp, locked, seen, skipped,
                   torn, faults>>

\* getCheckpoint takes the lock and does not release it.
GetCheckpoint ==
    /\ role = "witness" /\ ~locked
    /\ locked' = TRUE
    /\ UNCHANGED <<server, publisher, role, file, follower, mon, gcp, seen, skipped, torn, faults>>

RetrieveCP == file

\* The process is killed, or has ended, and is started again from its file.
\* A monitor that holds an empty state file does not start.
RestartFollower ==
    /\ IF role = "monitor" /\ mon.pc = "ended" THEN UNCHANGED faults ELSE Fault
    /\ fol' = Polling(RetrieveCP) /\ cpc' = <<RetrieveCP>> /\ ent' = Reading(RetrieveCP)
    /\ ec' = <<>> /\ mon' = Waiting /\ gcp' = RetrieveCP /\ locked' = FALSE
    /\ UNCHANGED <<server, publisher, role, file, seen, skipped, torn>>

-----------------------------------------------------------------------------

Publish ==
    \/ StoreImage \/ StoreImageFails \/ AddSignedStatement \/ AddFails \/ AwaitGrowth
    \/ AwaitConsistency \/ AwaitNoProof \/ Included \/ NotIncluded \/ PublishFails

Checkpoints == Tick \/ CheckConsistency \/ NoProof \/ SendCheckpoint

Entries ==
    \/ TakeCheckpoint \/ EntriesEnd \/ FetchEntry \/ SkipEntry \/ SendEntry \/ CheckpointRead

Monitor == TakeEntry \/ TakeZero \/ ProcessEntry \/ NoImage \/ Annotate \/ AddAnnotation
            \/ AnnotationFails \/ Persist \/ MonitorReturns

Poll == PollReceives \/ StoreCP \/ StoreFails \/ PollReturns

Next ==
    \/ \E i \in Image : StartPublish(i)
    \/ \E s \in queue : Integrate(s)
    \/ \E n \in 0..MaxSize : Restore(n)
    \/ UpdateRoot \/ RestartPersonality \/ GetCheckpoint \/ RestartFollower
    \/ Publish \/ Checkpoints \/ Entries \/ Monitor \/ Poll

Spec == Init /\ [][Next]_vars

\* The goroutines of the follower run.
FairSpec ==
    /\ Spec
    /\ WF_vars(Checkpoints) /\ WF_vars(Entries) /\ WF_vars(Monitor) /\ WF_vars(Poll)

-----------------------------------------------------------------------------
(* Properties. *)

\* Types of the variables; a channel holds one item at most.
FLTypeOK ==
    /\ cas \subseteq Image /\ noimage \subseteq Image
    /\ queue \subseteq Leaf /\ torn \subseteq Leaf
    /\ tree \in Seq(Leaf) /\ golden \in Seq(Leaf) /\ file \in Seq(Leaf) /\ gcp \in Seq(Leaf)
    /\ Len(cpc) <= 1 /\ Len(ec) <= 1
    /\ ent.head \in 0..MaxSize
    /\ seen \subseteq (0..(MaxSize - 1)) \X Leaf /\ skipped \subseteq 0..(MaxSize - 1)

\* A statement is logged after its image was stored: every firmware statement
\* that Trillian has can be fetched, unless the CAS refused its image
\* (addFirmware).
ImagesStored ==
    \A s \in queue \cup Range(tree) : s.type = "firmware" => s.image \in cas \cup noimage

\* "Now check that the annotation points at something which is actually in
\* this log": an annotation stands behind the firmware statement it names,
\* unless the log lost that statement between the lookup and the submission,
\* which are two calls to Trillian (addAnnotationMalware).
AnnotationsPoint ==
    \A n \in 1..Len(tree) : tree[n].type = "malware" =>
        \/ tree[n].at + 1 < n /\ tree[tree[n].at + 1] = Firmware(tree[n].image)
        \/ tree[n] \in torn

\* What the personality lets into the log, in whatever order statements,
\* annotations, restarts and sequencing come (addFirmware,
\* addAnnotationMalware).
StatementsSound == FLTypeOK /\ ImagesStored /\ AnnotationsPoint

\* A bundle's checkpoint has the statement at the index of its proof, it extends
\* the checkpoint that the publisher saw before it submitted (AwaitInclusion),
\* and its image can be fetched: a publisher whose image was not stored, though
\* the statement was logged, writes none (addFirmware).
BundleSound ==
    update # None =>
        /\ update.index < Size(update.cp)
        /\ update.cp[update.index + 1] = Firmware(update.image)
        /\ Prefix(update.first, update.cp)
        /\ update.image \in cas

\* The monitor's file covers only entries that were processed, or whose fetch
\* failed: a restart leaves none out that was merely on its way (Main).
FileCoversProcessed ==
    role = "monitor" =>
        \A n \in 1..Size(file) : <<n - 1, file[n]>> \in seen \/ n - 1 \in skipped

\* The witness serves no checkpoint that a restart would take back (Poll).
ServedStored == role = "witness" => gcp \in {<<>>, file}

\* The state files of the monitor and of the witness never run ahead of what
\* was done, nor behind what was said (StoreCP in the main loops of the two).
FileSound == FileCoversProcessed /\ ServedStored

\* The checkpoint that a monitor or a witness wrote down is only ever replaced
\* by one that extends it, over all restarts and whatever happened to the log
\* (LogFollower.Checkpoints).
FileExtends == [][Prefix(file, file')]_file

\* While nothing fails, the monitor processes every entry of the log: it is
\* again and again through with the log as the personality shows it.
MonitorCatchesUp ==
    [](faults = 0 /\ role = "monitor") =>
        []<>(\A n \in 1..Size(golden) : \E s \in seen : s[1] = n - 1)
=============================================================================
