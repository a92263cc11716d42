--------------------------- MODULE FirmwareProofs ---------------------------
(***************************************************************************)
(* Proofs about binary transparency for firmware, for any number of        *)
(* entries, restarts, crashes, failing calls and restored backups:         *)
(*                                                                         *)
(* - the log: what the personality lets into it, what a publisher's bundle *)
(*   shows, and what the state files of the monitor and of the witness say;*)
(* - a device that is flashed and booted, for any log and any packages;    *)
(* - the map, for any number of commands that race and die.                *)
(***************************************************************************)
EXTENDS FirmwareLog, FirmwareDevice, FirmwareMap, TLAPS

-----------------------------------------------------------------------------
(* Types. *)

Tree == {t \in Seq(Leaf) : Len(t) <= MaxSize}

\* An entry as the follower hands it on.
EntryOf == [root : Tree, index : 0..(MaxSize - 1), value : Leaf]

ServerTyped ==
    /\ cas \subseteq Image /\ noimage \subseteq Image /\ queue \subseteq Leaf
    /\ torn \subseteq Leaf
    /\ tree \in Tree /\ golden \in Tree
    /\ faults \in 0..MaxFaults /\ role \in {"monitor", "witness"}

PubTyped ==
    /\ pub \in [pc : {"idle", "store", "add", "addFailed", "await", "proof", "inclusion"},
                image : Image \cup {None}, first : Tree, cp : Tree, new : Tree]
    /\ pub.pc # "idle" => pub.image \in Image

FolTyped ==
    /\ file \in Tree /\ gcp \in Tree /\ cpc \in Seq(Tree) /\ Len(cpc) <= 1
    /\ fol \in [pc : {"tick", "send", "closed"}, golden : Tree]
                 \cup [pc : {"proof"}, golden : Tree, cp : Tree]

ReadTyped ==
    /\ ent \in [pc : {"wait", "fetch", "send", "failed", "closed"}, cp : Tree, head : 0..MaxSize]
    /\ ent.pc = "send" => ent.head < Size(ent.cp)
    /\ ec \in Seq(EntryOf) /\ Len(ec) <= 1
    /\ mon \in [pc : {"wait", "process", "annotate", "submit", "persist", "store", "ended"},
                entry : [root : Tree, index : 0..MaxSize, value : Leaf \cup {None}]]
    /\ mon.pc \in {"process", "annotate", "submit"} => mon.entry \in EntryOf
    /\ seen \subseteq (0..(MaxSize - 1)) \X Leaf /\ skipped \subseteq 0..(MaxSize - 1)

LogTyped == ServerTyped /\ PubTyped /\ FolTyped /\ ReadTyped

-----------------------------------------------------------------------------
(* Invariants. *)

\* An annotation points into the tree as it is, if the log lost nothing meanwhile.
Points(s) == (s.at < Len(tree) /\ tree[s.at + 1] = Firmware(s.image)) \/ s \in torn

\* What the monitor submits does, and what waits to be integrated.
Submitted == Malware(mon.entry.value.image, mon.entry.index)

QueuePoints ==
    /\ \A s \in queue : s.type = "malware" => Points(s)
    /\ mon.pc = "submit" => Points(Submitted)

\* The image is where the handler left it before it logs the statement.
RequestStored ==
    /\ pub.pc = "add" => pub.image \in cas
    /\ pub.pc = "addFailed" => pub.image \in noimage

StatementInv == LogTyped /\ ImagesStored /\ AnnotationsPoint /\ QueuePoints /\ RequestStored

\* The image of a statement that the publisher waits for is stored.
AwaitedStored == pub.pc \in {"add", "await", "proof", "inclusion"} => pub.image \in cas

\* The publisher's checkpoint extends the one it started from.
BundleInv == LogTyped /\ AwaitedStored /\ Prefix(pub.first, pub.cp) /\ BundleSound

\* Of the log that the follower has last accepted.
Behind(t) == Prefix(t, fol.golden)

Chain ==
    /\ Behind(file) /\ Behind(ent.cp) /\ Behind(mon.entry.root)
    /\ cpc # <<>> => Behind(cpc[1])
    /\ ec # <<>> => Behind(ec[1].root)

\* Entry n of that log was processed, or could not be fetched.
Handled(n) == <<n - 1, fol.golden[n]>> \in seen \/ n - 1 \in skipped

\* It is on its way.
InHand(n) ==
    \/ mon.pc = "process" /\ mon.entry.index = n - 1
    \/ ec # <<>> /\ ec[1].index = n - 1

\* The monitor has an entry.
Busy == mon.pc \in {"process", "annotate", "submit", "persist"} /\ mon.entry.root # <<>>

Real(e) == e.index < Size(e.root) /\ e.value = e.root[e.index + 1]

MonitorInv ==
    role = "monitor" =>
        /\ mon.pc \in {"wait", "process", "annotate", "submit", "persist", "ended"}
        /\ mon.pc \in {"process", "annotate", "submit"} => Busy
        /\ mon.pc = "persist" => Busy \/ mon.entry = NoEntry
        /\ ent.head <= Size(fol.golden) /\ Size(file) <= ent.head
        /\ \A n \in 1..ent.head : Handled(n) \/ InHand(n)
        /\ Busy => /\ Real(mon.entry) /\ Size(file) <= mon.entry.index
                   /\ mon.entry.index < ent.head
        /\ ec # <<>> => /\ Real(ec[1]) /\ Size(file) <= ec[1].index
                        /\ ec[1].index < ent.head
                        /\ Busy => mon.entry.index < ec[1].index
        /\ \A n \in 1..Size(file) : <<n - 1, file[n]>> \in seen \/ n - 1 \in skipped

WitnessInv ==
    role = "witness" =>
        /\ mon.pc \in {"wait", "store", "ended"} /\ ent.pc = "wait" /\ ec = <<>>
        /\ cpc # <<>> => /\ Size(file) <= Size(cpc[1])
                         /\ mon.pc = "store" => Size(mon.entry.root) <= Size(cpc[1])
        /\ mon.pc = "store" /\ mon.entry.root # <<>> => Size(file) <= Size(mon.entry.root)
        /\ gcp \in {<<>>, file}

Follow == Chain /\ MonitorInv /\ WitnessInv

FollowInv == LogTyped /\ Follow

-----------------------------------------------------------------------------
(* Trees. *)

\* Trees that are bounded, and what makes new ones.
LEMMA TreeFacts ==
  /\ <<>> \in Tree /\ Tree \subseteq Seq(Leaf)
  /\ \A t \in Tree : Len(t) \in Nat /\ Len(t) <= MaxSize
  /\ \A t \in Tree, s \in Leaf : Len(t) < MaxSize => Append(t, s) \in Tree
  /\ \A t \in Tree, n \in Nat : n < Len(t) =>
        /\ SubSeq(t, 1, n) \in Tree /\ Len(SubSeq(t, 1, n)) = n
        /\ \A k \in 1..n : SubSeq(t, 1, n)[k] = t[k]
<1>1. /\ <<>> \in Tree /\ Tree \subseteq Seq(Leaf)
      /\ \A t \in Tree : Len(t) \in Nat /\ Len(t) <= MaxSize
  BY FirmwareAssumption DEF Tree
<1>2. \A t \in Tree, s \in Leaf : Len(t) < MaxSize => Append(t, s) \in Tree
  BY FirmwareAssumption DEF Tree
<1>3. ASSUME NEW t \in Tree, NEW n \in Nat, n < Len(t)
      PROVE  /\ SubSeq(t, 1, n) \in Tree /\ Len(SubSeq(t, 1, n)) = n
             /\ \A k \in 1..n : SubSeq(t, 1, n)[k] = t[k]
  BY <1>3, FirmwareAssumption DEF Tree
<1> QED
  BY <1>1, <1>2, <1>3

\* Prefixes: of the empty tree, of a tree itself, and through a third.
LEMMA PrefixFacts ==
  ASSUME NEW s \in Tree, NEW t \in Tree, NEW u \in Tree
  PROVE  /\ Prefix(<<>>, t) /\ Prefix(t, t)
         /\ Prefix(s, t) /\ Prefix(t, u) => Prefix(s, u)
         /\ Prefix(s, u) /\ Prefix(t, u) /\ Size(s) <= Size(t) => Prefix(s, t)
         /\ Size(s) = 0 => s = <<>>
<1>1. s \in Seq(Leaf) /\ t \in Seq(Leaf) /\ u \in Seq(Leaf)
  BY DEF Tree
<1>2. Prefix(<<>>, t) /\ Prefix(t, t)
  BY <1>1 DEF Prefix
<1>3. Prefix(s, t) /\ Prefix(t, u) => Prefix(s, u)
  BY <1>1 DEF Prefix
<1>4. Prefix(s, u) /\ Prefix(t, u) /\ Size(s) <= Size(t) => Prefix(s, t)
  BY <1>1 DEF Prefix, Size
<1>5. Size(s) = 0 => s = <<>>
  BY <1>1 DEF Size
<1> QED
  BY <1>2, <1>3, <1>4, <1>5

\* Statements are leaves.
LEMMA StatementsAreLeaves ==
  /\ \A i \in Image : Firmware(i) \in Leaf
  /\ \A i \in Image, n \in 0..(MaxSize - 1) : Malware(i, n) \in Leaf
  /\ \A s \in Leaf : s.image \in Image /\ s.type \in {"firmware", "malware"} /\ s.at \in Nat
  /\ \A s \in Leaf : s.type = "firmware" => s = Firmware(s.image)
BY FirmwareAssumption DEF Firmware, Malware

-----------------------------------------------------------------------------
(* Types are kept. *)

\* The steps that leave the publisher alone, and those of the publisher.
LEMMA NextPubTyped ==
  ASSUME LogTyped, [Next]_vars
  PROVE  PubTyped'
<1> USE DEF LogTyped, ServerTyped, PubTyped
<1>1. CASE UNCHANGED pub
  BY <1>1
<1>2. ASSUME NEW i \in Image, StartPublish(i) PROVE PubTyped'
  BY <1>2, TreeFacts DEF StartPublish, Root
<1>a. <<>> \in Tree /\ golden \in Tree
  BY TreeFacts
<1>b. CASE pub' = Idle
  BY <1>a, <1>b DEF Idle
<1>3. CASE StoreImage \/ StoreImageFails \/ AddSignedStatement \/ AddFails
  BY <1>3, <1>b DEF StoreImage, StoreImageFails, AddSignedStatement, AddFails
<1>4. CASE AwaitGrowth \/ AwaitConsistency \/ AwaitNoProof
  BY <1>4, <1>a, <1>b DEF AwaitGrowth, AwaitConsistency, AwaitNoProof, Root
<1>5. CASE Included \/ NotIncluded \/ PublishFails
  BY <1>5, <1>b DEF Included, NotIncluded, PublishFails
<1>6. CASE \/ \E s \in queue : Integrate(s)
           \/ \E n \in 0..MaxSize : Restore(n)
           \/ UpdateRoot \/ RestartPersonality \/ GetCheckpoint \/ RestartFollower
  BY <1>6, <1>1 DEF Integrate, Restore, UpdateRoot, RestartPersonality, GetCheckpoint,
                    RestartFollower, publisher
<1>7. CASE Checkpoints \/ Entries \/ Poll
  BY <1>7, <1>1 DEF Checkpoints, Tick, CheckConsistency, NoProof, SendCheckpoint,
     Entries, TakeCheckpoint, EntriesEnd, FetchEntry, SkipEntry, SendEntry, CheckpointRead,
     Poll, PollReceives, StoreCP, StoreFails, PollReturns, publisher
<1>8. CASE Monitor
  BY <1>8, <1>1 DEF Monitor, TakeEntry, TakeZero, ProcessEntry, NoImage, Annotate,
     AddAnnotation, AnnotationFails, Persist, MonitorReturns, publisher
<1> QED
  BY <1>1, <1>2, <1>3, <1>4, <1>5, <1>6, <1>7, <1>8 DEF Next, Publish, vars, publisher

\* The store, the log, and the personality's golden root.
LEMMA NextServerTyped ==
  ASSUME LogTyped, [Next]_vars
  PROVE  ServerTyped'
<1> USE DEF LogTyped, ServerTyped, PubTyped
<1>1. CASE UNCHANGED <<server, noimage, role, torn>> /\ (Fault \/ UNCHANGED faults)
  BY <1>1, FirmwareAssumption DEF server, Fault
<1>2. ASSUME NEW i \in Image, StartPublish(i) PROVE ServerTyped'
  BY <1>1, <1>2 DEF StartPublish
<1>3. CASE StoreImage \/ StoreImageFails \/ AddSignedStatement \/ AddFails
  BY <1>3, FirmwareAssumption, StatementsAreLeaves
     DEF StoreImage, StoreImageFails, AddSignedStatement, AddFails, QueueLeaf, Fault, server
<1>4. CASE \/ AwaitGrowth \/ AwaitConsistency \/ AwaitNoProof
           \/ Included \/ NotIncluded \/ PublishFails
  BY <1>1, <1>4 DEF AwaitGrowth, AwaitConsistency, AwaitNoProof, Included, NotIncluded,
                    PublishFails
<1>5. ASSUME NEW s \in queue, Integrate(s) PROVE ServerTyped'
  BY <1>5, TreeFacts DEF Integrate, publisher
<1>6. ASSUME NEW n \in 0..MaxSize, Restore(n) PROVE ServerTyped'
  <2>1. mon.pc = "submit" => Malware(mon.entry.value.image, mon.entry.index) \in Leaf
    BY StatementsAreLeaves DEF ReadTyped, EntryOf
  <2> QED
    BY <1>6, <2>1, TreeFacts, FirmwareAssumption DEF Restore, Fault, publisher
<1>7. CASE UpdateRoot \/ RestartPersonality
  BY <1>7, TreeFacts, FirmwareAssumption DEF UpdateRoot, RestartPersonality, Fault, publisher
<1>8. CASE GetCheckpoint \/ RestartFollower
  BY <1>1, <1>8 DEF GetCheckpoint, RestartFollower, publisher
<1>9. CASE Checkpoints \/ Entries \/ Poll
  BY <1>1, <1>9 DEF Checkpoints, Tick, CheckConsistency, NoProof, SendCheckpoint,
     Entries, TakeCheckpoint, EntriesEnd, FetchEntry, SkipEntry, SendEntry, CheckpointRead,
     Poll, PollReceives, StoreCP, StoreFails, PollReturns, publisher
<1>10. CASE \/ TakeEntry \/ TakeZero \/ ProcessEntry \/ NoImage \/ Annotate \/ AnnotationFails
            \/ Persist \/ MonitorReturns
  BY <1>1, <1>10 DEF TakeEntry, TakeZero, ProcessEntry, NoImage, Annotate, AnnotationFails,
     Persist, MonitorReturns, publisher
<1>11. CASE AddAnnotation
  <2>1. mon.entry \in EntryOf
    BY <1>11 DEF ReadTyped, AddAnnotation
  <2>2. Malware(mon.entry.value.image, mon.entry.index) \in Leaf
    BY <2>1, StatementsAreLeaves DEF EntryOf
  <2> QED
    BY <1>11, <2>2 DEF AddAnnotation, QueueLeaf, publisher
<1> QED
  BY <1>1, <1>2, <1>3, <1>4, <1>5, <1>6, <1>7, <1>8, <1>9, <1>10, <1>11
     DEF Next, Publish, Monitor, vars, publisher

\* The follower of checkpoints, and what is on file.
LEMMA NextFolTyped ==
  ASSUME LogTyped, [Next]_vars
  PROVE  FolTyped'
<1> USE DEF LogTyped, FolTyped
<1>1. CASE UNCHANGED <<file, gcp, cpc, fol>>
  BY <1>1
<1>2. CASE \/ \E i \in Image : StartPublish(i)
           \/ \E s \in queue : Integrate(s)
           \/ \E n \in 0..MaxSize : Restore(n)
           \/ UpdateRoot \/ RestartPersonality \/ GetCheckpoint
  BY <1>1, <1>2 DEF StartPublish, Integrate, Restore, UpdateRoot, RestartPersonality,
                    GetCheckpoint, follower, app
<1>3. CASE Publish
  BY <1>1, <1>3 DEF Publish, StoreImage, StoreImageFails, AddSignedStatement, AddFails,
     AwaitGrowth, AwaitConsistency, AwaitNoProof, Included, NotIncluded, PublishFails,
     follower, app
<1>4. CASE Tick \/ CheckConsistency \/ NoProof
  <2>1. golden \in Tree
    BY DEF ServerTyped
  <2>2. fol.golden \in Tree /\ (fol.pc = "proof" => fol.cp \in Tree)
    OBVIOUS
  <2> QED
    BY <1>4, <2>1, <2>2 DEF Tick, CheckConsistency, NoProof, Accept, Polling, Root, app
<1>5. CASE SendCheckpoint
  <2>1. fol.golden \in Tree
    OBVIOUS
  <2>2. <<fol.golden>> \in Seq(Tree) /\ Len(<<fol.golden>>) = 1
    BY <2>1
  <2>3. cpc' = <<fol.golden>> /\ fol' = Polling(fol.golden) /\ UNCHANGED <<file, gcp>>
    BY <1>5 DEF SendCheckpoint, app
  <2>4. fol' \in [pc : {"tick", "send", "closed"}, golden : Tree]
    BY <2>1, <2>3 DEF Polling
  <2>5. cpc' \in Seq(Tree) /\ Len(cpc') <= 1
    BY <2>2, <2>3
  <2>6. file' \in Tree /\ gcp' \in Tree
    BY <2>3
  <2> QED
    BY <2>4, <2>5, <2>6
<1>6. CASE TakeCheckpoint \/ PollReceives
  <2>1. cpc' = <<>> /\ UNCHANGED <<file, gcp, fol>>
    BY <1>6 DEF TakeCheckpoint, PollReceives, app
  <2>2. cpc' \in Seq(Tree) /\ Len(cpc') <= 1
    BY <2>1
  <2> QED
    BY <2>1, <2>2
<1>7. CASE EntriesEnd \/ FetchEntry \/ SkipEntry \/ SendEntry \/ CheckpointRead
  BY <1>1, <1>7 DEF EntriesEnd, FetchEntry, SkipEntry, SendEntry, CheckpointRead, app
<1>8. CASE \/ TakeEntry \/ TakeZero \/ ProcessEntry \/ NoImage \/ Annotate \/ AddAnnotation
           \/ AnnotationFails \/ MonitorReturns
  BY <1>1, <1>8 DEF TakeEntry, TakeZero, ProcessEntry, NoImage, Annotate, AddAnnotation,
                    AnnotationFails, MonitorReturns, follower
<1>9. CASE Persist \/ StoreCP \/ StoreFails \/ PollReturns
  <2>1. mon.entry.root \in Tree
    BY DEF ReadTyped
  <2> QED
    BY <1>9, <2>1 DEF Persist, StoreCP, StoreFails, PollReturns, follower
<1>10. CASE RestartFollower
  BY <1>10 DEF RestartFollower, RetrieveCP, Polling
<1> QED
  BY <1>1, <1>2, <1>3, <1>4, <1>5, <1>6, <1>7, <1>8, <1>9, <1>10
     DEF Next, Checkpoints, Entries, Monitor, Poll, vars, follower, app

\* The reader of entries, the monitor and what they have done.
LEMMA NextReadTyped ==
  ASSUME LogTyped, [Next]_vars
  PROVE  ReadTyped'
<1> USE DEF LogTyped, ReadTyped
<1>0. NoEntry \in [root : Tree, index : 0..MaxSize, value : Leaf \cup {None}]
  BY TreeFacts, FirmwareAssumption DEF NoEntry
<1>1. CASE UNCHANGED <<ent, ec, mon, seen, skipped>>
  BY <1>1
<1>2. CASE \/ \E i \in Image : StartPublish(i)
           \/ \E s \in queue : Integrate(s)
           \/ \E n \in 0..MaxSize : Restore(n)
           \/ UpdateRoot \/ RestartPersonality \/ GetCheckpoint
  BY <1>1, <1>2 DEF StartPublish, Integrate, Restore, UpdateRoot, RestartPersonality,
                    GetCheckpoint, follower, app
<1>3. CASE Publish
  BY <1>1, <1>3 DEF Publish, StoreImage, StoreImageFails, AddSignedStatement, AddFails,
     AwaitGrowth, AwaitConsistency, AwaitNoProof, Included, NotIncluded, PublishFails,
     follower, app
<1>4. CASE Checkpoints
  BY <1>1, <1>4 DEF Checkpoints, Tick, CheckConsistency, NoProof, SendCheckpoint, app
<1>5. CASE TakeCheckpoint
  <2>1. Head(cpc) \in Tree
    BY <1>5 DEF FolTyped, TakeCheckpoint
  <2> QED
    BY <1>5, <2>1 DEF TakeCheckpoint, app
<1>6. CASE EntriesEnd \/ FetchEntry \/ CheckpointRead
  BY <1>6, TreeFacts DEF EntriesEnd, FetchEntry, CheckpointRead, app
<1>7. CASE SkipEntry
  <2>1. ent.head + 1 \in 0..MaxSize /\ ent.head \in 0..(MaxSize - 1)
    BY <1>7, TreeFacts, FirmwareAssumption DEF SkipEntry, Size
  <2> QED
    BY <1>7, <2>1 DEF SkipEntry
<1>8. CASE SendEntry
  <2>1. ent.head + 1 \in 0..MaxSize /\ ent.head \in 0..(MaxSize - 1)
        /\ ent.head + 1 \in 1..Len(ent.cp)
    BY <1>8, TreeFacts, FirmwareAssumption DEF SendEntry, Size
  <2>2. ent.cp[ent.head + 1] \in Leaf
    BY <2>1, TreeFacts
  <2>3. [root |-> ent.cp, index |-> ent.head, value |-> ent.cp[ent.head + 1]] \in EntryOf
    BY <2>1, <2>2 DEF EntryOf
  <2>4. ec' \in Seq(EntryOf) /\ Len(ec') <= 1
    BY <1>8, <2>3 DEF SendEntry
  <2>5. ent' = [ent EXCEPT !.pc = "fetch", !.head = @ + 1] /\ UNCHANGED <<mon, seen, skipped>>
    BY <1>8 DEF SendEntry, app
  <2> QED
    BY <2>1, <2>4, <2>5
<1>9. CASE TakeEntry
  <2>1. Head(ec) \in EntryOf
    BY <1>9 DEF TakeEntry
  <2>2. Head(ec) \in [root : Tree, index : 0..MaxSize, value : Leaf \cup {None}]
    BY <2>1, FirmwareAssumption DEF EntryOf
  <2> QED
    BY <1>9, <2>1, <2>2 DEF TakeEntry
<1>10. CASE \/ TakeZero \/ Annotate \/ AddAnnotation \/ AnnotationFails \/ Persist
            \/ MonitorReturns
  BY <1>0, <1>10 DEF TakeZero, Annotate, AddAnnotation, AnnotationFails, Persist,
                     MonitorReturns, Waiting, follower
<1>11. CASE ProcessEntry \/ NoImage
  <2>1. mon.entry \in EntryOf
    BY <1>11 DEF ProcessEntry, NoImage
  <2>2. <<mon.entry.index, mon.entry.value>> \in (0..(MaxSize - 1)) \X Leaf
    BY <2>1 DEF EntryOf
  <2> QED
    BY <1>11, <2>1, <2>2 DEF ProcessEntry, NoImage, follower
<1>12. CASE PollReceives
  <2>1. cpc # <<>> => [NoEntry EXCEPT !.root = Head(cpc)]
                         \in [root : Tree, index : 0..MaxSize, value : Leaf \cup {None}]
    BY <1>0 DEF FolTyped, NoEntry
  <2> QED
    BY <1>0, <1>12, <2>1 DEF PollReceives
<1>13. CASE StoreCP \/ StoreFails \/ PollReturns
  BY <1>0, <1>13 DEF StoreCP, StoreFails, PollReturns, Waiting, follower
<1>14. CASE RestartFollower
  <2>1. Reading(file) \in [pc : {"wait"}, cp : Tree, head : 0..MaxSize]
    BY TreeFacts DEF FolTyped, Reading, Size
  <2> QED
    BY <1>0, <1>14, <2>1 DEF RestartFollower, RetrieveCP, Waiting, Reading
<1> QED
  BY <1>1, <1>2, <1>3, <1>4, <1>5, <1>6, <1>7, <1>8, <1>9, <1>10, <1>11, <1>12, <1>13, <1>14
     DEF Next, Entries, Monitor, Poll, vars, follower, app

\* Every step keeps the types.
LEMMA NextTyped == LogTyped /\ [Next]_vars => LogTyped'
BY NextPubTyped, NextServerTyped, NextFolTyped, NextReadTyped DEF LogTyped

\* The first state has them.
LEMMA InitTyped == Init => LogTyped
<1> SUFFICES ASSUME Init PROVE LogTyped
  OBVIOUS
<1>1. ServerTyped
  BY TreeFacts, FirmwareAssumption DEF Init, ServerTyped
<1>2. PubTyped
  BY TreeFacts DEF Init, PubTyped, Idle
<1>3. FolTyped
  BY TreeFacts DEF Init, FolTyped, Polling
<1>4. ReadTyped
  BY TreeFacts, FirmwareAssumption DEF Init, ReadTyped, Reading, Waiting, NoEntry, Size
<1> QED
  BY <1>1, <1>2, <1>3, <1>4 DEF LogTyped

-----------------------------------------------------------------------------
(* What the log holds. *)

\* Steps that change neither what is logged nor what is stored.
LEMMA StatementsStand ==
  ASSUME StatementInv, UNCHANGED <<cas, queue, tree, noimage, torn>>, RequestStored',
         UNCHANGED mon \/ mon'.pc # "submit"
  PROVE  (ImagesStored /\ AnnotationsPoint /\ QueuePoints /\ RequestStored)'
BY DEF StatementInv, ImagesStored, AnnotationsPoint, QueuePoints, Points, Submitted

\* A leaf that is queued was stored, if it is firmware, or points into the tree.
LEMMA QueueKeeps ==
  ASSUME StatementInv, NEW s \in Leaf, QueueLeaf(s), UNCHANGED <<cas, tree, noimage, torn>>,
         UNCHANGED mon \/ mon'.pc # "submit",
         s.type = "firmware" => s.image \in cas \cup noimage,
         s.type = "malware" => Points(s)
  PROVE  (ImagesStored /\ AnnotationsPoint /\ QueuePoints)'
<1>1. queue' \subseteq queue \cup {s}
  BY DEF QueueLeaf
<1> QED
  BY <1>1 DEF StatementInv, ImagesStored, AnnotationsPoint, QueuePoints, Points, Submitted

\* Every step keeps what is logged sound.
LEMMA NextStatements == StatementInv /\ [Next]_vars => StatementInv'
<1> SUFFICES ASSUME StatementInv, [Next]_vars
             PROVE  (ImagesStored /\ AnnotationsPoint /\ QueuePoints /\ RequestStored)'
  BY NextTyped DEF StatementInv
<1>0. ServerTyped /\ PubTyped /\ ReadTyped
  BY DEF StatementInv, LogTyped
<1>1. CASE UNCHANGED <<cas, queue, tree, noimage, torn, pub>> /\ (UNCHANGED mon \/ mon'.pc # "submit")
  BY <1>1, StatementsStand DEF StatementInv, RequestStored
<1>2. CASE \E i \in Image : StartPublish(i)
  BY <1>2, StatementsStand DEF StartPublish, server, app, RequestStored
<1>3. CASE StoreImage
  <2>1. RequestStored'
    BY <1>0, <1>3 DEF StoreImage, RequestStored, PubTyped
  <2> QED
    BY <1>3, <2>1 DEF StoreImage, StatementInv, ImagesStored, AnnotationsPoint, QueuePoints,
                      Points, Submitted, app
<1>4. CASE StoreImageFails
  <2>1. RequestStored'
    BY <1>0, <1>4 DEF StoreImageFails, RequestStored, PubTyped
  <2> QED
    BY <1>4, <2>1 DEF StoreImageFails, server, StatementInv, ImagesStored, AnnotationsPoint,
                      QueuePoints, Points, Submitted, app
<1>5. CASE AddSignedStatement
  <2>1. RequestStored'
    BY <1>0, <1>5 DEF AddSignedStatement, RequestStored, PubTyped, Idle
  <2>2. pub.image \in Image /\ pub.image \in cas \cup noimage
    BY <1>0, <1>5 DEF AddSignedStatement, StatementInv, RequestStored, PubTyped
  <2>3. Firmware(pub.image) \in Leaf /\ Firmware(pub.image).type = "firmware"
        /\ Firmware(pub.image).image = pub.image
    BY <2>2, StatementsAreLeaves DEF Firmware
  <2> QED
    BY <1>5, <2>1, <2>2, <2>3, QueueKeeps DEF AddSignedStatement, app
<1>6. CASE AddFails \/ AwaitGrowth \/ AwaitConsistency \/ AwaitNoProof
  <2>1. pub'.pc \in {"idle", "await", "proof", "inclusion"}
    <3>0. CASE pub' = Idle
      BY <3>0 DEF Idle
    <3>1. CASE AddFails \/ AwaitConsistency
      BY <1>0, <3>0, <3>1 DEF AddFails, AwaitConsistency, PubTyped
    <3>2. CASE AwaitGrowth
      BY <1>0, <3>2 DEF AwaitGrowth, PubTyped
    <3>3. CASE AwaitNoProof
      BY <1>0, <3>3 DEF AwaitNoProof, PubTyped
    <3> QED
      BY <1>6, <3>1, <3>2, <3>3
  <2>2. RequestStored'
    BY <2>1 DEF RequestStored
  <2> QED
    BY <1>6, <2>2, StatementsStand DEF AddFails, AwaitGrowth, AwaitConsistency, AwaitNoProof,
                                       server, app
<1>7. CASE Included \/ NotIncluded \/ PublishFails
  <2>1. RequestStored'
    BY <1>0, <1>7 DEF Included, NotIncluded, PublishFails, RequestStored, PubTyped, Idle
  <2> QED
    BY <1>7, <2>1, StatementsStand DEF Included, NotIncluded, PublishFails, server, app
<1>8. ASSUME NEW s \in queue, Integrate(s)
      PROVE  (ImagesStored /\ AnnotationsPoint /\ QueuePoints /\ RequestStored)'
  <2>1. /\ UNCHANGED <<cas, noimage, pub, mon, torn>> /\ queue' = queue \ {s}
        /\ tree' = Append(tree, s)
    BY <1>8 DEF Integrate, publisher, app
  <2>2. /\ tree \in Seq(Leaf) /\ s \in Leaf /\ Len(tree) \in Nat
        /\ Len(tree') = Len(tree) + 1 /\ tree'[Len(tree) + 1] = s
        /\ \A n \in 1..Len(tree) : tree'[n] = tree[n]
    BY <1>0, <2>1 DEF ServerTyped, Tree
  <2>3. ImagesStored'
    <3>1. Range(tree') \subseteq Range(tree) \cup {s}
      BY <2>1, <2>2 DEF Range
    <3> QED
      BY <2>1, <3>1 DEF StatementInv, ImagesStored
  <2>4. AnnotationsPoint'
    BY <2>1, <2>2, StatementsAreLeaves DEF StatementInv, AnnotationsPoint, QueuePoints, Points
  <2>5. QueuePoints'
    <3>1. \A a : a.at \in Nat /\ Points(a) => Points(a)'
      BY <2>1, <2>2 DEF Points
    <3>2. mon.pc = "submit" => Submitted.at \in Nat
      BY <1>0 DEF ReadTyped, EntryOf, Submitted, Malware
    <3>3. Submitted' = Submitted
      BY <2>1 DEF Submitted
    <3>4. \A a \in queue' : a.type = "malware" => Points(a)'
      BY <1>0, <2>1, <3>1, StatementsAreLeaves DEF StatementInv, QueuePoints, ServerTyped
    <3>5. mon'.pc = "submit" => Points(Submitted)'
      BY <2>1, <2>2, <3>2, <3>3 DEF StatementInv, QueuePoints, Points
    <3> QED
      BY <3>4, <3>5 DEF QueuePoints
  <2> QED
    BY <2>1, <2>3, <2>4, <2>5 DEF StatementInv, RequestStored
<1>9. ASSUME NEW n \in 0..MaxSize, Restore(n)
      PROVE  (ImagesStored /\ AnnotationsPoint /\ QueuePoints /\ RequestStored)'
  <2>1. /\ UNCHANGED <<cas, noimage, pub, mon>> /\ queue' = {} /\ tree' = SubSeq(tree, 1, n)
        /\ n < Len(tree) /\ n \in Nat /\ torn \subseteq torn'
        /\ mon.pc = "submit" /\ mon.entry.index >= n => Submitted \in torn'
    BY <1>9 DEF Restore, publisher, app, Submitted
  <2>2. tree \in Seq(Leaf) /\ Len(tree) \in Nat /\ Len(tree') = n /\ tree' \in Seq(Leaf)
        /\ \A k \in 1..n : tree'[k] = tree[k]
    BY <1>0, <2>1, TreeFacts DEF ServerTyped
  <2>3. ImagesStored'
    <3>1. Range(tree') \subseteq Range(tree)
      BY <2>1, <2>2 DEF Range
    <3> QED
      BY <2>1, <3>1 DEF StatementInv, ImagesStored
  <2>4. AnnotationsPoint'
    <3> SUFFICES ASSUME NEW k \in 1..n, tree[k].type = "malware"
                 PROVE  \/ tree[k].at + 1 < k /\ tree'[tree[k].at + 1] = Firmware(tree[k].image)
                        \/ tree[k] \in torn'
      BY <2>2 DEF AnnotationsPoint
    <3>1. k \in 1..Len(tree) /\ tree[k] \in Leaf /\ tree[k].at \in Nat
      BY <2>1, <2>2, StatementsAreLeaves
    <3> QED
      BY <2>1, <2>2, <3>1 DEF StatementInv, AnnotationsPoint
  <2>5. mon'.pc = "submit" => Points(Submitted)'
    <3>1. CASE mon.pc = "submit" /\ mon.entry.index < n
      <4>1. Submitted.at = mon.entry.index /\ mon.entry.index \in Nat /\ Submitted' = Submitted
        BY <1>0, <2>1, <3>1 DEF ReadTyped, EntryOf, Submitted, Malware
      <4>2. Points(Submitted)
        BY <3>1 DEF StatementInv, QueuePoints
      <4> QED
        BY <2>1, <2>2, <3>1, <4>1, <4>2 DEF Points
    <3>2. CASE mon.pc = "submit" /\ ~(mon.entry.index < n)
      <4>1. mon.entry.index \in Nat /\ Submitted' = Submitted
        BY <1>0, <2>1, <3>2 DEF ReadTyped, EntryOf, Submitted
      <4> QED
        BY <2>1, <3>2, <4>1 DEF Points
    <3> QED
      BY <2>1, <3>1, <3>2
  <2> QED
    BY <2>1, <2>3, <2>4, <2>5 DEF StatementInv, RequestStored, QueuePoints
<1>10. CASE UpdateRoot \/ RestartPersonality \/ GetCheckpoint \/ RestartFollower
  BY <1>1, <1>10 DEF UpdateRoot, RestartPersonality, GetCheckpoint, RestartFollower, server,
                     publisher, app, Waiting
<1>11. CASE Checkpoints \/ Entries \/ Poll
  BY <1>1, <1>11 DEF Checkpoints, Tick, CheckConsistency, NoProof, SendCheckpoint,
     Entries, TakeCheckpoint, EntriesEnd, FetchEntry, SkipEntry, SendEntry, CheckpointRead,
     Poll, PollReceives, StoreCP, StoreFails, PollReturns, publisher, server, app, Waiting
<1>12. CASE TakeEntry \/ TakeZero \/ Persist \/ MonitorReturns
  BY <1>1, <1>12 DEF TakeEntry, TakeZero, Persist, MonitorReturns, publisher, server, Waiting
<1>14. CASE ProcessEntry \/ NoImage \/ AnnotationFails
  <2>1. mon'.pc # "submit"
    BY <1>0, <1>14 DEF ProcessEntry, NoImage, AnnotationFails, ReadTyped
  <2> QED
    BY <1>1, <1>14, <2>1 DEF ProcessEntry, NoImage, AnnotationFails, publisher, server
<1>15. CASE Annotate
  <2>1. UNCHANGED <<cas, queue, tree, noimage, torn, pub>> /\ mon'.entry = mon.entry
        /\ Annotates(mon.entry.value.image, mon.entry.index)
    BY <1>0, <1>15 DEF Annotate, server, publisher, ReadTyped
  <2>2. Points(Submitted)'
    BY <2>1 DEF Annotates, Points, Submitted, Malware, Size
  <2> QED
    BY <2>1, <2>2 DEF StatementInv, ImagesStored, AnnotationsPoint, QueuePoints, RequestStored,
                      Points
<1>13. CASE AddAnnotation
  <2>1. UNCHANGED <<cas, tree, noimage, torn, pub>> /\ mon.entry \in EntryOf
        /\ mon.pc = "submit" /\ mon'.pc = "persist" /\ QueueLeaf(Submitted)
    BY <1>0, <1>13 DEF AddAnnotation, publisher, ReadTyped, Submitted
  <2>2. Submitted \in Leaf /\ Submitted.type = "malware" /\ Points(Submitted)
    BY <2>1, StatementsAreLeaves DEF EntryOf, Malware, Submitted, StatementInv, QueuePoints
  <2>3. PICK s : s = Submitted
    OBVIOUS
  <2> QED
    BY <2>1, <2>2, <2>3, QueueKeeps DEF StatementInv, RequestStored
<1> QED
  BY <1>1, <1>2, <1>3, <1>4, <1>5, <1>6, <1>7, <1>8, <1>9, <1>10, <1>11, <1>12, <1>13,
     <1>14, <1>15
     DEF Next, Publish, Monitor, vars, server, publisher, app

\* What the personality lets into the log is sound, in whatever order
\* statements, annotations, sequencing, restarts and restored backups come:
\* every firmware statement has its image, unless the store refused it, and every
\* annotation stands behind the statement that it names, unless a backup was
\* restored between its lookup and its submission.
THEOREM StatementsAlwaysSound == Spec => []StatementsSound
<1>1. Init => StatementInv
  <2> SUFFICES ASSUME Init PROVE StatementInv
    OBVIOUS
  <2>1. ImagesStored /\ AnnotationsPoint
    BY DEF Init, ImagesStored, AnnotationsPoint, Range
  <2>2. QueuePoints /\ RequestStored
    BY DEF Init, QueuePoints, RequestStored, Idle, Waiting
  <2> QED
    BY <2>1, <2>2, InitTyped DEF StatementInv
<1>2. StatementInv => StatementsSound
  <2> SUFFICES ASSUME StatementInv PROVE FLTypeOK
    BY DEF StatementInv, StatementsSound
  <2> QED
    BY TreeFacts DEF StatementInv, LogTyped, ServerTyped, FolTyped, ReadTyped, FLTypeOK
<1> QED
  BY <1>1, <1>2, NextStatements, PTL DEF Spec

-----------------------------------------------------------------------------
(* What a bundle shows. *)

\* Steps of anyone but the publisher.
LEMMA OthersKeepBundle ==
  ASSUME BundleInv, UNCHANGED <<pub, update>>, cas \subseteq cas'
  PROVE  Prefix(pub.first, pub.cp)' /\ BundleSound'
BY DEF BundleInv, BundleSound

\* A publisher that gives up, or is through.
LEMMA IdleKeepsBundle ==
  ASSUME BundleInv, pub' = Idle, UNCHANGED update, cas \subseteq cas'
  PROVE  Prefix(pub.first, pub.cp)' /\ BundleSound'
<1>1. Prefix(<<>>, <<>>)
  BY TreeFacts, PrefixFacts
<1> QED
  BY <1>1 DEF BundleInv, BundleSound, Idle

\* No image leaves the store, and the publisher waits only for stored ones.
LEMMA NextAwaited ==
  ASSUME LogTyped, AwaitedStored, [Next]_vars
  PROVE  cas \subseteq cas' /\ AwaitedStored'
<1>0. PubTyped
  BY DEF LogTyped
<1>1. CASE UNCHANGED <<cas, pub>>
  BY <1>1 DEF AwaitedStored
<1>2. CASE pub' = Idle /\ cas' = cas
  BY <1>2 DEF AwaitedStored, Idle
<1>3. CASE \E i \in Image : StartPublish(i)
  BY <1>3 DEF StartPublish, server, AwaitedStored
<1>4. CASE StoreImage \/ StoreImageFails
  BY <1>0, <1>4 DEF StoreImage, StoreImageFails, server, AwaitedStored, PubTyped
<1>5. CASE AddSignedStatement \/ AddFails
  BY <1>0, <1>2, <1>5 DEF AddSignedStatement, AddFails, server, AwaitedStored, PubTyped
<1>6. CASE AwaitGrowth \/ AwaitConsistency \/ AwaitNoProof
  BY <1>0, <1>2, <1>6 DEF AwaitGrowth, AwaitConsistency, AwaitNoProof, server, AwaitedStored,
                          PubTyped
<1>7. CASE Included \/ NotIncluded \/ PublishFails
  BY <1>0, <1>2, <1>7 DEF Included, NotIncluded, PublishFails, server, AwaitedStored, PubTyped
<1>8. CASE \/ \E s \in queue : Integrate(s)
           \/ \E n \in 0..MaxSize : Restore(n)
           \/ UpdateRoot \/ RestartPersonality \/ GetCheckpoint \/ RestartFollower
  BY <1>1, <1>8 DEF Integrate, Restore, UpdateRoot, RestartPersonality, GetCheckpoint,
                    RestartFollower, server, publisher
<1>9. CASE Checkpoints \/ Entries \/ Poll
  BY <1>1, <1>9 DEF Checkpoints, Tick, CheckConsistency, NoProof, SendCheckpoint,
     Entries, TakeCheckpoint, EntriesEnd, FetchEntry, SkipEntry, SendEntry, CheckpointRead,
     Poll, PollReceives, StoreCP, StoreFails, PollReturns, server, publisher
<1>10. CASE Monitor
  BY <1>1, <1>10 DEF Monitor, TakeEntry, TakeZero, ProcessEntry, NoImage, Annotate,
     AddAnnotation, AnnotationFails, Persist, MonitorReturns, server, publisher
<1> QED
  BY <1>1, <1>3, <1>4, <1>5, <1>6, <1>7, <1>8, <1>9, <1>10
     DEF Next, Publish, vars, server, publisher

\* Every step of the publisher keeps its checkpoint behind the first one, and
\* its bundles sound.
LEMMA NextBundle == BundleInv /\ [Next]_vars => BundleInv'
<1> SUFFICES ASSUME BundleInv, [Next]_vars
             PROVE  Prefix(pub.first, pub.cp)' /\ BundleSound'
  BY NextTyped, NextAwaited DEF BundleInv
<1>c. cas \subseteq cas'
  BY NextAwaited DEF BundleInv
<1>0. /\ pub \in [pc : {"idle", "store", "add", "addFailed", "await", "proof", "inclusion"},
                  image : Image \cup {None}, first : Tree, cp : Tree, new : Tree]
      /\ golden \in Tree /\ tree \in Tree /\ Prefix(pub.first, pub.cp)
      /\ pub.first \in Tree /\ pub.cp \in Tree /\ pub.new \in Tree
  BY DEF BundleInv, LogTyped, PubTyped, ServerTyped
<1>1. CASE UNCHANGED <<pub, update>>
  BY <1>1, <1>c, OthersKeepBundle
<1>2. CASE pub' = Idle /\ UNCHANGED update
  BY <1>2, <1>c, IdleKeepsBundle
<1>3. CASE pub'.first = pub.first /\ pub'.cp = pub.cp /\ UNCHANGED update
  BY <1>3, <1>c DEF BundleInv, BundleSound
<1>4. ASSUME NEW i \in Image, StartPublish(i)
      PROVE  Prefix(pub.first, pub.cp)' /\ BundleSound'
  <2>1. pub'.first = golden /\ pub'.cp = golden /\ update' = update
    BY <1>4 DEF StartPublish, Root
  <2> QED
    BY <1>0, <1>c, <2>1, PrefixFacts DEF BundleInv, BundleSound
<1>5. CASE StoreImage \/ StoreImageFails \/ AddSignedStatement \/ AddFails
  BY <1>0, <1>2, <1>3, <1>5 DEF StoreImage, StoreImageFails, AddSignedStatement, AddFails
<1>6. CASE AwaitNoProof \/ NotIncluded \/ PublishFails
  BY <1>0, <1>2, <1>3, <1>6 DEF AwaitNoProof, NotIncluded, PublishFails
<1>7. CASE AwaitGrowth
  <2>1. CASE Size(pub.cp) > 0
    BY <1>0, <1>3, <1>7, <2>1 DEF AwaitGrowth
  <2>2. CASE ~(Size(pub.cp) > 0)
    <3>1. pub'.first = pub.first /\ pub'.cp = golden /\ update' = update
      BY <1>0, <1>7, <2>2 DEF AwaitGrowth, Root
    <3>2. Len(pub.first) = 0
      BY <1>0, <2>2, TreeFacts DEF Prefix, Size
    <3>3. Prefix(pub.first, golden)
      BY <1>0, <3>2, TreeFacts DEF Prefix
    <3> QED
      BY <1>c, <3>1, <3>3 DEF BundleInv, BundleSound
  <2> QED
    BY <2>1, <2>2
<1>8. CASE AwaitConsistency
  <2>1. CASE ~ConsistencyVerified(pub.cp, pub.new)
    BY <1>2, <1>8, <2>1 DEF AwaitConsistency
  <2>2. CASE ConsistencyVerified(pub.cp, pub.new)
    <3>1. pub'.first = pub.first /\ pub'.cp = pub.new /\ update' = update
      BY <1>0, <1>8, <2>2 DEF AwaitConsistency
    <3>2. Prefix(pub.cp, pub.new)
      BY <1>0, <1>8, <2>2, PrefixFacts
         DEF AwaitConsistency, ConsistencyAnswered, ConsistencyVerified
    <3>3. Prefix(pub.first, pub.new)
      BY <1>0, <3>2, PrefixFacts
    <3> QED
      BY <1>c, <3>1, <3>3 DEF BundleInv, BundleSound
  <2> QED
    BY <2>1, <2>2
<1>9. CASE Included
  <2> DEFINE n == CHOOSE k \in 1..Size(pub.cp) : tree[k] = Firmware(pub.image)
  <2>1. /\ n \in 1..Size(pub.cp) /\ tree[n] = Firmware(pub.image)
        /\ Prefix(pub.cp, tree)
    BY <1>9 DEF Included, InclusionAnswered, InclusionVerified
  <2>2. /\ update' = [image |-> pub.image, first |-> pub.first, cp |-> pub.cp, index |-> n - 1]
        /\ pub' = Idle
    BY <1>9 DEF Included
  <2> HIDE DEF n
  <2>3. Len(pub.cp) \in Nat
    BY <1>0, TreeFacts
  <2>4. pub.cp[n] = Firmware(pub.image) /\ n - 1 < Size(pub.cp) /\ (n - 1) + 1 = n
    BY <2>1, <2>3 DEF Prefix, Size
  <2>5. BundleSound'
    <3>1. pub.image \in cas'
      BY <1>9, <1>c DEF Included, BundleInv, AwaitedStored
    <3> QED
      BY <1>0, <2>2, <2>4, <3>1 DEF BundleSound
  <2>6. Prefix(<<>>, <<>>)
    BY TreeFacts, PrefixFacts
  <2> QED
    BY <2>2, <2>5, <2>6 DEF Idle
<1>10. CASE \/ \E s \in queue : Integrate(s)
            \/ \E n \in 0..MaxSize : Restore(n)
            \/ UpdateRoot \/ RestartPersonality \/ GetCheckpoint \/ RestartFollower
  BY <1>1, <1>10 DEF Integrate, Restore, UpdateRoot, RestartPersonality, GetCheckpoint,
                     RestartFollower, publisher
<1>11. CASE Checkpoints \/ Entries \/ Poll
  BY <1>1, <1>11 DEF Checkpoints, Tick, CheckConsistency, NoProof, SendCheckpoint,
     Entries, TakeCheckpoint, EntriesEnd, FetchEntry, SkipEntry, SendEntry, CheckpointRead,
     Poll, PollReceives, StoreCP, StoreFails, PollReturns, publisher
<1>12. CASE Monitor
  BY <1>1, <1>12 DEF Monitor, TakeEntry, TakeZero, ProcessEntry, NoImage, Annotate,
     AddAnnotation, AnnotationFails, Persist, MonitorReturns, publisher
<1> QED
  BY <1>1, <1>4, <1>5, <1>6, <1>7, <1>8, <1>9, <1>10, <1>11, <1>12
     DEF Next, Publish, vars, publisher

\* A bundle's checkpoint has the statement where its proof says, and extends
\* the checkpoint that the publisher saw before it submitted, whatever the log
\* was restored to in between; and its image is stored.
THEOREM BundlesAlwaysSound == Spec => []BundleSound
<1>1. Init => BundleInv
  <2> SUFFICES ASSUME Init PROVE BundleInv
    OBVIOUS
  <2>1. Prefix(<<>>, <<>>)
    BY TreeFacts, PrefixFacts
  <2>2. Prefix(pub.first, pub.cp)
    BY <2>1 DEF Init, Idle
  <2>3. BundleSound /\ AwaitedStored
    BY DEF Init, BundleSound, AwaitedStored, Idle
  <2> QED
    BY <2>2, <2>3, InitTyped DEF BundleInv
<1>2. BundleInv => BundleSound
  BY DEF BundleInv
<1> QED
  BY <1>1, <1>2, NextBundle, PTL DEF Spec

-----------------------------------------------------------------------------
(* What the state files say. *)

\* The item in a channel.
LEMMA ChannelItem ==
  ASSUME NEW S, NEW q \in Seq(S), q # <<>>
  PROVE  q[1] \in S /\ Head(q) = q[1]
<1>1. Len(q) # 0 /\ Len(q) \in Nat
  OBVIOUS
<1>2. 1 \in 1..Len(q)
  BY <1>1
<1> QED
  BY <1>2

\* Types of what a follower holds.
LEMMA FollowFacts ==
  ASSUME FollowInv
  PROVE  /\ fol.golden \in Tree /\ file \in Tree /\ gcp \in Tree /\ golden \in Tree
         /\ tree \in Tree /\ role \in {"monitor", "witness"}
         /\ ent.cp \in Tree /\ ent.head \in Nat /\ mon.entry.root \in Tree
         /\ mon.entry.index \in Nat
         /\ cpc # <<>> => cpc[1] \in Tree /\ Head(cpc) = cpc[1]
         /\ ec # <<>> => /\ ec[1] \in EntryOf /\ Head(ec) = ec[1]
                         /\ ec[1].root \in Tree /\ ec[1].index \in Nat
         /\ fol.pc = "proof" => fol.cp \in Tree
<1>1. ServerTyped /\ FolTyped /\ ReadTyped
  BY DEF FollowInv, LogTyped
<1>2. fol.golden \in Tree /\ (fol.pc = "proof" => fol.cp \in Tree)
  BY <1>1 DEF FolTyped
<1>3. cpc # <<>> => cpc[1] \in Tree /\ Head(cpc) = cpc[1]
  BY <1>1, ChannelItem DEF FolTyped
<1>4. ec # <<>> => ec[1] \in EntryOf /\ Head(ec) = ec[1]
  BY <1>1, ChannelItem DEF ReadTyped
<1>5. ec # <<>> => ec[1].root \in Tree /\ ec[1].index \in Nat
  BY <1>4 DEF EntryOf
<1>6. /\ ent.cp \in Tree /\ ent.head \in Nat /\ mon.entry.root \in Tree
      /\ mon.entry.index \in Nat
  BY <1>1 DEF ReadTyped
<1>7. /\ file \in Tree /\ gcp \in Tree /\ golden \in Tree
      /\ tree \in Tree /\ role \in {"monitor", "witness"}
  BY <1>1 DEF FolTyped, ServerTyped
<1> QED
  BY <1>2, <1>3, <1>4, <1>5, <1>6, <1>7

\* Steps of the personality and of the publisher.
LEMMA OthersKeepFollow ==
  ASSUME FollowInv, UNCHANGED <<role, file, gcp, fol, cpc, ent, ec, mon, seen, skipped>>
  PROVE  Follow'
BY DEF FollowInv, Follow, Chain, Behind, MonitorInv, WitnessInv, Busy, Handled, InHand, Real

\* A checkpoint is accepted that extends the last one.
LEMMA GoldenGrows ==
  ASSUME FollowInv, fol'.golden \in Tree, Prefix(fol.golden, fol'.golden),
         UNCHANGED <<role, file, gcp, cpc, ent, ec, mon, seen, skipped>>
  PROVE  Follow'
<1>1. Chain'
  BY FollowFacts, PrefixFacts DEF FollowInv, Follow, Chain, Behind
<1>2. MonitorInv'
  <2>1. /\ Len(fol.golden) \in Nat /\ Len(fol'.golden) \in Nat
        /\ Len(fol.golden) <= Len(fol'.golden)
        /\ \A n \in 1..Len(fol.golden) : fol'.golden[n] = fol.golden[n]
    BY FollowFacts, TreeFacts DEF Prefix
  <2> SUFFICES ASSUME role = "monitor" PROVE MonitorInv'
    BY DEF MonitorInv
  <2>2. ent.head <= Len(fol.golden) /\ \A n \in 1..ent.head : Handled(n) \/ InHand(n)
    BY DEF FollowInv, Follow, MonitorInv, Size
  <2>3. \A n \in 1..ent.head : Handled(n)' \/ InHand(n)'
    BY <2>1, <2>2, FollowFacts DEF Handled, InHand
  <2>4. (ent.head <= Size(fol.golden))'
    BY <2>1, <2>2, FollowFacts DEF Size
  <2> QED
    BY <2>3, <2>4 DEF FollowInv, Follow, MonitorInv, Busy, Real
<1>3. WitnessInv'
  BY DEF FollowInv, Follow, WitnessInv
<1> QED
  BY <1>1, <1>2, <1>3 DEF Follow

\* LogFollower.Checkpoints.
LEMMA CheckpointsKeepFollow ==
  ASSUME FollowInv, Checkpoints
  PROVE  Follow'
<1>1. CASE Tick
  <2>1. UNCHANGED <<role, file, gcp, cpc, ent, ec, mon, seen, skipped>>
    BY <1>1 DEF Tick, app
  <2>2. CASE fol'.golden = fol.golden
    BY <2>1, <2>2, GoldenGrows, FollowFacts, PrefixFacts
  <2>3. CASE ~NeedsProof(fol.golden) /\ fol'.golden = golden
    <3>1. fol.golden = <<>>
      BY <2>3, FollowFacts, PrefixFacts DEF NeedsProof
    <3> QED
      BY <2>1, <2>3, <3>1, GoldenGrows, FollowFacts, PrefixFacts
  <2> QED
    BY <1>1, <2>2, <2>3 DEF Tick, Accept, Root
<1>2. CASE CheckConsistency
  <2>1. UNCHANGED <<role, file, gcp, cpc, ent, ec, mon, seen, skipped>>
    BY <1>2 DEF CheckConsistency, app
  <2>2. CASE fol'.golden = fol.golden
    BY <2>1, <2>2, GoldenGrows, FollowFacts, PrefixFacts
  <2>3. CASE ConsistencyVerified(fol.golden, fol.cp) /\ fol'.golden = fol.cp
    <3>1. fol.cp \in Tree /\ Size(fol.golden) <= Size(fol.cp)
      BY <1>2, FollowFacts DEF CheckConsistency, ConsistencyAnswered
    <3>2. Prefix(fol.golden, fol.cp)
      BY <2>3, <3>1, FollowFacts, PrefixFacts DEF ConsistencyVerified
    <3> QED
      BY <2>1, <2>3, <3>1, <3>2, GoldenGrows
  <2> QED
    BY <1>2, <2>2, <2>3 DEF CheckConsistency, Accept
<1>3. CASE NoProof
  <2>1. UNCHANGED <<role, file, gcp, cpc, ent, ec, mon, seen, skipped>>
        /\ fol'.golden = fol.golden
    BY <1>3 DEF NoProof, app, Polling
  <2> QED
    BY <2>1, GoldenGrows, FollowFacts, PrefixFacts
<1>4. CASE SendCheckpoint
  <2>1. /\ UNCHANGED <<role, file, gcp, ent, ec, mon, seen, skipped>>
        /\ cpc' = <<fol.golden>> /\ fol'.golden = fol.golden
    BY <1>4 DEF SendCheckpoint, app, Polling
  <2>2. Prefix(fol.golden, fol.golden) /\ cpc'[1] = fol.golden
    BY <2>1, FollowFacts, PrefixFacts
  <2>3. Chain'
    BY <2>1, <2>2 DEF FollowInv, Follow, Chain, Behind
  <2>4. MonitorInv'
    BY <2>1 DEF FollowInv, Follow, MonitorInv, Busy, Handled, InHand, Real
  <2>5. Size(file) <= Size(fol.golden) /\ Size(mon.entry.root) <= Size(fol.golden)
    BY DEF FollowInv, Follow, Chain, Behind, Prefix, Size
  <2>6. WitnessInv'
    BY <2>1, <2>2, <2>5 DEF FollowInv, Follow, WitnessInv
  <2> QED
    BY <2>3, <2>4, <2>6 DEF Follow
<1> QED
  BY <1>1, <1>2, <1>3, <1>4 DEF Checkpoints

\* The invariant of the monitor, as long as there is one.
LEMMA MonitorFacts ==
  ASSUME FollowInv, role = "monitor"
  PROVE  /\ mon.pc \in {"wait", "process", "annotate", "submit", "persist", "ended"}
         /\ mon.pc \in {"process", "annotate", "submit"} => Busy
         /\ mon.pc = "persist" => Busy \/ mon.entry = NoEntry
         /\ ent.head <= Size(fol.golden) /\ Size(file) <= ent.head
         /\ \A n \in 1..ent.head : Handled(n) \/ InHand(n)
         /\ Busy => /\ Real(mon.entry) /\ Size(file) <= mon.entry.index
                    /\ mon.entry.index < ent.head
         /\ ec # <<>> => /\ Real(ec[1]) /\ Size(file) <= ec[1].index
                         /\ ec[1].index < ent.head
                         /\ Busy => mon.entry.index < ec[1].index
         /\ \A n \in 1..Size(file) : <<n - 1, file[n]>> \in seen \/ n - 1 \in skipped
         /\ Size(file) \in Nat /\ Size(fol.golden) \in Nat
BY FollowFacts, TreeFacts DEF FollowInv, Follow, MonitorInv, Size

\* LogFollower.Entries: every index up to the head is handled or in hand.
LEMMA EntriesKeepFollow ==
  ASSUME FollowInv, Entries
  PROVE  Follow'
<1>0. role = "monitor" /\ role' = role
  BY FollowFacts DEF Entries, TakeCheckpoint, EntriesEnd, FetchEntry, SkipEntry, SendEntry,
     CheckpointRead, FollowInv, Follow, WitnessInv
<1>1. WitnessInv'
  BY <1>0 DEF WitnessInv
<1>2. CASE TakeCheckpoint \/ EntriesEnd \/ FetchEntry \/ CheckpointRead
  <2>1. /\ UNCHANGED <<role, file, gcp, fol, ec, mon, seen, skipped>>
        /\ cpc' = cpc \/ cpc' = <<>>
    BY <1>2 DEF TakeCheckpoint, EntriesEnd, FetchEntry, CheckpointRead, app
  <2>2. ent'.head = ent.head /\ (ent'.cp = ent.cp \/ ent'.cp = <<>> \/ (cpc # <<>> /\ ent'.cp = cpc[1]))
    BY <1>2, FollowFacts DEF TakeCheckpoint, EntriesEnd, FetchEntry, CheckpointRead, FollowInv,
       LogTyped, ReadTyped
  <2>3. Chain'
    BY <2>1, <2>2, FollowFacts, PrefixFacts DEF FollowInv, Follow, Chain, Behind
  <2>4. MonitorInv'
    BY <2>1, <2>2 DEF FollowInv, Follow, MonitorInv, Busy, Handled, InHand, Real
  <2> QED
    BY <1>1, <2>3, <2>4 DEF Follow
<1>3. CASE SkipEntry
  <2>1. /\ UNCHANGED <<role, file, gcp, fol, cpc, ec, mon, seen>>
        /\ skipped' = skipped \cup {ent.head}
        /\ ent'.head = ent.head + 1 /\ ent'.cp = ent.cp /\ ent.head < Size(ent.cp)
    BY <1>3 DEF SkipEntry, FollowInv, LogTyped, ReadTyped
  <2>2. Chain'
    BY <2>1 DEF FollowInv, Follow, Chain, Behind
  <2>3. ent.head + 1 <= Size(fol.golden)
    BY <2>1, FollowFacts, TreeFacts DEF FollowInv, Follow, Chain, Behind, Prefix, Size
  <2>4. \A n \in 1..(ent.head + 1) : Handled(n)' \/ InHand(n)'
    <3>0. PICK h : h = ent.head + 1
      OBVIOUS
    <3>1. ent.head \in Nat /\ Handled(h)'
      BY <2>1, <3>0, FollowFacts DEF Handled
    <3>2. \A n \in 1..ent.head : Handled(n)' \/ InHand(n)'
      BY <1>0, <2>1, MonitorFacts DEF Handled, InHand
    <3>3. \A n \in 1..(ent.head + 1) : n \in 1..ent.head \/ n = ent.head + 1
      BY <3>1
    <3> QED
      BY <3>0, <3>1, <3>2, <3>3
  <2>5. MonitorInv'
    BY <1>0, <2>1, <2>3, <2>4, FollowFacts, MonitorFacts DEF MonitorInv, Busy, Real
  <2> QED
    BY <1>1, <2>2, <2>5 DEF Follow
<1>4. CASE SendEntry
  <2> DEFINE e == [root |-> ent.cp, index |-> ent.head, value |-> ent.cp[ent.head + 1]]
  <2>1. /\ UNCHANGED <<role, file, gcp, fol, cpc, mon, seen, skipped>>
        /\ ec = <<>> /\ ec' = <<e>>
        /\ ent'.head = ent.head + 1 /\ ent'.cp = ent.cp /\ ent.head < Size(ent.cp)
    BY <1>4 DEF SendEntry, FollowInv, LogTyped, ReadTyped, app
  <2>2. ec' # <<>> /\ ec'[1] = e /\ e.root = ent.cp /\ e.index = ent.head
        /\ e.value = ent.cp[ent.head + 1]
    BY <2>1
  <2> HIDE DEF e
  <2>3. Chain'
    BY <2>1, <2>2 DEF FollowInv, Follow, Chain, Behind
  <2>4. ent.head + 1 <= Size(fol.golden)
    BY <2>1, FollowFacts, TreeFacts DEF FollowInv, Follow, Chain, Behind, Prefix, Size
  <2>5. \A n \in 1..(ent.head + 1) : Handled(n)' \/ InHand(n)'
    BY <1>0, <2>1, <2>2, FollowFacts, MonitorFacts DEF Handled, InHand
  <2>6. Real(ec'[1])
    BY <2>1, <2>2 DEF Real
  <2>7. MonitorInv'
    BY <1>0, <2>1, <2>2, <2>4, <2>5, <2>6, FollowFacts, MonitorFacts DEF MonitorInv, Busy, Real
  <2> QED
    BY <1>1, <2>3, <2>7 DEF Follow
<1> QED
  BY <1>2, <1>3, <1>4 DEF Entries

\* The monitor: an entry in hand becomes one that was processed, and the
\* checkpoint is written when all entries before its last were.
LEMMA MonitorKeepsFollow ==
  ASSUME FollowInv, Monitor
  PROVE  Follow'
<1>0. role = "monitor" /\ role' = role
  BY FollowFacts DEF Monitor, TakeEntry, TakeZero, ProcessEntry, NoImage, Annotate,
     AddAnnotation, AnnotationFails, Persist, MonitorReturns, FollowInv, Follow, WitnessInv
<1>1. WitnessInv'
  BY <1>0 DEF WitnessInv
<1>2. CASE TakeEntry
  <2>1. /\ UNCHANGED <<role, file, gcp, fol, cpc, ent, seen, skipped>>
        /\ mon.pc = "wait" /\ ec # <<>> /\ ec' = <<>>
        /\ mon'.pc = "process" /\ mon'.entry = ec[1]
    BY <1>2, FollowFacts DEF TakeEntry
  <2>2. Chain'
    BY <2>1 DEF FollowInv, Follow, Chain, Behind
  <2>3. ec[1].root # <<>>
    BY <1>0, <2>1, FollowFacts, MonitorFacts DEF Real, Size
  <2>4. \A n \in 1..ent.head : Handled(n)' \/ InHand(n)'
    BY <1>0, <2>1, MonitorFacts DEF Handled, InHand
  <2>5. MonitorInv'
    BY <1>0, <2>1, <2>3, <2>4, FollowFacts, MonitorFacts DEF MonitorInv, Busy, Real
  <2> QED
    BY <1>1, <2>2, <2>5 DEF Follow
<1>3. CASE TakeZero \/ MonitorReturns
  <2>1. /\ UNCHANGED <<role, file, gcp, fol, cpc, ent, ec, seen, skipped>>
        /\ mon.pc = "wait" /\ mon'.pc \in {"persist", "ended"} /\ mon'.entry = NoEntry
    BY <1>3 DEF TakeZero, MonitorReturns, Waiting, follower
  <2>2. mon'.entry.root = <<>>
    BY <2>1 DEF NoEntry
  <2>3. Chain'
    BY <2>1, <2>2, FollowFacts, PrefixFacts DEF FollowInv, Follow, Chain, Behind
  <2>4. \A n \in 1..ent.head : Handled(n)' \/ InHand(n)'
    BY <1>0, <2>1, MonitorFacts DEF Handled, InHand
  <2>5. ~Busy'
    BY <2>2 DEF Busy
  <2>6. MonitorInv'
    BY <1>0, <2>1, <2>4, <2>5, FollowFacts, MonitorFacts DEF MonitorInv, Real
  <2> QED
    BY <1>1, <2>3, <2>6 DEF Follow
<1>4. CASE ProcessEntry \/ NoImage
  <2>1. /\ UNCHANGED <<role, file, gcp, fol, cpc, ent, ec, skipped>>
        /\ seen' = seen \cup {<<mon.entry.index, mon.entry.value>>}
        /\ mon.pc = "process" /\ mon'.pc \in {"annotate", "persist"}
        /\ mon'.entry = mon.entry
    BY <1>4 DEF ProcessEntry, NoImage, follower, FollowInv, LogTyped, ReadTyped
  <2>2. Chain'
    BY <2>1 DEF FollowInv, Follow, Chain, Behind
  <2>3. Busy /\ Busy'
    BY <1>0, <2>1, MonitorFacts DEF Busy
  <2>4. fol.golden[mon.entry.index + 1] = mon.entry.value
    <3>1. Prefix(mon.entry.root, fol.golden) /\ Len(mon.entry.root) \in Nat
      BY FollowFacts, TreeFacts DEF FollowInv, Follow, Chain, Behind
    <3>2. /\ mon.entry.index + 1 \in 1..Len(mon.entry.root)
          /\ mon.entry.value = mon.entry.root[mon.entry.index + 1]
      BY <1>0, <2>3, <3>1, FollowFacts, MonitorFacts DEF Real, Size
    <3> QED
      BY <3>1, <3>2 DEF Prefix
  <2>5. \A n \in 1..ent.head : Handled(n)' \/ InHand(n)'
    <3> SUFFICES ASSUME NEW n \in 1..ent.head, ~InHand(n)' PROVE Handled(n)'
      BY <2>1
    <3>1. CASE mon.entry.index = n - 1
      BY <2>1, <2>4, <3>1, FollowFacts DEF Handled
    <3>2. CASE mon.entry.index # n - 1
      BY <1>0, <2>1, <3>2, MonitorFacts DEF Handled, InHand
    <3> QED
      BY <3>1, <3>2
  <2>6. MonitorInv'
    BY <1>0, <2>1, <2>3, <2>5, FollowFacts, MonitorFacts DEF MonitorInv, Real
  <2> QED
    BY <1>1, <2>2, <2>6 DEF Follow
<1>5. CASE Annotate \/ AddAnnotation \/ AnnotationFails
  <2>1. /\ UNCHANGED <<role, file, gcp, fol, cpc, ent, ec, seen, skipped>>
        /\ mon.pc \in {"annotate", "submit"} /\ mon'.pc \in {"submit", "persist"}
        /\ mon'.entry = mon.entry
    BY <1>5 DEF Annotate, AddAnnotation, AnnotationFails, follower, FollowInv, LogTyped, ReadTyped
  <2>2. Chain'
    BY <2>1 DEF FollowInv, Follow, Chain, Behind
  <2>3. Busy /\ Busy'
    BY <1>0, <2>1, MonitorFacts DEF Busy
  <2>4. \A n \in 1..ent.head : Handled(n)' \/ InHand(n)'
    BY <1>0, <2>1, MonitorFacts DEF Handled, InHand
  <2>5. MonitorInv'
    BY <1>0, <2>1, <2>3, <2>4, FollowFacts, MonitorFacts DEF MonitorInv, Real
  <2> QED
    BY <1>1, <2>2, <2>5 DEF Follow
<1>6. CASE Persist
  <2>1. /\ UNCHANGED <<role, gcp, fol, cpc, ent, ec, seen, skipped>>
        /\ mon.pc = "persist" /\ mon'.pc = "wait" /\ mon'.entry = NoEntry
        /\ file' = IF LastEntry(mon.entry) THEN mon.entry.root ELSE file
    BY <1>6 DEF Persist, Waiting, follower
  <2>2. mon'.entry.root = <<>> /\ ~Busy'
    BY <2>1 DEF NoEntry, Busy
  <2>3. \A n \in 1..ent.head : Handled(n)' \/ InHand(n)'
    BY <1>0, <2>1, MonitorFacts DEF Handled, InHand
  <2>4. CASE ~LastEntry(mon.entry)
    <3>1. Chain'
      BY <2>1, <2>2, <2>4, FollowFacts, PrefixFacts DEF FollowInv, Follow, Chain, Behind
    <3>2. MonitorInv'
      BY <1>0, <2>1, <2>2, <2>3, <2>4, FollowFacts, MonitorFacts DEF MonitorInv, Real
    <3> QED
      BY <1>1, <3>1, <3>2 DEF Follow
  <2>5. CASE LastEntry(mon.entry)
    <3>1. file' = mon.entry.root /\ Behind(mon.entry.root) /\ Size(mon.entry.root) \in Nat
      BY <2>1, <2>5, FollowFacts, TreeFacts DEF FollowInv, Follow, Chain, Size
    <3>2. Busy
      <4>1. mon.entry # NoEntry
        BY <2>5 DEF LastEntry, NoEntry, Size
      <4> QED
        BY <1>0, <2>1, <4>1, MonitorFacts
    <3>3. Size(mon.entry.root) = mon.entry.index + 1 /\ mon.entry.index < ent.head
      BY <1>0, <2>5, <3>1, <3>2, FollowFacts, MonitorFacts DEF LastEntry
    <3>4. ASSUME NEW n \in 1..Size(mon.entry.root)
          PROVE  <<n - 1, mon.entry.root[n]>> \in seen \/ n - 1 \in skipped
      <4>1. n \in 1..ent.head /\ n - 1 <= mon.entry.index
        BY <3>3, FollowFacts
      <4>2. ~InHand(n)
        BY <1>0, <2>1, <3>2, <4>1, FollowFacts, MonitorFacts DEF InHand
      <4>3. Handled(n)
        BY <1>0, <4>1, <4>2, MonitorFacts
      <4>4. fol.golden[n] = mon.entry.root[n]
        BY <3>1 DEF Behind, Prefix, Size
      <4> QED
        BY <4>3, <4>4 DEF Handled
    <3>5. Chain'
      BY <2>1, <2>2, <3>1, FollowFacts, PrefixFacts DEF FollowInv, Follow, Chain, Behind
    <3>6. ec # <<>> => Real(ec[1]) /\ Size(file') <= ec[1].index /\ ec[1].index < ent.head
      BY <1>0, <3>1, <3>2, <3>3, FollowFacts, MonitorFacts
    <3>7. Size(file') <= ent.head
      BY <3>1, <3>3, FollowFacts
    <3>8. MonitorInv'
      BY <1>0, <2>1, <2>2, <2>3, <3>1, <3>4, <3>6, <3>7, MonitorFacts DEF MonitorInv, Real
    <3> QED
      BY <1>1, <3>5, <3>8 DEF Follow
  <2> QED
    BY <2>4, <2>5
<1> QED
  BY <1>2, <1>3, <1>4, <1>5, <1>6 DEF Monitor

\* The witness: what it stores is not smaller than what it has.
LEMMA PollKeepsFollow ==
  ASSUME FollowInv, Poll
  PROVE  Follow'
<1>0. role = "witness" /\ role' = role /\ mon.pc \in {"wait", "store"}
  BY DEF Poll, PollReceives, StoreCP, StoreFails, PollReturns
<1>1. MonitorInv'
  BY <1>0 DEF MonitorInv
<1>2. /\ ent.pc = "wait" /\ ec = <<>> /\ gcp \in {<<>>, file}
      /\ cpc # <<>> => /\ Size(file) <= Size(cpc[1])
                       /\ mon.pc = "store" => Size(mon.entry.root) <= Size(cpc[1])
      /\ mon.pc = "store" /\ mon.entry.root # <<>> => Size(file) <= Size(mon.entry.root)
  BY <1>0 DEF FollowInv, Follow, WitnessInv
<1>3. CASE PollReceives
  <2>1. /\ UNCHANGED <<role, file, gcp, fol, ent, ec>> /\ cpc' = <<>> /\ mon'.pc = "store"
    BY <1>3 DEF PollReceives
  <2>2. mon'.entry.root = <<>> \/ (cpc # <<>> /\ mon'.entry.root = cpc[1])
    BY <1>3, FollowFacts DEF PollReceives, NoEntry
  <2>3. Chain'
    BY <2>1, <2>2, FollowFacts, PrefixFacts DEF FollowInv, Follow, Chain, Behind
  <2>4. WitnessInv'
    BY <1>0, <1>2, <2>1, <2>2 DEF WitnessInv
  <2> QED
    BY <1>1, <2>3, <2>4 DEF Follow
<1>4. CASE StoreCP
  <2>1. /\ UNCHANGED <<role, fol, cpc, ent, ec>> /\ gcp' = mon.entry.root
        /\ mon'.pc = "wait" /\ mon'.entry = NoEntry /\ mon.pc = "store"
        /\ file' = IF mon.entry.root = <<>> THEN file ELSE mon.entry.root
    BY <1>4 DEF StoreCP, Waiting, follower
  <2>2. mon'.entry.root = <<>>
    BY <2>1 DEF NoEntry
  <2>3. Chain'
    BY <2>1, <2>2, FollowFacts, PrefixFacts DEF FollowInv, Follow, Chain, Behind
  <2>4. WitnessInv'
    BY <1>0, <1>2, <2>1 DEF WitnessInv
  <2> QED
    BY <1>1, <2>3, <2>4 DEF Follow
<1>5. CASE StoreFails \/ PollReturns
  <2>1. /\ UNCHANGED <<role, file, gcp, fol, cpc, ent, ec>>
        /\ mon'.pc \in {"wait", "ended"} /\ mon'.entry = NoEntry
    BY <1>5 DEF StoreFails, PollReturns, Waiting, follower
  <2>2. mon'.entry.root = <<>>
    BY <2>1 DEF NoEntry
  <2>3. Chain'
    BY <2>1, <2>2, FollowFacts, PrefixFacts DEF FollowInv, Follow, Chain, Behind
  <2>4. WitnessInv'
    BY <1>0, <1>2, <2>1 DEF WitnessInv
  <2> QED
    BY <1>1, <2>3, <2>4 DEF Follow
<1> QED
  BY <1>3, <1>4, <1>5 DEF Poll

\* A process that starts again knows what its file says.
LEMMA RestartKeepsFollow ==
  ASSUME FollowInv, RestartFollower
  PROVE  Follow'
<1>1. /\ UNCHANGED <<role, file, seen, skipped>>
      /\ fol'.golden = file /\ cpc' = <<file>> /\ ec' = <<>> /\ gcp' = file
      /\ ent'.pc = "wait" /\ ent'.cp = <<>> /\ ent'.head = Size(file)
      /\ mon'.pc = "wait" /\ mon'.entry = NoEntry
  BY DEF RestartFollower, RetrieveCP, Polling, Reading, Waiting
<1>2. mon'.entry.root = <<>> /\ cpc'[1] = file /\ cpc' # <<>> /\ ~Busy'
  BY <1>1 DEF NoEntry, Busy
<1>3. Chain'
  BY <1>1, <1>2, FollowFacts, PrefixFacts DEF Chain, Behind
<1>4. MonitorInv'
  <2> SUFFICES ASSUME role = "monitor" PROVE MonitorInv'
    BY <1>1 DEF MonitorInv
  <2>1. \A n \in 1..Size(file) : Handled(n)'
    BY <1>1, MonitorFacts DEF Handled
  <2>2. Size(file) \in Nat
    BY MonitorFacts
  <2> QED
    BY <1>1, <1>2, <2>1, <2>2, MonitorFacts DEF MonitorInv
<1>5. WitnessInv'
  <2>1. Size(file) \in Nat
    BY FollowFacts, TreeFacts DEF Size
  <2> QED
    BY <1>1, <1>2, <2>1 DEF WitnessInv
<1> QED
  BY <1>3, <1>4, <1>5 DEF Follow

\* Every step keeps what the follower knows.
LEMMA NextFollow == FollowInv /\ [Next]_vars => FollowInv'
<1> SUFFICES ASSUME FollowInv, [Next]_vars PROVE Follow'
  BY NextTyped DEF FollowInv
<1>1. CASE UNCHANGED vars
  BY <1>1, OthersKeepFollow DEF vars, follower, app
<1>2. CASE \/ \E i \in Image : StartPublish(i)
           \/ \E s \in queue : Integrate(s)
           \/ \E n \in 0..MaxSize : Restore(n)
           \/ UpdateRoot \/ RestartPersonality \/ GetCheckpoint
  BY <1>2, OthersKeepFollow DEF StartPublish, Integrate, Restore, UpdateRoot,
     RestartPersonality, GetCheckpoint, follower, app
<1>3. CASE Publish
  BY <1>3, OthersKeepFollow DEF Publish, StoreImage, StoreImageFails, AddSignedStatement,
     AddFails, AwaitGrowth, AwaitConsistency, AwaitNoProof, Included, NotIncluded, PublishFails,
     follower, app
<1> QED
  BY <1>1, <1>2, <1>3, CheckpointsKeepFollow, EntriesKeepFollow, MonitorKeepsFollow,
     PollKeepsFollow, RestartKeepsFollow DEF Next

\* A follower starts without a file.
LEMMA InitFollow == Init => FollowInv
<1> SUFFICES ASSUME Init PROVE FollowInv
  OBVIOUS
<1>0. <<>> \in Tree
  BY TreeFacts
<1>1. /\ fol.golden = <<>> /\ cpc = << <<>> >> /\ ec = <<>> /\ gcp = <<>> /\ file = <<>>
      /\ ent.pc = "wait" /\ ent.cp = <<>> /\ ent.head = 0 /\ mon.pc = "wait"
      /\ mon.entry.root = <<>>
  BY DEF Init, Polling, Reading, Waiting, NoEntry, Size
<1>2. Chain
  BY <1>0, <1>1, PrefixFacts DEF Chain, Behind
<1>3. MonitorInv
  BY <1>1 DEF MonitorInv, Busy, Size
<1>4. WitnessInv
  BY <1>1 DEF WitnessInv, Size
<1> QED
  BY <1>2, <1>3, <1>4, InitTyped DEF FollowInv, Follow

\* The monitor's file never covers an entry that was merely on its way, and
\* the witness serves no checkpoint that a restart would take back.
THEOREM FilesAlwaysSound == Spec => []FileSound
<1>1. FollowInv => FileSound
  BY DEF FollowInv, Follow, MonitorInv, WitnessInv, FileSound, FileCoversProcessed, ServedStored
<1> QED
  BY <1>1, InitFollow, NextFollow, PTL DEF Spec

\* The checkpoint on file is only ever replaced by one that extends it, over
\* all restarts of the follower and whatever happened to the log.
THEOREM FilesOnlyExtend == Spec => FileExtends
<1>1. FollowInv /\ [Next]_vars => [Prefix(file, file')]_file
  <2> SUFFICES ASSUME FollowInv, [Next]_vars, file' # file PROVE Prefix(file, file')
    OBVIOUS
  <2>1. Persist \/ StoreCP
    BY DEF Next, StartPublish, Integrate, Restore, UpdateRoot, RestartPersonality,
       GetCheckpoint, RestartFollower, Publish, StoreImage, StoreImageFails,
       AddSignedStatement, AddFails, AwaitGrowth, AwaitConsistency, AwaitNoProof, Included,
       NotIncluded, PublishFails, Checkpoints, Tick, CheckConsistency, NoProof,
       SendCheckpoint, Entries, TakeCheckpoint, EntriesEnd, FetchEntry, SkipEntry, SendEntry,
       CheckpointRead, Monitor, TakeEntry, TakeZero, ProcessEntry, NoImage, Annotate,
       AddAnnotation, AnnotationFails, MonitorReturns, Poll, PollReceives, StoreFails, PollReturns, vars
  <2>2. Prefix(file, fol.golden) /\ Prefix(mon.entry.root, fol.golden)
    BY DEF FollowInv, Follow, Chain, Behind
  <2>3. file' = mon.entry.root /\ Size(file) <= Size(mon.entry.root)
    <3>1. CASE Persist
      <4>1. role = "monitor"
        BY <3>1, FollowFacts DEF Persist, FollowInv, Follow, WitnessInv
      <4>2. file' = mon.entry.root /\ LastEntry(mon.entry) /\ mon.pc = "persist"
        BY <3>1 DEF Persist
      <4>3. Busy
        BY <4>1, <4>2, MonitorFacts DEF LastEntry, NoEntry, Size
      <4> QED
        BY <4>1, <4>2, <4>3, FollowFacts, TreeFacts, MonitorFacts DEF LastEntry, Size
    <3>2. CASE StoreCP
      BY <3>2 DEF StoreCP, FollowInv, Follow, WitnessInv
    <3> QED
      BY <2>1, <3>1, <3>2
  <2> QED
    BY <2>2, <2>3, FollowFacts, PrefixFacts
<1> QED
  BY <1>1, InitFollow, NextFollow, PTL DEF Spec, FileExtends

-----------------------------------------------------------------------------
(* Prefixes. *)

\* Two prefixes of one tree are comparable.
LEMMA PrefixesComparable ==
  ASSUME NEW s \in Seq(Leaf), NEW t \in Seq(Leaf), NEW u \in Seq(Leaf),
         Prefix(s, u), Prefix(t, u)
  PROVE  Comparable(s, t)
<1>1. Len(s) \in Nat /\ Len(t) \in Nat
  OBVIOUS
<1>2. CASE Len(s) <= Len(t)
  BY <1>1, <1>2 DEF Prefix, Comparable
<1>3. CASE Len(t) <= Len(s)
  BY <1>1, <1>3 DEF Prefix, Comparable
<1> QED
  BY <1>1, <1>2, <1>3

\* The smaller of two prefixes of one tree is a prefix of the other.
LEMMA SmallerIsPrefix ==
  ASSUME NEW s \in Seq(Leaf), NEW t \in Seq(Leaf), NEW u \in Seq(Leaf),
         Prefix(s, u), Prefix(t, u), Size(s) <= Size(t)
  PROVE  Prefix(s, t)
BY DEF Prefix, Size

\* The empty tree is a prefix of every tree.
LEMMA EmptyIsPrefix ==
  ASSUME NEW s \in Seq(Leaf), NEW t \in Seq(Leaf), ~(Size(s) > 0)
  PROVE  Prefix(s, t)
BY DEF Prefix, Size

-----------------------------------------------------------------------------
(***************************************************************************)
(* The device.  UpdateVerified needs that what VerifyUpdate and            *)
(* VerifyWitness found holds on until the tool writes, whatever the log    *)
(* and the witness do meanwhile.  CrashSafe needs that what was verified   *)
(* is what the two files say afterwards, as far as they were written: the  *)
(* bundle of the last package, which stays signed, and then its image.     *)
(***************************************************************************)

\* Bundles and packages of some checkpoints.
BundleOf(cps) == [stmt : Leaf, cp : cps, index : Nat]
PackageOf(cps) == [image : Leaf, stmt : Leaf, cp : cps, index : Nat]

\* The checkpoints of packages.
Offered == signed \cup {Unsigned}

\* A tool at work.
ToolOf(cps) ==
    [pc : {"update", "witness", "map", "bundle", "image"}, up : PackageOf(cps),
     force : BOOLEAN, witness : BOOLEAN, map : BOOLEAN, pb : {Absent, "parsed"},
     rc : Seq(Leaf)]

DeviceTyped ==
    /\ log \in Seq(Leaf) /\ wcp \in Seq(Leaf) /\ signed \subseteq Seq(Leaf)
    /\ firmware \in Leaf \cup {Absent, Torn}
    /\ Readable => bundle \in BundleOf(Offered)
    /\ tool = Resting \/ tool \in ToolOf(Offered)
    /\ booted \in Leaf \cup {Absent}
    /\ crashes \in 0..MaxCrashes

\* A package that is whole: its image is the one that is logged.
Whole(up) == up \in PackageOf(signed) /\ VerifyBundle(up) /\ up.image = up.stmt

\* What a tool without --force has verified, until it writes.
ToolVerified ==
    ~tool.force =>
        /\ tool.pc \in {"witness", "map", "bundle", "image"} => Whole(tool.up)
        /\ tool.pc \in {"witness", "map", "bundle"} =>
              Readable /\ bundle.cp \in signed /\ Prefix(bundle.cp, tool.up.cp)
        /\ tool.pc \in {"map", "bundle"} =>
              (tool.witness => Comparable(tool.up.cp, tool.rc))

\* What the files hold of the last package.
Flashed ==
    /\ last.state \in {"none", "bundle", "whole"}
    /\ last.state # "none" =>
          /\ Whole(last.up)
          /\ bundle = [stmt |-> last.up.stmt, cp |-> last.up.cp, index |-> last.up.index]
    /\ last.state = "whole" => firmware = last.up.image
    /\ tool.pc = "image" =>
          IF tool.force THEN last.state = "none" ELSE last.state = "bundle" /\ last.up = tool.up

DInv == DeviceTyped /\ ToolVerified /\ Flashed

\* Nothing is flashed, booted or running.
LEMMA InitDInv == DInit => DInv
<1> SUFFICES ASSUME DInit PROVE DInv
  OBVIOUS
<1>1. DeviceTyped
  BY DeviceAssumption DEF DInit, DeviceTyped, Readable
<1>2. ToolVerified /\ Flashed
  BY DEF DInit, ToolVerified, Flashed, Resting, Unflashed
<1> QED
  BY <1>1, <1>2 DEF DInv

\* More signed checkpoints make more packages and bundles.
LEMMA SignedGrows ==
  ASSUME DInv, signed \subseteq signed'
  PROVE  /\ tool = Resting \/ tool \in ToolOf(Offered')
         /\ Readable => bundle \in BundleOf(Offered')
         /\ \A up : Whole(up) => Whole(up)'
<1>1. Offered \subseteq Offered'
  BY DEF Offered
<1>2. \A up : Whole(up) => Whole(up)'
  BY DEF Whole, PackageOf, VerifyBundle
<1> QED
  BY <1>1, <1>2 DEF DInv, DeviceTyped, ToolOf, PackageOf, BundleOf

\* The log, the witness and the boot loader do not touch the tool's findings, nor
\* the files.
LEMMA OutsideKeeps ==
  ASSUME DInv, UNCHANGED <<tool, bundle, firmware, last>>, signed \subseteq signed'
  PROVE  ToolVerified' /\ Flashed'
<1>1. \A up : Whole(up) => Whole(up)'
  BY SignedGrows
<1>2. ToolVerified'
  BY <1>1 DEF DInv, ToolVerified, Readable
<1>3. Flashed'
  BY <1>1 DEF DInv, Flashed
<1> QED
  BY <1>2, <1>3

\* Nor does a tool that has not come to the image the files.
LEMMA FlashedKeeps ==
  ASSUME DInv, UNCHANGED <<bundle, firmware, last, signed>>, tool'.pc # "image"
  PROVE  Flashed'
<1>1. \A up : Whole(up) => Whole(up)'
  BY SignedGrows
<1> QED
  BY <1>1 DEF DInv, Flashed

\* What the tool may write.
LEMMA ToolAtWork ==
  ASSUME DInv, tool.pc # "idle"
  PROVE  tool \in ToolOf(Offered) /\ tool.up \in PackageOf(Offered)
BY DEF DInv, DeviceTyped, Resting, ToolOf

\* A crash stays within the bound.
LEMMA CrashBound ==
  ASSUME DInv, Crash \/ UNCHANGED crashes
  PROVE  crashes' \in 0..MaxCrashes
BY DeviceAssumption DEF DInv, DeviceTyped, Crash

\* The log grows, is restored, or is followed by the witness.
LEMMA LogKeeps ==
  ASSUME DInv,
         \/ \E s \in Leaf : Log(s)
         \/ \E n \in 0..MaxLog : RestoreLog(n)
         \/ Witness
  PROVE  DInv'
<1>1. /\ UNCHANGED <<storage, tool, booted>> /\ signed \subseteq signed'
      /\ Crash \/ UNCHANGED crashes
  BY DEF Log, RestoreLog, Witness
<1>2. log' \in Seq(Leaf) /\ wcp' \in Seq(Leaf) /\ signed' \subseteq Seq(Leaf)
  BY DEF DInv, DeviceTyped, Log, RestoreLog, Witness
<1>3. DeviceTyped'
  BY <1>1, <1>2, SignedGrows, CrashBound DEF DInv, DeviceTyped, storage, Readable
<1> QED
  BY <1>1, <1>3, OutsideKeeps DEF DInv, storage

\* A tool starts with a package, signed or not.
LEMMA StartKeeps ==
  ASSUME DInv, NEW up \in Packages, NEW force \in BOOLEAN, NEW witness \in BOOLEAN,
         NEW map \in BOOLEAN, Start(up, force, witness, map)
  PROVE  DInv'
<1>1. up \in PackageOf(Offered)
  BY DeviceAssumption DEF Packages, PackageOf, Offered
<1>2. tool' \in ToolOf(Offered) /\ tool'.pc = "update"
  BY <1>1 DEF Start, ToolOf
<1>3. UNCHANGED <<log, signed, wcp, bundle, firmware, last, booted, crashes>>
  BY DEF Start, external, storage
<1>4. DeviceTyped'
  BY <1>2, <1>3 DEF DInv, DeviceTyped, Readable, Offered
<1>5. ToolVerified'
  BY <1>2 DEF ToolVerified
<1> QED
  BY <1>2, <1>3, <1>4, <1>5, FlashedKeeps DEF DInv

\* BundleForUpdate: without --force the package extends the device's checkpoint.
LEMMA VerifyUpdateKeeps ==
  ASSUME DInv, VerifyUpdate
  PROVE  DInv'
<1>0. /\ tool \in ToolOf(Offered) /\ tool.up \in PackageOf(Offered)
      /\ tool.pc = "update" /\ tool.force \in BOOLEAN
  BY ToolAtWork DEF VerifyUpdate, ToolOf
<1>1. UNCHANGED <<log, signed, wcp, bundle, firmware, last, booted, crashes>>
  BY DEF VerifyUpdate, external, storage
<1> DEFINE parsed == Readable /\ bundle.cp \in signed /\ VerifyBundle(tool.up)
           ok == parsed /\ BundleForUpdate(tool.up, tool.up.image, bundle.cp)
<1>2. CASE ~(ok \/ tool.force)
  <2>1. tool' = Resting /\ tool'.pc = "idle"
    BY <1>2 DEF VerifyUpdate, After, Resting
  <2>2. DeviceTyped'
    BY <1>1, <2>1 DEF DInv, DeviceTyped, Readable, Offered
  <2>3. ToolVerified'
    BY <2>1 DEF ToolVerified
  <2> QED
    BY <1>1, <2>1, <2>2, <2>3, FlashedKeeps DEF DInv
<1>3. CASE ok \/ tool.force
  <2>1. After(ok, "witness") # Resting
    BY <1>0, <1>3 DEF After, Resting, ToolOf
  <2>2. tool' = [tool EXCEPT !.pc = "witness", !.pb = IF parsed THEN "parsed" ELSE Absent]
    BY <2>1 DEF VerifyUpdate
  <2>3. tool' \in ToolOf(Offered) /\ tool'.pc = "witness" /\ tool'.up = tool.up
        /\ tool'.force = tool.force
    BY <1>0, <2>2 DEF ToolOf
  <2>4. DeviceTyped'
    BY <1>1, <2>3 DEF DInv, DeviceTyped, Readable, Offered
  <2>5. ASSUME ~tool.force
        PROVE  /\ Readable /\ bundle.cp \in signed /\ Prefix(bundle.cp, tool.up.cp)
               /\ Whole(tool.up)
    <3>1. BundleForUpdate(tool.up, tool.up.image, bundle.cp) /\ Readable /\ bundle.cp \in signed
      BY <1>3, <2>5
    <3>2. bundle.cp \in Seq(Leaf) /\ tool.up.cp \in Seq(Leaf) /\ log \in Seq(Leaf)
      BY <3>1 DEF DInv, DeviceTyped, BundleForUpdate, VerifyBundle
    <3>3. Size(bundle.cp) > 0 => Prefix(bundle.cp, tool.up.cp)
      BY <3>1, <3>2, SmallerIsPrefix DEF BundleForUpdate, ProofAnswered, ProofVerified
    <3>4. ~(Size(bundle.cp) > 0) => Prefix(bundle.cp, tool.up.cp)
      BY <3>2, EmptyIsPrefix
    <3>5. Whole(tool.up)
      BY <1>0, <3>1 DEF BundleForUpdate, VerifyBundle, Whole, PackageOf
    <3> QED
      BY <3>1, <3>3, <3>4, <3>5
  <2>6. Whole(tool.up) => Whole(tool.up)'
    BY <1>1, <2>3 DEF Whole, VerifyBundle
  <2>7. ToolVerified'
    BY <1>1, <2>3, <2>5, <2>6 DEF ToolVerified, Readable
  <2> QED
    BY <1>1, <2>3, <2>4, <2>7, FlashedKeeps DEF DInv
<1> QED
  BY <1>2, <1>3

\* BundleConsistency: the witness's checkpoint and the package's are of one log.
LEMMA ConsistencyComparable ==
  ASSUME DInv, tool.up \in PackageOf(signed), BundleConsistency(tool.up, wcp)
  PROVE  Comparable(tool.up.cp, wcp)
<1>1. tool.up.cp \in Seq(Leaf) /\ wcp \in Seq(Leaf) /\ log \in Seq(Leaf)
  BY DEF DInv, DeviceTyped, PackageOf
<1>2. CASE Size(wcp) > Size(tool.up.cp)
  <2>1. Size(tool.up.cp) > 0 => Prefix(tool.up.cp, log) /\ Prefix(wcp, log)
    BY <1>2 DEF BundleConsistency, ProofVerified
  <2> QED
    BY <1>1, <2>1, PrefixesComparable, EmptyIsPrefix DEF Comparable
<1>3. CASE ~(Size(wcp) > Size(tool.up.cp))
  <2>1. Size(wcp) > 0 => Prefix(tool.up.cp, log) /\ Prefix(wcp, log)
    BY <1>3 DEF BundleConsistency, ProofVerified
  <2> QED
    BY <1>1, <2>1, PrefixesComparable, EmptyIsPrefix DEF Comparable
<1> QED
  BY <1>2, <1>3

\* The checks against the witness and the map.
LEMMA VerifyMoreKeeps ==
  ASSUME DInv, VerifyWitness \/ VerifyAnnotations
  PROVE  DInv'
<1>0. /\ tool \in ToolOf(Offered) /\ tool.up \in PackageOf(Offered)
      /\ tool.force \in BOOLEAN /\ tool.witness \in BOOLEAN
  BY ToolAtWork DEF VerifyWitness, VerifyAnnotations, ToolOf
<1>1. UNCHANGED <<log, signed, wcp, bundle, firmware, last, booted, crashes>>
  BY DEF VerifyWitness, VerifyAnnotations, external, storage
<1>2. CASE tool' = Resting
  <2>1. DeviceTyped'
    BY <1>1, <1>2 DEF DInv, DeviceTyped, Readable, Offered
  <2>2. ToolVerified' /\ tool'.pc = "idle"
    BY <1>2 DEF ToolVerified, Resting
  <2> QED
    BY <1>1, <2>1, <2>2, FlashedKeeps DEF DInv
<1>3. CASE VerifyWitness /\ tool' # Resting
  <2>1. wcp \in Seq(Leaf) /\ tool.pc = "witness"
    BY <1>3 DEF DInv, DeviceTyped, VerifyWitness
  <2>2. \/ tool' = [tool EXCEPT !.pc = "map"] /\ (tool.force \/ ~tool.witness)
        \/ tool' = [tool EXCEPT !.pc = "map", !.rc = wcp] /\ BundleConsistency(tool.up, wcp)
    BY <1>3 DEF VerifyWitness, After
  <2>3. /\ tool' \in ToolOf(Offered) /\ tool'.pc = "map" /\ tool'.up = tool.up
        /\ tool'.force = tool.force /\ tool'.witness = tool.witness
        /\ \/ tool.force \/ ~tool.witness
           \/ tool'.rc = wcp /\ BundleConsistency(tool.up, wcp)
    BY <1>0, <2>1, <2>2 DEF ToolOf
  <2>4. DeviceTyped'
    BY <1>1, <2>3 DEF DInv, DeviceTyped, Readable, Offered
  <2>5. ASSUME ~tool.force, tool.witness PROVE Comparable(tool.up.cp, tool'.rc)
    <3>1. tool.up \in PackageOf(signed)
      BY <2>1, <2>5 DEF DInv, ToolVerified, Whole
    <3> QED
      BY <2>3, <2>5, <3>1, ConsistencyComparable
  <2>6. Whole(tool.up) => Whole(tool.up)'
    BY <1>1, <2>3 DEF Whole, VerifyBundle
  <2>7. ToolVerified'
    BY <1>0, <1>1, <2>1, <2>3, <2>5, <2>6 DEF DInv, ToolVerified, Readable
  <2> QED
    BY <1>1, <2>3, <2>4, <2>7, FlashedKeeps DEF DInv
<1>4. CASE VerifyAnnotations /\ tool' # Resting
  <2>1. tool.pc = "map" /\ tool' = [tool EXCEPT !.pc = "bundle"]
    BY <1>4 DEF VerifyAnnotations, After
  <2>2. /\ tool' \in ToolOf(Offered) /\ tool'.pc = "bundle" /\ tool'.up = tool.up
        /\ tool'.force = tool.force /\ tool'.witness = tool.witness /\ tool'.rc = tool.rc
    BY <1>0, <2>1 DEF ToolOf
  <2>3. DeviceTyped'
    BY <1>1, <2>2 DEF DInv, DeviceTyped, Readable, Offered
  <2>4. Whole(tool.up) => Whole(tool.up)'
    BY <1>1, <2>2 DEF Whole, VerifyBundle
  <2>5. ToolVerified'
    BY <1>1, <2>1, <2>2, <2>4 DEF DInv, ToolVerified, Readable
  <2> QED
    BY <1>1, <2>2, <2>3, <2>5, FlashedKeeps DEF DInv
<1> QED
  BY <1>2, <1>3, <1>4

\* ApplyUpdate, and its crashes.
LEMMA WriteKeeps ==
  ASSUME DInv, WriteBundle \/ WriteImage \/ CrashWriting
  PROVE  DInv'
<1>0. /\ tool \in ToolOf(Offered) /\ tool.up \in PackageOf(Offered)
      /\ tool.pc \in {"bundle", "image"} /\ tool.force \in BOOLEAN
  BY ToolAtWork DEF WriteBundle, WriteImage, CrashWriting, ToolOf
<1>1. UNCHANGED <<log, signed, wcp, booted>> /\ (Crash \/ UNCHANGED crashes)
  BY DEF WriteBundle, WriteImage, CrashWriting, external
<1>2. Readable' => bundle' \in BundleOf(Offered)
  <2>1. Written \in BundleOf(Offered)
    BY <1>0 DEF Written, PackageOf, BundleOf
  <2> QED
    BY <2>1 DEF WriteBundle, WriteImage, CrashWriting, DInv, DeviceTyped, Readable
<1>3. firmware' \in Leaf \cup {Absent, Torn}
  BY <1>0 DEF WriteBundle, WriteImage, CrashWriting, DInv, DeviceTyped, PackageOf
<1>4. \/ tool' = Resting
      \/ /\ WriteBundle /\ tool' \in ToolOf(Offered) /\ tool'.pc = "image"
         /\ tool'.up = tool.up /\ tool'.force = tool.force
  BY <1>0 DEF WriteBundle, WriteImage, CrashWriting, ToolOf
<1>5. DeviceTyped'
  BY <1>1, <1>2, <1>3, <1>4, CrashBound DEF DInv, DeviceTyped, Offered
<1>6. \A up : Whole(up) => Whole(up)'
  BY <1>1, SignedGrows
<1>7. ~tool.force => Whole(tool.up)
  BY <1>0 DEF DInv, ToolVerified
<1>8. ToolVerified'
  BY <1>4, <1>6, <1>7 DEF ToolVerified, Resting
<1>9. Flashed'
  <2>1. CASE WriteBundle
    <3>1. /\ bundle' = Written /\ tool'.pc = "image" /\ tool'.up = tool.up
          /\ tool'.force = tool.force
          /\ last' = IF tool.force THEN Unflashed ELSE [state |-> "bundle", up |-> tool.up]
      BY <1>0, <2>1 DEF WriteBundle, ToolOf
    <3>2. CASE tool.force
      BY <3>1, <3>2 DEF Flashed, Unflashed
    <3>3. CASE ~tool.force
      BY <1>6, <1>7, <3>1, <3>3 DEF Flashed, Written
    <3> QED
      BY <3>2, <3>3
  <2>2. CASE WriteImage
    <3>1. /\ bundle' = bundle /\ tool'.pc = "idle" /\ firmware' = tool.up.image
          /\ last' = IF tool.force THEN Unflashed ELSE [state |-> "whole", up |-> tool.up]
          /\ tool.pc = "image"
      BY <2>2 DEF WriteImage, Resting
    <3>2. CASE tool.force
      BY <3>1, <3>2 DEF Flashed, Unflashed
    <3>3. CASE ~tool.force
      BY <1>6, <1>7, <3>1, <3>3 DEF DInv, Flashed
    <3> QED
      BY <3>2, <3>3
  <2>3. CASE CrashWriting /\ tool.pc = "bundle"
    BY <2>3 DEF CrashWriting, Flashed, Unflashed, Resting
  <2>4. CASE CrashWriting /\ tool.pc = "image"
    <3>1. UNCHANGED <<bundle, last>> /\ tool'.pc = "idle"
      BY <2>4 DEF CrashWriting, Resting
    <3>2. last.state # "whole"
      BY <2>4 DEF DInv, Flashed
    <3> QED
      BY <1>6, <3>1, <3>2 DEF DInv, Flashed
  <2> QED
    BY <1>0, <2>1, <2>2, <2>3, <2>4
<1> QED
  BY <1>5, <1>8, <1>9 DEF DInv

\* The boot loader writes nothing.
LEMMA ResetKeeps ==
  ASSUME DInv, Reset
  PROVE  DInv'
<1>1. UNCHANGED <<log, signed, wcp, bundle, firmware, last, tool, crashes>>
  BY DEF Reset, external, storage
<1>2. booted' \in Leaf \cup {Absent}
  BY DEF Reset, VerifyIntegrity, DInv, DeviceTyped
<1>3. DeviceTyped'
  BY <1>1, <1>2 DEF DInv, DeviceTyped, Readable, Offered
<1> QED
  BY <1>1, <1>3, OutsideKeeps DEF DInv

\* Every step of the log, the tool and the device keeps the invariant.
LEMMA NextDInv == DInv /\ [DNext]_dvars => DInv'
<1> SUFFICES ASSUME DInv, [DNext]_dvars PROVE DInv'
  OBVIOUS
<1>1. CASE UNCHANGED dvars
  <2>1. UNCHANGED <<log, signed, wcp, bundle, firmware, last, tool, booted, crashes>>
    BY <1>1 DEF dvars, external, storage
  <2>2. DeviceTyped'
    BY <2>1 DEF DInv, DeviceTyped, Readable, Offered
  <2> QED
    BY <2>1, <2>2, OutsideKeeps DEF DInv
<1> QED
  BY <1>1, LogKeeps, StartKeeps, VerifyUpdateKeeps, VerifyMoreKeeps, WriteKeeps,
     ResetKeeps DEF DNext, Flash

\* A device that was flashed without --force boots what it was flashed with; one
\* whose tool died in the image takes the same package again without --force,
\* while the log has its checkpoint.  Whatever packages there are, whatever was
\* forced onto the device before, and whatever the log was restored to.
THEOREM DeviceCrashSafe == DSpec => []CrashSafe
<1>1. DInv => CrashSafe
  <2> SUFFICES ASSUME DInv PROVE CrashSafe
    OBVIOUS
  <2>1. DTypeOK
    BY DEF DInv, DeviceTyped, DTypeOK, Readable, BundleOf, Offered
  <2>2. ASSUME last.state # "none"
        PROVE  /\ Whole(last.up) /\ Readable
               /\ bundle.stmt = last.up.stmt /\ bundle.cp = last.up.cp
               /\ bundle.index = last.up.index
    <3>1. /\ Whole(last.up)
          /\ bundle = [stmt |-> last.up.stmt, cp |-> last.up.cp, index |-> last.up.index]
      BY <2>2 DEF DInv, Flashed
    <3>2. last.up.stmt \in Leaf /\ last.up.cp \in Seq(Leaf) /\ last.up.index \in Nat
      BY <3>1 DEF Whole, PackageOf, DInv, DeviceTyped
    <3>3. bundle \in [stmt : Leaf, cp : Seq(Leaf) \cup {Unsigned}, index : Nat]
      BY <3>1, <3>2
    <3>4. Readable
      BY <3>3, DeviceAssumption DEF Readable
    <3> QED
      BY <3>1, <3>4
  <2>3. FlashedBoots
    <3> SUFFICES ASSUME last.state = "whole"
                 PROVE  VerifyIntegrity /\ firmware = last.up.image
      BY DEF FlashedBoots
    <3>1. firmware = last.up.image /\ last.up.image = last.up.stmt /\ last.up.image \in Leaf
      BY <2>2 DEF DInv, Flashed, Whole, PackageOf
    <3>2. firmware \notin {Absent, Torn}
      BY <3>1, DeviceAssumption
    <3>3. VerifyBundle(bundle)
      BY <2>2 DEF Whole, VerifyBundle
    <3> QED
      BY <2>2, <3>1, <3>2, <3>3 DEF VerifyIntegrity, BundleForBoot
  <2>4. Repairable
    <3> SUFFICES ASSUME last.state = "bundle", Prefix(last.up.cp, log)
                 PROVE  /\ Readable /\ bundle.cp \in signed
                        /\ BundleForUpdate(last.up, last.up.image, bundle.cp)
      BY DEF Repairable
    <3>1. bundle.cp = last.up.cp /\ bundle.cp \in signed /\ Readable /\ Whole(last.up)
      BY <2>2 DEF Whole, VerifyBundle
    <3>2. bundle.cp \in Seq(Leaf) /\ log \in Seq(Leaf)
      BY <3>1 DEF DInv, DeviceTyped
    <3> QED
      BY <3>1, <3>2 DEF BundleForUpdate, Whole, ProofAnswered, ProofVerified, Prefix, Size
  <2> QED
    BY <2>1, <2>3, <2>4 DEF CrashSafe
<1> QED
  BY <1>1, InitDInv, NextDInv, PTL DEF DSpec

\* What the tool is about to write without --force extends the checkpoint on the
\* device and agrees with the witness's, although the log may be restored and
\* the witness may move on between the checks and the write.
THEOREM UpdatesVerified == DSpec => []UpdateVerified
<1>1. DInv => UpdateVerified
  BY DEF DInv, ToolVerified, UpdateVerified
<1> QED
  BY <1>1, InitDInv, NextDInv, PTL DEF DSpec
-----------------------------------------------------------------------------
(***************************************************************************)
(* The map.  A revision is whole because the command that wrote its row    *)
(* had inserted every other row itself, and none was inserted twice.  A    *)
(* revision of the whole log is not of a larger log than a later one: when *)
(* a command reads the tree head after a later revision was chosen, there  *)
(* is a tile in its way (Doomed).  And a command that is alone fails at    *)
(* nothing because everything there is has a smaller revision.             *)
(***************************************************************************)

Entry == {Release} \cup {Annotation(n, g) : n \in 0..(MaxEntries - 1), g \in BOOLEAN}

Running(b) == build[b].pc = "run"
Choosing(b) == build[b].pc = "head"

\* The commands are at rest, have chosen a revision, or have the fields of a
\* running one.
ShapeOf(x) ==
    \/ x = Ended
    \/ x = [pc |-> "head", rev |-> x.rev]
    \/ x = [pc |-> "run", rev |-> x.rev, end |-> x.end, tiles |-> x.tiles,
            aggs |-> x.aggs, rels |-> x.rels]

BuildShape ==
    /\ build = [b \in Builder |-> build[b]]
    /\ \A b \in Builder : ShapeOf(build[b])

\* Revisions in the tables are those of commands that were started.
TablesTyped ==
    /\ \A t \in tiles : t.rev \in Nat /\ t.rev < started
    /\ \A t \in aggs : t.rev \in Nat /\ t.rev < started
    /\ \A t \in rels : t.rev \in Nat /\ t.rev < started

MapTyped ==
    /\ entries \in Seq(Entry) /\ Len(entries) <= MaxEntries
    /\ entries # <<>> => entries[1] = Release
    /\ started \in 0..MaxBuilds /\ disturbed \in BOOLEAN /\ failed \in BOOLEAN
    /\ BuildShape /\ TablesTyped

\* The primary keys.
Keyed(table) ==
    \A t, u \in table : t.rev = u.rev /\ t.key = u.key => t = u

\* There is a last revision, among the tiles and in the table of revisions.
HasLast(table) ==
    table = {} \/ \E m \in table : \A t \in table : t.rev <= m.rev

\* The tiles are those of revisions without a gap, for firmware in the log.
TilesKnown ==
    /\ \A k \in Nat : k < NextWriteRevision => \E t \in tiles : t.rev = k
    /\ \A t \in tiles : \E row \in TileRows(Len(entries), t.rev) : row.key = t.key

TablesSound ==
    /\ Keyed(tiles) /\ Keyed(aggs) /\ HasLast(tiles) /\ HasLast(revisions)
    /\ \A r, q \in revisions : r.rev = q.rev => r = q

\* A running command has inserted the rows that it no longer holds.
RunSound(b) ==
    LET n == build[b].end.count
        r == build[b].rev
    IN  /\ r \in Nat /\ r < started /\ r <= NextWriteRevision
        /\ n \in 0..Len(build[b].end.head)
        /\ Len(build[b].end.head) \in Nat /\ Len(build[b].end.head) <= Len(entries)
        /\ build[b].tiles \subseteq TileRows(n, r)
        /\ TileRows(n, r) \subseteq tiles \cup build[b].tiles
        /\ build[b].aggs \subseteq AggRows(n, r)
        /\ AggRows(n, r) \subseteq aggs \cup build[b].aggs
        /\ build[b].rels \subseteq RelRows(n, r)

RunsSound ==
    \A b \in Builder :
        /\ Running(b) => RunSound(b)
        /\ Choosing(b) => build[b].rev \in Nat /\ build[b].rev < started
                            /\ build[b].rev <= NextWriteRevision

\* A revision in the table has all its rows.
RevisionsWhole ==
    \A r \in revisions :
        /\ r.rev \in Nat /\ r.rev <= NextWriteRevision
        /\ r.count \in 0..Len(r.head)
        /\ Len(r.head) \in Nat /\ Len(r.head) <= Len(entries)
        /\ TileRows(r.count, r.rev) \subseteq tiles
        /\ AggRows(r.count, r.rev) \subseteq aggs

\* The logs that revisions are of, written or being written.
Snapshots ==
    {[rev |-> r.rev, head |-> r.head] : r \in revisions}
    \cup {[rev |-> build[b].rev, head |-> build[b].end.head] : b \in {c \in Builder : Running(c)}}

\* A tile is in the way of running command b.
Doomed(b) == \E row \in build[b].tiles : Conflict(tiles, row)

\* A revision of the whole log, and one that may still become one, is not of a
\* larger log than any later one.
Precedes(rev, head) ==
    \A q \in Snapshots : rev < q.rev => Len(head) <= Len(q.head)

SnapshotsOrdered ==
    /\ \A r \in revisions : r.count = Len(r.head) => Precedes(r.rev, r.head)
    /\ \A b \in Builder :
          Running(b) /\ build[b].end.count = Len(build[b].end.head) /\ ~Doomed(b)
          => Precedes(build[b].rev, build[b].end.head)

\* There is a revision of no entries.
Hollow == \E r \in revisions : r.count = 0

\* Nothing in the tables is in the way of running command b.
Fresh(b) ==
    /\ \A row \in build[b].tiles : ~Conflict(tiles, row)
    /\ \A row \in build[b].aggs : ~Conflict(aggs, row)
    /\ \A row \in build[b].rels : ~Conflict(rels, row)
    /\ \A r \in revisions : r.rev # build[b].rev

\* A revision is behind the next one, or up to that of a running command.
Accounted(rev) ==
    rev < NextWriteRevision \/ \E b \in Builder : Running(b) /\ rev <= build[b].rev

\* The revision that command b has chosen is still the next.
Clear(b) ==
    /\ build[b].rev = NextWriteRevision
    /\ \A x \in aggs : x.rev < NextWriteRevision
    /\ \A x \in rels : x.rev < NextWriteRevision
    /\ \A x \in revisions : x.rev < NextWriteRevision

Alone ==
    ~disturbed /\ ~Hollow =>
        /\ ~failed
        /\ \A b, c \in Builder : build[b] # Ended /\ build[c] # Ended => b = c
        /\ \A b \in Builder : Running(b) => Fresh(b)
        /\ \A b \in Builder : Choosing(b) => Clear(b)
        /\ \A x \in aggs : Accounted(x.rev)
        /\ \A x \in rels : Accounted(x.rev)
        /\ \A x \in revisions : Accounted(x.rev)

MapInv ==
    /\ MapTyped /\ TablesSound /\ TilesKnown /\ RunsSound /\ RevisionsWhole
    /\ SnapshotsOrdered /\ Alone

-----------------------------------------------------------------------------
(* Lemmas about revisions and rows. *)

\* The largest of a set of numbers that has one.
LEMMA MaxIsLargest ==
  ASSUME NEW S \in SUBSET Nat, NEW x \in S, \A y \in S : x >= y
  PROVE  Max(S) = x
<1>1. Max(S) \in S /\ \A y \in S : Max(S) >= y
  BY DEF Max
<1>2. x \in Nat /\ Max(S) \in Nat /\ Max(S) >= x /\ x >= Max(S)
  BY <1>1
<1> QED
  BY <1>2

\* The next revision of a table is one more than its last.
LEMMA NextIsAfter ==
  ASSUME NEW T, \A t \in T : t.rev \in Nat, HasLast(T),
         NEW N, T = {} => N = 0, T # {} => N = 1 + Max({t.rev : t \in T})
  PROVE  /\ N \in Nat
         /\ \A t \in T : t.rev < N
         /\ T = {} => N = 0
         /\ T # {} => \E t \in T : N = t.rev + 1
<1>1. CASE T = {}
  BY <1>1
<1>2. CASE T # {}
  <2>1. PICK m \in T : \A t \in T : t.rev <= m.rev
    BY <1>2 DEF HasLast
  <2>2. PICK S : S = {t.rev : t \in T}
    OBVIOUS
  <2>3. S \in SUBSET Nat /\ m.rev \in S /\ \A y \in S : m.rev >= y
    BY <2>1, <2>2
  <2>4. Max(S) = m.rev
    BY <2>3, MaxIsLargest
  <2>5. N = 1 + Max(S)
    BY <1>2, <2>2, Zenon
  <2> QED
    BY <1>2, <2>1, <2>4, <2>5
<1> QED
  BY <1>1, <1>2

\* Adding a row moves the last revision, never removes it.
LEMMA AddKeepsLast ==
  ASSUME NEW table, NEW row, HasLast(table), row.rev \in Nat,
         \A t \in table : t.rev \in Nat
  PROVE  HasLast(table \cup {row})
<1>1. CASE table = {}
  BY <1>1 DEF HasLast
<1>2. ASSUME NEW m \in table, \A t \in table : t.rev <= m.rev
      PROVE  HasLast(table \cup {row})
  <2>1. CASE row.rev <= m.rev
    BY <1>2, <2>1 DEF HasLast
  <2>2. CASE m.rev <= row.rev
    BY <1>2, <2>2 DEF HasLast
  <2> QED
    BY <1>2, <2>1, <2>2
<1> QED
  BY <1>1, <1>2 DEF HasLast

\* What every state has: a next revision, behind which all tiles are.
LEMMA NextNow ==
  ASSUME \A t \in tiles : t.rev \in Nat, HasLast(tiles)
  PROVE  /\ NextWriteRevision \in Nat
         /\ \A t \in tiles : t.rev < NextWriteRevision
         /\ tiles = {} => NextWriteRevision = 0
         /\ tiles # {} => \E t \in tiles : NextWriteRevision = t.rev + 1
BY NextIsAfter DEF NextWriteRevision

\* The next revision never gets smaller.
LEMMA NextGrows ==
  ASSUME \A t \in tiles : t.rev \in Nat, HasLast(tiles),
         \A t \in tiles' : t.rev \in Nat, HasLast(tiles'), tiles \subseteq tiles'
  PROVE  /\ NextWriteRevision \in Nat /\ NextWriteRevision' \in Nat
         /\ NextWriteRevision <= NextWriteRevision'
         /\ \A t \in tiles' : t.rev < NextWriteRevision'
<1>1. /\ NextWriteRevision' \in Nat
      /\ \A t \in tiles' : t.rev < NextWriteRevision'
  BY NextIsAfter DEF NextWriteRevision
<1>2. NextWriteRevision \in Nat
  BY NextNow
<1>3. CASE tiles = {}
  BY <1>1, <1>2, <1>3, NextNow
<1>4. CASE tiles # {}
  <2>1. PICK t \in tiles : NextWriteRevision = t.rev + 1
    BY <1>4, NextNow
  <2>2. t.rev < NextWriteRevision' /\ t.rev \in Nat
    BY <1>1, <2>1
  <2> QED
    BY <1>1, <1>2, <2>1, <2>2
<1> QED
  BY <1>1, <1>2, <1>3, <1>4

\* The log has the same first entries as before.
LogExtends == entries' = entries \/ \E e \in Entry : entries' = Append(entries, e)

\* The rows of a revision depend on its own entries only.
LEMMA RowsStable ==
  ASSUME entries \in Seq(Entry), LogExtends, NEW n \in 0..Len(entries), NEW r
  PROVE  TileRows(n, r)' = TileRows(n, r) /\ AggRows(n, r)' = AggRows(n, r)
         /\ RelRows(n, r)' = RelRows(n, r)
<1>1. Len(entries) \in Nat /\ \A k \in 1..n : entries'[k] = entries[k]
  BY DEF LogExtends
<1>2. Releases(n)' = Releases(n)
  BY <1>1 DEF Releases
<1>3. \A i : Aggregate(n, i)' = Aggregate(n, i)
  BY <1>1 DEF Aggregate
<1>4. \A I : MapValue(n, I)' = MapValue(n, I)
  BY <1>3 DEF MapValue
<1>5. ReleaseLog(n)' = ReleaseLog(n)
  BY <1>2 DEF ReleaseLog
<1>6. RelRows(n, r)' = RelRows(n, r)
  BY <1>2, <1>5 DEF RelRows
<1>7. AggRows(n, r)' = AggRows(n, r)
  BY <1>2, <1>3 DEF AggRows
<1>8. TileRows(n, r)' = TileRows(n, r)
  <2>1. \A i : MapValue(n, {i})' = MapValue(n, {i})
    BY <1>4
  <2>2. MapValue(n, Releases(n))' = MapValue(n, Releases(n))
    BY <1>2, <1>3 DEF MapValue
  <2> QED
    BY <1>2, <1>5, <2>1, <2>2 DEF TileRows
<1> QED
  BY <1>6, <1>7, <1>8

\* The tiles of a revision.
RootRow(n, r) ==
    [rev |-> r, key |-> RootPath,
     val |-> [agg |-> MapValue(n, Releases(n)), rel |-> ReleaseLog(n)]]

LeafRow(n, r, i) ==
    [rev |-> r, key |-> LeafPath(i), val |-> [agg |-> MapValue(n, {i}), rel |-> <<>>]]

\* Which rows a revision has.
LEMMA RowsAre ==
  ASSUME NEW n, NEW r
  PROVE  /\ TileRows(n, r) = {x \in {RootRow(n, r)} : Releases(n) # {}}
                                \cup {LeafRow(n, r, i) : i \in Releases(n)}
         /\ RootRow(n, r).rev = r /\ RootRow(n, r).key = RootPath
         /\ \A i : LeafRow(n, r, i).rev = r /\ LeafRow(n, r, i).key = LeafPath(i)
<1>1. TileRows(n, r) = {x \in {RootRow(n, r)} : Releases(n) # {}}
                         \cup {LeafRow(n, r, i) : i \in Releases(n)}
  BY Zenon DEF TileRows, RootRow, LeafRow
<1>2. RootRow(n, r).rev = r /\ RootRow(n, r).key = RootPath
  BY DEF RootRow
<1>3. \A i : LeafRow(n, r, i).rev = r /\ LeafRow(n, r, i).key = LeafPath(i)
  BY DEF LeafRow
<1> QED
  BY <1>1, <1>2, <1>3

\* The rows of fewer entries have the keys of rows of more entries.
LEMMA RowsGrow ==
  ASSUME entries \in Seq(Entry), LogExtends, NEW n \in 0..Len(entries),
         NEW m \in 0..Len(entries'), n <= m, NEW r, NEW x \in TileRows(n, r)
  PROVE  \E y \in TileRows(m, r)' : y.key = x.key
<1>1. /\ Len(entries) \in Nat /\ Len(entries') \in Nat
      /\ \A k \in 1..n : entries'[k] = entries[k]
  BY DEF LogExtends
<1>2. Releases(n) \subseteq Releases(m)'
  BY <1>1 DEF Releases
<1>3. /\ x = RootRow(n, r) /\ Releases(n) # {}
      \/ \E i \in Releases(n) : x = LeafRow(n, r, i)
  BY RowsAre
<1>4. /\ TileRows(m, r)' = ({y \in {RootRow(m, r)} : Releases(m) # {}}
                                \cup {LeafRow(m, r, i) : i \in Releases(m)})'
      /\ RootRow(m, r)'.key = RootPath
      /\ \A i : LeafRow(m, r, i)'.key = LeafPath(i)
  <2>1. TileRows(m, r)' = ({y \in {RootRow(m, r)} : Releases(m) # {}}
                                \cup {LeafRow(m, r, i) : i \in Releases(m)})'
    BY Zenon DEF TileRows, RootRow, LeafRow
  <2>2. RootRow(m, r)'.key = RootPath /\ \A i : LeafRow(m, r, i)'.key = LeafPath(i)
    BY DEF RootRow, LeafRow
  <2> QED
    BY <2>1, <2>2
<1>5. CASE x = RootRow(n, r) /\ Releases(n) # {}
  <2>1. RootRow(m, r)' \in TileRows(m, r)' /\ x.key = RootPath
    BY <1>2, <1>4, <1>5, RowsAre
  <2> QED
    BY <1>4, <2>1
<1>6. ASSUME NEW i \in Releases(n), x = LeafRow(n, r, i)
      PROVE  \E y \in TileRows(m, r)' : y.key = x.key
  <2>1. LeafRow(m, r, i)' \in TileRows(m, r)' /\ x.key = LeafPath(i)
    BY <1>2, <1>4, <1>6, RowsAre
  <2> QED
    BY <1>4, <2>1
<1> QED
  BY <1>3, <1>5, <1>6

\* Some entries, and there is firmware among them.
LEMMA SomeRelease ==
  ASSUME entries \in Seq(Entry), entries # <<>> => entries[1] = Release,
         NEW n \in 0..Len(entries), n > 0
  PROVE  0 \in Releases(n)
BY DEF Releases, Release

\* The rows of a revision have its number, and no two have one key.
LEMMA RowsKeyed ==
  ASSUME NEW n, NEW r
  PROVE  /\ \A x \in TileRows(n, r) \cup AggRows(n, r) \cup RelRows(n, r) : x.rev = r
         /\ Keyed(TileRows(n, r)) /\ Keyed(AggRows(n, r)) /\ Keyed(RelRows(n, r))
<1>1. \A i : RootPath # LeafPath(i) /\ \A j : LeafPath(i) = LeafPath(j) => i = j
  BY DEF RootPath, LeafPath
<1>2. Keyed(TileRows(n, r)) /\ \A x \in TileRows(n, r) : x.rev = r
  BY <1>1, RowsAre DEF Keyed
<1>3. ASSUME NEW x \in AggRows(n, r)
      PROVE  \E i \in Releases(n) : x = [rev |-> r, key |-> i, val |-> Aggregate(n, i)]
  BY Zenon DEF AggRows
<1>4. Keyed(AggRows(n, r)) /\ \A x \in AggRows(n, r) : x.rev = r
  BY <1>3 DEF Keyed
<1>5. \A x \in RelRows(n, r) : x = [rev |-> r, key |-> "device", val |-> ReleaseLog(n)]
  BY Zenon DEF RelRows
<1>6. Keyed(RelRows(n, r)) /\ \A x \in RelRows(n, r) : x.rev = r
  BY <1>5 DEF Keyed
<1> QED
  BY <1>2, <1>4, <1>6

-----------------------------------------------------------------------------
(* What no step of the map takes back. *)

\* Rows stay, the log keeps its entries.
MapGrows ==
    /\ LogExtends /\ tiles \subseteq tiles' /\ aggs \subseteq aggs'
    /\ started' \in Nat /\ started <= started'
    /\ \A t \in tiles' : t.rev \in Nat
    /\ HasLast(tiles')

\* Consequences of the invariant that every step uses.
LEMMA MapFacts ==
  ASSUME MapInv
  PROVE  /\ entries \in Seq(Entry) /\ Len(entries) \in Nat /\ started \in Nat
         /\ \A t \in tiles : t.rev \in Nat
         /\ HasLast(tiles)
         /\ NextWriteRevision \in Nat /\ NextWriteRevision <= started
         /\ \A t \in tiles : t.rev < NextWriteRevision
         /\ \A b \in Builder : Running(b) \/ Choosing(b) \/ build[b] = Ended
<1>1. /\ entries \in Seq(Entry) /\ Len(entries) \in Nat /\ started \in Nat
      /\ \A t \in tiles : t.rev \in Nat /\ t.rev < started
      /\ HasLast(tiles)
  BY MapAssumption DEF MapInv, MapTyped, TablesTyped, TablesSound
<1>2. NextWriteRevision <= started
  <2>1. CASE tiles = {}
    BY <1>1, <2>1, NextNow
  <2>2. CASE tiles # {}
    <3>1. PICK t \in tiles : NextWriteRevision = t.rev + 1
      BY <1>1, <2>2, NextNow
    <3> QED
      BY <1>1, <3>1
  <2> QED
    BY <2>1, <2>2
<1>3. \A b \in Builder : Running(b) \/ Choosing(b) \/ build[b] = Ended
  <2> SUFFICES ASSUME NEW b \in Builder PROVE Running(b) \/ Choosing(b) \/ build[b] = Ended
    OBVIOUS
  <2>1. ShapeOf(build[b])
    BY DEF MapInv, MapTyped, BuildShape
  <2> QED
    BY <2>1 DEF ShapeOf, Running, Choosing
<1> QED
  BY <1>1, <1>2, <1>3, NextNow

\* The next revision and the log only grow.
LEMMA GrowsFacts ==
  ASSUME MapInv, MapGrows
  PROVE  /\ NextWriteRevision' \in Nat /\ NextWriteRevision <= NextWriteRevision'
         /\ \A t \in tiles' : t.rev < NextWriteRevision'
         /\ tiles' = {} => NextWriteRevision' = 0
         /\ tiles' # {} => \E t \in tiles' : NextWriteRevision' = t.rev + 1
         /\ Len(entries') \in Nat /\ Len(entries) <= Len(entries')
         /\ entries' \in Seq(Entry)
<1>1. /\ NextWriteRevision' \in Nat /\ NextWriteRevision <= NextWriteRevision'
      /\ \A t \in tiles' : t.rev < NextWriteRevision'
  BY MapFacts, NextGrows DEF MapGrows
<1>2. /\ Len(entries') \in Nat /\ Len(entries) <= Len(entries')
      /\ entries' \in Seq(Entry)
  BY MapFacts DEF MapGrows, LogExtends
<1>3. /\ tiles' = {} => NextWriteRevision' = 0
      /\ tiles' # {} => \E t \in tiles' : NextWriteRevision' = t.rev + 1
  BY NextIsAfter DEF MapGrows, NextWriteRevision
<1> QED
  BY <1>1, <1>2, <1>3

\* A command that a step does not touch stays sound.
LEMMA RunKeeps ==
  ASSUME MapInv, MapGrows, NEW b \in Builder, Running(b), build'[b] = build[b]
  PROVE  RunSound(b)'
<1> DEFINE n == build[b].end.count
           r == build[b].rev
<1>1. RunSound(b)
  BY DEF MapInv, RunsSound
<1>2. /\ r \in Nat /\ r < started /\ r <= NextWriteRevision
      /\ n \in 0..Len(build[b].end.head)
      /\ Len(build[b].end.head) \in Nat /\ Len(build[b].end.head) <= Len(entries)
      /\ n \in 0..Len(entries)
  BY <1>1, MapFacts DEF RunSound
<1>3. /\ r < started' /\ r <= NextWriteRevision'
      /\ Len(build[b].end.head) <= Len(entries')
  BY <1>2, MapFacts, GrowsFacts DEF MapGrows
<1>4. /\ TileRows(n, r)' = TileRows(n, r) /\ AggRows(n, r)' = AggRows(n, r)
      /\ RelRows(n, r)' = RelRows(n, r)
  BY <1>2, MapFacts, RowsStable DEF MapGrows
<1>5. /\ build[b].tiles \subseteq TileRows(n, r)
      /\ TileRows(n, r) \subseteq tiles' \cup build[b].tiles
      /\ build[b].aggs \subseteq AggRows(n, r)
      /\ AggRows(n, r) \subseteq aggs' \cup build[b].aggs
      /\ build[b].rels \subseteq RelRows(n, r)
  BY <1>1 DEF RunSound, MapGrows
<1> QED
  BY <1>2, <1>3, <1>4, <1>5 DEF RunSound

\* All commands stay sound when those that still run are as they were.
LEMMA RunsKeep ==
  ASSUME MapInv, MapGrows,
         \A b \in Builder : Running(b)' \/ Choosing(b)' => build'[b] = build[b]
  PROVE  RunsSound'
<1>1. \A b \in Builder : Running(b)' => RunSound(b)'
  BY RunKeeps DEF Running
<1>2. ASSUME NEW b \in Builder, Choosing(b)'
      PROVE  build'[b].rev \in Nat /\ build'[b].rev < started'
             /\ build'[b].rev <= NextWriteRevision'
  <2>1. /\ build'[b] = build[b] /\ Choosing(b)
        /\ build[b].rev \in Nat /\ build[b].rev < started /\ build[b].rev <= NextWriteRevision
    BY <1>2 DEF Choosing, MapInv, RunsSound
  <2> QED
    BY <2>1, MapFacts, GrowsFacts DEF MapGrows
<1> QED
  BY <1>1, <1>2 DEF RunsSound

\* A revision that was whole stays whole.
LEMMA RevisionKeeps ==
  ASSUME MapInv, MapGrows, NEW r \in revisions
  PROVE  /\ r.rev \in Nat /\ r.rev <= NextWriteRevision'
         /\ r.count \in 0..Len(r.head)
         /\ Len(r.head) \in Nat /\ Len(r.head) <= Len(entries')
         /\ TileRows(r.count, r.rev)' \subseteq tiles'
         /\ AggRows(r.count, r.rev)' \subseteq aggs'
<1>1. /\ r.rev \in Nat /\ r.rev <= NextWriteRevision
      /\ r.count \in 0..Len(r.head)
      /\ Len(r.head) \in Nat /\ Len(r.head) <= Len(entries)
      /\ TileRows(r.count, r.rev) \subseteq tiles
      /\ AggRows(r.count, r.rev) \subseteq aggs
  BY DEF MapInv, RevisionsWhole
<1>2. r.count \in 0..Len(entries)
  BY <1>1, MapFacts
<1>3. /\ TileRows(r.count, r.rev)' = TileRows(r.count, r.rev)
      /\ AggRows(r.count, r.rev)' = AggRows(r.count, r.rev)
  BY <1>2, MapFacts, RowsStable DEF MapGrows
<1> QED
  BY <1>1, <1>3, MapFacts, GrowsFacts DEF MapGrows

\* New tiles are those of a revision that is next at most, for entries of the log.
LEMMA TilesKnownKeep ==
  ASSUME MapInv, MapGrows, NEW T, tiles' = tiles \cup T, NEW r \in Nat, r <= NextWriteRevision,
         NEW n \in 0..Len(entries), T \subseteq TileRows(n, r)
  PROVE  TilesKnown'
<1>1. \A t \in T : t.rev = r
  BY RowsKeyed
<1>2. ASSUME NEW k \in Nat, k < NextWriteRevision' PROVE \E t \in tiles' : t.rev = k
  <2>1. CASE k < NextWriteRevision
    BY <2>1 DEF MapInv, TilesKnown
  <2>2. CASE ~(k < NextWriteRevision)
    <3>1. PICK t \in tiles' : NextWriteRevision' = t.rev + 1
      BY <1>2, GrowsFacts
    <3>2. t.rev \in Nat /\ k <= t.rev
      BY <1>2, <3>1 DEF MapGrows
    <3>3. t \in T
      BY <2>2, <3>2, MapFacts
    <3>4. t.rev = k
      BY <1>1, <2>2, <3>2, <3>3, MapFacts
    <3> QED
      BY <3>4
  <2> QED
    BY <2>1, <2>2
<1>3. ASSUME NEW t \in tiles' PROVE \E row \in TileRows(Len(entries), t.rev)' : row.key = t.key
  <2>0. /\ Len(entries) \in Nat /\ Len(entries') \in Nat /\ Len(entries) <= Len(entries')
        /\ entries \in Seq(Entry) /\ LogExtends
    BY MapFacts, GrowsFacts DEF MapGrows
  <2>m. PICK m : m = Len(entries')
    OBVIOUS
  <2>r. PICK v : v = t.rev
    OBVIOUS
  <2>1. CASE t \in tiles
    <3>1. PICK row \in TileRows(Len(entries), v) : row.key = t.key
      BY <2>1, <2>r DEF MapInv, TilesKnown
    <3>2. \E y \in TileRows(m, v)' : y.key = row.key
      BY <2>0, <2>m, RowsGrow
    <3> QED
      BY <2>m, <2>r, <3>1, <3>2
  <2>2. CASE t \in T
    <3>1. t \in TileRows(n, v) /\ n <= m
      BY <1>1, <2>0, <2>2, <2>m, <2>r
    <3>2. \E y \in TileRows(m, v)' : y.key = t.key
      BY <2>0, <2>m, <3>1, RowsGrow
    <3> QED
      BY <2>m, <2>r, <3>2
  <2> QED
    BY <2>1, <2>2
<1> QED
  BY <1>2, <1>3 DEF TilesKnown

\* Without new tiles.
LEMMA TilesKnownStay ==
  ASSUME MapInv, MapGrows, tiles' = tiles
  PROVE  TilesKnown'
<1>0. PICK T, z : T = {} /\ z = 0
  OBVIOUS
<1>1. T \subseteq TileRows(z, z) /\ tiles' = tiles \cup T /\ z \in Nat /\ z <= NextWriteRevision
      /\ z \in 0..Len(entries)
  BY <1>0, MapFacts
<1> QED
  BY <1>1, TilesKnownKeep

\* The order stays when no command gets on to a new log or out of its way.
LEMMA OrderKeeps ==
  ASSUME MapInv, Snapshots' \subseteq Snapshots, revisions' = revisions,
         \A b \in Builder : Running(b)' =>
            /\ Running(b) /\ build'[b].end = build[b].end /\ build'[b].rev = build[b].rev
            /\ Doomed(b) => Doomed(b)'
  PROVE  SnapshotsOrdered'
<1>1. \A rev, h : Precedes(rev, h) => Precedes(rev, h)'
  BY DEF Precedes
<1> QED
  BY <1>1 DEF MapInv, SnapshotsOrdered

-----------------------------------------------------------------------------
(* Steps. *)

\* A step of one command leaves the others, and the shape, alone.
LEMMA ShapeKeeps ==
  ASSUME BuildShape, NEW b \in Builder, NEW x, ShapeOf(x),
         build' = [build EXCEPT ![b] = x]
  PROVE  /\ BuildShape' /\ build'[b] = x
         /\ \A c \in Builder \ {b} : build'[c] = build[c]
<1>1. build'[b] = x /\ \A c \in Builder \ {b} : build'[c] = build[c]
  BY DEF BuildShape
<1>2. build' = [c \in Builder |-> build'[c]]
  BY DEF BuildShape
<1>3. \A c \in Builder : ShapeOf(build'[c])
  BY <1>1 DEF BuildShape, ShapeOf
<1> QED
  BY <1>1, <1>2, <1>3 DEF BuildShape, ShapeOf

\* The log grows.
LEMMA AddEntryKeeps ==
  ASSUME MapInv, NEW e \in Entry, AddEntry(e)
  PROVE  MapInv'
<1>1. /\ UNCHANGED <<tiles, aggs, rels, revisions, build, started, disturbed, failed>>
      /\ entries' = Append(entries, e) /\ Len(entries) < MaxEntries
  BY DEF AddEntry, tables
<1>2. MapGrows
  BY <1>1, MapFacts DEF MapGrows, LogExtends
<1>3. MapTyped'
  <2>1. entries' \in Seq(Entry) /\ Len(entries') <= MaxEntries
    BY <1>1, MapFacts, MapAssumption
  <2>2. entries'[1] = Release
    <3>1. CASE entries = <<>>
      <4>1. Len(entries) = 0 /\ entries'[1] = e
        BY <1>1, <3>1
      <4>2. ASSUME NEW n \in 0..(MaxEntries - 1), NEW g \in BOOLEAN, e = Annotation(n, g) PROVE FALSE
        <5>1. e.type = "malware" /\ e.at = n
          BY <4>2 DEF Annotation
        <5>2. e.at < Len(entries)
          BY <5>1 DEF AddEntry
        <5> QED
          BY <4>1, <5>1, <5>2, MapAssumption
      <4> QED
        BY <4>1, <4>2 DEF Entry
    <3>2. CASE entries # <<>>
      <4>1. entries'[1] = entries[1]
        BY <1>1, <3>2, MapFacts
      <4> QED
        BY <3>2, <4>1 DEF MapInv, MapTyped
    <3> QED
      BY <3>1, <3>2
  <2> QED
    BY <1>1, <2>1, <2>2 DEF MapInv, MapTyped, BuildShape, TablesTyped
<1>4. TablesSound'
  BY <1>1 DEF MapInv, TablesSound, Keyed, HasLast
<1>5. RunsSound'
  BY <1>1, <1>2, RunsKeep DEF Running, Choosing
<1>6. RevisionsWhole'
  BY <1>1, <1>2, RevisionKeeps DEF RevisionsWhole
<1>7. SnapshotsOrdered'
  BY <1>1, OrderKeeps DEF Snapshots, Running, Doomed, Conflict
<1>8. Alone'
  BY <1>1 DEF MapInv, Alone, Hollow, Running, Choosing, Fresh, Clear, Conflict, Accounted,
     NextWriteRevision
<1>9. TilesKnown'
  BY <1>1, <1>2, TilesKnownStay
<1> QED
  BY <1>3, <1>4, <1>5, <1>6, <1>7, <1>8, <1>9 DEF MapInv

\* A command ends without a row.
LEMMA EndKeeps ==
  ASSUME MapInv, NEW b \in Builder,
         UNCHANGED <<entries, tiles, aggs, rels, revisions, started>>,
         build' = [build EXCEPT ![b] = Ended],
         disturbed' \in BOOLEAN, failed' \in BOOLEAN, Alone'
  PROVE  MapInv'
<1>1. MapGrows
  BY MapFacts DEF MapGrows, LogExtends
<1>2. /\ BuildShape' /\ build'[b] = Ended
      /\ \A c \in Builder \ {b} : build'[c] = build[c]
  BY ShapeKeeps DEF MapInv, MapTyped, ShapeOf
<1>3. /\ \A c \in Builder : Running(c)' => c # b /\ Running(c) /\ build'[c] = build[c]
      /\ \A c \in Builder : Choosing(c)' => build'[c] = build[c]
  BY <1>2 DEF Running, Choosing, Ended
<1>4. MapTyped'
  BY <1>2 DEF MapInv, MapTyped, TablesTyped
<1>5. TablesSound' /\ TilesKnown'
  BY <1>1, TilesKnownStay DEF MapInv, TablesSound, Keyed, HasLast
<1>6. RunsSound'
  BY <1>1, <1>3, RunsKeep
<1>7. RevisionsWhole'
  BY <1>1, RevisionKeeps DEF RevisionsWhole
<1>8. Snapshots' \subseteq Snapshots
  BY <1>3 DEF Snapshots
<1>9. SnapshotsOrdered'
  BY <1>3, <1>8, OrderKeeps DEF Doomed, Conflict
<1> QED
  BY <1>4, <1>5, <1>6, <1>7, <1>9 DEF MapInv

\* One that was killed, or has met a row in its way.
LEMMA FailKeeps ==
  ASSUME MapInv, NEW b \in Builder,
         UNCHANGED <<entries, tiles, aggs, rels, revisions, started>>,
         build' = [build EXCEPT ![b] = Ended],
         disturbed' \in BOOLEAN, failed' \in BOOLEAN, disturbed' \/ Hollow
  PROVE  MapInv'
<1>1. Hollow' = Hollow
  BY DEF Hollow
<1>2. Alone'
  BY <1>1 DEF Alone
<1> QED
  BY <1>2, EndKeeps

\* One that wanted more entries than there are.
LEMMA CountTooLargeKeeps ==
  ASSUME MapInv, NEW b \in Builder, CountTooLarge(b)
  PROVE  MapInv'
<1>1. /\ UNCHANGED <<entries, tiles, aggs, rels, revisions, started, disturbed, failed>>
      /\ build' = [build EXCEPT ![b] = Ended] /\ Choosing(b)
  BY DEF CountTooLarge, tables, Choosing
<1>2. build'[b] = Ended /\ \A c \in Builder \ {b} : build'[c] = build[c]
  BY <1>1 DEF MapInv, MapTyped, BuildShape
<1>3. Alone'
  <2> SUFFICES ASSUME ~disturbed, ~Hollow PROVE Alone'
    BY <1>1 DEF Alone, Hollow
  <2>1. \A c \in Builder : build'[c] = Ended
    BY <1>1, <1>2 DEF MapInv, Alone, Choosing, Ended
  <2>2. Clear(b) /\ ~failed
    BY <1>1 DEF MapInv, Alone
  <2>3. NextWriteRevision' = NextWriteRevision
    BY <1>1 DEF NextWriteRevision
  <2> QED
    BY <1>1, <2>1, <2>2, <2>3 DEF Alone, Clear, Accounted, Running, Choosing, Ended
<1> QED
  BY <1>1, <1>3, EndKeeps DEF MapInv, MapTyped

\* A command starts: its revision is the next one.
LEMMA StartBuildKeeps ==
  ASSUME MapInv, NEW b \in Builder, StartBuild(b)
  PROVE  MapInv'
<1> DEFINE r == NextWriteRevision
           x == [pc |-> "head", rev |-> r]
<1>1. /\ UNCHANGED <<entries, tiles, aggs, rels, revisions, failed>>
      /\ started' = started + 1 /\ started < MaxBuilds
      /\ build' = [build EXCEPT ![b] = x]
  BY DEF StartBuild, tables
<1>2. MapGrows
  BY <1>1, MapFacts DEF MapGrows, LogExtends
<1>3. /\ BuildShape' /\ build'[b] = x
      /\ \A c \in Builder \ {b} : build'[c] = build[c]
  <2>1. ShapeOf(x)
    BY DEF ShapeOf
  <2> QED
    BY <1>1, <2>1, ShapeKeeps DEF MapInv, MapTyped
<1>4. NextWriteRevision' = r /\ r \in Nat /\ r <= started
  BY <1>1, MapFacts DEF NextWriteRevision
<1>5. MapTyped'
  <2>1. started' \in 0..MaxBuilds
    BY <1>1, MapFacts, MapAssumption
  <2>2. TablesTyped'
    BY <1>1, MapFacts DEF MapInv, MapTyped, TablesTyped
  <2>3. disturbed' \in BOOLEAN
    BY DEF StartBuild, MapInv, MapTyped
  <2> QED
    BY <1>1, <1>3, <2>1, <2>2, <2>3 DEF MapInv, MapTyped
<1>6. TablesSound' /\ TilesKnown'
  BY <1>1, <1>2, TilesKnownStay DEF MapInv, TablesSound, Keyed, HasLast
<1>7. /\ build'[b].pc = "head" /\ build'[b].rev = r
      /\ \A c \in Builder : Running(c)' => Running(c) /\ c # b /\ build'[c] = build[c]
  BY <1>3 DEF Running
<1> HIDE DEF x, r
<1>8. RunsSound'
  <2>1. ASSUME NEW c \in Builder, Choosing(c)'
        PROVE  build'[c].rev \in Nat /\ build'[c].rev < started'
               /\ build'[c].rev <= NextWriteRevision'
    <3>1. CASE c = b
      BY <1>1, <1>4, <1>7, <3>1, MapFacts
    <3>2. CASE c # b
      <4>1. /\ build'[c] = build[c]
            /\ build[c].rev \in Nat /\ build[c].rev < started /\ build[c].rev <= NextWriteRevision
        BY <1>3, <2>1, <3>2 DEF Choosing, MapInv, RunsSound
      <4> QED
        BY <1>1, <1>4, <4>1, MapFacts DEF r
    <3> QED
      BY <3>1, <3>2
  <2>2. \A c \in Builder : Running(c)' => RunSound(c)'
    BY <1>2, <1>7, RunKeeps
  <2> QED
    BY <2>1, <2>2 DEF RunsSound
<1>9. RevisionsWhole'
  BY <1>1, <1>2, RevisionKeeps DEF RevisionsWhole
<1>10. SnapshotsOrdered'
  <2>1. Snapshots' \subseteq Snapshots
    BY <1>1, <1>7 DEF Snapshots
  <2> QED
    BY <1>1, <1>7, <2>1, OrderKeeps DEF Doomed, Conflict
<1>11. Alone'
  <2> SUFFICES ASSUME ~disturbed', ~Hollow' PROVE Alone'
    BY DEF Alone
  <2>1. ~disturbed /\ ~Hollow /\ \A c \in Builder : build[c] = Ended
    <3>1. ~disturbed /\ \A c \in Builder : build[c].pc = "idle"
      BY DEF StartBuild
    <3> QED
      BY <1>1, <3>1, MapFacts DEF Hollow, Running, Choosing
  <2>2. \A c \in Builder : build'[c] # Ended => c = b
    BY <1>3, <2>1
  <2>3. /\ ~failed /\ \A t \in aggs : t.rev < r
        /\ \A t \in rels : t.rev < r
        /\ \A t \in revisions : t.rev < r
    BY <2>1 DEF MapInv, Alone, Accounted, r, Running, Ended
  <2>4. \A c \in Builder : ~Running(c)' /\ (Choosing(c)' => c = b)
    BY <1>7, <2>1, <2>2 DEF Running, Choosing, Ended
  <2>5. Clear(b)'
    BY <1>1, <1>4, <1>7, <2>3 DEF Clear
  <2>6. /\ \A t \in aggs' : Accounted(t.rev)'
        /\ \A t \in rels' : Accounted(t.rev)'
        /\ \A t \in revisions' : Accounted(t.rev)'
    BY <1>1, <1>4, <2>3 DEF Accounted
  <2> QED
    BY <1>1, <2>2, <2>3, <2>4, <2>5, <2>6 DEF Alone
<1> QED
  BY <1>5, <1>6, <1>8, <1>9, <1>10, <1>11 DEF MapInv

\* A command reads the tree head.  If a later revision has been chosen by now,
\* there is a tile of this one, which is in the way of a map of the whole log.
LEMMA ReadHeadKeeps ==
  ASSUME MapInv, NEW b \in Builder, NEW n \in Nat, ReadHead(b, n)
  PROVE  MapInv'
<1>0. PICK r : r = build[b].rev
  OBVIOUS
<1> DEFINE x == [pc |-> "run", rev |-> r, end |-> [head |-> TreeHead, count |-> n],
                 tiles |-> TileRows(n, r), aggs |-> AggRows(n, r), rels |-> RelRows(n, r)]
<1>1. /\ UNCHANGED <<entries, tiles, aggs, rels, revisions, started, disturbed, failed>>
      /\ build' = [build EXCEPT ![b] = x] /\ Choosing(b) /\ n \in 0..Len(entries)
  BY <1>0, MapFacts DEF ReadHead, tables, Choosing, TreeHead
<1>2. MapGrows
  BY <1>1, MapFacts DEF MapGrows, LogExtends
<1>3. /\ BuildShape' /\ build'[b] = x
      /\ \A c \in Builder \ {b} : build'[c] = build[c]
  <2>1. ShapeOf(x)
    BY DEF ShapeOf
  <2> QED
    BY <1>1, <2>1, ShapeKeeps DEF MapInv, MapTyped
<1>4. NextWriteRevision' = NextWriteRevision /\ r \in Nat /\ r < started /\ r <= NextWriteRevision
      /\ NextWriteRevision \in Nat
  BY <1>0, <1>1, MapFacts DEF NextWriteRevision, MapInv, RunsSound
<1>5. MapTyped'
  BY <1>1, <1>3 DEF MapInv, MapTyped, TablesTyped
<1>6. TablesSound' /\ TilesKnown'
  BY <1>1, <1>2, TilesKnownStay DEF MapInv, TablesSound, Keyed, HasLast
<1>7. /\ build'[b].pc = "run"
      /\ build'[b].rev = r /\ build'[b].end.count = n /\ build'[b].end.head = entries
      /\ build'[b].tiles = TileRows(n, r) /\ build'[b].aggs = AggRows(n, r)
      /\ build'[b].rels = RelRows(n, r)
  BY <1>3 DEF TreeHead
<1>8. /\ TileRows(n, r)' = TileRows(n, r) /\ AggRows(n, r)' = AggRows(n, r)
      /\ RelRows(n, r)' = RelRows(n, r)
  BY <1>1, <1>2, MapFacts, RowsStable DEF MapGrows
<1> HIDE DEF x
<1>9. RunSound(b)'
  BY <1>1, <1>4, <1>7, <1>8, MapFacts DEF RunSound
<1>10. \A c \in Builder : c # b => (Running(c)' <=> Running(c)) /\ (Choosing(c)' <=> Choosing(c))
  BY <1>3 DEF Running, Choosing
<1>11. RunsSound'
  <2>1. \A c \in Builder : Running(c)' => RunSound(c)'
    BY <1>2, <1>3, <1>9, <1>10, RunKeeps
  <2>2. ASSUME NEW c \in Builder, Choosing(c)'
        PROVE  build'[c].rev \in Nat /\ build'[c].rev < started'
               /\ build'[c].rev <= NextWriteRevision'
    <3>1. c # b
      BY <1>7, <2>2 DEF Choosing
    <3>2. build'[c] = build[c] /\ Choosing(c)
      BY <1>3, <1>10, <2>2, <3>1
    <3> QED
      BY <1>1, <1>4, <3>2 DEF MapInv, RunsSound
  <2> QED
    BY <2>1, <2>2 DEF RunsSound
<1>12. RevisionsWhole'
  BY <1>1, <1>2, RevisionKeeps DEF RevisionsWhole
<1>13. SnapshotsOrdered'
  <2>n. PICK new : new = [rev |-> r, head |-> entries]
    OBVIOUS
  <2>0. new = [rev |-> r, head |-> entries] /\ new.rev = r /\ new.head = entries
    BY <2>n
  <2>1. Snapshots' \subseteq Snapshots \cup {new}
    <3>1. \A c \in Builder : Running(c)' => c = b \/ (Running(c) /\ build'[c] = build[c])
      BY <1>3, <1>10
    <3> QED
      BY <1>1, <1>7, <2>0, <3>1 DEF Snapshots
  <2>2. \A q \in Snapshots : q.rev \in Nat /\ q.rev <= NextWriteRevision
                             /\ Len(q.head) \in Nat /\ Len(q.head) <= Len(entries)
    BY DEF MapInv, Snapshots, RevisionsWhole, RunsSound, RunSound
  <2>3. ASSUME NEW rev, NEW h, Len(h) <= Len(entries), Precedes(rev, h) PROVE Precedes(rev, h)'
    BY <2>0, <2>1, <2>3 DEF Precedes
  <2>4. ASSUME n = Len(entries), ~Doomed(b)' PROVE Precedes(r, entries)'
    <3> SUFFICES ASSUME NEW q \in Snapshots', r < q.rev PROVE Len(entries) <= Len(q.head)
      BY <1>1, <1>7 DEF Precedes
    <3>1. CASE q = new
      BY <2>0, <3>1, MapFacts
    <3>2. CASE q \in Snapshots
      <4>1. r < NextWriteRevision
        BY <1>4, <2>2, <3>2
      <4>2. PICK t \in tiles : t.rev = r
        BY <1>4, <4>1 DEF MapInv, TilesKnown
      <4>3. PICK row \in TileRows(n, r) : row.key = t.key
        BY <2>4, <4>2 DEF MapInv, TilesKnown
      <4>4. row.rev = r
        BY RowsKeyed
      <4>5. Conflict(tiles, row)'
        BY <1>1, <4>2, <4>3, <4>4 DEF Conflict
      <4> QED
        BY <1>7, <2>4, <4>3, <4>5 DEF Doomed
    <3> QED
      BY <2>1, <3>1, <3>2
  <2>5. ASSUME NEW q \in revisions', q.count = Len(q.head) PROVE Precedes(q.rev, q.head)'
    <3>1. q \in revisions /\ Len(q.head) <= Len(entries)
      BY <1>1, <2>5 DEF MapInv, RevisionsWhole
    <3>2. Precedes(q.rev, q.head)
      BY <2>5, <3>1 DEF MapInv, SnapshotsOrdered
    <3> QED
      BY <2>3, <3>1, <3>2
  <2>6. ASSUME NEW c \in Builder, Running(c)', build'[c].end.count = Len(build'[c].end.head),
               ~Doomed(c)'
        PROVE  Precedes(build[c].rev, build[c].end.head)'
    <3>1. CASE c = b
      <4>1. n = Len(entries) /\ ~Doomed(b)'
        BY <1>7, <2>6, <3>1
      <4>2. Precedes(r, entries)' /\ entries' = entries
        BY <1>1, <2>4, <4>1
      <4> QED
        BY <1>7, <3>1, <4>2 DEF Precedes
    <3>2. CASE c # b
      <4>1. build'[c] = build[c] /\ Running(c) /\ ~Doomed(c)
        BY <1>1, <1>3, <1>10, <2>6, <3>2 DEF Doomed, Conflict
      <4>2. Precedes(build[c].rev, build[c].end.head) /\ Len(build[c].end.head) <= Len(entries)
        BY <2>6, <4>1 DEF MapInv, SnapshotsOrdered, RunsSound, RunSound
      <4>3. PICK v, h : v = build[c].rev /\ h = build[c].end.head
        OBVIOUS
      <4>4. Precedes(v, h)'
        BY <2>3, <4>2, <4>3
      <4> QED
        BY <4>1, <4>3, <4>4 DEF Precedes
    <3> QED
      BY <3>1, <3>2
  <2> QED
    BY <2>5, <2>6 DEF SnapshotsOrdered
<1>14. Alone'
  <2> SUFFICES ASSUME ~disturbed', ~Hollow' PROVE Alone'
    BY DEF Alone
  <2>1. ~disturbed /\ ~Hollow
    BY <1>1 DEF Hollow
  <2>2. /\ \A c \in Builder : build[c] # Ended => c = b
        /\ Clear(b) /\ ~failed
    BY <1>1, <2>1 DEF MapInv, Alone, Choosing, Ended
  <2>3. \A c \in Builder : build'[c] # Ended => c = b
    BY <1>3, <2>2
  <2>4. \A row \in build'[b].tiles \cup build'[b].aggs \cup build'[b].rels : row.rev = r
    BY <1>7, RowsKeyed
  <2>5. Fresh(b)'
    <3>1. \A t \in tiles : t.rev # r
      BY <1>0, <1>4, <2>2, MapFacts DEF Clear
    <3>2. /\ \A t \in aggs : t.rev \in Nat
          /\ \A t \in rels : t.rev \in Nat
          /\ \A t \in revisions : t.rev \in Nat
      BY DEF MapInv, MapTyped, TablesTyped, RevisionsWhole
    <3>3. /\ \A t \in aggs : t.rev # r
          /\ \A t \in rels : t.rev # r
          /\ \A t \in revisions : t.rev # r
      BY <1>0, <1>4, <2>2, <3>2 DEF Clear
    <3> QED
      BY <1>1, <1>7, <2>4, <3>1, <3>3 DEF Fresh, Conflict
  <2>6. \A c \in Builder : (Running(c)' => c = b) /\ ~Choosing(c)'
    BY <1>7, <2>3 DEF Running, Choosing, Ended
  <2>7. /\ \A t \in aggs' : Accounted(t.rev)'
        /\ \A t \in rels' : Accounted(t.rev)'
        /\ \A t \in revisions' : Accounted(t.rev)'
    BY <1>1, <1>4, <2>2 DEF Accounted, Clear
  <2> QED
    BY <1>1, <2>2, <2>3, <2>5, <2>6, <2>7 DEF Alone
<1> QED
  BY <1>5, <1>6, <1>11, <1>12, <1>13, <1>14 DEF MapInv

\* An insertion that fails has met the row of another command, or follows a
\* revision of no entries.
LEMMA ConflictDisturbed ==
  ASSUME MapInv, NEW b \in Builder, Running(b),
         \/ \E row \in build[b].tiles : Conflict(tiles, row)
         \/ \E row \in build[b].aggs : Conflict(aggs, row)
         \/ \E row \in build[b].rels : Conflict(rels, row)
         \/ \E r \in revisions : r.rev = build[b].rev
  PROVE  disturbed \in BOOLEAN /\ (disturbed \/ Hollow)
BY DEF MapInv, MapTyped, Alone, Fresh

\* Adding a row without a conflict keeps the primary key.
LEMMA AddKeepsKeyed ==
  ASSUME NEW table, NEW row, Keyed(table), ~Conflict(table, row)
  PROVE  Keyed(table \cup {row})
BY DEF Keyed, Conflict

\* The rows of a command that runs.
LEMMA RunFacts ==
  ASSUME MapInv, NEW b \in Builder, Running(b)
  PROVE  /\ build[b].rev \in Nat /\ build[b].rev < started
         /\ build[b].rev <= NextWriteRevision
         /\ \A row \in build[b].tiles \cup build[b].aggs \cup build[b].rels :
               row.rev = build[b].rev
         /\ Keyed(build[b].tiles) /\ Keyed(build[b].aggs) /\ Keyed(build[b].rels)
<1> DEFINE n == build[b].end.count
           r == build[b].rev
<1>1. /\ r \in Nat /\ r < started /\ r <= NextWriteRevision
      /\ build[b].tiles \subseteq TileRows(n, r)
      /\ build[b].aggs \subseteq AggRows(n, r)
      /\ build[b].rels \subseteq RelRows(n, r)
  BY DEF MapInv, RunsSound, RunSound
<1>2. \A row \in build[b].tiles \cup build[b].aggs \cup build[b].rels : row.rev = r
  BY <1>1, RowsKeyed
<1>3. Keyed(build[b].tiles) /\ Keyed(build[b].aggs) /\ Keyed(build[b].rels)
  BY <1>1, RowsKeyed DEF Keyed
<1> QED
  BY <1>1, <1>2, <1>3

\* Rows T, A and R of command b go into the tables and meet no conflict.
Inserts(b, y, T, A, R) ==
    /\ UNCHANGED <<entries, revisions, started, disturbed, failed>>
    /\ build' = [build EXCEPT ![b] = y]
    /\ ShapeOf(y) /\ y.pc = "run" /\ y.rev = build[b].rev /\ y.end = build[b].end
    /\ T \subseteq build[b].tiles /\ A \subseteq build[b].aggs /\ R \subseteq build[b].rels
    /\ y.tiles = build[b].tiles \ T /\ y.aggs = build[b].aggs \ A /\ y.rels = build[b].rels \ R
    /\ tiles' = tiles \cup T /\ aggs' = aggs \cup A /\ rels' = rels \cup R
    /\ \A row \in T : ~Conflict(tiles, row)
    /\ \A row \in A : ~Conflict(aggs, row)

\* They stay sound.
LEMMA InsertKeeps ==
  ASSUME MapInv, NEW b \in Builder, Running(b), NEW y, NEW T, NEW A, NEW R,
         Inserts(b, y, T, A, R), HasLast(tiles')
  PROVE  MapInv'
<1> USE DEF Inserts
<1>1. /\ BuildShape' /\ build'[b] = y
      /\ \A c \in Builder \ {b} : build'[c] = build[c]
  BY ShapeKeeps DEF MapInv, MapTyped
<1>2. \A row \in T \cup A \cup R : row.rev = build[b].rev /\ row.rev \in Nat /\ row.rev < started
  BY RunFacts
<1>3. MapTyped'
  BY <1>1, <1>2 DEF MapInv, MapTyped, TablesTyped
<1>4. MapGrows
  BY <1>2, MapFacts DEF MapGrows, LogExtends
<1>5. TablesSound'
  <2>1. Keyed(tiles') /\ Keyed(aggs')
    <3>1. /\ Keyed(tiles) /\ Keyed(aggs) /\ Keyed(build[b].tiles) /\ Keyed(build[b].aggs)
      BY RunFacts DEF MapInv, TablesSound
    <3> QED
      BY <3>1 DEF Keyed, Conflict
  <2> QED
    BY <2>1 DEF MapInv, TablesSound, HasLast
<1>6. RunSound(b)'
  <2> DEFINE n == build[b].end.count
             r == build[b].rev
  <2>1. RunSound(b)
    BY DEF MapInv, RunsSound
  <2>2. /\ n \in 0..Len(entries) /\ r \in Nat /\ r < started /\ r <= NextWriteRevision'
    BY <1>4, <2>1, MapFacts, GrowsFacts DEF RunSound
  <2>3. /\ TileRows(n, r)' = TileRows(n, r) /\ AggRows(n, r)' = AggRows(n, r)
        /\ RelRows(n, r)' = RelRows(n, r)
    BY <1>4, <2>2, MapFacts, RowsStable DEF MapGrows
  <2>4. build'[b].rev = r /\ build'[b].end = build[b].end
    BY <1>1
  <2> QED
    BY <1>1, <2>1, <2>2, <2>3, <2>4 DEF RunSound
<1>7. RunsSound'
  <2>1. \A c \in Builder : Running(c)' => RunSound(c)'
    BY <1>1, <1>4, <1>6, RunKeeps DEF Running
  <2>2. ASSUME NEW c \in Builder, Choosing(c)'
        PROVE  build'[c].rev \in Nat /\ build'[c].rev < started'
               /\ build'[c].rev <= NextWriteRevision'
    <3>1. build'[c] = build[c] /\ Choosing(c)
      BY <1>1, <2>2 DEF Choosing
    <3>2. build[c].rev \in Nat /\ build[c].rev < started /\ build[c].rev <= NextWriteRevision
      BY <3>1 DEF MapInv, RunsSound
    <3> QED
      BY <1>4, <3>1, <3>2, MapFacts, GrowsFacts
  <2> QED
    BY <2>1, <2>2 DEF RunsSound
<1>8. RevisionsWhole'
  BY <1>4, RevisionKeeps DEF RevisionsWhole
<1>9. SnapshotsOrdered'
  <2>1. Snapshots' = Snapshots
    BY <1>1 DEF Snapshots, Running
  <2>2. ASSUME NEW c \in Builder, Doomed(c) PROVE Doomed(c)'
    <3>1. PICK row \in build[c].tiles : Conflict(tiles, row)
      BY <2>2 DEF Doomed
    <3>2. Conflict(tiles, row)'
      BY <3>1 DEF Conflict
    <3>3. row \in build'[c].tiles
      BY <1>1, <3>1
    <3> QED
      BY <3>2, <3>3 DEF Doomed
  <2>3. \A c \in Builder : Running(c)' =>
            Running(c) /\ build'[c].end = build[c].end /\ build'[c].rev = build[c].rev
    BY <1>1 DEF Running
  <2> QED
    BY <2>1, <2>2, <2>3, OrderKeeps
<1>11. TilesKnown'
  <2> DEFINE n == build[b].end.count
             r == build[b].rev
  <2>1. /\ n \in 0..Len(entries) /\ r \in Nat /\ r <= NextWriteRevision
        /\ T \subseteq TileRows(n, r)
    BY MapFacts DEF MapInv, RunsSound, RunSound
  <2> HIDE DEF n, r
  <2> QED
    BY <1>4, <2>1, TilesKnownKeep
<1>10. Alone'
  <2> SUFFICES ASSUME ~disturbed, ~Hollow PROVE Alone'
    BY DEF Alone, Hollow
  <2>2. Running(b)'
    BY <1>1 DEF Running
  <2>3. /\ \A c \in Builder : build[c] # Ended => c = b
        /\ \A c \in Builder : build'[c] # Ended => c = b
    BY <1>1 DEF MapInv, Alone, Running, Ended
  <2>1. \A c \in Builder : (Running(c)' => c = b) /\ ~Choosing(c)'
    BY <1>1, <2>3 DEF Running, Choosing, Ended
  <2>4. Fresh(b)'
    BY <1>1, RunFacts DEF MapInv, Alone, Fresh, Conflict, Keyed
  <2>5. NextWriteRevision \in Nat /\ NextWriteRevision' \in Nat
        /\ NextWriteRevision <= NextWriteRevision'
    BY <1>4, MapFacts, GrowsFacts
  <2>6. \A v \in Nat : Accounted(v) => Accounted(v)'
    BY <1>1, <2>1, <2>2, <2>3, <2>5 DEF Accounted, Running, Ended
  <2>7. /\ \A t \in aggs : t.rev \in Nat /\ Accounted(t.rev)
        /\ \A t \in rels : t.rev \in Nat /\ Accounted(t.rev)
        /\ \A t \in revisions : t.rev \in Nat /\ Accounted(t.rev)
    BY DEF MapInv, MapTyped, TablesTyped, RevisionsWhole, Alone
  <2>8. \A v \in Nat : v = build[b].rev => Accounted(v)'
    BY <1>1, <2>2 DEF Accounted
  <2>9. /\ \A t \in aggs' : Accounted(t.rev)'
        /\ \A t \in rels' : Accounted(t.rev)'
        /\ \A t \in revisions' : Accounted(t.rev)'
    BY <1>2, <2>6, <2>7, <2>8
  <2> QED
    BY <2>1, <2>3, <2>4, <2>9 DEF MapInv, Alone
<1> QED
  BY <1>3, <1>5, <1>7, <1>8, <1>9, <1>10, <1>11 DEF MapInv

\* The three sinks, with a conflict or without.
LEMMA SinkKeeps ==
  ASSUME MapInv, NEW b \in Builder, Running(b),
         \/ \E row \in build[b].tiles : SinkTile(b, row)
         \/ \E row \in build[b].aggs : SinkAgg(b, row)
         \/ \E row \in build[b].rels : SinkRel(b, row)
  PROVE  MapInv'
<1>4. /\ build[b] = [pc |-> "run", rev |-> build[b].rev, end |-> build[b].end,
                     tiles |-> build[b].tiles, aggs |-> build[b].aggs,
                     rels |-> build[b].rels]
  <2>1. ShapeOf(build[b])
    BY DEF MapInv, MapTyped, BuildShape
  <2> QED
    BY <2>1 DEF ShapeOf, Running, Ended
<1>0. HasLast(tiles) /\ failed \in BOOLEAN
  BY DEF MapInv, MapTyped, TablesSound
<1>1. ASSUME NEW row \in build[b].tiles, SinkTile(b, row) PROVE MapInv'
  <2>1. CASE Conflict(tiles, row)
    BY <1>0, <1>1, <2>1, ConflictDisturbed, FailKeeps DEF SinkTile
  <2>2. CASE ~Conflict(tiles, row)
    <3> DEFINE y == [build[b] EXCEPT !.tiles = @ \ {row}]
    <3>1. /\ ShapeOf(y) /\ y.pc = "run" /\ y.rev = build[b].rev /\ y.end = build[b].end
          /\ y.tiles = build[b].tiles \ {row} /\ y.aggs = build[b].aggs \ {}
          /\ y.rels = build[b].rels \ {}
      BY <1>4 DEF ShapeOf
    <3>2. /\ UNCHANGED <<entries, aggs, rels, revisions, started, disturbed>>
          /\ failed' = failed /\ tiles' = tiles \cup {row}
      BY <1>0, <1>1, <2>2 DEF SinkTile
    <3>3. build' = [build EXCEPT ![b] = y]
      BY <1>1, <2>2 DEF SinkTile
    <3> HIDE DEF y
    <3>4. Inserts(b, y, {row}, {}, {})
      BY <1>1, <2>2, <3>1, <3>2, <3>3 DEF Inserts
    <3>5. HasLast(tiles')
      BY <1>0, <3>2, AddKeepsLast, MapFacts, RunFacts
    <3> QED
      BY <3>4, <3>5, InsertKeeps
  <2> QED
    BY <2>1, <2>2
<1>2. ASSUME NEW row \in build[b].aggs, SinkAgg(b, row) PROVE MapInv'
  <2>1. CASE Conflict(aggs, row)
    BY <1>0, <1>2, <2>1, ConflictDisturbed, FailKeeps DEF SinkAgg
  <2>2. CASE ~Conflict(aggs, row)
    <3> DEFINE y == [build[b] EXCEPT !.aggs = @ \ {row}]
    <3>1. /\ ShapeOf(y) /\ y.pc = "run" /\ y.rev = build[b].rev /\ y.end = build[b].end
          /\ y.tiles = build[b].tiles \ {} /\ y.aggs = build[b].aggs \ {row}
          /\ y.rels = build[b].rels \ {}
      BY <1>4 DEF ShapeOf
    <3>2. /\ UNCHANGED <<entries, tiles, rels, revisions, started, disturbed>>
          /\ failed' = failed /\ aggs' = aggs \cup {row}
      BY <1>0, <1>2, <2>2 DEF SinkAgg
    <3>3. build' = [build EXCEPT ![b] = y]
      BY <1>2, <2>2 DEF SinkAgg
    <3> HIDE DEF y
    <3>4. Inserts(b, y, {}, {row}, {})
      BY <1>2, <2>2, <3>1, <3>2, <3>3 DEF Inserts
    <3>5. HasLast(tiles')
      BY <1>0, <3>2
    <3> QED
      BY <3>4, <3>5, InsertKeeps
  <2> QED
    BY <2>1, <2>2
<1>3. ASSUME NEW row \in build[b].rels, SinkRel(b, row) PROVE MapInv'
  <2>1. CASE Conflict(rels, row)
    BY <1>0, <1>3, <2>1, ConflictDisturbed, FailKeeps DEF SinkRel
  <2>2. CASE ~Conflict(rels, row)
    <3> DEFINE y == [build[b] EXCEPT !.rels = @ \ {row}]
    <3>1. /\ ShapeOf(y) /\ y.pc = "run" /\ y.rev = build[b].rev /\ y.end = build[b].end
          /\ y.tiles = build[b].tiles \ {} /\ y.aggs = build[b].aggs \ {}
          /\ y.rels = build[b].rels \ {row}
      BY <1>4 DEF ShapeOf
    <3>2. /\ UNCHANGED <<entries, tiles, aggs, revisions, started, disturbed>>
          /\ failed' = failed /\ rels' = rels \cup {row}
      BY <1>0, <1>3, <2>2 DEF SinkRel
    <3>3. build' = [build EXCEPT ![b] = y]
      BY <1>3, <2>2 DEF SinkRel
    <3> HIDE DEF y
    <3>4. Inserts(b, y, {}, {}, {row})
      BY <1>3, <2>2, <3>1, <3>2, <3>3 DEF Inserts
    <3>5. HasLast(tiles')
      BY <1>0, <3>2
    <3> QED
      BY <3>4, <3>5, InsertKeeps
  <2> QED
    BY <2>1, <2>2
<1> QED
  BY <1>1, <1>2, <1>3

\* The row of a revision comes last: the command has inserted all the others.
LEMMA WriteRevisionKeeps ==
  ASSUME MapInv, NEW b \in Builder, WriteRevision(b)
  PROVE  MapInv'
<1>a. PICK n, r, h : n = build[b].end.count /\ r = build[b].rev /\ h = build[b].end.head
  OBVIOUS
<1> DEFINE new == [rev |-> r, head |-> h, count |-> n]
<1>0. /\ Running(b) /\ Completed(b) /\ failed \in BOOLEAN
      /\ UNCHANGED <<entries, tiles, aggs, rels, started, disturbed>>
      /\ build' = [build EXCEPT ![b] = Ended]
  BY DEF WriteRevision, Running, MapInv, MapTyped
<1>1. CASE \E q \in revisions : q.rev = build[b].rev
  <2>1. revisions' = revisions /\ failed' \in BOOLEAN
    BY <1>1 DEF WriteRevision
  <2> QED
    BY <1>0, <1>1, <2>1, ConflictDisturbed, FailKeeps
<1>2. CASE ~\E q \in revisions : q.rev = build[b].rev
  <2>1. revisions' = revisions \cup {new} /\ failed' = failed
    BY <1>0, <1>2, <1>a DEF WriteRevision
  <2>2. new.rev = r /\ new.head = h /\ new.count = n
    OBVIOUS
  <2> HIDE DEF new
  <2>3. MapGrows
    BY <1>0, MapFacts DEF MapGrows, LogExtends
  <2>4. /\ BuildShape' /\ build'[b] = Ended
        /\ \A c \in Builder \ {b} : build'[c] = build[c]
    BY <1>0, ShapeKeeps DEF MapInv, MapTyped, ShapeOf
  <2>5. /\ \A c \in Builder : Running(c)' => c # b /\ Running(c) /\ build'[c] = build[c]
        /\ \A c \in Builder : Choosing(c)' => build'[c] = build[c]
    BY <2>4 DEF Running, Choosing, Ended
  <2>6. MapTyped'
    BY <1>0, <2>1, <2>4 DEF MapInv, MapTyped, TablesTyped
  <2>7. \A q \in revisions : q.rev \in Nat
    BY DEF MapInv, RevisionsWhole
  <2>8. TablesSound'
    <3>1. HasLast(revisions')
      BY <1>0, <1>a, <2>1, <2>2, <2>7, AddKeepsLast, RunFacts DEF MapInv, TablesSound
    <3>2. \A p, q \in revisions' : p.rev = q.rev => p = q
      BY <1>2, <1>a, <2>1, <2>2 DEF MapInv, TablesSound
    <3>3. Keyed(tiles') /\ Keyed(aggs') /\ HasLast(tiles')
      BY <1>0 DEF MapInv, TablesSound, Keyed, HasLast
    <3> QED
      BY <3>1, <3>2, <3>3 DEF TablesSound
  <2>9. RunsSound' /\ TilesKnown'
    BY <1>0, <2>3, <2>5, RunsKeep, TilesKnownStay
  <2>10. /\ r \in Nat /\ r <= NextWriteRevision /\ n \in 0..Len(h)
         /\ Len(h) \in Nat /\ Len(h) <= Len(entries)
         /\ TileRows(n, r) \subseteq tiles /\ AggRows(n, r) \subseteq aggs
    BY <1>0, <1>a DEF MapInv, RunsSound, RunSound, Completed
  <2>11. n > 0 => r < NextWriteRevision
    <3> SUFFICES ASSUME n > 0 PROVE r < NextWriteRevision
      OBVIOUS
    <3>0. Releases(n) # {}
      BY <2>10, MapFacts, SomeRelease DEF MapInv, MapTyped
    <3>1. RootRow(n, r) \in tiles /\ RootRow(n, r).rev = r
      BY <2>10, <3>0, RowsAre
    <3> QED
      BY <3>1, MapFacts
  <2>12. NextWriteRevision' = NextWriteRevision /\ NextWriteRevision \in Nat
    BY <1>0, MapFacts DEF NextWriteRevision
  <2>13. RevisionsWhole'
    <3>1. /\ TileRows(n, r)' = TileRows(n, r) /\ AggRows(n, r)' = AggRows(n, r)
      <4>1. n \in 0..Len(entries)
        BY <2>10, MapFacts
      <4> QED
        BY <2>3, <4>1, MapFacts, RowsStable DEF MapGrows
    <3>2. /\ new.rev \in Nat /\ new.rev <= NextWriteRevision'
          /\ new.count \in 0..Len(new.head)
          /\ Len(new.head) \in Nat /\ Len(new.head) <= Len(entries')
          /\ TileRows(new.count, new.rev)' \subseteq tiles'
          /\ AggRows(new.count, new.rev)' \subseteq aggs'
      BY <1>0, <2>2, <2>10, <2>12, <3>1
    <3> QED
      BY <2>1, <2>3, <3>2, RevisionKeeps DEF RevisionsWhole
  <2>14. SnapshotsOrdered'
    <3>1. Snapshots' \subseteq Snapshots
      BY <1>0, <1>a, <2>1, <2>2, <2>5 DEF Snapshots
    <3>2. \A rev, g : Precedes(rev, g) => Precedes(rev, g)'
      BY <3>1 DEF Precedes
    <3>3. ~Doomed(b)
      BY <1>0 DEF Doomed, Completed
    <3>4. n = Len(h) => Precedes(r, h)
      BY <1>0, <1>a, <3>3 DEF MapInv, SnapshotsOrdered
    <3>5. \A q \in revisions' : q.count = Len(q.head) => Precedes(q.rev, q.head)'
      BY <2>1, <2>2, <3>2, <3>4 DEF MapInv, SnapshotsOrdered
    <3>6. ASSUME NEW c \in Builder, Running(c)', build'[c].end.count = Len(build'[c].end.head),
                 ~Doomed(c)'
          PROVE  Precedes(build[c].rev, build[c].end.head)'
      <4>1. Running(c) /\ build'[c] = build[c] /\ ~Doomed(c)
        BY <1>0, <2>5, <3>6 DEF Doomed, Conflict
      <4>2. PICK v, g : v = build[c].rev /\ g = build[c].end.head
        OBVIOUS
      <4>3. Precedes(v, g)'
        BY <3>2, <3>6, <4>1, <4>2 DEF MapInv, SnapshotsOrdered
      <4> QED
        BY <4>1, <4>2, <4>3 DEF Precedes
    <3> QED
      BY <3>5, <3>6 DEF SnapshotsOrdered
  <2>15. Alone'
    <3>0. Hollow => Hollow'
      BY <2>1 DEF Hollow
    <3> SUFFICES ASSUME ~disturbed, ~Hollow, ~Hollow' PROVE Alone'
      BY <1>0, <3>0 DEF Alone
    <3>n. n > 0
      BY <2>1, <2>2, <2>10 DEF Hollow
    <3>1. \A c \in Builder : build'[c] = Ended /\ (Running(c) => c = b)
      BY <1>0, <2>4 DEF MapInv, Alone, Running, Ended
    <3>2. \A v \in Nat : Accounted(v) => v < NextWriteRevision
      BY <1>a, <2>10, <2>11, <2>12, <3>1, <3>n DEF Accounted
    <3>3. /\ \A t \in aggs : t.rev \in Nat /\ Accounted(t.rev)
          /\ \A t \in rels : t.rev \in Nat /\ Accounted(t.rev)
          /\ \A t \in revisions : t.rev \in Nat /\ Accounted(t.rev)
      BY <2>7 DEF MapInv, MapTyped, TablesTyped, Alone
    <3>4. /\ \A t \in aggs' : Accounted(t.rev)'
          /\ \A t \in rels' : Accounted(t.rev)'
          /\ \A t \in revisions' : Accounted(t.rev)'
      BY <1>0, <2>1, <2>2, <2>11, <2>12, <3>2, <3>3, <3>n DEF Accounted
    <3> QED
      BY <2>1, <3>1, <3>4 DEF MapInv, Alone, Running, Choosing, Ended
  <2> QED
    BY <2>6, <2>8, <2>9, <2>13, <2>14, <2>15 DEF MapInv
<1> QED
  BY <1>1, <1>2

\* Nothing has been written yet.
LEMMA InitMapInv == MInit => MapInv
<1> SUFFICES ASSUME MInit PROVE MapInv
  OBVIOUS
<1>1. MapTyped
  <2>1. BuildShape
    BY DEF MInit, BuildShape, ShapeOf
  <2>2. entries = <<>> /\ entries \in Seq(Entry) /\ Len(entries) = 0 /\ started = 0
    BY DEF MInit
  <2>3. disturbed \in BOOLEAN /\ failed \in BOOLEAN /\ TablesTyped
    BY DEF MInit, TablesTyped
  <2> QED
    BY <2>1, <2>2, <2>3, MapAssumption DEF MapTyped
<1>2. \A b \in Builder : build[b] = Ended /\ ~Running(b) /\ ~Choosing(b)
  BY DEF MInit, Running, Choosing, Ended
<1>3. TablesSound /\ RunsSound /\ RevisionsWhole
  BY <1>2 DEF MInit, TablesSound, Keyed, HasLast, RunsSound, RevisionsWhole
<1>4. SnapshotsOrdered /\ Alone
  BY <1>2 DEF MInit, SnapshotsOrdered, Alone
<1>5. TilesKnown
  <2>1. tiles = {} /\ NextWriteRevision = 0
    BY DEF MInit, NextWriteRevision
  <2> QED
    BY <2>1 DEF TilesKnown
<1> QED
  BY <1>1, <1>3, <1>4, <1>5 DEF MapInv

\* Every step of the log and of the commands keeps the invariant.
LEMMA NextMapInv == MapInv /\ [MNext]_mvars => MapInv'
<1> SUFFICES ASSUME MapInv, [MNext]_mvars PROVE MapInv'
  OBVIOUS
<1>1. CASE UNCHANGED mvars
  <2>1. UNCHANGED <<entries, tiles, aggs, rels, revisions, build, started, disturbed, failed>>
    BY <1>1 DEF mvars, tables
  <2>2. MapGrows
    BY <2>1, MapFacts DEF MapGrows, LogExtends
  <2>3. MapTyped' /\ TablesSound'
    BY <2>1 DEF MapInv, MapTyped, BuildShape, TablesTyped, TablesSound, Keyed, HasLast
  <2>4. RunsSound' /\ TilesKnown'
    BY <2>1, <2>2, RunsKeep, TilesKnownStay
  <2>5. RevisionsWhole'
    BY <2>1, <2>2, RevisionKeeps DEF RevisionsWhole
  <2>6. SnapshotsOrdered'
    BY <2>1, OrderKeeps DEF Snapshots, Running, Doomed, Conflict
  <2>7. Alone'
    BY <2>1 DEF MapInv, Alone, Hollow, Running, Choosing, Fresh, Clear, Conflict, Accounted,
       NextWriteRevision
  <2> QED
    BY <2>3, <2>4, <2>5, <2>6, <2>7 DEF MapInv
<1>2. CASE \/ AddEntry(Release)
           \/ \E n \in 0..(MaxEntries - 1), g \in BOOLEAN : AddEntry(Annotation(n, g))
  BY <1>2, AddEntryKeeps DEF Entry
<1>3. ASSUME NEW b \in Builder, StartBuild(b) \/ CountTooLarge(b) PROVE MapInv'
  BY <1>3, StartBuildKeeps, CountTooLargeKeeps
<1>7. ASSUME NEW b \in Builder, NEW n \in 0..MaxEntries, ReadHead(b, n) PROVE MapInv'
  BY <1>7, ReadHeadKeeps, MapAssumption
<1>4. ASSUME NEW b \in Builder, WriteRevision(b) PROVE MapInv'
  BY <1>4, WriteRevisionKeeps
<1>5. ASSUME NEW b \in Builder, KillBuild(b) PROVE MapInv'
  BY <1>5, FailKeeps DEF KillBuild, tables, MapInv, MapTyped
<1>6. ASSUME NEW b \in Builder, Running(b),
             \/ \E row \in build[b].tiles : SinkTile(b, row)
             \/ \E row \in build[b].aggs : SinkAgg(b, row)
             \/ \E row \in build[b].rels : SinkRel(b, row)
      PROVE  MapInv'
  BY <1>6, SinkKeeps
<1> QED
  BY <1>1, <1>2, <1>3, <1>4, <1>5, <1>6, <1>7 DEF MNext, Running

\* What commands that race and die leave behind: a revision of some entries is
\* whole and of one log, the one that is shown is not of an older log than any
\* of the whole log, and a command fails only because another one was killed, ran
\* at the same time, or wrote a revision of no entries.
THEOREM MapAlwaysSound == MSpec => []MapSound
<1>1. MapInv => MapSound
  <2> SUFFICES ASSUME MapInv PROVE MapSound
    OBVIOUS
  <2>1. MTypeOK
    BY DEF MapInv, MapTyped, TablesTyped, RevisionsWhole, MTypeOK
  <2>2. RevisionSound
    <3> SUFFICES ASSUME NEW r \in revisions, r.count > 0
                 PROVE  /\ \A root \in Tile(r.rev, RootPath) : root.rel = ReleaseLog(r.count)
                        /\ \A i \in Releases(r.count) :
                              Proved(r.rev, i, Aggregate(r.count, i))
      BY DEF RevisionSound
    <3> DEFINE n == r.count
    <3>1. /\ TileRows(n, r.rev) \subseteq tiles /\ AggRows(n, r.rev) \subseteq aggs
          /\ Keyed(tiles) /\ Keyed(aggs)
      BY DEF MapInv, RevisionsWhole, TablesSound
    <3>0. Releases(n) # {}
      <4>1. n \in 0..Len(entries)
        BY MapFacts DEF MapInv, RevisionsWhole
      <4> QED
        BY <4>1, SomeRelease DEF MapInv, MapTyped
    <3>2. Tile(r.rev, RootPath) = {RootRow(n, r.rev).val}
      BY <3>0, <3>1, RowsAre DEF Tile, Keyed
    <3>3. /\ RootRow(n, r.rev).val.rel = ReleaseLog(n)
          /\ RootRow(n, r.rev).val.agg = MapValue(n, Releases(n))
      BY DEF RootRow
    <3>4. ASSUME NEW i \in Releases(n) PROVE Proved(r.rev, i, Aggregate(n, i))
      <4>1. Tile(r.rev, LeafPath(i)) = {LeafRow(n, r.rev, i).val}
        BY <3>1, RowsAre DEF Tile, Keyed
      <4>2. LeafRow(n, r.rev, i).val.agg = MapValue(n, {i})
        BY DEF LeafRow
      <4>3. /\ MapValue(n, {i})[i] = Aggregate(n, i)
            /\ i \in DOMAIN MapValue(n, Releases(n))
            /\ MapValue(n, Releases(n))[i] = Aggregate(n, i)
        BY DEF MapValue
      <4>4. PICK row : row = [rev |-> r.rev, key |-> i, val |-> Aggregate(n, i)]
        OBVIOUS
      <4>5. row \in aggs
        BY <3>1, <4>4 DEF AggRows
      <4>6. row.rev = r.rev /\ row.key = i /\ row.val = Aggregate(n, i)
        BY <4>4
      <4>7. Aggregation(r.rev, i) = {Aggregate(n, i)}
        BY <3>1, <4>5, <4>6 DEF Aggregation, Keyed
      <4> QED
        BY <3>2, <3>3, <4>1, <4>2, <4>3, <4>7 DEF Proved
    <3> QED
      BY <3>2, <3>3, <3>4
  <2>3. CheckpointLargest
    <3> SUFFICES ASSUME NEW r \in revisions, r.count = Len(r.head)
                 PROVE  Len(r.head) <= Len(LatestRevision.head)
      BY DEF CheckpointLargest, MapCheckpoint
    <3>1. LatestRevision \in revisions /\ \A q \in revisions : q.rev <= LatestRevision.rev
      BY DEF MapInv, TablesSound, HasLast, LatestRevision
    <3> DEFINE l == LatestRevision
    <3> HIDE DEF l
    <3>2. /\ r.rev \in Nat /\ l.rev \in Nat /\ r.rev <= l.rev /\ l \in revisions
          /\ Len(r.head) \in Nat
      BY <3>1 DEF MapInv, RevisionsWhole, l
    <3>3. CASE r.rev = l.rev
      <4>1. r = l
        BY <3>2, <3>3 DEF MapInv, TablesSound
      <4> QED
        BY <3>2, <4>1 DEF l
    <3>4. CASE r.rev < l.rev
      <4>1. [rev |-> l.rev, head |-> l.head] \in Snapshots
        BY <3>2 DEF Snapshots
      <4>2. Len(r.head) <= Len(l.head)
        BY <3>4, <4>1 DEF MapInv, SnapshotsOrdered, Precedes
      <4> QED
        BY <4>2 DEF l
    <3> QED
      BY <3>2, <3>3, <3>4
  <2>4. FailuresExplained
    BY DEF MapInv, MapTyped, Alone, Hollow, FailuresExplained
  <2> QED
    BY <2>1, <2>2, <2>3, <2>4 DEF MapSound
<1> QED
  BY <1>1, InitMapInv, NextMapInv, PTL DEF MSpec
=============================================================================
