--------------------------- MODULE FirmwareDevice ---------------------------
(***************************************************************************)
(* Flashing and booting a device (binary_transparency/firmware): the flash *)
(* tool verifies an update package against the checkpoint on the device,   *)
(* against a witness and against the firmware map, and writes bundle.json  *)
(* and then the image; the boot loader verifies what it finds in the two   *)
(* files.  A crash may come at any point of the two writes.                *)
(*                                                                         *)
(* A statement is the image that it describes, a checkpoint is the tree    *)
(* that it commits to.  A proof bundle is [stmt, cp, index]: its inclusion *)
(* proof verifies if cp has stmt at index.                                 *)
(***************************************************************************)
EXTENDS MerkleLog, FiniteSets

CONSTANTS MaxLog,      \* bound: entries of the log
          MaxCrashes,  \* bound: crashes of the tool and restored backups of the log
          Absent, Torn, \* a file that does not exist, or was not written to its end
          Unsigned     \* a checkpoint without the log's signature

ASSUME DeviceAssumption ==
    /\ MaxLog \in Nat /\ MaxCrashes \in Nat
    /\ Absent # Torn /\ Absent \notin Leaf /\ Torn \notin Leaf
    /\ Unsigned \notin Seq(Leaf)
    /\ \A f \in {Absent, Torn} :
          f \notin [stmt : Leaf, cp : Seq(Leaf) \cup {Unsigned}, index : Nat]

VARIABLES
    log,      \* the log, as the personality serves it
    signed,   \* history: the checkpoints that the personality signed
    wcp,      \* the checkpoint that the witness serves
    bundle,   \* bundle.json
    firmware, \* firmware.bin
    tool,     \* the flash tool
    booted,   \* what the last reset booted: Absent if it refused
    last,     \* history: the package whose bundle is on the device, and whether its
              \* image is; none if it was forced or the bundle was cut off
    crashes

external == <<log, signed, wcp>>
storage == <<bundle, firmware, last>>
dvars == <<external, storage, tool, booted, crashes>>

Resting == [pc |-> "idle", force |-> FALSE]
Unflashed == [state |-> "none"]

DInit ==
    /\ log = <<>> /\ signed = {} /\ wcp = <<>>
    /\ bundle = Absent /\ firmware = Absent /\ last = Unflashed
    /\ tool = Resting /\ booted = Absent /\ crashes = 0

Crash == crashes < MaxCrashes /\ crashes' = crashes + 1

-----------------------------------------------------------------------------
(* The log and the witness, as module FirmwareLog has them. *)

Log(s) ==
    /\ Len(log) < MaxLog /\ \A n \in 1..Len(log) : log[n] # s
    /\ log' = Append(log, s) /\ signed' = signed \cup {log'}
    /\ UNCHANGED <<wcp, storage, tool, booted, crashes>>

\* A restored log goes on from an earlier tree.
RestoreLog(n) ==
    /\ n < Len(log) /\ Crash
    /\ log' = SubSeq(log, 1, n)
    /\ UNCHANGED <<signed, wcp, storage, tool, booted>>

\* The witness follows the log while it is consistent.
Witness ==
    /\ Size(log) > Size(wcp) /\ Prefix(wcp, log)
    /\ wcp' = log
    /\ UNCHANGED <<log, signed, storage, tool, booted, crashes>>

\* Mutant: no proof for the same checkpoint.
ProofAnsweredStrict(s, t) == Size(s) < Size(t) /\ Size(t) <= Size(log)

\* GetConsistencyProof for checkpoints s and t, and its verification.
ProofAnswered(s, t) == Size(s) <= Size(t) /\ Size(t) <= Size(log)
ProofVerified(s, t) == Prefix(s, log) /\ Prefix(t, log)

-----------------------------------------------------------------------------
(* internal/verify. *)

\* The tool and the boot loader know the log's key: only signed checkpoints
\* are parsed.
VerifyBundle(b) ==
    /\ b.cp \in signed
    /\ b.index < Size(b.cp) /\ b.cp[b.index + 1] = b.stmt

\* Mutant: a device checkpoint of one entry needs no proof.
BundleForUpdateAboveOne(b, image, dc) ==
    /\ VerifyBundle(b) /\ image = b.stmt
    /\ Size(dc) > 1 => ProofAnswered(dc, b.cp) /\ ProofVerified(dc, b.cp)

\* Without a checkpoint on the device there is nothing to be consistent with.
BundleForUpdate(b, image, dc) ==
    /\ VerifyBundle(b) /\ image = b.stmt
    /\ Size(dc) > 0 => ProofAnswered(dc, b.cp) /\ ProofVerified(dc, b.cp)

\* The checkpoint rc of a witness or a map: the older one comes first.
BundleConsistency(b, rc) ==
    LET from == IF Size(rc) > Size(b.cp) THEN b.cp ELSE rc
        to == IF Size(rc) > Size(b.cp) THEN rc ELSE b.cp
    IN  /\ Size(rc) >= b.index
        /\ Size(from) > 0 => ProofAnswered(from, to) /\ ProofVerified(from, to)

\* The image is measured and has to be the statement's.
BundleForBoot(b, image) == VerifyBundle(b) /\ image = b.stmt

-----------------------------------------------------------------------------
(* The flash tool. *)

\* Update packages: also one whose image or whose proof is another one's, or
\* whose checkpoint was not signed.
Packages ==
    {[image |-> i, stmt |-> s, cp |-> t, index |-> n] :
        i \in Leaf, s \in Leaf, t \in signed \cup {Unsigned}, n \in 0..(MaxLog - 1)}

\* New decodes the bundle on the device; getDevice: without one, --force.
Readable == bundle \notin {Absent, Torn}
Opened(force) == Readable \/ force

Start(up, force, witness, map) ==
    /\ tool.pc = "idle" /\ Opened(force)
    /\ tool' = [pc |-> "update", up |-> up, force |-> force, witness |-> witness,
                map |-> map, pb |-> Absent, rc |-> <<>>]
    /\ UNCHANGED <<external, storage, booted, crashes>>

\* With --force a failed check is a warning.
After(ok, pc) == IF ok \/ tool.force THEN [tool EXCEPT !.pc = pc] ELSE Resting

\* The bundle is handed on as far as it was parsed.  The checkpoint on the
\* device is parsed first.
VerifyUpdate ==
    /\ tool.pc = "update"
    /\ LET parsed == Readable /\ bundle.cp \in signed /\ VerifyBundle(tool.up)
           ok == parsed /\ BundleForUpdate(tool.up, tool.up.image, bundle.cp)
       IN  tool' = IF After(ok, "witness") = Resting THEN Resting
                   ELSE [tool EXCEPT !.pc = "witness", !.pb = IF parsed THEN "parsed" ELSE Absent]
    /\ UNCHANGED <<external, storage, booted, crashes>>

\* No witness is asked without --witness_url.
VerifyWitness ==
    /\ tool.pc = "witness"
    /\ tool' = IF ~tool.witness THEN [tool EXCEPT !.pc = "map"]
               ELSE LET ok == /\ Size(wcp) > 0 /\ tool.pb # Absent
                              /\ BundleConsistency(tool.up, wcp)
                    IN  IF ok THEN [tool EXCEPT !.pc = "map", !.rc = wcp]
                        ELSE After(FALSE, "map")
    /\ UNCHANGED <<external, storage, booted, crashes>>

\* The map server sends the log checkpoint as the text of a note; the tool
\* decodes it as JSON, and fails.
VerifyAnnotations ==
    /\ tool.pc = "map"
    /\ tool' = After(~tool.map, "bundle")
    /\ UNCHANGED <<external, storage, booted, crashes>>

Written == [stmt |-> tool.up.stmt, cp |-> tool.up.cp, index |-> tool.up.index]

\* ApplyUpdate: the bundle, then the image.
WriteBundle ==
    /\ tool.pc = "bundle"
    /\ bundle' = Written /\ tool' = [tool EXCEPT !.pc = "image"]
    /\ last' = IF tool.force THEN Unflashed ELSE [state |-> "bundle", up |-> tool.up]
    /\ UNCHANGED <<external, firmware, booted, crashes>>

WriteImage ==
    /\ tool.pc = "image"
    /\ firmware' = tool.up.image /\ tool' = Resting
    /\ last' = IF tool.force THEN Unflashed ELSE [state |-> "whole", up |-> tool.up]
    /\ UNCHANGED <<external, bundle, booted, crashes>>

\* The tool dies, or a write fails: in the middle of a file, or between two.
CrashWriting ==
    /\ tool.pc \in {"bundle", "image"} /\ Crash
    /\ \/ tool.pc = "bundle" /\ bundle' = Torn /\ last' = Unflashed /\ UNCHANGED firmware
       \/ tool.pc = "image" /\ firmware' \in {firmware, Torn} /\ UNCHANGED <<bundle, last>>
    /\ tool' = Resting
    /\ UNCHANGED <<external, booted>>

-----------------------------------------------------------------------------

\* verifyIntegrity: a file that was cut off measures like no logged image.
VerifyIntegrity ==
    /\ Readable /\ firmware \notin {Absent, Torn}
    /\ BundleForBoot(bundle, firmware)

\* Reset: what is installed is verified, and run.
Reset ==
    /\ booted' = IF VerifyIntegrity THEN firmware ELSE Absent
    /\ UNCHANGED <<external, storage, tool, crashes>>

Flash == VerifyUpdate \/ VerifyWitness \/ VerifyAnnotations \/ WriteBundle \/ WriteImage

DNext ==
    \/ \E s \in Leaf : Log(s)
    \/ \E n \in 0..MaxLog : RestoreLog(n)
    \/ Witness
    \/ \E up \in Packages, force, witness, map \in BOOLEAN : Start(up, force, witness, map)
    \/ Flash \/ CrashWriting \/ Reset

DSpec == DInit /\ [][DNext]_dvars

-----------------------------------------------------------------------------
(* Properties. *)

\* The files hold what a tool wrote, or nothing readable.
DTypeOK ==
    /\ log \in Seq(Leaf) /\ wcp \in Seq(Leaf) /\ signed \subseteq Seq(Leaf)
    /\ firmware \in Leaf \cup {Absent, Torn}
    /\ bundle \notin {Absent, Torn} => bundle.stmt \in Leaf /\ bundle.cp \in signed \cup {Unsigned}
    /\ booted \in Leaf \cup {Absent}
    /\ crashes \in 0..MaxCrashes

\* What the tool is about to write without --force extends the checkpoint that
\* is on the device, which the log signed, also when the log was restored
\* while the tool ran, and agrees with the checkpoint that the witness had
\* (BundleForUpdate, BundleConsistency).
UpdateVerified ==
    tool.pc = "bundle" /\ ~tool.force =>
        /\ Readable /\ bundle.cp \in signed /\ Prefix(bundle.cp, tool.up.cp)
        /\ tool.witness => Comparable(tool.up.cp, tool.rc)

\* A device that was flashed without --force boots what it was flashed with, also
\* after later attempts that were refused, and whatever became of the log
\* (verifyUpdate, ApplyUpdate, BundleForBoot).
FlashedBoots ==
    last.state = "whole" => VerifyIntegrity /\ firmware = last.up.image

\* A tool that died after it wrote the bundle, before or while it wrote the
\* image, leaves a device that takes the same package again without --force,
\* while the log still has its checkpoint (ApplyUpdate, BundleForUpdate).
Repairable ==
    last.state = "bundle" /\ Prefix(last.up.cp, log) =>
        /\ Readable /\ bundle.cp \in signed
        /\ BundleForUpdate(last.up, last.up.image, bundle.cp)

\* An update without --force that got as far as the image boots, or can be made
\* to: a device that was cut off in the image is flashed again with what it was
\* being flashed with.  One that was cut off in the bundle needs --force.
CrashSafe == DTypeOK /\ FlashedBoots /\ Repairable
=============================================================================
