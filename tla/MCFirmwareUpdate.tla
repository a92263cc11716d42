-------------------------- MODULE MCFirmwareUpdate --------------------------
(* An instance of FirmwareDevice and one of FirmwareMap for TLC.  The two     *)
(* share no state: a behaviour is one of the device or one of the map.        *)
EXTENDS FirmwareDevice, FirmwareMap

CONSTANTS a, b, m1, m2

\* A command does not look at another one, nor the device at what an image is.
Sym == Permutations(Builder) \cup Permutations(Leaf)

Init == DInit /\ MInit

Next ==
    \/ MInit /\ DNext /\ UNCHANGED mvars
    \/ DInit /\ MNext /\ UNCHANGED dvars

Spec == Init /\ [][Next]_<<dvars, mvars>>
=============================================================================
