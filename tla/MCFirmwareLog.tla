--------------------------- MODULE MCFirmwareLog ---------------------------
(* An instance of FirmwareLog for TLC. *)
EXTENDS FirmwareLog

CONSTANTS i1, i2

MCLeaf == [type : {"firmware"}, image : Image, at : {0}]
            \cup [type : {"malware"}, image : Image, at : 0..(MaxSize - 1)]
=============================================================================
