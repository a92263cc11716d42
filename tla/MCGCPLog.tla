------------------------------ MODULE MCGCPLog ------------------------------
(* An instance of GCPLog for TLC. *)
EXTENDS GCPLog

CONSTANTS a, b, p1, p2

\* Two objects with different entries.
MCUploads == {<<1, a>>, <<2, b>>}

\* The second object is uploaded once the first one is there, before or after
\* that is listed, read, sequenced or integrated.
UploadedInOrder == 2 \in DOMAIN entries' => 1 \in DOMAIN entries

MCNext == Next /\ UploadedInOrder

MCSpec == Init /\ [][MCNext]_vars /\ Fairness
=============================================================================
