--------------------------- MODULE MCOmniWitness ---------------------------
(* Instances of OmniWitness for TLC. *)
EXTENDS OmniWitness

CONSTANTS l1, a, b, r1, r2, f1, f2

\* An honest log that grows from one entry to three: with compact ranges the
\* second update verifies against the range that the first one stored.
MCShort == [l \in Logs |-> {<<a>>, <<a, b>>, <<a, b, a>>}]

MCFeedLog == [f \in Feeder |-> l1]
=============================================================================
