-------------------------- MODULE WitnessAbstract --------------------------
(***************************************************************************)
(* What a witness promises about the logs it follows: for each log it      *)
(* holds at most one latest tree, the first one is trusted, and every      *)
(* later one extends the one before.  `cosigned' collects every tree the   *)
(* witness has ever put its signature to.                                  *)
(***************************************************************************)
EXTENDS MerkleLog

CONSTANTS Logs,         \* the IDs of the logs that are witnessed
          SignedTrees,  \* SignedTrees[l]: the trees log l signs checkpoints for
          Forgetful,    \* TRUE when the state does not survive a restart
          None

VARIABLES latest, cosigned

absVars == <<latest, cosigned>>

AbsInit ==
    /\ latest = [l \in Logs |-> None]
    /\ cosigned = [l \in Logs |-> {}]

Cosign(l, t) ==
    /\ latest' = [latest EXCEPT ![l] = t]
    /\ cosigned' = [cosigned EXCEPT ![l] = @ \cup {t}]

\* Trust on first use.
Trust(l, t) == latest[l] = None /\ Cosign(l, t)

\* Move to a larger tree that contains the one already cosigned.
Advance(l, t) ==
    /\ latest[l] # None
    /\ Size(latest[l]) < Size(t)
    /\ Prefix(latest[l], t)
    /\ Cosign(l, t)

\* A witness without a database starts again from nothing.
Forget ==
    /\ Forgetful
    /\ latest' = [l \in Logs |-> None]
    /\ cosigned' = [l \in Logs |-> {}]

AbsNext ==
    \/ \E l \in Logs : \E t \in SignedTrees[l] : Trust(l, t) \/ Advance(l, t)
    \/ Forget

AbsSpec == AbsInit /\ [][AbsNext]_absVars
=============================================================================
