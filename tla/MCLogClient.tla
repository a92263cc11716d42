---------------------------- MODULE MCLogClient ----------------------------
(***************************************************************************)
(* Two instances of LogClient for TLC, checked side by side: one of them   *)
(* runs in a behaviour.                                                    *)
(*                                                                         *)
(* - The module's own variables: one command that requires the signatures  *)
(*   of both witnesses, and two distributors.                              *)
(* - U: two commands over one cache that require no signatures, and so     *)
(*   take what the log serves.                                             *)
(***************************************************************************)
EXTENDS LogClient, TLC

CONSTANTS a, b, w1, w2, d1, d2, c1, u1, u2

VARIABLES
    side,  \* the instance that runs in this behaviour
    uServed, uCosigned, uDist, uCached, uPc, uLatest, uGot, uCand, uTracked, uLoaded

uvars == <<uServed, uCosigned, uDist, uCached, uPc, uLatest, uGot, uCand, uTracked, uLoaded>>

\* A log that forks: after its first entry, and before it.
MCForks == {<<a>>, <<b>>, <<a, b>>}

\* A log that forks and grows by two entries at once.
MCLongForks == {<<>>, <<a>>, <<b>>, <<a, b>>, <<a, b, b>>, <<b, a, b>>}

U == INSTANCE LogClient WITH
        Signed <- MCLongForks, Witnesses <- {}, Distributors <- {}, N <- 0,
        Clients <- {u1, u2},
        served <- uServed, cosigned <- uCosigned, dist <- uDist, cached <- uCached,
        pc <- uPc, latest <- uLatest, got <- uGot, cand <- uCand, tracked <- uTracked,
        loaded <- uLoaded

MCInit ==
    /\ Init /\ U!Init
    /\ \/ side = "consensus" /\ uServed = <<a>>
       \/ side = "unilateral" /\ served = <<a>>

MCNext ==
    \/ side = "consensus" /\ Next /\ UNCHANGED <<side, uvars>>
    \/ side = "unilateral" /\ U!Next /\ UNCHANGED <<side, vars>>

MCSpec == MCInit /\ [][MCNext]_<<side, vars, uvars>>

MCSymmetry == Permutations({w1, w2}) \cup Permutations({d1, d2})
                \cup Permutations({u1, u2})

=============================================================================
