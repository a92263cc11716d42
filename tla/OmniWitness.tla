---------------------------- MODULE OmniWitness ----------------------------
(***************************************************************************)
(* Feeders (internal/feeder) driving a witness, as the omniwitness and the *)
(* stand-alone feeders do.                                                 *)
(*                                                                         *)
(* A feeder loops: at each tick FeedOnce fetches the log's checkpoint once *)
(* and submitToWitness retries until the witness has cosigned it, the      *)
(* witness is found to be ahead, or the interval is over.  An HTTP feeder  *)
(* (witness/golang/client/http) stops waiting when its context is done,    *)
(* while the handler in the witness runs on; the feeder of the omniwitness *)
(* calls the witness in its own goroutine and dies with it.                *)
(***************************************************************************)
EXTENDS Witness

CONSTANTS Feeder,     \* feeders
          FeedLog,    \* FeedLog[f]: the log that f feeds
          Http,       \* the feeders that reach the witness over HTTP
          MaxFaults   \* bound on timeouts, restarts and database errors

ASSUME FeederAssumption ==
    /\ FeedLog \in [Feeder -> Logs]
    /\ Http \subseteq Feeder
    /\ MaxFaults \in Nat

VARIABLES
    head,     \* head[l]: the tree of the checkpoint that log l publishes
    fpc,      \* where each feeder is
    submit,   \* cpSubmit: the tree it fetched at this tick
    from,     \* the size its consistency proof starts at
    call,     \* the request that serves its pending call, or None
    fed,      \* history: the trees FeedOnce has returned successfully
    faults    \* faults so far

feederVars == <<head, fpc, submit, from, call, fed, faults>>
allVars == <<vars, feederVars>>

\* "tick": between two feed cycles; "latest"/"asked": before and after
\* GetLatestCheckpoint; "proof": has a proof; "sent": has called Update;
\* "backoff": between two tries of submitOp.
FPC == {"tick", "latest", "asked", "proof", "sent", "backoff"}

\* An honest log publishes one growing tree.
Chain(l) == \A s, t \in SignedTrees[l] : Comparable(s, t)

FInit ==
    /\ Init
    /\ head \in [Logs -> Trees]
    /\ \A l \in Logs : \A t \in SignedTrees[l] :
          head[l] \in SignedTrees[l] /\ Size(head[l]) <= Size(t)
    /\ fpc = [f \in Feeder |-> "tick"]
    /\ submit = [f \in Feeder |-> <<>>]
    /\ from = [f \in Feeder |-> 0]
    /\ call = [f \in Feeder |-> None]
    /\ fed = [l \in Logs |-> {}]
    /\ faults = 0

\* The log integrates entries and publishes a larger checkpoint.
Grow(l) ==
    /\ \E t \in SignedTrees[l] :
          /\ Size(t) > Size(head[l]) /\ Prefix(head[l], t)
          /\ head' = [head EXCEPT ![l] = t]
    /\ UNCHANGED <<vars, fpc, submit, from, call, fed, faults>>

\* Requests whose caller still waits for them.
Awaited == {call[f] : f \in Feeder} \ {None}

\* A new goroutine serves each call.  Handlers are interchangeable.
FreeReq == CHOOSE r \in Req : pc[r] = "idle"
HandlerFree == \E r \in Req : pc[r] = "idle"

\* Every fault counts against the bound.
Fault == faults < MaxFaults /\ faults' = faults + 1

-----------------------------------------------------------------------------
(***************************************************************************)
(* One feed cycle.                                                         *)
(***************************************************************************)

\* FeedOnce: fetch and parse the checkpoint.  It is not fetched again while
\* submitToWitness retries.
FetchCheckpoint(f) ==
    /\ fpc[f] = "tick"
    /\ submit' = [submit EXCEPT ![f] = head[FeedLog[f]]]
    /\ fpc' = [fpc EXCEPT ![f] = "latest"]
    /\ UNCHANGED <<vars, head, from, call, fed, faults>>

GetLatestCheckpoint(f) ==
    /\ fpc[f] = "latest"
    /\ HandlerFree
    /\ GetCheckpoint(FreeReq, FeedLog[f])
    /\ call' = [call EXCEPT ![f] = FreeReq]
    /\ fpc' = [fpc EXCEPT ![f] = "asked"]
    /\ UNCHANGED <<head, submit, from, fed, faults>>

\* The witness cannot read its database while it serves the call.
GetLatestFault(f) ==
    /\ fpc[f] = "latest"
    /\ Fault
    /\ HandlerFree
    /\ ReadError(FreeReq, FeedLog[f])
    /\ call' = [call EXCEPT ![f] = FreeReq]
    /\ fpc' = [fpc EXCEPT ![f] = "asked"]
    /\ UNCHANGED <<head, submit, from, fed>>

\* The cycle is over; FeedOnce returned `trees' (nothing after an error).
EndCycle(f, trees) ==
    /\ fpc' = [fpc EXCEPT ![f] = "tick"]
    /\ submit' = [submit EXCEPT ![f] = <<>>]
    /\ from' = [from EXCEPT ![f] = 0]
    /\ call' = [call EXCEPT ![f] = None]
    /\ fed' = [fed EXCEPT ![FeedLog[f]] = @ \cup trees]

\* What the witness answered to f's call, and f takes the answer.
Answer(f) == reply[call[f]]
Answered(f) == call[f] # None /\ pc[call[f]] = "replied"
LatestKnown(f) ==
    fpc[f] = "asked" /\ Answered(f) /\ Answer(f).code \in {"OK", "NotFound"}

\* latestCP is the zero checkpoint when the witness has none.
Latest(f) == IF Answer(f).cp = None THEN <<>> ELSE Answer(f).cp

\* The witness is ahead: backoff.Permanent.
WitnessAhead(f) ==
    /\ LatestKnown(f)
    /\ Size(Latest(f)) > Size(submit[f])
    /\ Finish(call[f])
    /\ EndCycle(f, {})
    /\ UNCHANGED <<head, faults>>

\* The witness holds this very checkpoint.
Unchanged(f) == Answer(f).cp # None /\ Answer(f).cp = submit[f]

AlreadyFed(f) ==
    /\ LatestKnown(f)
    /\ Unchanged(f)
    /\ Finish(call[f])
    /\ EndCycle(f, {submit[f]})
    /\ UNCHANGED <<head, faults>>

FetchProof(f) ==
    /\ LatestKnown(f)
    /\ Size(Latest(f)) <= Size(submit[f]) /\ ~Unchanged(f)
    /\ Finish(call[f])
    /\ from' = [from EXCEPT ![f] = Size(Latest(f))]
    /\ call' = [call EXCEPT ![f] = None]
    /\ fpc' = [fpc EXCEPT ![f] = "proof"]
    /\ UNCHANGED <<head, submit, fed, faults>>

\* The log cannot give the proof: the try fails.
FetchProofFails(f) ==
    /\ Fault
    /\ LatestKnown(f)
    /\ Size(Latest(f)) <= Size(submit[f]) /\ ~Unchanged(f)
    /\ Finish(call[f])
    /\ call' = [call EXCEPT ![f] = None]
    /\ fpc' = [fpc EXCEPT ![f] = "backoff"]
    /\ UNCHANGED <<head, submit, from, fed>>

SubmitUpdate(f) ==
    /\ fpc[f] = "proof"
    /\ HandlerFree
    /\ Update(FreeReq, FeedLog[f], submit[f], from[f])
    /\ call' = [call EXCEPT ![f] = FreeReq]
    /\ fpc' = [fpc EXCEPT ![f] = "sent"]
    /\ UNCHANGED <<head, submit, from, fed, faults>>

\* Mutant: the error of Update is shadowed, so any answer counts as success.
FedShadowed(f) ==
    /\ fpc[f] = "sent" /\ Answered(f)
    /\ Finish(call[f])
    /\ EndCycle(f, {submit[f]})
    /\ UNCHANGED <<head, faults>>

Fed(f) ==
    /\ fpc[f] = "sent" /\ Answered(f)
    /\ Answer(f).code = "OK"
    /\ Finish(call[f])
    /\ EndCycle(f, {Answer(f).cp})
    /\ UNCHANGED <<head, faults>>

\* Any error of Update, and any but NotFound of GetLatestCheckpoint, is
\* retried.
TryFailed(f) ==
    /\ Answered(f)
    /\ \/ fpc[f] = "sent" /\ Answer(f).code # "OK"
       \/ fpc[f] = "asked" /\ Answer(f).code \notin {"OK", "NotFound"}
    /\ Finish(call[f])
    /\ call' = [call EXCEPT ![f] = None]
    /\ fpc' = [fpc EXCEPT ![f] = "backoff"]
    /\ UNCHANGED <<head, submit, from, fed, faults>>

\* Mutant: only Update is retried, with the proof it failed with.
RetryStale(f) ==
    /\ fpc[f] = "backoff"
    /\ fpc' = [fpc EXCEPT ![f] = "proof"]
    /\ UNCHANGED <<vars, head, submit, from, call, fed, faults>>

\* backoff.Retry runs submitOp again, from GetLatestCheckpoint.
Retry(f) ==
    /\ fpc[f] = "backoff"
    /\ fpc' = [fpc EXCEPT ![f] = "latest"]
    /\ from' = [from EXCEPT ![f] = 0]
    /\ UNCHANGED <<vars, head, submit, call, fed, faults>>

-----------------------------------------------------------------------------
(***************************************************************************)
(* Faults.                                                                 *)
(***************************************************************************)

\* The interval is over: backoff.Retry gives up between two tries, and an
\* HTTP call is abandoned while its handler runs on.
Timeout(f) ==
    /\ Fault
    /\ \/ fpc[f] = "backoff"
       \/ f \in Http /\ fpc[f] \in {"asked", "sent"}
    /\ EndCycle(f, {})
    /\ UNCHANGED <<vars, head>>

\* The handler of an abandoned call returns into a closed connection.
FinishAbandoned(r) ==
    /\ r \notin Awaited
    /\ Finish(r)
    /\ UNCHANGED feederVars

DatabaseFault(r) == Fault /\ DBError(r) /\ UNCHANGED <<head, fpc, submit, from, call, fed>>

\* The witness restarts.  HTTP feeders see their pending call fail and retry;
\* the others are goroutines of the same process and start from the beginning.
RestartWitness ==
    /\ Fault
    /\ Restart /\ compact' = compact
    /\ fpc' = [f \in Feeder |-> IF f \notin Http THEN "tick"
                                ELSE IF call[f] # None THEN "backoff" ELSE fpc[f]]
    /\ submit' = [f \in Feeder |-> IF f \in Http THEN submit[f] ELSE <<>>]
    /\ from' = [f \in Feeder |-> IF f \in Http THEN from[f] ELSE 0]
    /\ call' = [f \in Feeder |-> None]
    /\ fed' = IF InMemory THEN [l \in Logs |-> {}] ELSE fed
    /\ UNCHANGED head

FeederStep(f) ==
    \/ FetchCheckpoint(f)
    \/ GetLatestCheckpoint(f) \/ SubmitUpdate(f)
    \/ WitnessAhead(f) \/ AlreadyFed(f) \/ FetchProof(f)
    \/ Fed(f) \/ TryFailed(f) \/ Retry(f)

WitnessStep(r) == Step(r) /\ UNCHANGED feederVars

FNext ==
    \/ \E l \in Logs : Grow(l)
    \/ \E f \in Feeder : FeederStep(f) \/ Timeout(f) \/ GetLatestFault(f) \/ FetchProofFails(f)
    \/ \E r \in Req : WitnessStep(r) \/ FinishAbandoned(r) \/ DatabaseFault(r)
    \/ RestartWitness

(***************************************************************************)
(* Feeder goroutines, their tickers and the backoff timer run on, as do    *)
(* the handlers.  A step that waits for the connection is enabled only     *)
(* from time to time; database/sql gives the connection to everyone who    *)
(* waits for it, hence strong fairness.                                    *)
(***************************************************************************)
FFairness ==
    /\ \A f \in Feeder : SF_allVars(FeederStep(f))
    /\ \A r \in Req : SF_allVars(WitnessStep(r) \/ FinishAbandoned(r))

FSpec == FInit /\ [][FNext]_allVars /\ FFairness

-----------------------------------------------------------------------------
\* Types of the feeders' variables.
FTypeOK ==
    /\ TypeOK
    /\ head \in [Logs -> Seq(Leaf)]
    /\ fed \in [Logs -> SUBSET Seq(Leaf)]
    /\ fpc \in [Feeder -> FPC]
    /\ submit \in [Feeder -> Seq(Leaf)]
    /\ from \in [Feeder -> Nat]
    /\ call \in [Feeder -> Req \cup {None}]
    /\ faults \in 0..MaxFaults

\* FeedOnce returns without an error only when the witness has cosigned, and
\* still covers, the checkpoint it returns.
FedIsCosigned ==
    \A l \in Logs : \A t \in fed[l] :
        t \in cosigned[l] /\ db[l] # None /\ Prefix(t, db[l].tree)

\* Feeders and witness stay well typed together, and a feeder's success
\* (submitToWitness returns no error) is one, over restarts, timeouts and the
\* updates of the other feeder.
FeedersSound == FTypeOK /\ FedIsCosigned

\* An honest log never makes its feeder see a fork: Update answers
\* FailedPrecondition only because another feeder moved the witness after this
\* feeder asked for its latest checkpoint.
HonestNeverForked ==
    \A f \in Feeder :
        /\ Chain(FeedLog[f]) /\ call[f] # None
        /\ Answer(f).code = "FailedPrecondition"
        => Size(Answer(f).cp) # from[f]

\* Once faults stop and the log stops growing, the witness holds its head.
WitnessCatchesUp ==
    \A f \in Feeder :
        LET l == FeedLog[f]
        IN  Chain(l) => <>[](db[l] # None /\ db[l].tree = head[l])
=============================================================================
