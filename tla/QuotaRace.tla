----------------------------- MODULE QuotaRace -----------------------------
(***************************************************************************)
(* Relay tasks racing with each other and with the hourly rollover, with   *)
(* the history variable reopened: some rollover started from an hour that  *)
(* was captured before the bucket's own (HourClosedOnce shows that the     *)
(* code allows it).                                                        *)
(***************************************************************************)
EXTENDS Quota, FiniteSetsExt

VARIABLE reopened

Reopens(p) == pc'[p] = "swapUp" /\ call[p].now < bucket_hour

RaceInit == Init /\ reopened = FALSE

RaceNext == Run /\ reopened' = (reopened \/ \E p \in Actors : Reopens(p))

RaceSpec == RaceInit /\ [][RaceNext]_<<vars, reopened>>

(* The hard stop: however the relay tasks race with the exhaustion, the    *)
(* user moves less than one buffer per task past the limit, and each       *)
(* rollover, while used() may read too little, lets every task but the one *)
(* that rolls over get one more buffer through.                            *)
OvershootBounded ==
    limit # NoLimit /\ ~reopened =>
        LET N == Cardinality(Threads)
        IN  Due < limit + (N + (clock - 1) * (N - 1)) * Max(Chunks)

=============================================================================
