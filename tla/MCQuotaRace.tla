---------------------------- MODULE MCQuotaRace ----------------------------
(* QuotaRace for TLC: the relay tasks are interchangeable. *)
EXTENDS QuotaRace, TLC

ThreadSymmetry == Permutations(Threads)

=============================================================================
