---------------------------- MODULE MCAccounting ----------------------------
(***************************************************************************)
(* Small instances of Accounting: two users, two packages.                 *)
(***************************************************************************)
EXTENDS Accounting

MCUsers == 1..2
MCPackages == 1..2
MCSizes == [p \in 1..2 |-> p]

Config(us, rem, ex, sp, own, sn, q) ==
    [users |-> us, remote |-> rem, exclusive |-> ex, split |-> sp, owner |-> own,
     seen |-> sn, quota |-> [u \in 1..2 |-> q]]

\* Two users share everything; then package 1 belongs to user 2.
Shared == Config({1, 2}, TRUE, FALSE, {1, 2}, [p \in 1..2 |-> 0], {1, 2}, 1)
Owned == Config({1, 2}, TRUE, FALSE, {2}, [p \in 1..2 |-> IF p = 1 THEN 2 ELSE 0], {1, 2}, 1)

\* Package 1 is in a region that is no longer configured, package 2 is not
\* listed and user 2 is removed.
Narrow == Config({1}, TRUE, FALSE, {}, [p \in 1..2 |-> 0], {2}, 1)

\* The same users without remote accounting.
Offline == Config({1, 2}, FALSE, FALSE, {}, [p \in 1..2 |-> 0], {1, 2}, 1)

Single == Config({1}, TRUE, TRUE, {}, [p \in 1..2 |-> 0], {1, 2}, 1)

\* Package 1 had been bought and both users migrated, with one byte of quota each.
Migrated ==
    LET market == [FreshStart.provider EXCEPT ![1].status = "Effective"]
        quiet == [u \in 1..2 |-> 0]
    IN  [book |-> reconcile(EmptyBook, fetched(Owned, market), quiet, [u \in 1..2 |-> 1],
                            assignments(Owned)),
         provider |-> market]

MCStarts == {FreshStart, Migrated}

MixedConfigs == {Owned, Narrow}
OfflineConfigs == {Shared, Offline}
SingleConfigs == {Shared, Single}
=============================================================================
