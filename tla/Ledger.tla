------------------------------- MODULE Ledger -------------------------------
(***************************************************************************)
(* Book (src/src/ledger.rs): the balances of remote accounting, and what a *)
(* sync, a transfer and an allocation make of them.  Pure operators: a     *)
(* book in, a book out.  Users and packages are numbers, in the order of   *)
(* the code's maps and lists.  Amounts stay far below the 2^63 at which    *)
(* the code saturates, so they are plain integers here.                    *)
(*                                                                         *)
(* `balances' and `baselines' have the same keys in every reachable book:  *)
(* the users in `joined'.  A balance outside it is 0.                      *)
(***************************************************************************)
EXTENDS Integers, FiniteSets, FiniteSetsExt

CONSTANTS Users, Packages

ASSUME UsersAssumption == Users \subseteq Nat /\ IsFiniteSet(Users)
ASSUME PackagesAssumption == IsFiniteSet(Packages) /\ Packages = 1..Cardinality(Packages)

Statuses == {"absent", "Effective", "UsedUp", "Expired", "Missing"}
Credits == {"none", "migration", "split", "user"}

\* What the provider reports of a package, and what the book records of it.
Absent == [total |-> 0, available |-> 0, status |-> "absent"]
NoRecord == [total |-> 0, available |-> 0, status |-> "absent", credit |-> "none"]

effective(p) == p.status = "Effective"
used_up(p) == p.status = "UsedUp"

\* Book::default().
EmptyBook ==
    [migrated |-> FALSE, remaining |-> 0, consumed |-> 0, metered |-> 0, joined |-> {},
     balances |-> [u \in Users |-> 0], baselines |-> [u \in Users |-> 0],
     packages |-> [p \in Packages |-> NoRecord]]

Total(f, S) == MapThenSumSet(LAMBDA x : f[x], S)

Positive(n) == IF n > 0 THEN n ELSE 0

-----------------------------------------------------------------------------
\* Mutant: whole shares only, what the division leaves over goes to nobody.
split_by_Floor(amount, weight, S) ==
    LET total == Total(weight, S) IN
    IF total = 0 THEN [i \in S |-> 0] ELSE [i \in S |-> (amount * weight[i]) \div total]

\* The largest-remainder split of amount over S: ties go to the lower index.
split_by(amount, weight, S) ==
    LET total == Total(weight, S)
        share == [i \in S |-> (amount * weight[i]) \div total]
        rest == [i \in S |-> (amount * weight[i]) % total]
        left == amount - Total(share, S)
        ahead(i) == {j \in S : rest[j] > rest[i] \/ (rest[j] = rest[i] /\ j < i)}
    IN  IF total = 0
        THEN [i \in S |-> 0]
        ELSE [i \in S |-> share[i] + (IF Cardinality(ahead(i)) < left THEN 1 ELSE 0)]

split_evenly(amount, S) == split_by(amount, [i \in S |-> 1], S)

-----------------------------------------------------------------------------
\* Mutant: a balance in the red is taken off the baseline.
limit_Signed(b, u) == b.baselines[u] + b.balances[u]

\* Book::limit, of a user in the book.
limit(b, u) == b.baselines[u] + Positive(b.balances[u])

unallocated(b) == b.remaining - Total(b.balances, b.joined)

\* `used' is the reading of the members: a function on the set of members.
join(b, used) ==
    [b EXCEPT !.joined = @ \cup DOMAIN used,
              !.baselines = [u \in Users |-> IF u \in DOMAIN used \ b.joined THEN used[u] ELSE @[u]]]

\* The first sync: every package counts as credited, the provider's remaining
\* traffic is shared out by what each member had left offline.
migrate(b, fetched, used, offline) ==
    LET M == DOMAIN used
        share == IF \E u \in M : offline[u] > 0
                 THEN split_by(b.remaining, offline, M)
                 ELSE split_evenly(b.remaining, M)
    IN  [b EXCEPT !.migrated = TRUE,
                  !.joined = @ \cup M,
                  !.balances = [u \in Users |-> IF u \in M THEN share[u] ELSE @[u]],
                  !.baselines = [u \in Users |-> IF u \in M THEN used[u] ELSE @[u]],
                  !.packages = [p \in Packages |->
                      IF fetched[p].status = "absent" THEN @[p]
                      ELSE [total |-> fetched[p].total, available |-> fetched[p].available,
                            status |-> fetched[p].status, credit |-> "migration"]]]

\* The snapshot of the packages after a fetch, credits untouched.
Observed(b, fetched) ==
    [p \in Packages |->
        LET old == b.packages[p]
            now == fetched[p]
        IN  CASE now.status # "absent" ->
                   [total |-> now.total, available |-> now.available,
                    status |-> now.status, credit |-> old.credit]
              [] now.status = "absent" /\ effective(old) -> [old EXCEPT !.status = "Missing"]
              [] OTHER -> old]

\* Packages that were effective and no longer are, and what they take along.
Lost(b, fetched) == {p \in Packages : effective(b.packages[p]) /\ ~effective(fetched[p])}

leftover(b, fetched, p) == IF used_up(fetched[p]) THEN 0 ELSE b.packages[p].available

Forfeited(b, fetched) ==
    {p \in Lost(b, fetched) : b.packages[p].credit # "none" /\ leftover(b, fetched, p) > 0}

\* The provider's traffic that came and went since the last sync.
added(b, fetched) ==
    Total([p \in Packages |-> fetched[p].total],
          {p \in Packages : effective(fetched[p]) /\ ~effective(b.packages[p])})

gone(b, fetched) == Total([p \in Packages |-> leftover(b, fetched, p)], Lost(b, fetched))

Remaining(fetched) ==
    Total([p \in Packages |-> fetched[p].available], {p \in Packages : effective(fetched[p])})

\* The drop in the provider's traffic that no package explains.
consumed(b, fetched) ==
    Positive(b.remaining + added(b, fetched) - gone(b, fetched) - Remaining(fetched))

\* Mutant: whatever the provider lists is credited, counted before or not.
NewCredit_Again(pkg, p, M, asg) ==
    IF ~effective(pkg[p]) THEN "none"
    ELSE IF asg.owner[p] \in M THEN "user"
    ELSE IF (asg.exclusive \/ p \in asg.split) /\ M # {} THEN "split"
    ELSE "none"

\* How package p is credited by this sync, if it is.
NewCredit(pkg, p, M, asg) ==
    IF pkg[p].credit # "none" \/ ~effective(pkg[p]) THEN "none"
    ELSE IF asg.owner[p] \in M THEN "user"
    ELSE IF (asg.exclusive \/ p \in asg.split) /\ M # {} THEN "split"
    ELSE "none"

\* What user u gets of package p.
CreditShare(pkg, p, M, asg, u) ==
    CASE NewCredit(pkg, p, M, asg) = "user" /\ asg.owner[p] = u -> pkg[p].total
      [] NewCredit(pkg, p, M, asg) = "split" /\ u \in M -> split_evenly(pkg[p].total, M)[u]
      [] OTHER -> 0

\* The leftover of one package is taken from those with a positive balance.
Forfeit(bal, amount) ==
    LET holders == {u \in Users : bal[u] > 0}
        share == split_by(amount, bal, holders)
    IN  [u \in Users |-> IF u \in holders THEN bal[u] - share[u] ELSE bal[u]]

(***************************************************************************)
(* reconcile after the migration: join, snapshot the packages, credit the  *)
(* new ones, charge the drop in proportion to what was metered, move the   *)
(* baselines, forfeit what expired, and, with a single user, settle the    *)
(* difference into that user.                                              *)
(***************************************************************************)
after_credits(b, fetched, used, asg) ==
    LET credit(u) == [p \in Packages |-> CreditShare(Observed(b, fetched), p, DOMAIN used, asg, u)]
    IN  [u \in Users |-> b.balances[u] + Total(credit(u), Packages)]

\* What each member has moved since its baseline.
metering(b, used) == [u \in DOMAIN used |-> Positive(used[u] - join(b, used).baselines[u])]

after_charge(b, fetched, used, bal) ==
    LET charge == split_by(consumed(b, fetched), metering(b, used), DOMAIN used)
    IN  [u \in Users |-> IF u \in DOMAIN used THEN bal[u] - charge[u] ELSE bal[u]]

after_forfeits(b, fetched, bal) ==
    LET after[p \in {0} \cup Packages] ==
            IF p = 0 THEN bal
            ELSE IF p \in Forfeited(b, fetched)
                 THEN Forfeit(after[p - 1], leftover(b, fetched, p))
                 ELSE after[p - 1]
    IN  after[Cardinality(Packages)]

settle(b, fetched, used, asg) ==
    LET M == DOMAIN used
        pkg == Observed(b, fetched)
        charged == after_charge(b, fetched, used, after_credits(b, fetched, used, asg))
        next == [join(b, used) EXCEPT
            !.remaining = Remaining(fetched),
            !.consumed = consumed(b, fetched),
            !.metered = Total(metering(b, used), M),
            !.balances = after_forfeits(b, fetched, charged),
            !.baselines = [u \in Users |-> IF u \in M THEN used[u] ELSE @[u]],
            !.packages = [p \in Packages |->
                LET credit == NewCredit(pkg, p, M, asg) IN
                IF credit = "none" THEN pkg[p] ELSE [pkg[p] EXCEPT !.credit = credit]]]
    IN  IF asg.exclusive /\ Cardinality(M) = 1
        THEN [next EXCEPT !.balances =
                [u \in Users |-> IF u \in M THEN @[u] + unallocated(next) ELSE @[u]]]
        ELSE next

reconcile(b, fetched, used, offline, asg) ==
    IF b.migrated
    THEN settle(b, fetched, used, asg)
    ELSE migrate([b EXCEPT !.remaining = Remaining(fetched), !.consumed = 0, !.metered = 0],
                 fetched, used, offline)

\* What a sync enters in the ledger as credit for package p.
CreditEntry(b, fetched, used, asg, p) ==
    LET pkg == Observed(b, fetched)
        M == DOMAIN used
    IN  IF b.migrated /\ NewCredit(pkg, p, M, asg) # "none" THEN pkg[p].total ELSE 0

(***************************************************************************)
(* The two operations of the panel: when they are accepted, and the book   *)
(* they make.  `to' is a set: one user, or all members.                    *)
(***************************************************************************)
allocate_ok(b, used, to, amount) ==
    /\ b.migrated
    /\ amount > 0
    /\ amount <= unallocated(b)
    /\ to \subseteq DOMAIN used /\ to # {}

allocate(b, used, to, amount) ==
    LET share == split_evenly(amount, to) IN
    [join(b, used) EXCEPT !.balances = [u \in Users |-> IF u \in to THEN @[u] + share[u] ELSE @[u]]]

\* Mutant: the giver's traffic since the last sync is not taken off.
transfer_ok_Unspent(b, used, from, to, amount) ==
    /\ b.migrated
    /\ amount > 0 /\ from # to
    /\ {from, to} \subseteq DOMAIN used
    /\ amount <= b.balances[from]

transfer_ok(b, used, from, to, amount) ==
    LET j == join(b, used) IN
    /\ b.migrated
    /\ amount > 0 /\ from # to
    /\ {from, to} \subseteq DOMAIN used
    /\ amount <= j.balances[from] - Positive(used[from] - j.baselines[from])

transfer(b, used, from, to, amount) ==
    [join(b, used) EXCEPT !.balances[from] = @ - amount, !.balances[to] = @ + amount]
=============================================================================
