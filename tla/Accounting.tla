----------------------------- MODULE Accounting -----------------------------
(***************************************************************************)
(* The accounting engine (src/src/accounting.rs) with the tasks it shares  *)
(* state with: the main task that applies a new config (src/src/main.rs,   *)
(* src/src/runtime.rs), the relays that use up traffic, the flush task,    *)
(* and the provider that sells the packages.                               *)
(*                                                                         *)
(* The engine is one task, but a sync awaits the provider and every change *)
(* of the book awaits the database; meanwhile the main task may replace    *)
(* the config, the set of users and their limits.  What the engine read    *)
(* before the await (ecfg) is what it uses after it.                       *)
(***************************************************************************)
EXTENDS Ledger

CONSTANTS
    Configs,     \* the configs the operator may choose
    Sizes,       \* total of each package
    Starts,      \* the state files the process may find, with the packages as they were then
    NoLimit,     \* an unlimited user
    NoLimits,    \* RemoteLimits before the first migration
    MaxUsed,     \* bound on the bytes of a user
    MaxOps,      \* bound on the engine's operations
    MaxEvents    \* bound on the changes of the config and the restarts

ASSUME ConfigsAssumption ==
    /\ NoLimit \notin Int
    /\ Configs # {}
    /\ \A c \in Configs :
         /\ c.users \subseteq Users
         /\ c.remote \in BOOLEAN /\ c.exclusive \in BOOLEAN
         /\ c.split \subseteq Packages /\ c.seen \subseteq Packages
         /\ c.owner \in [Packages -> Users \cup {0}]
         /\ c.quota \in [Users -> Nat \cup {NoLimit}]
ASSUME SizesAssumption == Sizes \in [Packages -> Nat \ {0}]

Books ==
    [migrated : BOOLEAN, remaining : Nat, consumed : Nat, metered : Nat, joined : SUBSET Users,
     balances : [Users -> Int], baselines : [Users -> Nat],
     packages : [Packages -> [total : Nat, available : Nat, status : Statuses, credit : Credits]]]

\* The provider's packages.
Wares ==
    [Packages -> [total : Nat, available : Nat, status : {"unsold", "Effective", "UsedUp", "Expired"}]]

\* A book the engine made earlier, when the provider has `ware' now: it counts
\* the effective packages as they were or are, and only users in it have a balance.
Sound(b, ware) ==
    /\ \A u \in Users \ b.joined : b.balances[u] = 0
    /\ b.remaining = Remaining(b.packages)
    /\ \A p \in Packages : effective(b.packages[p]) => b.packages[p].available >= ware[p].available
    /\ ~b.migrated => \A p \in Packages : ~effective(b.packages[p])

ASSUME StartsAssumption ==
    \A s \in Starts :
        /\ s.book \in Books /\ Sound(s.book, s.provider)
        /\ s.provider \in Wares
        /\ \A p \in Packages : s.provider[p].total = Sizes[p] /\ s.provider[p].available <= Sizes[p]
ASSUME NoLimitsAssumption == \A S \in SUBSET Users : NoLimits \notin [S -> Nat]
ASSUME BoundsAssumption == {MaxUsed, MaxOps, MaxEvents} \subseteq Nat

VARIABLES
    provider,         \* the packages as the last fetch found them
    present,          \* the users of the published UserSet
    used, limit_of,   \* usage and limit of each user's quota
    cfg, unseen,      \* the live config, and whether the engine has yet to notice it
    book, remote,     \* the engine's book and the shared RemoteLimits
    epc, ecfg, next,  \* the engine: where it is, the config and the book it works with
    pending,          \* the credit entries that go with `next'
    mpc, mcfg, msnap, \* the main task applying mcfg, with its RemoteLimits snapshot
    saved_book, entries,   \* the state file: the book, and the credits entered
    count             \* operations and events so far

engine == <<epc, ecfg, next, pending>>
main == <<mpc, mcfg, msnap>>
disk == <<saved_book, entries>>
vars == <<provider, present, used, limit_of, cfg, unseen, book, remote, engine, main, disk, count>>

NoEntries == [p \in Packages |-> 0]

\* limits: what RemoteLimits holds once there is a book.
limits(b) == [u \in b.joined |-> limit(b, u)]

\* limit_of of Runtime::apply: the limit of u under c with the snapshot s.
LimitUnder(c, s, u, usage) ==
    CASE c.remote /\ s # NoLimits -> IF u \in DOMAIN s THEN s[u] ELSE usage
      [] OTHER -> c.quota[u]

assignments(c) == [split |-> c.split, owner |-> c.owner, exclusive |-> c.exclusive]

\* members: the configured users that have a quota, with its reading.
members(c) == [u \in c.users \cap present |-> used[u]]

offline_remaining(c) ==
    [u \in c.users \cap present |->
        IF limit_of[u] = NoLimit THEN 0 ELSE Positive(limit_of[u] - used[u])]

\* fetch: the packages of the configured regions.
fetched(c, m) ==
    [p \in Packages |->
        IF p \in c.seen /\ m[p].status # "unsold"
        THEN m[p]
        ELSE Absent]

\* Start from c with the book b: RemoteLimits::new, Runtime::apply, Engine::new.
Start(c, b, usage) ==
    LET s == IF b.migrated THEN limits(b) ELSE NoLimits IN
    [present |-> c.users, used |-> usage, remote |-> s,
     limit_of |-> [u \in Users |-> LimitUnder(c, s, u, usage[u])]]

\* A state file nobody has written yet.
FreshStart ==
    [book |-> EmptyBook,
     provider |-> [p \in Packages |->
                     [total |-> Sizes[p], available |-> Sizes[p], status |-> "unsold"]]]

Init ==
    LET zero == [u \in Users |-> 0] IN
    /\ \E s \in Starts : provider = s.provider /\ saved_book = s.book
    /\ cfg \in Configs /\ unseen = FALSE
    /\ book = saved_book
    /\ present = cfg.users /\ used = zero
    /\ remote = Start(cfg, book, zero).remote
    /\ limit_of = Start(cfg, book, zero).limit_of
    /\ entries = NoEntries
    /\ epc = "idle" /\ ecfg = cfg /\ next = EmptyBook /\ pending = NoEntries
    /\ mpc = "idle" /\ mcfg = cfg /\ msnap = NoLimits
    /\ count = [ops |-> 0, events |-> 0]

-----------------------------------------------------------------------------
\* The provider (external): what may have become of a package by the next fetch.
\* It is sold in full, drained by these users or by anything else in the region,
\* and ends used up or expired.
Later(pkg) ==
    LET drained(s) == {[pkg EXCEPT !.available = a, !.status = s] : a \in 0..pkg.available} IN
    CASE pkg.status = "unsold" -> {pkg} \cup drained("Effective")
      [] pkg.status = "Effective" ->
           drained("Effective")
               \cup {[pkg EXCEPT !.available = 0, !.status = s] : s \in {"UsedUp", "Expired"}}
      [] OTHER -> {pkg}

Markets == {m \in [Packages -> UNION {Later(provider[p]) : p \in Packages}] :
               \A p \in Packages : m[p] \in Later(provider[p])}

\* The relays of user u move some bytes, the last of them past the limit perhaps.
Traffic(u) ==
    /\ u \in present \/ (mpc = "switch" /\ u \in mcfg.users)
    /\ limit_of[u] # NoLimit => used[u] < limit_of[u]
    /\ \E n \in (used[u] + 1)..MaxUsed : used' = [used EXCEPT ![u] = n]
    /\ UNCHANGED <<provider, present, limit_of, cfg, unseen, book, remote, engine, main, disk, count>>

\* The usage rows of the state file: a flush some time ago, so any earlier reading.
Rows == {r \in [Users -> 0..MaxUsed] : \A u \in Users : r[u] <= used[u]}

-----------------------------------------------------------------------------
(***************************************************************************)
(* The main task: Runtime::apply, then publish.                            *)
(***************************************************************************)

\* The config is accepted; apply takes its snapshot of the remote limits.
Reload(c) ==
    /\ mpc = "idle" /\ c # cfg
    /\ count.events < MaxEvents
    /\ count' = [count EXCEPT !.events = @ + 1]
    /\ mpc' = "limits" /\ mcfg' = c
    /\ msnap' = IF c.remote THEN remote ELSE NoLimits
    /\ UNCHANGED <<provider, present, used, limit_of, cfg, unseen, book, remote, engine, disk>>

\* Every user of the new config gets its limit; a new one its saved usage first.
SetLimits(rows) ==
    /\ mpc = "limits"
    /\ mpc' = "switch" /\ msnap' = NoLimits
    /\ used' = [u \in Users |-> IF u \in mcfg.users \ present THEN rows[u] ELSE used[u]]
    /\ limit_of' = [u \in Users |->
                      IF u \in mcfg.users THEN LimitUnder(mcfg, msnap, u, used'[u]) ELSE limit_of[u]]
    /\ UNCHANGED <<provider, present, cfg, unseen, book, remote, engine, mcfg, disk, count>>

\* Removed users are flushed (a failure is only logged) and the UserSet replaced.
SwitchUsers ==
    /\ mpc = "switch"
    /\ mpc' = "publish"
    /\ present' = mcfg.users
    /\ UNCHANGED <<provider, used, limit_of, cfg, unseen, book, remote, engine, mcfg, msnap, disk, count>>

publish ==
    /\ mpc = "publish"
    /\ mpc' = "idle"
    /\ cfg' = mcfg /\ unseen' = TRUE
    /\ UNCHANGED <<provider, present, used, limit_of, book, remote, engine, mcfg, msnap, disk, count>>

-----------------------------------------------------------------------------
(***************************************************************************)
(* The engine.                                                             *)
(***************************************************************************)
others == <<provider, present, used, cfg, main>>

EngineIdle == epc' = "idle" /\ next' = EmptyBook /\ pending' = NoEntries

Begin(to) ==
    /\ epc = "idle"
    /\ count.ops < MaxOps
    /\ count' = [count EXCEPT !.ops = @ + 1]
    /\ epc' = to /\ ecfg' = cfg

\* sync, up to the await: the interval has elapsed or the panel asked for it.
SyncBegin ==
    /\ cfg.remote
    /\ book.migrated \/ DOMAIN members(cfg) # {}
    /\ Begin("fetch")
    /\ UNCHANGED <<others, limit_of, unseen, book, remote, next, pending, disk>>

FetchFails ==
    /\ epc = "fetch"
    /\ EngineIdle
    /\ UNCHANGED <<others, count, limit_of, unseen, book, remote, ecfg, disk>>

\* The provider's answer, reconciled with the members as they are now.
Fetched(m) ==
    LET f == fetched(ecfg, m)
        reading == members(ecfg)
    IN
    /\ epc = "fetch"
    /\ book.migrated \/ \E p \in Packages : effective(f[p])
    /\ epc' = "save"
    /\ provider' = m
    /\ next' = reconcile(book, f, reading, offline_remaining(ecfg), assignments(ecfg))
    /\ pending' = [p \in Packages |-> CreditEntry(book, f, reading, assignments(ecfg), p)]
    /\ UNCHANGED <<present, used, cfg, main, count, limit_of, unseen, book, remote, ecfg, disk>>

Transfer(from, to, amount) ==
    /\ transfer_ok(book, members(cfg), from, to, amount)
    /\ Begin("save")
    /\ next' = transfer(book, members(cfg), from, to, amount)
    /\ UNCHANGED <<others, limit_of, unseen, book, remote, pending, disk>>

Allocate(to, amount) ==
    /\ allocate_ok(book, members(cfg), to, amount)
    /\ Begin("save")
    /\ next' = allocate(book, members(cfg), to, amount)
    /\ UNCHANGED <<others, limit_of, unseen, book, remote, pending, disk>>

\* commit: book and entries in one transaction of the state file.
Save ==
    /\ epc = "save"
    /\ epc' = "adopt"
    /\ saved_book' = next
    /\ entries' = [p \in Packages |-> entries[p] + pending[p]]
    /\ UNCHANGED <<others, count, limit_of, unseen, book, remote, ecfg, next, pending>>

SaveFails ==
    /\ epc = "save"
    /\ EngineIdle
    /\ UNCHANGED <<others, count, limit_of, unseen, book, remote, ecfg, disk>>

\* The rest of commit, and the first half of apply_limits.
Adopt ==
    /\ epc = "adopt"
    /\ epc' = "apply"
    /\ book' = next /\ remote' = limits(next)
    /\ next' = EmptyBook /\ pending' = NoEntries
    /\ UNCHANGED <<others, count, limit_of, unseen, ecfg, disk>>

\* The second half of apply_limits, with the config the engine started from.
ApplyLimits ==
    /\ epc = "apply"
    /\ EngineIdle
    /\ limit_of' = [u \in Users |->
                      IF ecfg.remote /\ u \in present
                      THEN IF u \in book.joined THEN limit(book, u) ELSE used[u]
                      ELSE limit_of[u]]
    /\ UNCHANGED <<others, count, unseen, book, remote, ecfg, disk>>

\* Mutant: the limits are applied again only when remote accounting changed.
ConfigSeen_Watched ==
    /\ epc = "idle" /\ unseen
    /\ unseen' = FALSE /\ ecfg' = cfg
    /\ IF book.migrated /\ cfg.remote # ecfg.remote
       THEN epc' = "apply" /\ remote' = limits(book)
       ELSE UNCHANGED <<epc, remote>>
    /\ UNCHANGED <<others, count, limit_of, book, next, pending, disk>>

\* The live.changed() arm of run.
ConfigSeen ==
    /\ epc = "idle" /\ unseen
    /\ unseen' = FALSE /\ ecfg' = cfg
    /\ IF book.migrated
       THEN epc' = "apply" /\ remote' = limits(book)
       ELSE UNCHANGED <<epc, remote>>
    /\ UNCHANGED <<others, count, limit_of, book, next, pending, disk>>

-----------------------------------------------------------------------------
\* The process dies and starts again, from the config in force or, if one was
\* being applied, possibly from that one.
Crash(rows) ==
    /\ count.events < MaxEvents
    /\ count' = [count EXCEPT !.events = @ + 1]
    /\ \E c \in {cfg, mcfg} :
         LET s == Start(c, saved_book, rows) IN
         /\ cfg' = c /\ mcfg' = c /\ ecfg' = c
         /\ present' = s.present /\ used' = s.used
         /\ remote' = s.remote /\ limit_of' = s.limit_of
    /\ book' = saved_book
    /\ EngineIdle /\ unseen' = FALSE
    /\ mpc' = "idle" /\ msnap' = NoLimits
    /\ UNCHANGED <<provider, disk>>

Amounts == 1..MaxUsed

Next ==
    \/ \E u \in Users : Traffic(u)
    \/ \E c \in Configs : Reload(c)
    \/ SwitchUsers \/ publish
    \/ SyncBegin \/ FetchFails \/ Save \/ SaveFails \/ Adopt \/ ApplyLimits
    \/ ConfigSeen
    \/ \E m \in Markets : Fetched(m)
    \/ \E u, v \in Users, n \in Amounts : Transfer(u, v, n)
    \/ \E S \in {DOMAIN members(cfg)} \cup {{u} : u \in Users}, n \in Amounts : Allocate(S, n)
    \/ \E rows \in Rows : SetLimits(rows) \/ Crash(rows)

Spec == Init /\ [][Next]_vars

-----------------------------------------------------------------------------
TypeOK ==
    /\ \A p \in Packages : provider[p].total = Sizes[p] /\ provider[p].available \in 0..Sizes[p]
    /\ present \subseteq Users
    /\ used \in [Users -> 0..MaxUsed]
    /\ limit_of \in [Users -> Nat \cup {NoLimit}]
    /\ {cfg, ecfg, mcfg} \subseteq Configs /\ unseen \in BOOLEAN
    /\ {book, next, saved_book} \subseteq Books
    /\ remote = NoLimits \/ remote \in [book.joined -> Nat]
    /\ epc \in {"idle", "fetch", "save", "adopt", "apply"}
    /\ mpc \in {"idle", "limits", "switch", "publish"}
    /\ pending \in [Packages -> Nat] /\ entries \in [Packages -> Nat]
    /\ count \in [ops : 0..MaxOps, events : 0..MaxEvents]

\* Nothing is being applied: the engine and the main task are at rest.
Quiet == epc = "idle" /\ mpc = "idle" /\ ~unseen

(***************************************************************************)
(* README: "New packages are credited once".  Whatever the order of list   *)
(* changes, failed saves, crashes and packages that leave and come back,   *)
(* the ledger on disk never holds more credit for a package than its size. *)
(***************************************************************************)
CreditedOnce == TypeOK /\ \A p \in Packages : entries[p] \in {0, Sizes[p]}

(***************************************************************************)
(* README: "Each user may use their balance as of the last sync".  Once    *)
(* everything is at rest in remote mode each quota enforces the book, and  *)
(* a user who is not in it is stopped, although the main task may have set *)
(* limits from a snapshot taken before the engine's last commit.           *)
(***************************************************************************)
LimitsMatchBook ==
    Quiet /\ cfg.remote /\ book.migrated =>
        \A u \in present : IF u \in book.joined THEN limit_of[u] = limit(book, u)
                                                  ELSE limit_of[u] \in 0..used[u]

AllCredited(b) == \A p \in Packages : effective(b.packages[p]) => b.packages[p].credit # "none"

SyncStep == epc = "fetch" /\ epc' = "save"

(***************************************************************************)
(* README: the drop is charged "so the balances keep adding up to the      *)
(* console".  When every package is listed, what was consumed was metered, *)
(* someone has a balance to forfeit from and no package came back, a sync  *)
(* leaves the unallocated traffic exactly as it was.                       *)
(***************************************************************************)
SyncConserves ==
    [][/\ SyncStep /\ book.migrated /\ ~ecfg.exclusive
       /\ AllCredited(book) /\ AllCredited(next')
       /\ \A p \in Packages : effective(next'.packages[p]) /\ ~effective(book.packages[p])
             => book.packages[p].credit = "none"
       /\ next'.metered > 0 \/ next'.consumed = 0
       /\ \E u \in Users : next'.balances[u] > 0
       => unallocated(next') = unallocated(book)]_vars

(***************************************************************************)
(* README: "a user can only give what they have left".  A transfer leaves  *)
(* the giver's limit at or above what the giver has already used.          *)
(***************************************************************************)
GiverKeepsWhatIsSpent ==
    [][epc = "idle" /\ epc' = "save" =>
         \A u \in book.joined :
             next'.balances[u] < book.balances[u] => limit(next', u) >= used[u]]_vars

(***************************************************************************)
(* README: "Switching back to `offline` uses `total_quota` and `quota`     *)
(* again": at rest in offline mode each quota has its configured limit.    *)
(***************************************************************************)
OfflineUsesQuota ==
    Quiet /\ ~cfg.remote => \A u \in present : limit_of[u] = cfg.quota[u]

(***************************************************************************)
(* README: in single-user mode "the balance always equals the provider's   *)
(* remaining traffic": so it is in the book every sync makes.              *)
(***************************************************************************)
SingleUserHasItAll ==
    [][SyncStep /\ ecfg.exclusive =>
         \A u \in DOMAIN members(ecfg) : next'.balances[u] = next'.remaining]_vars
=============================================================================
