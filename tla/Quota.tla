------------------------------- MODULE Quota -------------------------------
(***************************************************************************)
(* UserQuota (src/src/quota.rs): the traffic meter of one user, shared by  *)
(* every relay task of that user.  Its fields are lock-free atomics, so    *)
(* each step below is ONE atomic access of the code and the calls of       *)
(* several actors interleave between any two accesses.  Only the hourly    *)
(* rollover and the snapshot hold settle_lock.                             *)
(*                                                                         *)
(*   Threads      relay tasks (try_consume)                                *)
(*   Observers    API handlers (roll_over_at, then used)                   *)
(*   Controllers  the config task and the accounting engine (set_limit,    *)
(*                set_metering)                                            *)
(*   Flushers     the flush task (snapshot)                                *)
(*                                                                         *)
(* Accesses are sequentially consistent here; the Release/Acquire pair of  *)
(* settle_to/used is what makes that sound for the sums read by used().    *)
(***************************************************************************)
EXTENDS Naturals, FiniteSets

CONSTANTS
    Threads, Observers, Controllers, Flushers,
    Limits,      \* the values the configuration may give to the limit
    Meterings,   \* the billing rules the configuration may ask for
    Chunks,      \* sizes of one transferred buffer
    NoLimit,     \* u64::MAX: usage is tracked, never enforced
    NoActor,
    MaxHour,     \* bound on the wall clock
    MaxBytes     \* bound on the bytes a user moves

Actors == Threads \cup Observers \cup Controllers \cup Flushers

Dirs == {"up", "down"}

AllMeterings == {"max", "sum", "download"}

ASSUME NoLimitAssumption == NoLimit \notin Nat
ASSUME LimitsAssumption == Limits \subseteq Nat \cup {NoLimit} /\ Limits # {}
ASSUME MeteringsAssumption == Meterings \subseteq AllMeterings /\ Meterings # {}
ASSUME ChunksAssumption == Chunks \subseteq Nat
ASSUME NoActorAssumption == NoActor \notin Actors
ASSUME BoundsAssumption == MaxHour \in Nat \ {0} /\ MaxBytes \in Nat

VARIABLES
    limit, metering,            \* the two settings
    total,                      \* lifetime bytes per direction
    settled,                    \* bill of the completed hours
    hour, bucket_hour,          \* the open bucket and the hour it is for
    settle_lock,
    exhausted_flag, exhausted,  \* the flag and the value of the watch channel
    clock,                      \* hour id of the local wall clock
    saved,                      \* the last SavedUsage that reached the disk
    pc, call,                   \* where each actor is and its call's arguments
    view,                       \* what its used() has read so far
    held,                       \* settle_to's locals up, down (lock holder only)
    snap                        \* the snapshot under construction (lock holder only)

shared == <<limit, metering, total, settled, hour, bucket_hour, settle_lock,
            exhausted_flag, exhausted, clock, saved>>
vars == <<shared, pc, call, view, held, snap>>

-----------------------------------------------------------------------------
(***************************************************************************)
(* Metering.bill (src/src/config.rs): what one hour costs.                 *)
(***************************************************************************)
bill(m, up, down) ==
    CASE m = "max"      -> IF up >= down THEN up ELSE down
      [] m = "sum"      -> up + down
      [] m = "download" -> down

Empty == [d \in Dirs |-> 0]

SavedUsage == [total : [Dirs -> Nat], settled : Nat, hour : [Dirs -> Nat], hour_id : Nat]

\* SavedUsage::default(): a user with no row in the state file.
DefaultUsage == [total |-> Empty, settled |-> 0, hour |-> Empty, hour_id |-> 0]

Calls == [op : {"none", "consume", "report", "limit", "snapshot"},
          now : Nat, dir : Dirs, n : Nat, lim : Limits \cup {NoLimit}, ex : BOOLEAN]

NoCall == [op |-> "none", now |-> 0, dir |-> "up", n |-> 0, lim |-> NoLimit, ex |-> FALSE]

Views == [settled : Nat, metering : AllMeterings, up : Nat, down : Nat]

NoView == [settled |-> 0, metering |-> "max", up |-> 0, down |-> 0]

\* The value used() returns once all four fields have been read.
UsedOf(v) == v.settled + bill(v.metering, v.up, v.down)

Locations ==
    {"idle", "check", "roll", "lock", "recheck", "swapUp", "swapDown", "bill",
     "fold", "storeHour", "addTotal", "addBucket", "readLimit", "readSettled",
     "readMetering", "readUp", "readDown", "verdict", "storeFlag", "sendWatch",
     "rereadLimit", "storeLimit", "snapUpload", "snapDownload", "snapSettled",
     "snapHourUp", "snapHourDown"}

\* Locations inside the critical sections of settle_lock.
Locked ==
    {"recheck", "swapUp", "swapDown", "bill", "fold", "storeHour", "snapUpload",
     "snapDownload", "snapSettled", "snapHourUp", "snapHourDown"}

\* Actor p moves from one access of its call to the next.
At(p, from, to) == pc[p] = from /\ pc' = [pc EXCEPT ![p] = to]

\* A call returns: its locals are gone.
Return(p, from) ==
    /\ At(p, from, "idle")
    /\ call' = [call EXCEPT ![p] = NoCall]
    /\ view' = [view EXCEPT ![p] = NoView]

\* Actor p starts a call whose first access is at location to.
Begin(p, to, c) ==
    /\ At(p, "idle", to)
    /\ call' = [call EXCEPT ![p] = c]
    /\ UNCHANGED <<view, held, snap>>

\* An access of a call that changes no local.
Access(p, from, to) == At(p, from, to) /\ UNCHANGED <<call, view, held, snap>>

-----------------------------------------------------------------------------
(***************************************************************************)
(* new_metered_at: a row of the current hour resumes its bucket, a row of  *)
(* an earlier hour is settled; the flag starts from the restored usage.    *)
(***************************************************************************)
RestoredSettled(row, m, now) ==
    IF row.hour_id = now
    THEN row.settled
    ELSE row.settled + bill(m, row.hour["up"], row.hour["down"])

RestoredHour(row, now) == IF row.hour_id = now THEN row.hour ELSE Empty

\* Mutant: the restored usage adds both directions instead of billing them.
ExhaustedNow_Raw(row, m, l) ==
    l # NoLimit /\ row.settled + row.hour["up"] + row.hour["down"] >= l

ExhaustedNow(row, m, l) ==
    /\ l # NoLimit
    /\ row.settled + bill(m, row.hour["up"], row.hour["down"]) >= l

Init ==
    /\ limit \in Limits
    /\ metering \in Meterings
    /\ clock = 1
    /\ saved = DefaultUsage
    /\ total = Empty
    /\ settled = 0
    /\ hour = Empty
    /\ bucket_hour = clock
    /\ settle_lock = NoActor
    /\ exhausted_flag = ExhaustedNow(saved, metering, limit)
    /\ exhausted = exhausted_flag
    /\ pc = [p \in Actors |-> "idle"]
    /\ call = [p \in Actors |-> NoCall]
    /\ view = [p \in Actors |-> NoView]
    /\ held = Empty
    /\ snap = DefaultUsage

\* A crash and the restart from the last saved row: calls in flight are lost.
Restart ==
    /\ total' = saved.total
    /\ settled' = RestoredSettled(saved, metering, clock)
    /\ hour' = RestoredHour(saved, clock)
    /\ bucket_hour' = clock
    /\ settle_lock' = NoActor
    /\ exhausted_flag' = ExhaustedNow(saved, metering, limit)
    /\ exhausted' = ExhaustedNow(saved, metering, limit)
    /\ pc' = [p \in Actors |-> "idle"]
    /\ call' = [p \in Actors |-> NoCall]
    /\ view' = [p \in Actors |-> NoView]
    /\ held' = Empty
    /\ snap' = DefaultUsage
    /\ UNCHANGED <<limit, metering, clock, saved>>

\* clock::current_hour_id moves on.
Tick ==
    /\ clock < MaxHour
    /\ clock' = clock + 1
    /\ UNCHANGED <<limit, metering, total, settled, hour, bucket_hour, settle_lock,
                   exhausted_flag, exhausted, saved, pc, call, view, held, snap>>

-----------------------------------------------------------------------------
(* try_consume: the hour is captured first, then the flag is checked. *)

Consume(p) ==
    /\ \E d \in Dirs, n \in Chunks :
          /\ total["up"] + total["down"] + n <= MaxBytes
          /\ Begin(p, "check", [NoCall EXCEPT !.op = "consume", !.now = clock, !.dir = d, !.n = n])
    /\ UNCHANGED shared

\* Mutant: a call no longer looks at the flag.
CheckFlag_Skipped(p) == Access(p, "check", "roll") /\ UNCHANGED shared

CheckFlag(p) ==
    /\ IF exhausted_flag
       THEN Return(p, "check") /\ UNCHANGED <<held, snap>>
       ELSE Access(p, "check", "roll")
    /\ UNCHANGED shared

\* The API's UserUsage::new: roll_over_at(now), then used().
Report(p) ==
    /\ Begin(p, "roll", [NoCall EXCEPT !.op = "report", !.now = clock])
    /\ UNCHANGED shared

-----------------------------------------------------------------------------
(* roll_over_at and settle_to *)

AfterRoll(p) == IF call[p].op = "consume" THEN "addTotal" ELSE "readSettled"

RollOver(p) ==
    /\ Access(p, "roll", IF bucket_hour # call[p].now THEN "lock" ELSE AfterRoll(p))
    /\ UNCHANGED shared

\* Mutant: the guard is taken without waiting for its owner.
Lock_Unguarded(p) ==
    /\ settle_lock' = p
    /\ Access(p, "lock", IF call[p].op = "snapshot" THEN "snapUpload" ELSE "recheck")
    /\ UNCHANGED <<limit, metering, total, settled, hour, bucket_hour, exhausted_flag, exhausted, clock, saved>>

Lock(p) ==
    /\ settle_lock = NoActor
    /\ settle_lock' = p
    /\ Access(p, "lock", IF call[p].op = "snapshot" THEN "snapUpload" ELSE "recheck")
    /\ UNCHANGED <<limit, metering, total, settled, hour, bucket_hour, exhausted_flag, exhausted, clock, saved>>

\* Another task may have rolled over while this one waited for the lock.
Recheck(p) ==
    /\ IF bucket_hour = call[p].now
       THEN settle_lock' = NoActor /\ Access(p, "recheck", AfterRoll(p))
       ELSE UNCHANGED settle_lock /\ Access(p, "recheck", "swapUp")
    /\ UNCHANGED <<limit, metering, total, settled, hour, bucket_hour, exhausted_flag, exhausted, clock, saved>>

\* hour_upload.swap(0), hour_download.swap(0)
Swap(p, d, from, to) ==
    /\ At(p, from, to)
    /\ held' = [held EXCEPT ![d] = hour[d]]
    /\ hour' = [hour EXCEPT ![d] = 0]
    /\ UNCHANGED <<limit, metering, total, settled, bucket_hour, settle_lock, exhausted_flag, exhausted, clock, saved,
                   call, view, snap>>

\* Mutant: the bucket is loaded, not swapped.
SwapUp_Load(p) ==
    /\ At(p, "swapUp", "swapDown")
    /\ held' = [held EXCEPT !["up"] = hour["up"]]
    /\ UNCHANGED <<shared, call, view, snap>>

SwapUp(p) == Swap(p, "up", "swapUp", "swapDown")

SwapDown(p) == Swap(p, "down", "swapDown", "bill")

\* Mutant: what was swapped out is also subtracted from the buckets.
Fold_Subtracts(p) ==
    /\ At(p, "fold", "storeHour")
    /\ settled' = settled + bill(view[p].metering, held["up"], held["down"])
    /\ hour' = [d \in Dirs |-> hour[d] - held[d]]
    /\ held' = Empty
    /\ UNCHANGED <<limit, metering, total, bucket_hour, settle_lock, exhausted_flag, exhausted, clock, saved,
                   call, view, snap>>

Fold(p) ==
    /\ At(p, "fold", "storeHour")
    /\ settled' = settled + bill(view[p].metering, held["up"], held["down"])
    /\ held' = Empty
    /\ UNCHANGED <<limit, metering, total, hour, bucket_hour, settle_lock, exhausted_flag, exhausted, clock, saved,
                   call, view, snap>>

\* Mutant: the buckets are cleared once more when the new hour opens.
StoreHour_Clears(p) ==
    /\ Access(p, "storeHour", AfterRoll(p))
    /\ bucket_hour' = call[p].now
    /\ hour' = Empty
    /\ settle_lock' = NoActor
    /\ UNCHANGED <<limit, metering, total, settled, exhausted_flag, exhausted, clock, saved>>

\* The store and the release of the guard at the end of settle_to.
StoreHour(p) ==
    /\ Access(p, "storeHour", AfterRoll(p))
    /\ bucket_hour' = call[p].now
    /\ settle_lock' = NoActor
    /\ UNCHANGED <<limit, metering, total, settled, hour, exhausted_flag, exhausted, clock, saved>>

-----------------------------------------------------------------------------
(* The rest of try_consume *)

AddTotal(p) ==
    /\ Access(p, "addTotal", "addBucket")
    /\ total' = [total EXCEPT ![call[p].dir] = @ + call[p].n]
    /\ UNCHANGED <<limit, metering, settled, hour, bucket_hour, settle_lock, exhausted_flag, exhausted, clock, saved>>

AddBucket(p) ==
    /\ Access(p, "addBucket", "readLimit")
    /\ hour' = [hour EXCEPT ![call[p].dir] = @ + call[p].n]
    /\ UNCHANGED <<limit, metering, total, settled, bucket_hour, settle_lock, exhausted_flag, exhausted, clock, saved>>

\* limit() as try_consume and set_metering use it: None ends the call.
LimitOr(p, from, to) ==
    /\ IF limit = NoLimit
       THEN Return(p, from)
       ELSE /\ At(p, from, to)
            /\ call' = [call EXCEPT ![p].lim = limit]
            /\ UNCHANGED view
    /\ UNCHANGED <<shared, held, snap>>

ReadLimit(p) == LimitOr(p, "readLimit", "readSettled")

-----------------------------------------------------------------------------
(* used(): settled, then the metering and the two buckets of hour_used() *)

Load(p, from, to, v) ==
    /\ At(p, from, to)
    /\ view' = [view EXCEPT ![p] = v]
    /\ UNCHANGED <<shared, call, held, snap>>

ReadSettled(p) == Load(p, "readSettled", "readMetering", [view[p] EXCEPT !.settled = settled])

ReadMetering(p) == Load(p, "readMetering", "readUp", [view[p] EXCEPT !.metering = metering])

ReadUp(p) == Load(p, "readUp", "readDown", [view[p] EXCEPT !.up = hour["up"]])

\* Mutant: used() loads the settled sum after the buckets.
ReadDown_SettledLast(p) ==
    Load(p, "readDown", "verdict", [view[p] EXCEPT !.down = hour["down"], !.settled = settled])

ReadDown(p) == Load(p, "readDown", "verdict", [view[p] EXCEPT !.down = hour["down"]])

\* settle_to's own load of the metering, between the swaps and the sum.
Bill(p) == Load(p, "bill", "fold", [view[p] EXCEPT !.metering = metering])

\* Mutant: the limit itself still counts as unused.
Verdict_Strict(p) ==
    /\ \/ /\ Return(p, "verdict")
          /\ \/ call[p].op = "report"
             \/ call[p].op = "consume" /\ UsedOf(view[p]) <= call[p].lim
       \/ /\ At(p, "verdict", "storeFlag")
          /\ \/ call[p].op = "consume" /\ UsedOf(view[p]) > call[p].lim
             \/ call[p].op = "limit"
          /\ call' = [call EXCEPT ![p].ex = (UsedOf(view[p]) > call[p].lim)]
          /\ UNCHANGED view
    /\ UNCHANGED <<shared, held, snap>>

\* used() >= limit decides: try_consume only ever sets, set_limit also clears.
Verdict(p) ==
    /\ \/ /\ Return(p, "verdict")
          /\ \/ call[p].op = "report"
             \/ call[p].op = "consume" /\ UsedOf(view[p]) < call[p].lim
       \/ /\ At(p, "verdict", "storeFlag")
          /\ \/ call[p].op = "consume" /\ UsedOf(view[p]) >= call[p].lim
             \/ call[p].op = "limit"
          /\ call' = [call EXCEPT ![p].ex = (UsedOf(view[p]) >= call[p].lim)]
          /\ UNCHANGED view
    /\ UNCHANGED <<shared, held, snap>>

StoreFlag(p) ==
    /\ Access(p, "storeFlag", "sendWatch")
    /\ exhausted_flag' = call[p].ex
    /\ UNCHANGED <<limit, metering, total, settled, hour, bucket_hour, settle_lock, exhausted, clock, saved>>

SendWatch(p) ==
    /\ Return(p, "sendWatch")
    /\ exhausted' = call[p].ex
    /\ UNCHANGED <<limit, metering, total, settled, hour, bucket_hour, settle_lock, exhausted_flag, clock, saved,
                   held, snap>>

-----------------------------------------------------------------------------
(* set_limit and set_metering; the callers only call them with a new value *)

SetLimit(p) ==
    /\ \E l \in Limits \ {limit} :
          /\ limit' = l
          /\ Begin(p, IF l = NoLimit THEN "storeFlag" ELSE "readSettled",
                   [NoCall EXCEPT !.op = "limit", !.lim = l])
    /\ UNCHANGED <<metering, total, settled, hour, bucket_hour, settle_lock, exhausted_flag, exhausted, clock, saved>>

SetMetering(p) ==
    /\ metering' \in Meterings \ {metering}
    /\ Begin(p, "rereadLimit", [NoCall EXCEPT !.op = "limit"])
    /\ UNCHANGED <<limit, total, settled, hour, bucket_hour, settle_lock, exhausted_flag, exhausted, clock, saved>>

\* set_metering ends in set_limit(limit()).
RereadLimit(p) == LimitOr(p, "rereadLimit", "storeLimit")

StoreLimit(p) ==
    /\ Access(p, "storeLimit", "readSettled")
    /\ limit' = call[p].lim
    /\ UNCHANGED <<metering, total, settled, hour, bucket_hour, settle_lock, exhausted_flag, exhausted, clock, saved>>

-----------------------------------------------------------------------------
(* snapshot: six loads under settle_lock; the flush task then saves the row *)

\* Mutant: the snapshot does not take settle_lock.
Snapshot_Unlocked(p) == Begin(p, "snapUpload", [NoCall EXCEPT !.op = "snapshot"]) /\ UNCHANGED shared

Snapshot(p) == Begin(p, "lock", [NoCall EXCEPT !.op = "snapshot"]) /\ UNCHANGED shared

SnapLoad(p, from, to, s) ==
    /\ At(p, from, to)
    /\ snap' = s
    /\ UNCHANGED <<shared, call, view, held>>

SnapUpload(p) == SnapLoad(p, "snapUpload", "snapDownload", [snap EXCEPT !.total["up"] = total["up"]])

SnapDownload(p) == SnapLoad(p, "snapDownload", "snapSettled", [snap EXCEPT !.total["down"] = total["down"]])

SnapSettled(p) == SnapLoad(p, "snapSettled", "snapHourUp", [snap EXCEPT !.settled = settled])

SnapHourUp(p) == SnapLoad(p, "snapHourUp", "snapHourDown", [snap EXCEPT !.hour["up"] = hour["up"]])

\* Mutant: the row saves used() beside the buckets it already includes.
SnapHourDown_Used(p) ==
    /\ Return(p, "snapHourDown")
    /\ saved' = [snap EXCEPT !.settled = @ + bill(metering, snap.hour["up"], hour["down"]),
                             !.hour["down"] = hour["down"], !.hour_id = bucket_hour]
    /\ snap' = DefaultUsage
    /\ settle_lock' = NoActor
    /\ UNCHANGED <<limit, metering, total, settled, hour, bucket_hour, exhausted_flag, exhausted, clock, held>>

\* The last two loads (bucket_hour cannot move while the lock is held), the
\* release of the guard, and the row on disk.
SnapHourDown(p) ==
    /\ Return(p, "snapHourDown")
    /\ saved' = [snap EXCEPT !.hour["down"] = hour["down"], !.hour_id = bucket_hour]
    /\ snap' = DefaultUsage
    /\ settle_lock' = NoActor
    /\ UNCHANGED <<limit, metering, total, settled, hour, bucket_hour, exhausted_flag, exhausted, clock, held>>

-----------------------------------------------------------------------------
used(p) == ReadSettled(p) \/ ReadMetering(p) \/ ReadUp(p) \/ ReadDown(p) \/ Verdict(p)

Announce(p) == StoreFlag(p) \/ SendWatch(p)

roll_over(p) ==
    \/ RollOver(p) \/ Lock(p) \/ Recheck(p) \/ SwapUp(p) \/ SwapDown(p)
    \/ Bill(p) \/ Fold(p) \/ StoreHour(p)

ThreadStep(p) ==
    \/ Consume(p) \/ CheckFlag(p) \/ roll_over(p) \/ AddTotal(p) \/ AddBucket(p)
    \/ ReadLimit(p) \/ used(p) \/ Announce(p)

ObserverStep(p) == Report(p) \/ roll_over(p) \/ used(p)

ControllerStep(p) ==
    SetLimit(p) \/ SetMetering(p) \/ RereadLimit(p) \/ StoreLimit(p) \/ used(p) \/ Announce(p)

FlusherStep(p) ==
    \/ Snapshot(p) \/ Lock(p) \/ SnapUpload(p) \/ SnapDownload(p) \/ SnapSettled(p)
    \/ SnapHourUp(p) \/ SnapHourDown(p)

\* Everything but a crash.
Run ==
    \/ Tick
    \/ \E p \in Threads : ThreadStep(p)
    \/ \E p \in Observers : ObserverStep(p)
    \/ \E p \in Controllers : ControllerStep(p)
    \/ \E p \in Flushers : FlusherStep(p)

Next == Run \/ Restart

Spec == Init /\ [][Next]_vars

RunSpec == Init /\ [][Run]_vars

(***************************************************************************)
(* A started call runs to its end (tokio keeps polling the task, the locks *)
(* are held over a few instructions), and the user's peers keep sending.   *)
(***************************************************************************)
LiveSpec ==
    /\ RunSpec
    /\ \A p \in Threads : WF_vars(ThreadStep(p))
    /\ \A p \in Observers : WF_vars(pc[p] # "idle" /\ ObserverStep(p))
    /\ \A p \in Controllers : WF_vars(pc[p] # "idle" /\ ControllerStep(p))

-----------------------------------------------------------------------------
(* Every field holds a value of its Rust type, and every actor is somewhere in a call. *)
TypeOK ==
    /\ limit \in Limits
    /\ metering \in Meterings
    /\ total \in [Dirs -> Nat]
    /\ settled \in Nat
    /\ hour \in [Dirs -> Nat]
    /\ bucket_hour \in Nat
    /\ settle_lock \in Actors \cup {NoActor}
    /\ exhausted_flag \in BOOLEAN
    /\ exhausted \in BOOLEAN
    /\ clock \in Nat
    /\ saved \in SavedUsage
    /\ pc \in [Actors -> Locations]
    /\ call \in [Actors -> Calls]
    /\ view \in [Actors -> Views]
    /\ held \in [Dirs -> Nat]
    /\ snap \in SavedUsage

(***************************************************************************)
(* What the user owes at this instant: the settled hours, the bucket that  *)
(* a rollover has taken out but not folded in yet, and the open bucket.    *)
(* Between the two swaps the downloads still in the bucket belong to the   *)
(* finished hour, with the uploads already taken out.                      *)
(***************************************************************************)
Due ==
    IF \E p \in Actors : pc[p] = "swapDown"
    THEN settled + bill(metering, held["up"], hour["down"]) + bill(metering, hour["up"], 0)
    ELSE settled + bill(metering, held["up"], held["down"])
                 + bill(metering, hour["up"], hour["down"])

(* settle_lock really serialises: whoever is inside a critical section of  *)
(* settle_to or snapshot is the owner of the lock, so there is one.        *)
LockDiscipline == \A p \in Actors : pc[p] \in Locked <=> settle_lock = p

(* "An hour is never counted twice" (the comment in used): however the four *)
(* loads of used() interleave with rollovers, traffic and other calls, the  *)
(* value it returns is never above what the user owes.                      *)
NeverOverbilled == \A p \in Actors : pc[p] = "verdict" => UsedOf(view[p]) <= Due

(* A user whose limit stands is not cut off early: try_consume and the     *)
(* constructor raise the flag, and tell the connections, only when the     *)
(* bill has reached the limit.                                             *)
NoEarlyCutoff == exhausted_flag \/ exhausted => limit # NoLimit /\ Due >= limit

(* The row on disk never bills more than the user owes, so a restart from  *)
(* it cannot double-count (the comment on snapshot).                       *)
SnapshotNotAhead ==
    saved.settled + bill(metering, saved.hour["up"], saved.hour["down"]) <= Due

\* Bytes that try_consume has added to the total and not yet to the bucket.
InFlight == UNION {{p} \X (1..call[p].n) : p \in {q \in Actors : pc[q] = "addBucket"}}

(* "Bytes are never lost" (the comment in settle_to): whatever rollovers   *)
(* race with traffic, every byte of the lifetime totals is in the settled  *)
(* sum, in a rollover's hands, in the open bucket or in a running call.    *)
BytesNeverLost ==
    metering = "sum" =>
        total["up"] + total["down"] =
            settled + held["up"] + held["down"] + hour["up"] + hour["down"] + Cardinality(InFlight)

(* "Consistent snapshot for persistence": no rollover comes between the    *)
(* settled sum and the buckets a snapshot reads, and none is half done, so *)
(* the row it saves is one the quota had.                                  *)
SnapshotNotTorn ==
    \A p \in Actors :
        pc[p] \in {"snapHourUp", "snapHourDown"} => snap.settled = settled /\ held = Empty

(* "used() reads the same value before and after" (the comment on          *)
(* settle_to): no step of a rollover, a read or a snapshot changes the     *)
(* bill; a transferred buffer adds at most its size, and only a restart    *)
(* from an older row takes anything off.                                   *)
BillMovesOnlyWithTraffic ==
    [][\/ Due' = Due
       \/ Restart /\ Due' <= Due
       \/ \E p \in Actors : AddBucket(p) /\ Due <= Due' /\ Due' <= Due + call[p].n]_vars

(* Enforcement: once the settings rest and the bill has reached the limit, *)
(* a user who keeps sending is stopped for good, although a used() that    *)
(* races a rollover may read too little and miss the limit.                *)
LimitEnforced ==
    <>[](/\ \A p \in Controllers : pc[p] = "idle"
         /\ limit # NoLimit /\ Due >= limit)
    => <>[]exhausted_flag

(* README: "raising a quota re-enables an exhausted user".  When nobody is *)
(* inside a call, the flag and the watch channel say whether the bill has  *)
(* reached the limit in force.                                             *)
RaisedQuotaResumes ==
    (\A p \in Actors : pc[p] = "idle") /\ (exhausted_flag \/ exhausted)
    => limit # NoLimit /\ Due >= limit

(* "Each local wall-clock hour is one billing period" (the comment on      *)
(* UserQuota): once its bucket is closed an hour is never opened again.    *)
HourClosedOnce == [][bucket_hour' >= bucket_hour]_bucket_hour

=============================================================================
