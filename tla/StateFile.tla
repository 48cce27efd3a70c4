------------------------------ MODULE StateFile ------------------------------
(***************************************************************************)
(* How usage gets to the state file and back (src/src/state.rs): the flush *)
(* task, the flush of removed users and the load of new ones in            *)
(* Runtime::apply, stops, crashes and power loss.                          *)
(*                                                                         *)
(* A user that is removed and added again gets a new UserQuota, restored   *)
(* from the file; relays of the removed rules may go on counting on the    *)
(* old one for a while.  A counter is one number here; that a snapshot of  *)
(* its six is whole is shown in module Quota.                              *)
(***************************************************************************)
EXTENDS Naturals, FiniteSets

CONSTANTS
    Users,
    Gens,           \* how many quota objects a user may get
    MaxBytes,       \* bound on a counter
    MaxApplies,     \* bound on the configs applied
    MaxHours,       \* bound on the hour boundaries met
    MaxFaults       \* bound on crashes and power losses

ASSUME BoundsAssumption == {Gens, MaxBytes, MaxApplies, MaxHours, MaxFaults} \subseteq Nat

Objects == Users \X (1..Gens)
User(o) == o[1]
Gen(o) == o[2]

\* The two tasks that flush: run_flush_task, and the main task in apply.
Jobs == {"flusher", "main"}
Unknown == MaxBytes + 1     \* no value, in last_flushed

VARIABLES
    up,             \* "off", "on", "stopping", and "off" again
    bytes,          \* the counter of each quota object
    newest,         \* how many objects each user has had
    live,           \* the objects in the published UserSet
    relays,         \* the objects that relays count on
    rows,           \* the usage table
    since,          \* the tables that a power loss may leave behind
    last_flushed,   \* StateDb::last_flushed
    lock,           \* who holds the lock of last_flushed
    job,            \* the flush of each task
    apply,          \* what apply is doing
    marks,          \* each counter at the last hour boundary
    due,            \* the flush task has the hour's checkpoint to do
    promised,       \* what the last checkpoint made durable, for the writer
    writer,         \* which object of the user wrote its row
    moved,          \* bytes moved for each user in all
    applies, hours, faults

memory == <<bytes, newest, live, relays>>
disk == <<rows, since>>
history == <<promised, writer, moved>>
counts == <<applies, hours, faults>>
vars == <<up, memory, disk, last_flushed, lock, job, apply, marks, due, history, counts>>

NoJob == [pc |-> "idle", objs |-> {}, dirty |-> {}, checkpoint |-> FALSE, marks |-> <<>>]
NoApply == [pc |-> "idle", next |-> {}, saved |-> <<>>, gone |-> {}, floor |-> <<>>, ok |-> TRUE]

Zero == [u \in Users |-> 0]

Init ==
    /\ up = "off"
    /\ bytes = [o \in Objects |-> 0] /\ newest = Zero /\ live = {} /\ relays = {}
    /\ rows = Zero /\ since = {Zero}
    /\ last_flushed = [u \in Users |-> Unknown] /\ lock = "free"
    /\ job = [j \in Jobs |-> NoJob] /\ apply = NoApply
    /\ marks = [o \in Objects |-> 0] /\ due = FALSE
    /\ promised = Zero /\ writer = Zero /\ moved = Zero
    /\ applies = 0 /\ hours = 0 /\ faults = 0

-----------------------------------------------------------------------------
(***************************************************************************)
(* Relays, and the clock.                                                  *)
(***************************************************************************)
Traffic(o) ==
    /\ o \in relays /\ moved[User(o)] < MaxBytes
    /\ bytes' = [bytes EXCEPT ![o] = @ + 1]
    /\ moved' = [moved EXCEPT ![User(o)] = @ + 1]
    /\ UNCHANGED <<up, newest, live, relays, disk, last_flushed, lock, job, apply, marks, due,
                   promised, writer, counts>>

\* The last relay of a removed rule has noticed.
RelayStops(o) ==
    /\ apply.pc = "idle" /\ o \in relays \ live
    /\ relays' = relays \ {o}
    /\ UNCHANGED <<up, bytes, newest, live, disk, last_flushed, lock, job, apply, marks, due,
                   history, counts>>

HourPasses ==
    /\ up = "on" /\ hours < MaxHours /\ ~due
    /\ marks' = bytes /\ due' = TRUE /\ hours' = hours + 1
    /\ UNCHANGED <<up, memory, disk, last_flushed, lock, job, apply, history, applies, faults>>

-----------------------------------------------------------------------------
(***************************************************************************)
(* StateDb::flush and checkpoint, on behalf of job j.                      *)
(***************************************************************************)
\* Mutant: the counters are read before the lock is taken.
Snapshot_Unlocked(j) ==
    /\ job[j].pc = "queued"
    /\ LET dirty == {o \in job[j].objs : last_flushed[User(o)] # bytes[o]} IN
       job' = [job EXCEPT ![j].pc = IF dirty = {} THEN "flushed" ELSE "commit",
                          ![j].dirty = {<<o, bytes[o]>> : o \in dirty}]
    /\ UNCHANGED <<up, memory, disk, last_flushed, lock, apply, marks, due, history, counts>>

\* The lock is taken before the counters are read and kept until the rows are
\* written, so that of two flushes the later one has the later counters.
Snapshot(j) ==
    /\ job[j].pc = "queued" /\ lock = "free"
    /\ LET dirty == {o \in job[j].objs : last_flushed[User(o)] # bytes[o]} IN
       IF dirty = {}
       THEN /\ job' = [job EXCEPT ![j].pc = "flushed"] /\ UNCHANGED lock
       ELSE /\ job' = [job EXCEPT ![j].pc = "commit", ![j].dirty = {<<o, bytes[o]>> : o \in dirty}]
            /\ lock' = j
    /\ UNCHANGED <<up, memory, disk, last_flushed, apply, marks, due, history, counts>>

Over(table, dirty) ==
    [u \in Users |-> IF \E d \in dirty : User(d[1]) = u
                     THEN (CHOOSE d \in dirty : User(d[1]) = u)[2] ELSE table[u]]

\* Mutant: the usage is added to the row.
Stored_Added(dirty) ==
    [u \in Users |-> IF \E d \in dirty : User(d[1]) = u
                     THEN rows[u] + (CHOOSE d \in dirty : User(d[1]) = u)[2] ELSE rows[u]]

\* The upsert of the dirty rows.
Stored(dirty) == Over(rows, dirty)

Commit(j) ==
    /\ job[j].pc = "commit"
    /\ rows' = Stored(job[j].dirty) /\ since' = since \cup {rows'}
    /\ last_flushed' = Over(last_flushed, job[j].dirty)
    /\ writer' = Over(writer, {<<d[1], Gen(d[1])>> : d \in job[j].dirty})
    /\ promised' = [u \in Users |-> IF writer'[u] = writer[u] THEN promised[u] ELSE 0]
    /\ lock' = "free"
    /\ job' = [job EXCEPT ![j].pc = "flushed", ![j].dirty = {}]
    /\ UNCHANGED <<up, memory, apply, marks, due, moved, counts>>

\* Mutant: the filter is told before the rows are safe.
CommitFails_Told(j) ==
    /\ job[j].pc = "commit"
    /\ last_flushed' = Over(last_flushed, job[j].dirty)
    /\ lock' = "free"
    /\ job' = [job EXCEPT ![j].pc = "failed", ![j].dirty = {}]
    /\ UNCHANGED <<up, memory, disk, apply, marks, due, history, counts>>

CommitFails(j) ==
    /\ job[j].pc = "commit"
    /\ lock' = "free"
    /\ job' = [job EXCEPT ![j].pc = "failed", ![j].dirty = {}]
    /\ UNCHANGED <<up, memory, disk, last_flushed, apply, marks, due, history, counts>>

-----------------------------------------------------------------------------
(***************************************************************************)
(* run_flush_task.                                                         *)
(***************************************************************************)
Queue(checkpoint) ==
    /\ job["flusher"].pc = "idle"
    /\ job' = [job EXCEPT !["flusher"] =
                 [NoJob EXCEPT !.pc = "queued", !.objs = live, !.checkpoint = checkpoint,
                               !.marks = marks]]

Tick ==
    /\ up = "on" /\ Queue(FALSE)
    /\ UNCHANGED <<up, memory, disk, last_flushed, lock, apply, marks, due, history, counts>>

HourDeadline ==
    /\ up = "on" /\ due /\ Queue(TRUE)
    /\ due' = FALSE
    /\ UNCHANGED <<up, memory, disk, last_flushed, lock, apply, marks, history, counts>>

\* The main loop has ended; the final flush.
FinalFlush ==
    /\ up = "stopping" /\ Queue(TRUE)
    /\ up' = "exiting"
    /\ UNCHANGED <<memory, disk, last_flushed, lock, apply, marks, due, history, counts>>

\* Mutant: with nothing to flush the checkpoint is left out.
Synced_IfChanged == IF \A u \in Users : last_flushed[u] = rows[u] THEN since ELSE {rows}

\* A checkpoint writes the log into the database file and waits for the disk.
Synced == {rows}

Checkpoint ==
    /\ job["flusher"].pc = "flushed" /\ job["flusher"].checkpoint
    /\ since' = Synced
    /\ promised' = [u \in Users |->
                      IF <<u, writer[u]>> \in job["flusher"].objs
                      THEN job["flusher"].marks[<<u, writer[u]>>] ELSE promised[u]]
    /\ job' = [job EXCEPT !["flusher"].pc = "done"]
    /\ UNCHANGED <<up, memory, rows, last_flushed, lock, apply, marks, due, writer, moved, counts>>

CheckpointFails ==
    /\ job["flusher"].pc = "flushed" /\ job["flusher"].checkpoint
    /\ job' = [job EXCEPT !["flusher"].pc = "failed"]
    /\ UNCHANGED <<up, memory, disk, last_flushed, lock, apply, marks, due, history, counts>>

Gone ==
    /\ up' = "off"
    /\ live' = {} /\ relays' = {}
    /\ last_flushed' = [u \in Users |-> Unknown] /\ lock' = "free"
    /\ apply' = NoApply /\ due' = FALSE
    /\ UNCHANGED <<bytes, newest, marks, promised, writer, moved>>

\* The flush is over; errors are logged.  After the final one the process exits.
Flushed ==
    /\ \/ job["flusher"].pc \in {"done", "failed"}
       \/ job["flusher"].pc = "flushed" /\ ~job["flusher"].checkpoint
    /\ \/ /\ up # "exiting" /\ job' = [job EXCEPT !["flusher"] = NoJob]
          /\ UNCHANGED <<up, memory, disk, last_flushed, lock, apply, marks, due, history, counts>>
       \/ /\ up = "exiting" /\ job' = [j \in Jobs |-> NoJob]
          /\ Gone /\ UNCHANGED <<disk, counts>>

-----------------------------------------------------------------------------
(***************************************************************************)
(* The main task.                                                          *)
(***************************************************************************)
Present == {User(o) : o \in live}

\* At the start, and when a config is applied.  Usage is loaded if a user is new.
Apply(next) ==
    /\ apply.pc = "idle" /\ up \in {"off", "on"} /\ applies < MaxApplies
    /\ up = "off" \/ next # Present
    /\ apply' = [NoApply EXCEPT !.pc = IF next \subseteq Present THEN "switch" ELSE "load",
                                !.next = next, !.saved = rows]
    /\ applies' = applies + 1
    /\ UNCHANGED <<up, memory, disk, last_flushed, lock, job, marks, due, history, hours, faults>>

Load ==
    /\ apply.pc = "load"
    /\ apply' = [apply EXCEPT !.pc = "switch", !.saved = rows]
    /\ UNCHANGED <<up, memory, disk, last_flushed, lock, job, marks, due, history, counts>>

\* A reload is rejected; at the start the process exits.
LoadFails ==
    /\ apply.pc = "load" /\ apply' = NoApply
    /\ UNCHANGED <<up, memory, disk, last_flushed, lock, job, marks, due, history, counts>>

\* New users are restored, the relays of removed ones told to stop.
Added == {<<u, newest[u] + 1>> : u \in apply.next \ Present}
Kept == {o \in live : User(o) \in apply.next}

\* Mutant: what is flushed is the users of the new config.
ToFlush_Kept == Kept

\* Who is flushed before the new set is published.
ToFlush == live \ Kept

Switch ==
    /\ apply.pc = "switch" /\ Added \subseteq Objects
    /\ bytes' = [o \in Objects |-> IF o \in Added THEN apply.saved[User(o)] ELSE bytes[o]]
    /\ marks' = [o \in Objects |-> IF o \in Added THEN 0 ELSE marks[o]]
    /\ newest' = [u \in Users |-> IF u \in apply.next \ Present THEN newest[u] + 1 ELSE newest[u]]
    /\ relays' = relays \cup Added
    /\ apply' = [apply EXCEPT !.pc = IF live \subseteq Kept THEN "publish" ELSE "flush",
                              !.gone = live \ Kept, !.floor = bytes]
    /\ job' = IF live \subseteq Kept THEN job
              ELSE [job EXCEPT !["main"] = [NoJob EXCEPT !.pc = "queued", !.objs = ToFlush]]
    /\ UNCHANGED <<up, live, disk, last_flushed, lock, due, history, counts>>

\* The usage of the removed users is written, or could not be: a warning.
GoneFlushed ==
    /\ apply.pc = "flush" /\ job["main"].pc \in {"flushed", "failed"}
    /\ apply' = [apply EXCEPT !.pc = "publish", !.ok = (job["main"].pc = "flushed")]
    /\ job' = [job EXCEPT !["main"] = NoJob]
    /\ UNCHANGED <<up, memory, disk, last_flushed, lock, marks, due, history, counts>>

Publish ==
    /\ apply.pc = "publish"
    /\ live' = {<<u, newest[u]>> : u \in apply.next}
    /\ up' = IF up = "off" THEN "on" ELSE up
    /\ apply' = NoApply
    /\ UNCHANGED <<bytes, newest, relays, disk, last_flushed, lock, job, marks, due, history, counts>>

\* SIGTERM or Ctrl-C, seen when the main loop is back in its select.
Stop ==
    /\ up = "on" /\ apply.pc = "idle" /\ faults < MaxFaults
    /\ up' = "stopping" /\ faults' = faults + 1
    /\ UNCHANGED <<memory, disk, last_flushed, lock, job, apply, marks, due, history, applies, hours>>

\* The process dies, with what the kernel has of the file or without.
Crash(table) ==
    /\ up # "off" /\ faults < MaxFaults
    /\ rows' = table /\ since' = IF table = rows THEN since ELSE {table}
    /\ job' = [j \in Jobs |-> NoJob]
    /\ Gone
    /\ faults' = faults + 1
    /\ UNCHANGED <<applies, hours>>

-----------------------------------------------------------------------------
Flush(j) == Snapshot(j) \/ Commit(j)

Flusher ==
    \/ Tick \/ HourDeadline \/ FinalFlush \/ Checkpoint \/ Flushed \/ Flush("flusher")

Main ==
    \/ Load \/ LoadFails \/ Switch \/ GoneFlushed \/ Publish \/ Flush("main")

Next ==
    \/ \E o \in Objects : Traffic(o) \/ RelayStops(o)
    \/ HourPasses
    \/ Flusher \/ CheckpointFails
    \/ Main \/ \E next \in SUBSET Users : Apply(next)
    \/ \E j \in Jobs : CommitFails(j)
    \/ Stop \/ Crash(rows) \/ \E table \in since : Crash(table)

Spec == Init /\ [][Next]_vars

\* Both tasks go on, the ticker ticks, and a database that can be written to
\* once and again is in the end.
LiveSpec ==
    /\ Spec
    /\ WF_vars(Flusher) /\ WF_vars(Main)
    /\ \A j \in Jobs : SF_vars(Commit(j))

-----------------------------------------------------------------------------
TypeOK ==
    /\ up \in {"off", "on", "stopping", "exiting"}
    /\ bytes \in [Objects -> 0..MaxBytes] /\ newest \in [Users -> 0..Gens]
    /\ live \subseteq Objects /\ relays \subseteq Objects
    /\ \A o, p \in live : User(o) = User(p) => o = p
    /\ rows \in [Users -> 0..MaxBytes] /\ rows \in since
    /\ last_flushed \in [Users -> 0..Unknown] /\ lock \in Jobs \cup {"free"}
    /\ \A j \in Jobs : lock = j <=> job[j].pc = "commit"

(***************************************************************************)
(* "Last persisted snapshot per user; lets `flush` skip untouched rows":   *)
(* the filter knows what is in the file, through failed commits and        *)
(* whichever of the two tasks flushed.  Otherwise usage would be skipped   *)
(* for ever.                                                               *)
(***************************************************************************)
FilterIsExact == TypeOK /\ \A u \in Users : last_flushed[u] \in {Unknown, rows[u]}

\* No byte is counted twice: no row, and no counter restored from one, says more
\* than was moved for the user, over all its quota objects.
NeverCountedTwice ==
    \A u \in Users : rows[u] <= moved[u] /\ \A g \in 1..Gens : bytes[<<u, g>>] <= moved[u]

(***************************************************************************)
(* "the hourly checkpoint makes settled hours durable even across power    *)
(* loss": once it is done, whatever a power loss leaves has all that a     *)
(* user had used at the hour boundary, until another quota object of the   *)
(* same user writes the row.  Nor does the way through the file and back   *)
(* count a byte twice.                                                     *)
(***************************************************************************)
PowerLossKeepsHours ==
    /\ \A u \in Users : \A table \in since : promised[u] <= table[u]
    /\ NeverCountedTwice

(***************************************************************************)
(* README: "removed users have their usage flushed to it first": when a    *)
(* set without a user is published, the row of the user has what it had    *)
(* used when its rules were removed, unless the write failed, or a flush   *)
(* of an older object of the same user came in between.                    *)
(***************************************************************************)
RemovedAreSaved ==
    apply.pc = "publish" /\ apply.ok =>
      \A o \in apply.gone : writer[User(o)] = Gen(o) => rows[User(o)] >= apply.floor[o]

(***************************************************************************)
(* Usage that has been counted gets to the file, as long as the user and   *)
(* the process stay, however often a commit fails.                         *)
(***************************************************************************)
CountedIsSaved ==
    \A o \in Objects :
      (up = "on" /\ o \in live /\ rows[User(o)] < bytes[o])
        ~> (rows[User(o)] >= bytes[o] \/ o \notin live \/ up # "on")

(***************************************************************************)
(* README: stopping "writes usage to `state.db` first, so no counters are  *)
(* lost": when the process exits after a final flush that worked, the file *)
(* has all that was counted.                                               *)
(***************************************************************************)
StopLosesNothing ==
    [][up = "exiting" /\ up' = "off" /\ job["flusher"].pc = "done" =>
         \A o \in live : rows[User(o)] = bytes[o]]_vars

(***************************************************************************)
(* README: "removed users have their usage flushed to it first": when a    *)
(* flush of the removed users that worked is over, the file has what they  *)
(* have used.                                                              *)
(***************************************************************************)
RemovedLoseNothing ==
    apply.pc = "publish" /\ apply.ok =>
      \A o \in apply.gone : rows[User(o)] >= bytes[o]
=============================================================================
